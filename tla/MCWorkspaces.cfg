SPECIFICATION Spec
CONSTANTS
    f = f
    Paths = {f}
    Contents = {"x", "y"}
    Absent = Absent
    Marked = Marked
    Unmerged = Unmerged
    None = None
    w1 = w1
    w2 = w2
    Workspaces = {w1, w2}
    Default = w1
    Features = {"feature"}
    Releases = {}
    Hotfixes = {"hotfix"}
    Plain = {"plain"}
    Starts <- AllStarts
    MaxCommits = 5
CHECK_DEADLOCK FALSE
INVARIANTS OneHolder FilesDescribeHead UndoTwiceRestores
PROPERTY FinishKeepsTopic
