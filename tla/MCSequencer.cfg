SPECIFICATION Spec
CONSTANTS
    a = a
    b = b
    Paths = {a, b}
    Contents = {"x", "y", "z"}
    Absent = Absent
    Marked = Marked
    Unmerged = Unmerged
    None = None
    Histories <- AllHistories
    MaxCommits = 6
    Todos <- AllTodos
    BisectDies = FALSE
INVARIANTS AbortRestores BisectFindsCulprit
PROPERTY RebaseKeepsChanges
