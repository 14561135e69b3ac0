------------------------------ MODULE WorkTree ------------------------------
(***************************************************************************)
(* Trees, the index, the working tree and the commit graph, as the         *)
(* commands of alt-cli/src/native see them: what a command computes before *)
(* it writes anything.  A file's content is one line, so that two          *)
(* different changes to it always conflict.  The commits are a sequence,   *)
(* parents before children; the number of a commit is its identity.        *)
(***************************************************************************)
EXTENDS Integers, Sequences, FiniteSets, SequencesExt

CONSTANTS
    Paths,     \* the paths of the repository
    Contents,  \* what a file may hold
    Absent,    \* no file at a path
    Marked,    \* a file with conflict markers in it
    Unmerged   \* an index entry in stages 1 to 3

Blobs == Contents \cup {Marked}

(* An entry in conflict is none of the others. *)
ASSUME WorkTreeAssumption == Unmerged \notin Blobs \cup {Absent}

Trees == [Paths -> Blobs \cup {Absent}]
Indexes == [Paths -> Blobs \cup {Absent, Unmerged}]
EmptyTree == [p \in Paths |-> Absent]

PathsIn(tree) == {p \in Paths : tree[p] # Absent}

-----------------------------------------------------------------------------
(* The index and the status. *)

(* The stage-0 entries, which is all a commit is made of. *)
Staged(index) == [p \in Paths |-> IF index[p] = Unmerged THEN Absent ELSE index[p]]

HasUnmerged(index) == \E p \in Paths : index[p] = Unmerged

\* Mutant: a checkout that only knows the stage-0 entries.
KnownMerged(index) == PathsIn(Staged(index))

(* Every path the index knows, conflicted ones included. *)
Known(index) == PathsIn(index)

StagedChanges(head, index) == {p \in Paths : head[p] # Staged(index)[p]}
UnstagedChanges(index, work) ==
    {p \in PathsIn(Staged(index)) : work[p] # index[p]}
Untracked(index, work) == PathsIn(work) \ PathsIn(Staged(index))

(* ensure_clean: untracked files are no obstacle. *)
IsClean(head, index, work) ==
    StagedChanges(head, index) = {} /\ UnstagedChanges(index, work) = {}

(* checkout refuses when a file it knows nothing of is where one must go ... *)
InTheWay(old, tree, work) == (PathsIn(tree) \ old) \cap PathsIn(work) # {}

(* ... and otherwise writes the tree, removing what only the old one had. *)
CheckedOut(old, tree, work) ==
    [p \in Paths |-> IF tree[p] # Absent THEN tree[p]
                     ELSE IF p \in old THEN Absent ELSE work[p]]

-----------------------------------------------------------------------------
(* The commit graph. *)

ParentsOf(commits, c) == ToSet(commits[c].parents)

Ancestry(commits, starts) ==
    LET reach[c \in DOMAIN commits] ==
            {c} \cup UNION {reach[p] : p \in ParentsOf(commits, c)}
    IN UNION {reach[c] : c \in starts}

IsAncestor(commits, a, c) == a \in Ancestry(commits, {c})

MergeBases(commits, as, bs) ==
    LET common == Ancestry(commits, as) \cap Ancestry(commits, bs)
        below == UNION {ParentsOf(commits, c) : c \in common}
    IN common \ Ancestry(commits, below)

TreeOf(commits, c) == commits[c].tree

-----------------------------------------------------------------------------
(* The three-way merge, path by path. *)

Diverged(base, ours, theirs) ==
    {p \in Paths : ours[p] # theirs[p] /\ ours[p] # base[p] /\ theirs[p] # base[p]}

(* What is written for a conflict: markers, or the side that has the file. *)
Left(ours, theirs) ==
    IF ours = Absent THEN theirs ELSE IF theirs = Absent THEN ours ELSE Marked

MergedTree(base, ours, theirs) ==
    [p \in Paths |-> IF p \in Diverged(base, ours, theirs) THEN Left(ours[p], theirs[p])
                     ELSE IF ours[p] = base[p] THEN theirs[p] ELSE ours[p]]

MergedIndex(base, ours, theirs) ==
    [p \in Paths |-> IF p \in Diverged(base, ours, theirs) THEN Unmerged
                     ELSE MergedTree(base, ours, theirs)[p]]

(* write_conflicted touches every path one of the three trees has. *)
WrittenConflict(base, ours, theirs, work) ==
    [p \in Paths |-> IF p \in PathsIn(base) \cup PathsIn(ours) \cup PathsIn(theirs)
                     THEN MergedTree(base, ours, theirs)[p] ELSE work[p]]

(* base_entries: the tree several merge bases are merged into, each against *)
(* the bases of what is merged so far; conflicts stay in it as content.     *)
BaseTree(commits, bases) ==
    LET virtual[bs \in SUBSET DOMAIN commits] ==
            IF bs = {} THEN EmptyTree
            ELSE LET order == SetToSortSeq(bs, <)
                     Join(acc, next) ==
                         [merged |-> acc.merged \cup {next},
                          tree |-> MergedTree(virtual[MergeBases(commits, acc.merged, {next})],
                                              acc.tree, TreeOf(commits, next))]
                 IN FoldLeft(Join, [merged |-> {order[1]}, tree |-> TreeOf(commits, order[1])],
                             Tail(order)).tree
    IN virtual[bases]
=============================================================================
