----------------------------- MODULE Sequencer -----------------------------
(***************************************************************************)
(* The commands of one workspace that take several steps and may stop half *)
(* way: merge, cherry-pick, revert, rebase and bisect, with the commits,   *)
(* adds and edits a user makes in between.  A running command is its plan: *)
(* the writes it still has to make, in order, and at the end perhaps       *)
(* another round of its loop.  Each write is a step (a ref transaction,    *)
(* the files of a checkout, the index, a state file), and the process may  *)
(* die before any of them, leaving what it wrote so far.                   *)
(***************************************************************************)
EXTENDS WorkTree

CONSTANTS
    Histories,   \* the commits and branches there are at first, and the
                 \* commands used on them: see Init
    MaxCommits,  \* bound on the commits ever made
    Todos,       \* what an editor may make of a todo list: sequences of actions
    None,        \* no state file, no command
    BisectDies   \* whether the process may die between the two writes that
                 \* move a bisect to the commit to test

(* What BISECT_STATE holds. *)
BisectStates == [branch : {"topic", "main"}, bad : Nat, good : SUBSET Nat, skip : SUBSET Nat]

ASSUME SequencerAssumption == /\ MaxCommits \in Nat
                              /\ BisectDies \in BOOLEAN
                              /\ None \notin BisectStates

VARIABLES
    commits,  \* the commits made, each [parents, tree, carries]
    refs,     \* the branches and the two scratch refs: a commit, or 0
    head,     \* the ref HEAD points at
    index,    \* the index of this workspace
    work,     \* its working tree
    files,    \* MERGE_HEAD, REVERT_STATE, REBASE_STATE, BISECT_STATE
    plan,     \* what the running command still has to do
    ghost     \* what the properties need to know of the past

vars == <<commits, refs, head, index, work, files, plan, ghost>>

Refs == {"topic", "main", "scratch", "bisect"}
Branches == {"topic", "main"}
Melds == {"fixup", "squash"}

Init ==
    \E h \in Histories :
        /\ commits = h.commits
        /\ refs = [r \in Refs |-> IF r \in Branches THEN h[r] ELSE 0]
        /\ head = "topic"
        /\ index = TreeOf(h.commits, h.topic)
        /\ work = index
        /\ files = [merge |-> 0, revert |-> None, rebase |-> None, bisect |-> None]
        /\ plan = <<>>
        /\ ghost = [excused |-> {}, open |-> {}, ended |-> None, culprit |-> h.culprit,
                     commands |-> h.commands]

-----------------------------------------------------------------------------
(* What a command reads. *)

Tip == refs[head]
HeadTree == TreeOf(commits, Tip)
Clean == IsClean(HeadTree, index, work)
NothingInProgress == files = [merge |-> 0, revert |-> None, rebase |-> None, bisect |-> None]
OnBranch == head \in Branches

(* Every change a commit carries: its own and those melded into it. *)
Carries(c) == {c} \cup commits[c].carries

-----------------------------------------------------------------------------
(* The writes a command is made of. *)

Tx(moves, to) == <<[op |-> "tx", from |-> head, to |-> to, moves |-> moves]>>
Move(r, old, new) == [ref |-> r, old |-> old, new |-> new]
Checkout(old, tree) == <<[op |-> "files", old |-> old, tree |-> tree],
                         [op |-> "index", index |-> tree]>>
Conflict(base, ours, theirs) ==
    <<[op |-> "write", tree |-> WrittenConflict(base, ours, theirs, work)],
      [op |-> "index", index |-> MergedIndex(base, ours, theirs)]>>
Commit(r, parents, tree, carries) ==
    <<[op |-> "commit", ref |-> r, old |-> refs[r],
       new |-> [parents |-> parents, tree |-> tree, carries |-> carries]]>>
Save(file, to) == <<[op |-> "save", file |-> file, to |-> to]>>
Loop(rest) == <<[op |-> "loop", rest |-> rest]>>
End(how) == <<[op |-> "end", how |-> how]>>
Restored(branch, c, loose) == End([branch |-> branch, at |-> c, loose |-> loose])
NeverAdded == PathsIn(work) \ PathsIn(index)

-----------------------------------------------------------------------------
(* The commands. *)

Begin(name, steps) ==
    /\ plan = <<>>
    /\ name \in ghost.commands
    /\ plan' = steps
    /\ ghost' = [ghost EXCEPT !.ended = None]
    /\ UNCHANGED <<commits, refs, head, index, work, files>>

Room(n) == Len(commits) + n <= MaxCommits

Edit(p, c) ==
    /\ plan = <<>> /\ "edit" \in ghost.commands
    /\ p \in ghost.open
    /\ work' = [work EXCEPT ![p] = c]
    /\ ghost' = [ghost EXCEPT !.ended = None]
    /\ UNCHANGED <<commits, refs, head, index, files, plan>>

(* `alt add`: the new index is made of the stage-0 entries alone. *)
Add(ps) ==
    /\ \A p \in ps : work[p] # Absent \/ Staged(index)[p] # Absent
    /\ Begin("add", <<[op |-> "add", paths |-> ps,
                       index |-> [p \in Paths |-> IF p \in ps THEN work[p]
                                                  ELSE Staged(index)[p]]]>>)

(* `alt add .` *)
AddAll == Begin("add", <<[op |-> "add", paths |-> Paths, index |-> work]>>)

(* The change a resolving commit stands for, when a step waits for one. *)
Waiting(s) == IF s = None \/ s.current = 0 THEN {} ELSE {s.current}

CommitStaged ==
    /\ files.bisect = None
    /\ PathsIn(Staged(index)) # {}
    /\ files.merge # 0 \/ Staged(index) # HeadTree
    /\ Room(1)
    /\ Begin("commit",
         Commit(head, <<Tip>> \o (IF files.merge = 0 THEN <<>> ELSE <<files.merge>>),
                Staged(index), Waiting(files.rebase))
         \o (IF files.merge = 0 THEN <<>> ELSE Save("merge", 0))
         \o (IF files.revert = None THEN <<>>
             ELSE Save("revert", [files.revert EXCEPT !.current = 0]))
         \o (IF files.rebase = None THEN <<>>
             ELSE Save("rebase", [files.rebase EXCEPT !.current = 0])))

(* compute_merge and the application of its outcome. *)
Merge(branch) ==
    LET theirs == refs[branch]
        bases == MergeBases(commits, {Tip}, {theirs})
        base == BaseTree(commits, bases)
        tree == MergedTree(base, HeadTree, TreeOf(commits, theirs))
        old == PathsIn(Staged(index))
    IN /\ Clean
       /\ bases # {theirs}
       /\ Room(1)
       /\ Begin("merge",
            IF bases = {Tip}
            THEN Checkout(old, TreeOf(commits, theirs)) \o Tx({Move(head, Tip, theirs)}, head)
            ELSE IF Diverged(base, HeadTree, TreeOf(commits, theirs)) # {}
            THEN Conflict(base, HeadTree, TreeOf(commits, theirs)) \o Save("merge", theirs)
            ELSE Checkout(old, tree) \o Commit(head, <<Tip, theirs>>, tree, {}))

CherryPick(c) ==
    LET base == TreeOf(commits, commits[c].parents[1])
        theirs == TreeOf(commits, c)
        tree == MergedTree(base, HeadTree, theirs)
    IN /\ commits[c].parents # <<>>
       /\ Clean
       /\ Room(1)
       /\ IF Diverged(base, HeadTree, theirs) # {}
          THEN Begin("pick", Conflict(base, HeadTree, theirs))
          ELSE /\ tree # HeadTree
               /\ Begin("pick", Checkout(PathsIn(Staged(index)), tree)
                                \o Commit(head, <<Tip>>, tree, {}))

-----------------------------------------------------------------------------
(* Revert. *)

RevertState(current, todo, orig) == [current |-> current, todo |-> todo, orig |-> orig]

(* Without -m only commits with at most one parent can be reverted. *)
Revertible(c) == Len(commits[c].parents) <= 1

RevertedFrom(c) ==
    IF commits[c].parents = <<>> THEN EmptyTree ELSE TreeOf(commits, commits[c].parents[1])

RevertStart(todo) ==
    /\ NothingInProgress /\ Clean
    /\ Room(Len(todo))
    /\ Begin("revert", Loop(RevertState(0, todo, Tip)))

(* One round of run_reverts: a conflict saves what is left, a revert that   *)
(* changes nothing is an error, after its checkout.                         *)
RevertRound(s) ==
    LET c == Head(s.todo)
        tree == MergedTree(TreeOf(commits, c), HeadTree, RevertedFrom(c))
        rest == RevertState(0, Tail(s.todo), s.orig)
    IN IF s.todo = <<>> THEN Save("revert", None)
       ELSE IF ~Revertible(c) THEN <<>>
       ELSE IF Diverged(TreeOf(commits, c), HeadTree, RevertedFrom(c)) # {}
       THEN Conflict(TreeOf(commits, c), HeadTree, RevertedFrom(c))
            \o Save("revert", RevertState(c, Tail(s.todo), s.orig))
       ELSE Checkout(PathsIn(Staged(index)), tree)
            \o (IF tree = HeadTree THEN <<>>
                ELSE Commit(head, <<Tip>>, tree, {}) \o Loop(rest))

RevertContinue ==
    LET s == files.revert
    IN /\ s # None
       /\ Room(1 + Len(s.todo))
       /\ IF s.current = 0 THEN Begin("revert", Loop(s))
          ELSE /\ ~HasUnmerged(index)
               /\ PathsIn(Staged(index)) # {}
               /\ Staged(index) # HeadTree
               /\ Begin("revert", Commit(head, <<Tip>>, Staged(index), {}) \o Loop(s))

RevertAbort ==
    LET s == files.revert
    IN /\ s # None
       /\ Begin("revert",
            Checkout(Known(index), TreeOf(commits, s.orig))
            \o (IF Tip = s.orig THEN <<>> ELSE Tx({Move(head, Tip, s.orig)}, head))
            \o Save("revert", None) \o Restored(head, s.orig, NeverAdded))

-----------------------------------------------------------------------------
(* Rebase. *)

(* commits_to_replay: parents first; merges are left out. *)
ToReplay(orig, onto) ==
    SetToSortSeq({c \in Ancestry(commits, {orig}) \ Ancestry(commits, {onto}) :
                     Len(commits[c].parents) < 2}, <)

(* parse_todo: an empty list ends the command, and one that starts with a   *)
(* meld is refused.                                                         *)
TodoAccepted(actions) == actions # <<>> /\ actions[1] \notin Melds

EditedTodo(picks, actions) ==
    [i \in 1..Len(actions) |-> [action |-> actions[i], commit |-> picks[i]]]

RebaseStart(upstream, actions) ==
    LET orig == Tip
        onto == refs[upstream]
        picks == ToReplay(orig, onto)
        todo == EditedTodo(picks, actions)
    IN /\ plan = <<>> /\ "rebase" \in ghost.commands
       /\ NothingInProgress /\ Clean /\ OnBranch
       /\ Len(actions) = Len(picks) /\ TodoAccepted(actions)
       /\ Room(Len(todo))
       /\ MergeBases(commits, {orig}, {onto}) # {onto}
       /\ plan' = Tx({Move("scratch", 0, onto)}, "scratch")
                  \o Checkout(PathsIn(TreeOf(commits, orig)), TreeOf(commits, onto))
                  \o LET s == [branch |-> head, orig |-> orig, onto |-> onto,
                               current |-> 0, action |-> "pick", todo |-> todo]
                     IN Save("rebase", s) \o Loop(s)
       /\ ghost' = [ghost EXCEPT
                       !.excused = {picks[i] : i \in {j \in DOMAIN picks : actions[j] = "drop"}},
                       !.ended = None]
       /\ UNCHANGED <<commits, refs, head, index, work, files>>

\* Mutant: a pick that takes the place of the tip, as a meld does.
ApplyOnParents(action, c, tree) ==
    LET at == refs["scratch"]
    IN Commit("scratch", commits[at].parents, tree,
              IF action \in Melds THEN Carries(at) \cup Carries(c) ELSE Carries(c))

(* apply_step: a commit on the scratch ref, or a new version of its last.   *)
Apply(action, c, tree) ==
    LET at == refs["scratch"]
    IN IF action \in Melds
       THEN Commit("scratch", commits[at].parents, tree, Carries(at) \cup Carries(c))
       ELSE Commit("scratch", <<at>>, tree, Carries(c))

(* leave_scratch. *)
LeaveScratch(branch) ==
    <<[op |-> "tx", from |-> "scratch", to |-> branch,
       moves |-> {Move("scratch", refs["scratch"], 0)}]>>

(* One round of run_rebase. *)
RebaseRound(s) ==
    LET at == refs["scratch"]
        step == Head(s.todo)
        c == step.commit
        base == RevertedFrom(c)
        tree == MergedTree(base, TreeOf(commits, at), TreeOf(commits, c))
        rest == [s EXCEPT !.todo = Tail(s.todo)]
    IN IF s.todo # <<>> /\ step.action = "drop" THEN Save("rebase", rest) \o Loop(rest)
       ELSE IF at = 0 THEN <<>>
       ELSE IF s.todo = <<>>
       THEN LeaveScratch(s.branch)
            \o (IF at = s.orig THEN <<>>
                ELSE <<[op |-> "tx", from |-> s.branch, to |-> s.branch,
                        moves |-> {Move(s.branch, s.orig, at)}]>>)
            \o Save("rebase", None)
       ELSE IF Diverged(base, TreeOf(commits, at), TreeOf(commits, c)) # {}
       THEN Conflict(base, TreeOf(commits, at), TreeOf(commits, c))
            \o Save("rebase", [rest EXCEPT !.current = c, !.action = step.action])
       ELSE Checkout(PathsIn(Staged(index)), tree)
            \o (IF tree = TreeOf(commits, at) /\ step.action \notin Melds THEN <<>>
                ELSE Apply(step.action, c, tree))
            \o Save("rebase", rest) \o Loop(rest)

RebaseContinue ==
    LET s == files.rebase
        done == [s EXCEPT !.current = 0]
    IN /\ s # None
       /\ Room(1 + Len(s.todo))
       /\ refs["scratch"] # 0
       /\ IF s.current = 0 THEN Begin("rebase", Loop(s))
          ELSE /\ ~HasUnmerged(index)
               /\ PathsIn(Staged(index)) # {}
               /\ Staged(index) # TreeOf(commits, refs["scratch"]) \/ s.action \in Melds
               /\ Begin("rebase", Apply(s.action, s.current, Staged(index))
                                  \o Save("rebase", done) \o Loop(done))

RebaseSkip ==
    LET s == files.rebase
        done == [s EXCEPT !.current = 0]
    IN /\ plan = <<>> /\ "rebase" \in ghost.commands
       /\ s # None
       /\ Room(Len(s.todo))
       /\ refs["scratch"] # 0
       /\ plan' = Checkout(Known(index), TreeOf(commits, refs["scratch"]))
                  \o Save("rebase", done) \o Loop(done)
       /\ ghost' = [ghost EXCEPT !.excused = @ \cup ({s.current} \ {0}), !.ended = None]
       /\ UNCHANGED <<commits, refs, head, index, work, files>>

RebaseAbort ==
    LET s == files.rebase
    IN /\ s # None
       /\ Begin("rebase",
            Checkout(Known(index), TreeOf(commits, s.orig)) \o LeaveScratch(s.branch)
            \o Save("rebase", None) \o Restored(s.branch, s.orig, NeverAdded))

-----------------------------------------------------------------------------
(* Bisect. *)

(* bisect_next: the commits that may be the first bad one, and the one of   *)
(* them, never the bad one itself, that splits them best.                   *)
\* Mutant: skipped commits are no candidates.
CandidatesUnskipped(s) ==
    Ancestry(commits, {s.bad}) \ (Ancestry(commits, s.good) \cup s.skip)

Candidates(s) == Ancestry(commits, {s.bad}) \ Ancestry(commits, s.good)

Reach(cs, c) ==
    LET within[d \in cs] == {d} \cup UNION {within[p] : p \in ParentsOf(commits, d) \cap cs}
    IN Cardinality(within[c])

Score(cs, c) == LET r == Reach(cs, c)
                IN IF r <= Cardinality(cs) - r THEN r ELSE Cardinality(cs) - r

Better(cs, c, d) == \/ Score(cs, c) > Score(cs, d)
                    \/ Score(cs, c) = Score(cs, d) /\ Reach(cs, c) < Reach(cs, d)
                    \/ Score(cs, c) = Score(cs, d) /\ Reach(cs, c) = Reach(cs, d) /\ c > d

Testable(s) == Candidates(s) \ ({s.bad} \cup s.skip)

ToTest(s) == CHOOSE c \in Testable(s) :
                 \A d \in Testable(s) \ {c} : Better(Candidates(s), c, d)

(* bisect_step. *)
BisectRound(s) ==
    IF s.bad = 0 \/ s.good = {} THEN <<>>
    ELSE IF Cardinality(Candidates(s)) = 1 THEN End([found |-> s.bad])
    ELSE IF Testable(s) = {} THEN End([found |-> 0])
    ELSE IF ~Clean THEN <<>>
    ELSE Checkout(PathsIn(HeadTree), TreeOf(commits, ToTest(s)))
         \o Tx({Move("bisect", refs["bisect"], ToTest(s))}, head)

(* Whoever tests the working tree finds what the culprit made of it.        *)
IsBad(tree) == \E c \in DOMAIN commits : /\ TreeOf(commits, c) = tree
                                         /\ ghost.culprit \in Ancestry(commits, {c})

BisectStart(good) ==
    LET s == [branch |-> head, bad |-> Tip, good |-> {good}, skip |-> {}]
    IN /\ NothingInProgress /\ Clean /\ OnBranch
       /\ IsBad(HeadTree) /\ ~IsBad(TreeOf(commits, good))
       /\ Begin("bisect", Tx({Move("bisect", 0, Tip)}, "bisect")
                          \o Save("bisect", s) \o Loop(s))

BisectMark(verdict) ==
    LET at == refs["bisect"]
        s == [files.bisect EXCEPT
                 !.bad = IF verdict = "bad" THEN at ELSE @,
                 !.good = IF verdict = "good" THEN @ \cup {at} ELSE @,
                 !.skip = IF verdict = "skip" THEN @ \cup {at} ELSE @]
    IN /\ files.bisect # None
       /\ at # 0
       /\ verdict = "skip" \/ \E c \in DOMAIN commits : TreeOf(commits, c) = work
       /\ verdict # (IF IsBad(work) THEN "good" ELSE "bad")
       /\ Begin("bisect", Save("bisect", s) \o Loop(s))

BisectReset ==
    LET s == files.bisect
        at == refs["bisect"]
    IN /\ s # None
       /\ at # 0 /\ Clean
       /\ Begin("bisect",
            Checkout(PathsIn(TreeOf(commits, at)), TreeOf(commits, refs[s.branch]))
            \o <<[op |-> "tx", from |-> "bisect", to |-> s.branch,
                  moves |-> {Move("bisect", at, 0)}]>>
            \o Save("bisect", None) \o Restored(s.branch, refs[s.branch], Untracked(index, work)))

-----------------------------------------------------------------------------
(* The steps of the running command. *)

Step(op) == plan # <<>> /\ Head(plan).op = op
Done == plan' = Tail(plan)
Fails == plan' = <<>>

(* A ref transaction holds what it read against the refs, or fails whole.   *)
StepTx ==
    /\ Step("tx")
    /\ LET t == Head(plan)
       IN IF head = t.from /\ \A m \in t.moves : refs[m.ref] = m.old
          THEN /\ refs' = [r \in Refs |-> IF \E m \in t.moves : m.ref = r
                                          THEN (CHOOSE m \in t.moves : m.ref = r).new
                                          ELSE refs[r]]
               /\ head' = t.to
               /\ Done
          ELSE Fails /\ UNCHANGED <<refs, head>>
    /\ UNCHANGED <<commits, index, work, files, ghost>>

StepCommit ==
    /\ Step("commit")
    /\ LET t == Head(plan)
       IN /\ refs[t.ref] = t.old
          /\ commits' = Append(commits, t.new)
          /\ refs' = [refs EXCEPT ![t.ref] = Len(commits')]
    /\ Done
    /\ UNCHANGED <<head, index, work, files, ghost>>

StepFiles ==
    /\ Step("files")
    /\ LET t == Head(plan)
       IN IF InTheWay(t.old, t.tree, work)
          THEN Fails /\ UNCHANGED work
          ELSE Done /\ work' = CheckedOut(t.old, t.tree, work)
    /\ UNCHANGED <<commits, refs, head, index, files, ghost>>

StepWrite ==
    /\ Step("write")
    /\ work' = Head(plan).tree
    /\ Done
    /\ UNCHANGED <<commits, refs, head, index, files, ghost>>

StepIndex ==
    /\ Step("index")
    /\ index' = Head(plan).index
    /\ ghost' = [ghost EXCEPT !.open = {p \in Paths : index'[p] = Unmerged}]
    /\ Done
    /\ UNCHANGED <<commits, refs, head, work, files>>

StepAdd ==
    /\ Step("add")
    /\ index' = Head(plan).index
    /\ ghost' = [ghost EXCEPT !.open = @ \ Head(plan).paths]
    /\ Done
    /\ UNCHANGED <<commits, refs, head, work, files>>

StepSave ==
    /\ Step("save")
    /\ files' = [files EXCEPT ![Head(plan).file] = Head(plan).to]
    /\ Done
    /\ UNCHANGED <<commits, refs, head, index, work, ghost>>

(* A step whose changes the new base already has leaves no commit. *)
AlreadyIn(s) ==
    IF "onto" \notin DOMAIN s \/ s.todo = <<>> \/ refs["scratch"] = 0 THEN {}
    ELSE LET c == Head(s.todo).commit
             at == TreeOf(commits, refs["scratch"])
         IN IF MergedTree(RevertedFrom(c), at, TreeOf(commits, c)) = at THEN {c} ELSE {}

StepLoop ==
    /\ Step("loop")
    /\ LET s == Head(plan).rest
       IN /\ plan' = IF "onto" \in DOMAIN s THEN RebaseRound(s)
                     ELSE IF "bad" \in DOMAIN s THEN BisectRound(s) ELSE RevertRound(s)
          /\ ghost' = [ghost EXCEPT !.excused = @ \cup AlreadyIn(s)]
    /\ UNCHANGED <<commits, refs, head, index, work, files>>

StepEnd ==
    /\ Step("end")
    /\ ghost' = [ghost EXCEPT !.ended = Head(plan).how]
    /\ Done
    /\ UNCHANGED <<commits, refs, head, index, work, files>>

BeingWritten ==
    LET t == Head(plan)
    IN IF t.op = "files" /\ ~InTheWay(t.old, t.tree, work) THEN CheckedOut(t.old, t.tree, work)
       ELSE IF t.op = "write" THEN t.tree ELSE work

(* The process dies; it may have written some files of a checkout.          *)
Crash ==
    /\ plan # <<>>
    /\ BisectDies \/ files.bisect = None \/ Head(plan).op \in {"save", "loop", "end"}
    /\ Fails
    /\ \E ps \in SUBSET Paths :
          work' = [p \in Paths |-> IF p \in ps THEN BeingWritten[p] ELSE work[p]]
    /\ UNCHANGED <<commits, refs, head, index, files, ghost>>

Next ==
    \/ \E p \in Paths, c \in Contents \cup {Absent} : Edit(p, c)
    \/ \E p \in Paths : Add({p})
    \/ AddAll
    \/ CommitStaged
    \/ \E b \in Branches \ {head} : Merge(b)
    \/ \E c \in DOMAIN commits : CherryPick(c)
    \/ \E c, d \in DOMAIN commits : RevertStart(<<c>>) \/ RevertStart(<<c, d>>)
    \/ RevertContinue \/ RevertAbort
    \/ \E b \in Branches \ {head}, t \in Todos : RebaseStart(b, t)
    \/ RebaseContinue \/ RebaseSkip \/ RebaseAbort
    \/ \E c \in DOMAIN commits : BisectStart(c)
    \/ \E v \in {"good", "bad", "skip"} : BisectMark(v)
    \/ BisectReset
    \/ StepTx \/ StepCommit \/ StepFiles \/ StepWrite \/ StepIndex \/ StepAdd \/ StepSave
    \/ StepLoop \/ StepEnd
    \/ Crash

Spec == Init /\ [][Next]_vars

-----------------------------------------------------------------------------
(* Where a bisect can be trusted: whether a commit has the culprit shows in *)
(* its files, commits are numbered after their parents, as they are made,   *)
(* and nothing but bisect moves the working tree.                           *)
Numbered(cs) ==
    /\ Len(cs) \in Nat /\ DOMAIN cs = 1..Len(cs)
    /\ \A c \in DOMAIN cs : ParentsOf(cs, c) \subseteq 1..(c - 1)
Tells(cs, culprit) ==
    \A c, d \in DOMAIN cs :
        TreeOf(cs, c) = TreeOf(cs, d)
        => (IsAncestor(cs, culprit, c) <=> IsAncestor(cs, culprit, d))
Bisectable(cs, culprit) ==
    /\ Numbered(cs) /\ Tells(cs, culprit)
    /\ \A c \in DOMAIN cs : TreeOf(cs, c) \in Trees

BisectCommands == {"bisect", "edit", "add", "commit"}

BisectsAlone ==
    \A h \in Histories :
        "bisect" \in h.commands
        => /\ h.commands \subseteq BisectCommands
           /\ Bisectable(h.commits, h.culprit)
           /\ {h.topic, h.main} \subseteq DOMAIN h.commits

-----------------------------------------------------------------------------
(* Properties. *)

(* While REBASE_STATE exists the branch only moves to a history that has    *)
(* every change the branch had on top of the new base: replayed, melded     *)
(* into another, found to be in the base already, dropped in the todo list  *)
(* or skipped.  (rebase.rs, run_rebase and apply_step, through conflicts,   *)
(* commits in between, crashes and repeated --continue.)                    *)
RebaseKeepsChanges ==
    [][LET s == files.rebase
       IN s # None /\ refs'[s.branch] # refs[s.branch]
          => \A c \in Ancestry(commits, {s.orig}) \ Ancestry(commits, {s.onto}) :
                \/ Len(commits[c].parents) > 1
                \/ c \in ghost.excused
                \/ \E d \in Ancestry(commits', {refs'[s.branch]}) :
                      c \in {d} \cup commits'[d].carries]_vars

(* --abort and `bisect reset` end where the command began, in HEAD, branch, *)
(* index and files, but for files that were never added, and no scratch ref *)
(* is left but one HEAD was at already.  (rebase_abort, revert_abort,       *)
(* bisect_reset.)                                                           *)
AbortRestores ==
    LET e == ghost.ended
    IN e # None /\ "at" \in DOMAIN e
       => /\ head = e.branch /\ refs[e.branch] = e.at
          /\ index = TreeOf(commits, e.at)
          /\ \A p \in Paths \ e.loose : work[p] = TreeOf(commits, e.at)[p]
          /\ \A r \in Refs \ Branches : refs[r] = 0 \/ r = e.branch

(* A bisect that names a commit names the culprit, when every verdict is    *)
(* what the files of the working tree say.  (bisect_next and bisect_step.)  *)
BisectFindsCulprit ==
    LET e == ghost.ended
    IN e # None /\ "found" \in DOMAIN e => e.found \in {0, ghost.culprit}

(* No commit is made of an index that forgot a conflict nobody resolved.    *)
(* (rebase_continue, revert_continue and commit, over the index `alt add`   *)
(* writes.)                                                                 *)
ConflictsAreResolved == [][commits' # commits => ghost.open = {}]_vars

(* A rebased branch stands on the base it was rebased onto.  (apply_step.)  *)
RebaseLandsOnBase ==
    [][LET s == files.rebase
       IN s # None /\ head = s.branch /\ refs[s.branch] = s.orig /\ commits' = commits
          /\ refs'[s.branch] # s.orig
          => IsAncestor(commits, s.onto, refs'[s.branch])]_vars

(* A rebase or bisect that has its state file can be ended: its scratch ref *)
(* is there for --continue, --abort or `bisect reset` to leave.             *)
StateHasScratch ==
    plan = <<>> => /\ files.rebase # None => refs["scratch"] # 0
                   /\ files.bisect # None => refs["bisect"] # 0
=============================================================================
