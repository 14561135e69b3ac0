----------------------------- MODULE Workspaces -----------------------------
(***************************************************************************)
(* The workspaces of one repository and the branch commands run in them:   *)
(* each workspace has its own HEAD, index and working tree, and all share  *)
(* the refs and the operation log.  A running command is its plan, the     *)
(* writes it still has to make; the commands of two workspaces interleave  *)
(* write by write when each is a process, and run one at a time when a     *)
(* daemon runs them.  A server may move branches and a process may die.    *)
(***************************************************************************)
EXTENDS WorkTree

CONSTANTS
    Workspaces,   \* the names workspaces may have
    Default,      \* the one that is always there
    Features,     \* feature/<name>: off develop and back into it
    Releases,     \* release/<name>: off develop, into main and develop
    Hotfixes,     \* hotfix/<name>: off main, into main and develop
    Plain,        \* branches outside the flow
    None,         \* no ref, no operation, no command
    Starts,       \* the commits and refs there are at first, whether a daemon
                  \* runs the commands, which kinds are run, and how many
    MaxCommits    \* bound on the commits ever made

Topics == Features \cup Releases \cup Hotfixes
Branches == {"main", "develop"} \cup Topics \cup Plain

(* Topic names carry the prefix of their kind, and none is main or develop. *)
ASSUME WorkspacesAssumption ==
    /\ Default \in Workspaces
    /\ MaxCommits \in Nat
    /\ Workspaces \cap Branches = {}
    /\ Topics \cap {"main", "develop"} = {}
    /\ Features \cap (Releases \cup Hotfixes) = {}
    /\ None \notin Branches \cup Workspaces \cup Nat

(* Each HEAD there is at first is on a branch with a commit, and no two are *)
(* on one.                                                                  *)
ASSUME StartsAssumption ==
    \A s \in Starts :
        /\ s.commits \in Seq([parents : Seq(Nat), tree : Trees])
        /\ \A c \in DOMAIN s.commits : ParentsOf(s.commits, c) \subseteq 1 .. c - 1
        /\ DOMAIN s.refs \subseteq Branches \cup Workspaces
        /\ \A b \in DOMAIN s.refs \cap Branches : s.refs[b] \in DOMAIN s.commits
        /\ \A w \in DOMAIN s.refs \cap Workspaces :
              /\ s.refs[w] \in DOMAIN s.refs \cap Branches
              /\ \A v \in DOMAIN s.refs \cap Workspaces : s.refs[v] = s.refs[w] => v = w
        /\ s.daemon \in BOOLEAN
        /\ s.commands \in Nat

VARIABLES
    commits,  \* the commits made, each [parents, tree]
    refs,     \* what each branch and each workspace's HEAD is at
    last,     \* the last operation of the log
    dirs,     \* the workspaces with a control directory and a marker
    index,    \* of each workspace
    work,     \* of each workspace
    plan,     \* what the command running in a workspace still has to do
    daemon,   \* whether commands run one at a time
    kinds,    \* the kinds of commands that are run
    left,     \* commands that may still be run
    base,     \* the commit each index was last made from
    excused,  \* workspaces that were disturbed from outside a command
    undone    \* what the repository was before the last undo

vars == <<commits, refs, last, dirs, index, work, plan, daemon, kinds, left, base, excused, undone>>
disk == <<commits, refs, last, dirs, index, work>>

(* A transaction is a function from what it changes. *)
Change(r, old, new) == [x \in {r} |-> [old |-> old, new |-> new]]
f ++ g == [x \in DOMAIN f \cup DOMAIN g |-> IF x \in DOMAIN f THEN f[x] ELSE g[x]]
NoChange == [x \in {} |-> None]
RefOp(changes) == [kind |-> "refs", changes |-> changes]
IndexOp(changes) == [kind |-> "index", changes |-> changes]
NoUndo == [by |-> None, times |-> 0]

Init ==
    \E s \in Starts :
        /\ commits = s.commits
        /\ refs = [r \in Branches \cup Workspaces |->
                      IF r \in DOMAIN s.refs THEN s.refs[r] ELSE None]
        /\ last = None
        /\ dirs = {w \in Workspaces : refs[w] # None}
        /\ base = [w \in Workspaces |-> IF w \in dirs THEN refs[refs[w]] ELSE None]
        /\ index = [w \in Workspaces |-> IF w \in dirs THEN TreeOf(commits, base[w])
                                         ELSE EmptyTree]
        /\ work = index
        /\ plan = [w \in Workspaces |-> <<>>]
        /\ daemon = s.daemon
        /\ kinds = s.kinds
        /\ left = s.commands
        /\ excused = {}
        /\ undone = NoUndo

-----------------------------------------------------------------------------
(* What a command reads. *)

(* A HEAD that is not set stands for main. *)
HeadBranch(w) == IF refs[w] = None THEN "main" ELSE refs[w]
Tip(w) == refs[HeadBranch(w)]
CommitTree(c) == IF c = None THEN EmptyTree ELSE TreeOf(commits, c)
HeadTree(w) == CommitTree(Tip(w))
Clean(w) == IsClean(HeadTree(w), index[w], work[w])

(* ensure_topic_branch_or_unborn. *)
Protected(w) ==
    /\ HeadBranch(w) \in {"main", "develop"}
    /\ refs["develop"] # None
    /\ Tip(w) # None

(* one_workspace_per_branch: the change moves a branch another workspace is *)
(* on, or checks out one that another is on, and that other stays there.    *)
StaysOn(h, changes) == ~(h \in DOMAIN changes /\ changes[h].new # refs[h])

\* Mutant: the rule looks at what is checked out, not at what is moved.
TakenChecked(own, changes) ==
    \E h \in Workspaces, v \in DOMAIN changes \cap Workspaces :
        /\ changes[v].new # None /\ h # v /\ refs[h] = changes[v].new
        /\ StaysOn(h, changes)

\* Mutant: the rule looks at what is moved, not at what is checked out.
TakenMoved(own, changes) ==
    \E h \in Workspaces \ {own} : refs[h] \in DOMAIN changes /\ StaysOn(h, changes)

Taken(own, changes) ==
    \E h \in Workspaces :
        /\ \/ h # own /\ refs[h] \in DOMAIN changes
           \/ \E v \in DOMAIN changes \cap Workspaces :
                 changes[v].new # None /\ h # v /\ refs[h] = changes[v].new
        /\ StaysOn(h, changes)

-----------------------------------------------------------------------------
(* The writes a command is made of. *)

(* commit_refs.  What is written if it is refused matters to a few.  made   *)
(* is the commit the index becomes the tree of, if any; checkout, whether   *)
(* the new HEAD is checked out afterwards.                                  *)
TxOf(changes, made, checkout, otherwise) ==
    <<[op |-> "tx", changes |-> changes, made |-> made, checkout |-> checkout,
       otherwise |-> otherwise]>>
Tx(changes) == TxOf(changes, None, FALSE, <<>>)

(* checkout writes the files, then the index. *)
Checkout(old, c) == <<[op |-> "files", old |-> old, of |-> c], [op |-> "index", of |-> c]>>
CheckoutFrom(w, c) == Checkout(PathsIn(Staged(index[w])), c)

Commands(w) == w \in dirs /\ plan[w] = <<>> /\ left > 0 /\
               (daemon => \A v \in Workspaces : plan[v] = <<>>)

(* A command that reads everything it needs and then only writes. *)
Run(w, cs, steps) ==
    /\ Commands(w)
    /\ left' = left - 1
    /\ Len(cs) <= MaxCommits
    /\ commits' = cs
    /\ plan' = [plan EXCEPT ![w] = steps]
    /\ undone' = NoUndo
    /\ UNCHANGED <<refs, last, dirs, index, work, daemon, kinds, base>>

BeginWith(w, cs, steps) == Run(w, cs, steps) /\ UNCHANGED excused
Begin(w, steps) == BeginWith(w, commits, steps)

-----------------------------------------------------------------------------
(* Staging and committing. *)

Edit(w, p, c) ==
    /\ Commands(w)
    /\ left' = left - 1
    /\ work[w][p] # c
    /\ work' = [work EXCEPT ![w][p] = c]
    /\ undone' = NoUndo
    /\ UNCHANGED <<commits, refs, last, dirs, index, plan, daemon, kinds, base, excused>>

(* `alt add .`: the index is saved before the operation is recorded. *)
Add(w) ==
    /\ index[w] # work[w]
    /\ Begin(w, <<[op |-> "stage", index |-> work[w]],
                  [op |-> "record",
                   changes |-> [p \in {q \in Paths : index[w][q] # work[w][q]} |->
                                  [old |-> index[w][p], new |-> work[w][p]]]]>>)

(* record_commit: the object first, then the branch. *)
Recorded(w, parents) ==
    LET c == Len(commits) + 1
    IN /\ ~Protected(w)
       /\ PathsIn(Staged(index[w])) # {}
       /\ BeginWith(w, Append(commits, [parents |-> parents, tree |-> Staged(index[w])]),
                    TxOf(Change(HeadBranch(w), Tip(w), c), c, FALSE, <<>>))

Commit(w) ==
    /\ Staged(index[w]) # HeadTree(w)
    /\ Recorded(w, IF Tip(w) = None THEN <<>> ELSE <<Tip(w)>>)

Amend(w) == Tip(w) # None /\ Recorded(w, commits[Tip(w)].parents)

-----------------------------------------------------------------------------
(* Branches. *)

CreateBranch(w, b) ==
    /\ refs[b] = None /\ Tip(w) # None
    /\ Begin(w, Tx(Change(b, None, Tip(w))))

DeleteBranch(w, b) ==
    /\ b # HeadBranch(w) /\ refs[b] # None
    /\ Begin(w, Tx(Change(b, refs[b], None)))

MoveHead(w, b) ==
    Tx(Change(w, IF refs[w] = None THEN HeadBranch(w) ELSE refs[w], b))

(* The new branch and the new HEAD are two transactions. *)
SwitchCreate(w, b) ==
    /\ refs[b] = None
    /\ Begin(w, (IF Tip(w) = None THEN <<>> ELSE Tx(Change(b, None, Tip(w))))
                \o MoveHead(w, b))

(* The checkout comes first. *)
Switch(w, b) ==
    /\ refs[b] # None /\ b # HeadBranch(w)
    /\ Clean(w)
    /\ Begin(w, CheckoutFrom(w, refs[b]) \o MoveHead(w, b))

-----------------------------------------------------------------------------
(* The flow commands. *)

FlowBase(topic) == IF topic \in Hotfixes THEN "main" ELSE "develop"
FlowTarget(topic) == IF topic \in Features THEN "develop" ELSE "main"

(* compute_merge: the commit that has both, made if need be; 0, a conflict. *)
Integrated(cs, ours, theirs) ==
    LET bases == MergeBases(cs, {ours}, {theirs})
        old == BaseTree(cs, bases)
    IN IF bases = {theirs} THEN [commits |-> cs, at |-> ours]
       ELSE IF bases = {ours} THEN [commits |-> cs, at |-> theirs]
       ELSE IF Diverged(old, TreeOf(cs, ours), TreeOf(cs, theirs)) # {}
       THEN [commits |-> cs, at |-> 0]
       ELSE [commits |-> Append(cs, [parents |-> <<ours, theirs>>,
                                     tree |-> MergedTree(old, TreeOf(cs, ours),
                                                         TreeOf(cs, theirs))]),
             at |-> Len(cs) + 1]

FlowInit(w) ==
    LET start == IF refs["main"] # None THEN refs["main"] ELSE Tip(w)
    IN /\ refs["develop"] = None /\ start # None
       /\ Run(w, commits, Tx(Change("develop", None, start) ++ Change(w, refs[w], "develop")))
       /\ excused' = excused \cup (IF start = Tip(w) THEN {} ELSE {w})

TopicStart(w, topic) ==
    LET at == refs[FlowBase(topic)]
    IN /\ refs[topic] = None /\ at # None
       /\ Clean(w)
       /\ Begin(w, CheckoutFrom(w, at)
                   \o Tx(Change(topic, None, at) ++ Change(w, refs[w], topic)))

FeatureStart(w, topic) == TopicStart(w, topic)

FeatureFinish(w, topic) ==
    LET dev == refs["develop"]
        merged == Integrated(commits, dev, refs[topic])
    IN /\ refs[topic] # None /\ dev # None
       /\ Clean(w)
       /\ merged.at # 0
       /\ BeginWith(w, merged.commits,
            Tx(Change("develop", dev, merged.at) ++ Change(topic, refs[topic], None)
               ++ Change(w, refs[w], "develop"))
            \o CheckoutFrom(w, merged.at))

\* Mutant: the topic is merged into its target alone.
FinishTarget(w, topic) ==
    LET merged == Integrated(commits, refs["main"], refs[topic])
    IN /\ refs[topic] # None /\ refs["develop"] # None /\ refs["main"] # None
       /\ Clean(w)
       /\ merged.at # 0
       /\ BeginWith(w, merged.commits,
            Tx(Change("main", refs["main"], merged.at) ++ Change(topic, refs[topic], None)
               ++ Change(w, refs[w], "develop"))
            \o CheckoutFrom(w, refs["develop"]))

(* flow_topic_finish_dual: into the target, and the target into develop.    *)
TopicFinish(w, topic) ==
    LET target == refs["main"]
        back == refs["develop"]
        merged == Integrated(commits, target, refs[topic])
        backed == IF merged.at = back THEN [commits |-> merged.commits, at |-> back]
                  ELSE Integrated(merged.commits, back, merged.at)
    IN /\ refs[topic] # None /\ target # None /\ back # None
       /\ Clean(w)
       /\ merged.at # 0 /\ backed.at # 0
       /\ BeginWith(w, backed.commits,
            Tx(Change("main", target, merged.at) ++ Change(topic, refs[topic], None)
               ++ Change(w, refs[w], "develop")
               ++ (IF backed.at = back THEN NoChange ELSE Change("develop", back, backed.at)))
            \o CheckoutFrom(w, backed.at))

-----------------------------------------------------------------------------
(* Undo. *)

\* Mutant: an undo that records what it undoes.
InvertedNot(changes) == changes

Inverted(changes) ==
    [r \in DOMAIN changes |-> [old |-> changes[r].new, new |-> changes[r].old]]

(* The index entries named by the operation go back, those of this          *)
(* workspace, whichever made it.                                            *)
Reverted(w, changes) ==
    [p \in Paths |-> IF p \in DOMAIN changes THEN changes[p].old
                     ELSE Staged(index[w])[p]]

UndoSteps(w) ==
    IF last.kind = "refs"
    THEN TxOf(Inverted(last.changes), None, TRUE, <<>>)
    ELSE <<[op |-> "stage", index |-> Reverted(w, last.changes)],
           [op |-> "record", changes |-> Inverted(last.changes)]>>

(* The index is as the last operation left it, if it was one on the index.  *)
Holds(w) == last.kind = "index" => \A p \in DOMAIN last.changes :
                                      index[w][p] = last.changes[p].new

(* undo dispatches on the kind of the last operation. *)
Undo(w) ==
    /\ Commands(w)
    /\ last # None
    /\ last.kind = "refs" => Clean(w)
    /\ left' = left - 1
    /\ plan' = [plan EXCEPT ![w] = UndoSteps(w)]
    /\ undone' = IF undone.by = w /\ undone.times = 1 THEN [undone EXCEPT !.times = 2]
                 ELSE IF ~Holds(w) THEN NoUndo
                 ELSE [by |-> w, times |-> 1, refs |-> refs, index |-> index, work |-> work]
    /\ UNCHANGED <<disk, daemon, kinds, base, excused>>

-----------------------------------------------------------------------------
(* `alt workspace`. *)

(* create_workspace_with: on branch b, or on a new one.  The rule is asked  *)
(* once before anything is written, and again by the transaction.           *)
AddChanges(w, v, b) ==
    Change(v, None, b) ++ (IF refs[b] = None THEN Change(b, None, Tip(w)) ELSE NoChange)

WorkspaceAdd(w, v, b) ==
    /\ refs[v] = None
    /\ refs[b] # None \/ (b \in Plain /\ Tip(w) # None)
    /\ ~Taken(w, AddChanges(w, v, b))
    /\ plan[v] = <<>>
    /\ Begin(w, <<[op |-> "mark", ws |-> v]>>
                \o TxOf(AddChanges(w, v, b), None, FALSE, <<[op |-> "unmark", ws |-> v]>>)
                \o <<[op |-> "populate", ws |-> v,
                      of |-> IF refs[b] = None THEN Tip(w) ELSE refs[b]]>>)

WorkspaceRemove(w, v) ==
    /\ v # Default /\ refs[v] # None
    /\ plan[v] = <<>>
    /\ Begin(w, Tx(Change(v, refs[v], None)) \o <<[op |-> "unmark", ws |-> v]>>)

-----------------------------------------------------------------------------
(* The steps of the running commands. *)

At(w, op) == plan[w] # <<>> /\ Head(plan[w]).op = op
Done(w) == plan' = [plan EXCEPT ![w] = Tail(@)]

Applied(changes) ==
    [r \in DOMAIN refs |-> IF r \in DOMAIN changes THEN changes[r].new ELSE refs[r]]

(* Workspaces whose HEAD is set elsewhere, or names another commit now, but *)
(* for the one at work.                                                     *)
Disturbed(w, new) ==
    {v \in Workspaces \ {w} :
        new[v] # refs[v] \/ (new[v] # None /\ new[new[v]] # refs[new[v]])}

StepTx(w) ==
    /\ At(w, "tx")
    /\ LET t == Head(plan[w])
           held == \A r \in DOMAIN t.changes : refs[r] = t.changes[r].old
       IN IF held /\ ~Taken(w, t.changes)
          THEN /\ refs' = Applied(t.changes)
               /\ last' = RefOp(t.changes)
               /\ plan' = [plan EXCEPT ![w] =
                              (IF t.checkout THEN CheckoutFrom(w, Tip(w)') ELSE <<>>) \o Tail(@)]
               /\ base' = [base EXCEPT ![w] = IF t.made = None THEN @ ELSE t.made]
               /\ excused' = excused \cup
                      IF t.checkout THEN Disturbed(w, refs') \cup {v \in {w} : refs'[v] = None}
                      ELSE {}
               /\ UNCHANGED undone
          ELSE /\ plan' = [plan EXCEPT ![w] = t.otherwise]
               /\ excused' = excused \cup {w}
               /\ undone' = NoUndo
               /\ UNCHANGED <<refs, last, base>>
    /\ UNCHANGED <<commits, dirs, index, work, daemon, kinds, left>>

StepFiles(w) ==
    /\ At(w, "files")
    /\ LET t == Head(plan[w])
           tree == CommitTree(t.of)
       IN IF InTheWay(t.old, tree, work[w])
          THEN /\ plan' = [plan EXCEPT ![w] = <<>>]
               /\ excused' = excused \cup {w}
               /\ undone' = NoUndo
               /\ UNCHANGED work
          ELSE /\ work' = [work EXCEPT ![w] = CheckedOut(t.old, tree, @)]
               /\ Done(w)
               /\ UNCHANGED <<excused, undone>>
    /\ UNCHANGED <<commits, refs, last, dirs, index, daemon, kinds, left, base>>

StepIndex(w) ==
    /\ At(w, "index")
    /\ index' = [index EXCEPT ![w] = CommitTree(Head(plan[w]).of)]
    /\ base' = [base EXCEPT ![w] = Head(plan[w]).of]
    /\ Done(w)
    /\ UNCHANGED <<commits, refs, last, dirs, work, daemon, kinds, left, excused, undone>>

StepStage(w) ==
    /\ At(w, "stage")
    /\ index' = [index EXCEPT ![w] = Head(plan[w]).index]
    /\ Done(w)
    /\ UNCHANGED <<commits, refs, last, dirs, work, daemon, kinds, left, base, excused, undone>>

StepRecord(w) ==
    /\ At(w, "record")
    /\ last' = IndexOp(Head(plan[w]).changes)
    /\ Done(w)
    /\ UNCHANGED <<commits, refs, dirs, index, work, daemon, kinds, left, base, excused, undone>>

StepMark(w) ==
    /\ At(w, "mark") \/ At(w, "unmark")
    /\ LET t == Head(plan[w])
       IN dirs' = IF t.op = "mark" THEN dirs \cup {t.ws} ELSE dirs \ {t.ws}
    /\ Done(w)
    /\ UNCHANGED <<commits, refs, last, index, work, daemon, kinds, left, base, excused, undone>>

(* The files and the index of a new workspace, from nothing. *)
StepPopulate(w) ==
    /\ At(w, "populate")
    /\ LET t == Head(plan[w])
       IN IF InTheWay({}, CommitTree(t.of), work[t.ws])
          THEN excused' = excused \cup {t.ws} /\ UNCHANGED <<index, work, base>>
          ELSE /\ work' = [work EXCEPT ![t.ws] = CheckedOut({}, CommitTree(t.of), @)]
               /\ index' = [index EXCEPT ![t.ws] = CommitTree(t.of)]
               /\ base' = [base EXCEPT ![t.ws] = t.of]
               /\ UNCHANGED excused
    /\ Done(w)
    /\ UNCHANGED <<commits, refs, last, dirs, daemon, kinds, left, undone>>

(* The process dies between two writes. *)
Crash(w) ==
    /\ plan[w] # <<>>
    /\ plan' = [plan EXCEPT ![w] = <<>>]
    /\ excused' = excused \cup {w} \cup
                  {t.ws : t \in {s \in ToSet(plan[w]) : s.op \in {"populate", "unmark"}}}
    /\ undone' = NoUndo
    /\ UNCHANGED <<disk, daemon, kinds, left, base>>

(* A push to the server moves a branch, whoever is on it, perhaps in the    *)
(* middle of a command.                                                     *)
Push(b, c) ==
    /\ left > 0
    /\ refs[b] # c
    /\ refs' = [refs EXCEPT ![b] = c]
    /\ last' = RefOp(Change(b, refs[b], c))
    /\ left' = left - 1
    /\ excused' = IF \A w \in Workspaces : plan[w] = <<>> THEN excused \cup Disturbed(None, refs')
                  ELSE Workspaces
    /\ undone' = NoUndo
    /\ UNCHANGED <<commits, dirs, index, work, plan, daemon, kinds, base>>

Command(w) ==
    \/ /\ "commit" \in kinds
       /\ \/ \E p \in Paths, c \in Contents : Edit(w, p, c)
          \/ Add(w) \/ Commit(w) \/ Amend(w)
    \/ /\ "branch" \in kinds
       /\ \/ \E b \in Plain : CreateBranch(w, b) \/ SwitchCreate(w, b)
          \/ \E b \in Branches : DeleteBranch(w, b)
    \/ \E b \in Branches : Switch(w, b)
    \/ /\ "flow" \in kinds
       /\ \/ FlowInit(w)
          \/ \E t \in Features : FeatureStart(w, t) \/ FeatureFinish(w, t)
          \/ \E t \in Releases \cup Hotfixes : TopicStart(w, t) \/ TopicFinish(w, t)
    \/ Undo(w)
    \/ /\ "workspace" \in kinds
       /\ \/ \E v \in Workspaces, b \in Branches : WorkspaceAdd(w, v, b)
          \/ \E v \in Workspaces : WorkspaceRemove(w, v)

Steps(w) == \/ StepTx(w) \/ StepFiles(w) \/ StepIndex(w) \/ StepStage(w) \/ StepRecord(w)
            \/ StepMark(w) \/ StepPopulate(w)

Next ==
    \/ \E w \in Workspaces : Command(w) \/ Steps(w) \/ Crash(w)
    \/ "push" \in kinds /\ \E b \in Branches, c \in DOMAIN commits : Push(b, c)

Spec == Init /\ [][Next]_vars

-----------------------------------------------------------------------------
(* Properties. *)

(* No branch is checked out in two workspaces, through every switch, flow   *)
(* command, workspace added or removed, and undo of these from anywhere.    *)
(* (one_workspace_per_branch, run under the lock of the ref store.)         *)
OneHolder ==
    \A v, w \in Workspaces : refs[v] # None /\ refs[v] = refs[w] => v = w

(* With commands one at a time, the index of a workspace at rest was made   *)
(* from the commit its HEAD names, so that a commit there undoes nothing,   *)
(* unless a command was refused or killed half way, an undo elsewhere or a  *)
(* push moved its HEAD, it began the flow away from main, or an undo took   *)
(* its HEAD away and it stands on main unseen.                              *)
(* (The purpose of one_workspace_per_branch.)                               *)
FilesDescribeHead ==
    daemon => \A w \in dirs \ excused :
                 (\A v \in Workspaces : plan[v] = <<>>) => base[w] = Tip(w)

(* A finished topic is in its target when its branch goes, and if nobody    *)
(* came in between, in develop as well.  (flow_feature_finish and           *)
(* flow_topic_finish_dual, whose transaction holds the target, and develop  *)
(* only if it moves.)                                                       *)
FinishKeepsTopic ==
    [][\A w \in Workspaces, t \in Topics :
          /\ At(w, "tx") /\ plan'[w] # plan[w]
          /\ {t, w} \subseteq DOMAIN Head(plan[w]).changes
          /\ ~Head(plan[w]).checkout
          /\ refs[t] # None /\ refs'[t] = None
          => \A b \in {FlowTarget(t)} \cup (IF daemon /\ w \notin excused THEN {"develop"} ELSE {}) :
                IsAncestor(commits, refs[t], refs'[b])]_vars

(* Two undos in a row, nothing in between, leave refs, index and files as   *)
(* they were, when what they undo is not the add of another workspace.      *)
(* (undo_ref_tx and undo_index_tx record the inverse as an operation.)      *)
UndoTwiceRestores ==
    daemon /\ undone.times = 2 /\ plan[undone.by] = <<>>
    => refs = undone.refs /\ index = undone.index /\ work = undone.work

(* The workspace that begins the flow has the files of develop.             *)
(* (flow_init moves HEAD to a branch at main and checks nothing out.)       *)
FlowInitSwitches ==
    [][\A w \in Workspaces :
          refs["develop"] = None /\ refs'["develop"] # None /\ refs'[w] = "develop"
          => base[w] = refs'["develop"]]_vars

(* A command that is refused leaves the index and the files alone.          *)
(* (commit_refs_with is asked after the checkout of switch and flow start.) *)
RefusalCostsNothing ==
    [][\A w \in Workspaces :
          At(w, "tx") /\ refs' = refs /\ plan' # plan /\ last' = last /\ Tip(w) # None
          => base[w] = Tip(w)]_vars
=============================================================================
