-------------------------- MODULE WorkspacesProofs --------------------------
(***************************************************************************)
(* Proofs about Workspaces, for any workspaces, branches and histories.    *)
(***************************************************************************)
EXTENDS Workspaces, FiniteSetTheorems, SequenceTheorems, WellFoundedInduction, TLAPS

-----------------------------------------------------------------------------
(* The commit graph.                                                       *)

\* Commits come after their parents.
Graph(cs) ==
    /\ \E n \in Nat : DOMAIN cs = 1 .. n
    /\ \A c \in DOMAIN cs : ParentsOf(cs, c) \subseteq 1 .. c - 1

\* What the function in Ancestry is.
IsReach(cs, f) == f = [c \in DOMAIN cs |-> {c} \cup UNION {f[p] : p \in ParentsOf(cs, c)}]
Reach(cs) == CHOOSE f : IsReach(cs, f)

\* The commits that are in every set with c and with the parents of its members.
Closed(cs) == {s \in SUBSET DOMAIN cs : \A c \in s : ParentsOf(cs, c) \subseteq s}
Above(cs, c) == {a \in DOMAIN cs : \A s \in Closed(cs) : c \in s => a \in s}

\* More commits were made.
Grown(cs, ds) == DOMAIN cs \subseteq DOMAIN ds /\ \A c \in DOMAIN cs : ds[c] = cs[c]

\* Induction over commit numbers, of a set of them.
LEMMA EveryNumber ==
    ASSUME NEW S \in SUBSET Nat, \A n \in Nat : (\A m \in Nat : m < n => m \in S) => n \in S
    PROVE  S = Nat
<1>1. SUFFICES ASSUME Nat \ S # {} PROVE FALSE
  OBVIOUS
<1> DEFINE R == OpToRel(<, Nat)
<1>2. \A x, y \in Nat : <<x, y>> \in R <=> x < y
  BY DEF OpToRel
<1>3. IsWellFoundedOn(R, Nat)
  BY NatLessThanWellFounded DEF OpToRel
<1> HIDE DEF R
<1>4. PICK x \in Nat \ S : \A y \in Nat \ S : ~(<<y, x>> \in R)
  BY <1>1, <1>3, WFMin
<1> QED
  BY <1>2, <1>4

\* A commit is in its own ancestry, and with a commit all above its parents is.
LEMMA AboveIs ==
    ASSUME NEW cs, Graph(cs), NEW c \in DOMAIN cs
    PROVE  /\ Above(cs, c) = {c} \cup UNION {Above(cs, p) : p \in ParentsOf(cs, c)}
           /\ Above(cs, c) \in Closed(cs)
<1>1. \A d \in DOMAIN cs : ParentsOf(cs, d) \subseteq DOMAIN cs
  BY DEF Graph
<1>2. \A d \in DOMAIN cs : Above(cs, d) \in Closed(cs) /\ d \in Above(cs, d)
  <2>1. TAKE d \in DOMAIN cs
  <2>2. ASSUME NEW a \in Above(cs, d), NEW p \in ParentsOf(cs, a) PROVE p \in Above(cs, d)
    BY <1>1 DEF Above, Closed
  <2> QED
    BY <2>2 DEF Above, Closed
<1> DEFINE U == {c} \cup UNION {Above(cs, p) : p \in ParentsOf(cs, c)}
<1>3. U \in Closed(cs)
  <2>1. U \subseteq DOMAIN cs
    BY <1>1 DEF Above
  <2>2. ASSUME NEW a \in U PROVE ParentsOf(cs, a) \subseteq U
    <3>1. CASE a = c
      BY <1>1, <1>2, <3>1
    <3>2. CASE a # c
      <4>1. PICK p \in ParentsOf(cs, c) : a \in Above(cs, p)
        BY <3>2
      <4>2. ParentsOf(cs, a) \subseteq Above(cs, p)
        BY <1>1, <1>2, <4>1 DEF Closed
      <4> QED
        BY <4>2
    <3> QED
      BY <3>1, <3>2
  <2> QED
    BY <2>1, <2>2 DEF Closed
<1>4. Above(cs, c) \subseteq U
  BY <1>3 DEF Above
<1>5. U \subseteq Above(cs, c)
  <2>1. ASSUME NEW p \in ParentsOf(cs, c), NEW a \in Above(cs, p) PROVE a \in Above(cs, c)
    <3>1. ASSUME NEW s \in Closed(cs), c \in s PROVE a \in s
      BY <1>1, <2>1, <3>1 DEF Above, Closed
    <3> QED
      BY <2>1, <3>1 DEF Above
  <2> QED
    BY <1>2, <2>1
<1> QED
  BY <1>2, <1>4, <1>5

\* The function in Ancestry exists, and is no other: of the least commit where two
\* such functions differ they agree on all parents.
LEMMA ReachIsAbove ==
    ASSUME NEW cs, Graph(cs)
    PROVE  \A c \in DOMAIN cs : Reach(cs)[c] = Above(cs, c)
<1> DEFINE g == [c \in DOMAIN cs |-> Above(cs, c)]
           f == Reach(cs)
<1>1. \A c \in DOMAIN cs : ParentsOf(cs, c) \subseteq DOMAIN cs
  BY DEF Graph
<1>2. IsReach(cs, g)
  <2>1. \A c \in DOMAIN cs : g[c] = {c} \cup UNION {g[p] : p \in ParentsOf(cs, c)}
    <3>1. TAKE c \in DOMAIN cs
    <3>2. \A p \in ParentsOf(cs, c) : g[p] = Above(cs, p)
      BY <1>1
    <3>3. UNION {g[p] : p \in ParentsOf(cs, c)} = UNION {Above(cs, p) : p \in ParentsOf(cs, c)}
      BY <3>2
    <3> QED
      BY <3>3, AboveIs
  <2> QED
    BY <2>1 DEF IsReach
<1>3. IsReach(cs, f)
  BY <1>2 DEF Reach
<1> HIDE DEF f, g
<1> DEFINE S == {n \in Nat : n \in DOMAIN cs => f[n] = g[n]}
<1>4. ASSUME NEW n \in Nat, \A m \in Nat : m < n => m \in S PROVE n \in S
  <2>1. SUFFICES ASSUME n \in DOMAIN cs PROVE f[n] = g[n]
    OBVIOUS
  <2>2. \A p \in ParentsOf(cs, n) : p \in Nat /\ p < n /\ p \in DOMAIN cs
    BY <2>1 DEF Graph
  <2>3. \A p \in ParentsOf(cs, n) : f[p] = g[p]
    BY <1>4, <2>2
  <2>4. UNION {f[p] : p \in ParentsOf(cs, n)} = UNION {g[p] : p \in ParentsOf(cs, n)}
    BY <2>3
  <2>5. f[n] = {n} \cup UNION {f[p] : p \in ParentsOf(cs, n)}
    BY <1>3, <2>1 DEF IsReach
  <2>6. g[n] = {n} \cup UNION {g[p] : p \in ParentsOf(cs, n)}
    BY <1>2, <2>1 DEF IsReach
  <2> QED
    BY <2>4, <2>5, <2>6
<1>5. S = Nat
  <2> HIDE DEF S
  <2>1. S \in SUBSET Nat
    BY DEF S
  <2> QED
    BY <1>4, <2>1, EveryNumber
<1>6. \A c \in DOMAIN cs : c \in Nat
  BY DEF Graph
<1> QED
  BY <1>5, <1>6 DEF f, g

\* The ancestry of a commit (merge_bases and is_ancestor in native.rs walk it).
LEMMA AncestryIs ==
    ASSUME NEW cs, Graph(cs), NEW c \in DOMAIN cs
    PROVE  Ancestry(cs, {c}) = Above(cs, c)
<1>1. Ancestry(cs, {c}) = UNION {Reach(cs)[d] : d \in {c}}
  BY DEF Ancestry, Reach, IsReach
<1> QED
  BY <1>1, ReachIsAbove

\* A commit, its parents, and what is above what is above it.
LEMMA AncestorsAre ==
    ASSUME NEW cs, Graph(cs), NEW c \in DOMAIN cs
    PROVE  /\ IsAncestor(cs, c, c)
           /\ \A p \in ParentsOf(cs, c) : IsAncestor(cs, p, c)
           /\ \A b \in DOMAIN cs : \A a : IsAncestor(cs, a, b) /\ IsAncestor(cs, b, c) => IsAncestor(cs, a, c)
<1>1. \A b \in DOMAIN cs : \A a : IsAncestor(cs, a, b) <=> a \in Above(cs, b)
  BY AncestryIs DEF IsAncestor
<1>2. Above(cs, c) \in Closed(cs) /\ c \in Above(cs, c)
  BY AboveIs
<1>3. ParentsOf(cs, c) \subseteq Above(cs, c)
  BY <1>2 DEF Closed
<1>4. \A b \in Above(cs, c) : Above(cs, b) \subseteq Above(cs, c)
  BY <1>2 DEF Above
<1> QED
  BY <1>1, <1>2, <1>3, <1>4

\* Commits made later change nothing of what is above one.
LEMMA AncestryGrows ==
    ASSUME NEW cs, NEW ds, Graph(cs), Graph(ds), Grown(cs, ds),
           NEW c \in DOMAIN cs, NEW a, IsAncestor(cs, a, c)
    PROVE  IsAncestor(ds, a, c)
<1>1. a \in Above(cs, c)
  BY AncestryIs DEF IsAncestor
<1>2. c \in DOMAIN ds
  BY DEF Grown
<1>3. ASSUME NEW s \in Closed(ds), c \in s PROVE a \in s
  <2>1. s \cap DOMAIN cs \in Closed(cs)
    <3>1. \A d \in DOMAIN cs : ParentsOf(cs, d) \subseteq DOMAIN cs /\ ParentsOf(ds, d) = ParentsOf(cs, d)
      BY SMTT(30) DEF Graph, Grown, ParentsOf
    <3> QED
      BY <3>1 DEF Closed
  <2> QED
    BY <1>1, <1>3, <2>1 DEF Above
<1>4. a \in DOMAIN ds
  BY <1>1 DEF Above, Grown
<1>5. a \in Above(ds, c)
  BY <1>3, <1>4 DEF Above
<1> QED
  BY <1>2, <1>5, AncestryIs DEF IsAncestor

-----------------------------------------------------------------------------
(* Types.  D is the set of the commits there are.                          *)

Entry == Blobs \cup {Absent}
Name == Branches \cup Workspaces
Commits(D) == D \cup {None}
Side(D, r) == {None} \cup IF r \in Workspaces THEN Branches ELSE D
Sides(D) == {None} \cup Branches \cup D

\* A transaction moves the HEAD of one workspace at most.
OneHead(changes) == \A v, w \in DOMAIN changes \cap Workspaces : v = w

Node == [parents : Seq(Nat), tree : Trees]
Transactions(D) == UNION {[d -> [old : Sides(D), new : Sides(D)]] : d \in SUBSET Name}
RefChanges(D) ==
    {changes \in Transactions(D) :
        /\ \A r \in DOMAIN changes : changes[r].old \in Side(D, r) /\ changes[r].new \in Side(D, r)
        /\ OneHead(changes)}
IndexChanges == UNION {[d -> [old : Entry, new : Entry]] : d \in SUBSET Paths}
Operation(D) == [kind : {"refs"}, changes : RefChanges(D)]
                \cup [kind : {"index"}, changes : IndexChanges]

Unmarks == Seq([op : {"unmark"}, ws : Workspaces])
TxStep(D) == [op : {"tx"}, changes : RefChanges(D), made : Commits(D), checkout : BOOLEAN,
              otherwise : Unmarks]
FilesStep(D) == [op : {"files"}, old : SUBSET Paths, of : Commits(D)]
IndexStep(D) == [op : {"index"}, of : Commits(D)]
StageStep == [op : {"stage"}, index : Trees]
RecordStep == [op : {"record"}, changes : IndexChanges]
MarkStep == [op : {"mark", "unmark"}, ws : Workspaces]
PopulateStep(D) == [op : {"populate"}, ws : Workspaces, of : Commits(D)]
Write(D) == TxStep(D) \cup FilesStep(D) \cup IndexStep(D) \cup StageStep \cup RecordStep
            \cup MarkStep \cup PopulateStep(D)

Refs(D) == {r \in [Name -> Sides(D)] : \A x \in Name : r[x] \in Side(D, x)}

TypeInv ==
    /\ commits \in Seq(Node) /\ Graph(commits)
    /\ refs \in Refs(DOMAIN commits)
    /\ last \in {None} \cup Operation(DOMAIN commits)
    /\ dirs \subseteq Workspaces
    /\ index \in [Workspaces -> Trees]
    /\ work \in [Workspaces -> Trees]
    /\ plan \in [Workspaces -> Seq(Write(DOMAIN commits))]
    /\ daemon \in BOOLEAN
    /\ left \in Nat
    /\ base \in [Workspaces -> Commits(DOMAIN commits)]
    /\ excused \subseteq Workspaces

-----------------------------------------------------------------------------
(* The inductive invariant.                                                *)

\* Commands run one at a time when a daemon runs them.
AloneInv == daemon => \A v, w \in Workspaces : v # w => plan[v] = <<>> \/ plan[w] = <<>>

\* A step of w that takes the branch of a topic away and moves the HEAD of w: the
\* transaction of a finish.
Finishing(w, s) ==
    /\ s.op = "tx" /\ ~s.checkout
    /\ w \in DOMAIN s.changes
    /\ \E t \in Topics \cap DOMAIN s.changes : s.changes[t].new = None

\* The target is moved to a commit that has the topic.
Lands(cs, changes, t) ==
    /\ FlowTarget(t) \in DOMAIN changes
    /\ changes[FlowTarget(t)].new \in DOMAIN cs
    /\ IsAncestor(cs, changes[t].old, changes[FlowTarget(t)].new)

\* And develop, if it is as it was when the plan was made.
LandsBack(cs, develop, changes, t) ==
    LET after == IF "develop" \in DOMAIN changes THEN changes["develop"].new ELSE develop
    IN after \in DOMAIN cs /\ IsAncestor(cs, changes[t].old, after)

Finishes(cs, develop, calm, changes) ==
    \A t \in Topics \cap DOMAIN changes :
        changes[t].new = None
        => Lands(cs, changes, t) /\ (calm => LandsBack(cs, develop, changes, t))

\* A plan of w: a finish comes first in it.  calm: nobody came in between.
Sound(w, cs, develop, calm, steps) ==
    /\ \A i \in 2 .. Len(steps) : ~Finishing(w, steps[i])
    /\ steps # <<>> /\ Finishing(w, steps[1])
       => Finishes(cs, develop, calm, steps[1].changes)

Calm(d, x, w) == d /\ w \notin x
FinishInv ==
    \A w \in Workspaces :
        Sound(w, commits, refs["develop"], Calm(daemon, excused, w), plan[w])

WorkspacesInv == TypeInv /\ OneHolder /\ AloneInv /\ FinishInv

-----------------------------------------------------------------------------
(* Transactions and plans.                                                 *)

\* What a transaction is made of (commit_refs in native.rs takes a list of changes).
LEMMA ChangesAre ==
    ASSUME NEW D, NEW changes
    PROVE  changes \in RefChanges(D)
           <=> /\ changes = [r \in DOMAIN changes |-> changes[r]] /\ DOMAIN changes \subseteq Name
               /\ \A r \in DOMAIN changes :
                     \E o, w \in Side(D, r) : changes[r] = [old |-> o, new |-> w]
               /\ OneHead(changes)
<1>1. \A r : Side(D, r) \subseteq Sides(D)
  BY DEF Side, Sides
<1>2. ASSUME changes \in RefChanges(D)
      PROVE  /\ changes = [r \in DOMAIN changes |-> changes[r]] /\ DOMAIN changes \subseteq Name
             /\ \A r \in DOMAIN changes :
                   \E o, w \in Side(D, r) : changes[r] = [old |-> o, new |-> w]
             /\ OneHead(changes)
  <2>1. PICK d \in SUBSET Name : changes \in [d -> [old : Sides(D), new : Sides(D)]]
    BY <1>2 DEF RefChanges, Transactions
  <2>2. \A r \in DOMAIN changes : /\ changes[r] = [old |-> changes[r].old, new |-> changes[r].new]
                                  /\ changes[r].old \in Side(D, r) /\ changes[r].new \in Side(D, r)
    BY <1>2, <2>1 DEF RefChanges
  <2> QED
    BY <1>2, <2>1, <2>2 DEF RefChanges
<1>3. ASSUME changes = [r \in DOMAIN changes |-> changes[r]], DOMAIN changes \subseteq Name,
             \A r \in DOMAIN changes :
                \E o, w \in Side(D, r) : changes[r] = [old |-> o, new |-> w],
             OneHead(changes)
      PROVE  changes \in RefChanges(D)
  <2>1. \A r \in DOMAIN changes : changes[r] \in [old : Sides(D), new : Sides(D)]
    BY <1>1, <1>3
  <2>2. changes \in [DOMAIN changes -> [old : Sides(D), new : Sides(D)]]
    BY <1>3, <2>1
  <2>3. changes \in Transactions(D)
    BY <1>3, <2>2 DEF Transactions
  <2>4. \A r \in DOMAIN changes : changes[r].old \in Side(D, r) /\ changes[r].new \in Side(D, r)
    BY <1>3
  <2> QED
    BY <1>3, <2>3, <2>4 DEF RefChanges
<1> QED
  BY <1>2, <1>3

\* The transaction of one change, and of two transactions.
OneRef(D, f, r, o, w) == f \in RefChanges(D) /\ DOMAIN f = {r} /\ f[r].old = o /\ f[r].new = w
BothOf(D, h, f, g) ==
    /\ h \in RefChanges(D)
    /\ DOMAIN h = DOMAIN f \cup DOMAIN g
    /\ \A r \in DOMAIN f : h[r] = f[r]
    /\ \A r \in DOMAIN g \ DOMAIN f : h[r] = g[r]
Apart(f, g) == \A v \in DOMAIN f \cap Workspaces, w \in DOMAIN g \cap Workspaces : v = w

\* The change of one ref is a transaction.
LEMMA OneChange ==
    ASSUME NEW D, NEW r \in Name, NEW o \in Side(D, r), NEW w \in Side(D, r)
    PROVE  OneRef(D, Change(r, o, w), r, o, w)
<1> DEFINE f == Change(r, o, w)
<1>1. /\ DOMAIN f = {r} /\ f[r] = [old |-> o, new |-> w]
      /\ f = [x \in DOMAIN f |-> f[x]]
  BY DEF Change
<1> HIDE DEF f, Name
<1>2. OneHead(f)
  BY <1>1 DEF OneHead
<1>3. OneRef(D, f, r, o, w)
  BY <1>1, <1>2, ChangesAre DEF OneRef
<1> QED
  BY <1>3 DEF f

\* Two transactions are one if they do not move the HEADs of two workspaces.
LEMMA Joined ==
    ASSUME NEW D, NEW f \in RefChanges(D), NEW g \in RefChanges(D),
           Apart(f, g)
    PROVE  BothOf(D, f ++ g, f, g)
<1> DEFINE h == f ++ g
<1>1. /\ DOMAIN h = DOMAIN f \cup DOMAIN g
      /\ \A r \in DOMAIN f : h[r] = f[r]
      /\ \A r \in DOMAIN g \ DOMAIN f : h[r] = g[r]
      /\ h = [r \in DOMAIN h |-> h[r]]
  BY DEF ++
<1> HIDE DEF h
<1>2. /\ OneHead(f) /\ OneHead(g)
      /\ DOMAIN f \subseteq Name /\ DOMAIN g \subseteq Name
      /\ \A r \in DOMAIN f : \E o, w \in Side(D, r) : f[r] = [old |-> o, new |-> w]
      /\ \A r \in DOMAIN g : \E o, w \in Side(D, r) : g[r] = [old |-> o, new |-> w]
  BY ChangesAre
<1>3. OneHead(h)
  BY <1>1, <1>2 DEF OneHead, Apart
<1>4. \A r \in DOMAIN h : \E o, w \in Side(D, r) : h[r] = [old |-> o, new |-> w]
  BY <1>1, <1>2
<1>5. h \in RefChanges(D)
  BY <1>1, <1>2, <1>3, <1>4, ChangesAre
<1> QED
  BY <1>1, <1>5 DEF h, BothOf

\* No change is a transaction, and adds nothing to one.
LEMMA NothingChanged ==
    ASSUME NEW D
    PROVE  NoChange \in RefChanges(D) /\ DOMAIN NoChange = {}
<1>1. DOMAIN NoChange = {} /\ NoChange = [r \in DOMAIN NoChange |-> NoChange[r]]
  BY DEF NoChange
<1>2. OneHead(NoChange)
  BY <1>1 DEF OneHead
<1> QED
  BY <1>1, <1>2, ChangesAre

\* With more commits there are more transactions, writes and plans.
LEMMA TypesGrow ==
    ASSUME NEW D, NEW E, D \subseteq E
    PROVE  /\ Commits(D) \subseteq Commits(E)
           /\ \A r : Side(D, r) \subseteq Side(E, r)
           /\ RefChanges(D) \subseteq RefChanges(E)
           /\ Operation(D) \subseteq Operation(E)
           /\ Seq(Write(D)) \subseteq Seq(Write(E))
           /\ Refs(D) \subseteq Refs(E)
<1>1. /\ Commits(D) \subseteq Commits(E)
      /\ \A r : Side(D, r) \subseteq Side(E, r)
  BY DEF Commits, Side
<1>10. Sides(D) \subseteq Sides(E)
  BY DEF Sides
<1>2. RefChanges(D) \subseteq RefChanges(E)
  <2>1. Transactions(D) \subseteq Transactions(E)
    BY <1>10 DEF Transactions
  <2> QED
    BY <1>1, <2>1 DEF RefChanges
<1>3. Operation(D) \subseteq Operation(E)
  BY <1>2 DEF Operation
<1>4. TxStep(D) \subseteq TxStep(E)
  BY <1>1, <1>2 DEF TxStep
<1>5. FilesStep(D) \subseteq FilesStep(E)
  BY <1>1 DEF FilesStep
<1>6. IndexStep(D) \subseteq IndexStep(E) /\ PopulateStep(D) \subseteq PopulateStep(E)
  BY <1>1 DEF IndexStep, PopulateStep
<1>7. Write(D) \subseteq Write(E)
  BY <1>4, <1>5, <1>6 DEF Write
<1>8. Seq(Write(D)) \subseteq Seq(Write(E))
  BY <1>7
<1>9. Refs(D) \subseteq Refs(E)
  BY <1>1, <1>10 DEF Refs
<1> QED
  BY <1>1, <1>2, <1>3, <1>8, <1>9

\* A write is of the kind its name says.
LEMMA KindOfWrite ==
    ASSUME NEW D, NEW s \in Write(D)
    PROVE  /\ s.op = "tx" => s \in TxStep(D)
           /\ s.op = "files" => s \in FilesStep(D)
           /\ s.op = "index" => s \in IndexStep(D)
           /\ s.op = "stage" => s \in StageStep
           /\ s.op = "record" => s \in RecordStep
           /\ s.op \in {"mark", "unmark"} => s \in MarkStep
           /\ s.op = "populate" => s \in PopulateStep(D)
BY DEF Write, TxStep, FilesStep, IndexStep, StageStep, RecordStep, MarkStep, PopulateStep

-----------------------------------------------------------------------------
(* Trees and merges.                                                       *)

\* What is made of trees is a tree, and what a commit holds is one.
LEMMA TreesAre ==
    /\ EmptyTree \in Trees
    /\ \A i \in Trees : Staged(i) \in Trees
    /\ \A b, o, t : o \in Trees /\ t \in Trees => MergedTree(b, o, t) \in Trees
    /\ \A o, t, w : t \in Trees /\ w \in Trees => CheckedOut(o, t, w) \in Trees
    /\ \A t \in Trees : PathsIn(t) \subseteq Paths
<1>1. EmptyTree \in Trees
  BY DEF EmptyTree, Trees
<1>2. \A i \in Trees : Staged(i) \in Trees
  BY DEF Staged, Trees
<1>3. ASSUME NEW b, NEW o \in Trees, NEW t \in Trees PROVE MergedTree(b, o, t) \in Trees
  <2>1. \A p \in Paths : Left(o[p], t[p]) \in Blobs \cup {Absent}
    BY DEF Left, Trees, Blobs
  <2> QED
    BY <2>1 DEF MergedTree, Trees
<1>4. \A o, t, w : t \in Trees /\ w \in Trees => CheckedOut(o, t, w) \in Trees
  BY DEF CheckedOut, Trees
<1> QED
  BY <1>1, <1>2, <1>3, <1>4 DEF PathsIn

\* In these commands nothing is left in conflict: what is staged is all of the index.
LEMMA AllStaged == \A t \in Trees : Staged(t) = t
BY WorkTreeAssumption DEF Staged, Trees

\* The tree of a commit, or none.
LEMMA CommitTrees ==
    ASSUME NEW cs \in Seq(Node), NEW c \in Commits(DOMAIN cs), None \notin Nat
    PROVE  (IF c = None THEN EmptyTree ELSE TreeOf(cs, c)) \in Trees
<1>1. c # None => cs[c] \in Node
  BY DEF Commits
<1> QED
  BY <1>1, TreesAre DEF TreeOf, Node

\* A commit made now comes after its parents.
LEMMA OneMore ==
    ASSUME NEW cs \in Seq(Node), Graph(cs),
           NEW new \in Node, ToSet(new.parents) \subseteq DOMAIN cs,
           NEW ds, ds = Append(cs, new)
    PROVE  /\ ds \in Seq(Node) /\ Graph(ds) /\ Grown(cs, ds)
           /\ Len(ds) = Len(cs) + 1 /\ Len(ds) \in DOMAIN ds
           /\ ParentsOf(ds, Len(ds)) = ToSet(new.parents)
<1>2. /\ ds \in Seq(Node) /\ Len(ds) = Len(cs) + 1 /\ DOMAIN ds = 1 .. Len(cs) + 1
      /\ \A c \in 1 .. Len(cs) : ds[c] = cs[c]
      /\ ds[Len(cs) + 1] = new
      /\ DOMAIN cs = 1 .. Len(cs) /\ Len(cs) \in Nat
  OBVIOUS
<1>3. Grown(cs, ds)
  BY <1>2 DEF Grown
<1>4. ParentsOf(ds, Len(ds)) = ToSet(new.parents)
  BY <1>2 DEF ParentsOf
<1>5. \A c \in DOMAIN ds : ParentsOf(ds, c) \subseteq 1 .. c - 1
  <2>1. TAKE c \in DOMAIN ds
  <2>2. CASE c \in DOMAIN cs
    BY <1>3, <2>2 DEF Grown, Graph, ParentsOf
  <2>3. CASE c \notin DOMAIN cs
    <3>1. c = Len(ds) /\ Len(ds) - 1 = Len(cs)
      BY <1>2, <2>3
    <3> QED
      BY <1>2, <1>4, <3>1
  <2> QED
    BY <2>2, <2>3
<1>6. Graph(ds)
  BY <1>2, <1>5 DEF Graph
<1> QED
  BY <1>2, <1>3, <1>4, <1>6

\* The commit compute_merge answers has both sides.
LEMMA IntegratedHasBoth ==
    ASSUME NEW cs \in Seq(Node), Graph(cs), NEW ours \in DOMAIN cs, NEW theirs \in DOMAIN cs,
           NEW m, m = Integrated(cs, ours, theirs), m.at # 0
    PROVE  /\ m.commits \in Seq(Node) /\ Graph(m.commits) /\ Grown(cs, m.commits)
           /\ m.at \in DOMAIN m.commits
           /\ IsAncestor(m.commits, ours, m.at) /\ IsAncestor(m.commits, theirs, m.at)
<1> DEFINE bases == MergeBases(cs, {ours}, {theirs})
           tree == MergedTree(BaseTree(cs, bases), TreeOf(cs, ours), TreeOf(cs, theirs))
           ds == Append(cs, [parents |-> <<ours, theirs>>, tree |-> tree])
<1>1. \A c \in bases : IsAncestor(cs, c, ours) /\ IsAncestor(cs, c, theirs)
  BY DEF MergeBases, IsAncestor
<1>2. IsAncestor(cs, ours, ours) /\ IsAncestor(cs, theirs, theirs) /\ Grown(cs, cs)
  BY AncestorsAre DEF Grown
<1>3. \/ bases = {theirs} /\ m = [commits |-> cs, at |-> ours]
      \/ bases = {ours} /\ m = [commits |-> cs, at |-> theirs]
      \/ m = [commits |-> ds, at |-> Len(cs) + 1]
  BY DEF Integrated
<1>4. TreeOf(cs, ours) \in Trees /\ TreeOf(cs, theirs) \in Trees
  <2>1. \A c \in DOMAIN cs : cs[c] \in Node
    OBVIOUS
  <2> QED
    BY <2>1 DEF TreeOf, Node
<1>5. tree \in Trees
  BY <1>4, TreesAre
<1> HIDE DEF bases, tree
<1>6. CASE m = [commits |-> ds, at |-> Len(cs) + 1]
  <2>1. /\ <<ours, theirs>> \in Seq(Nat) /\ ToSet(<<ours, theirs>>) = {ours, theirs}
    <3>1. ours \in Nat /\ theirs \in Nat
      BY DEF Graph
    <3> QED
      BY <3>1 DEF ToSet
  <2>2. /\ ds \in Seq(Node) /\ Graph(ds) /\ Grown(cs, ds)
        /\ Len(ds) = Len(cs) + 1 /\ Len(ds) \in DOMAIN ds
        /\ ParentsOf(ds, Len(ds)) = {ours, theirs}
    <3> DEFINE new == [parents |-> <<ours, theirs>>, tree |-> tree]
    <3>1. /\ new \in Node /\ ToSet(new.parents) = {ours, theirs}
          /\ ToSet(new.parents) \subseteq DOMAIN cs
          /\ ds = Append(cs, new)
      BY <1>5, <2>1 DEF Node
    <3> HIDE DEF ds, new
    <3> QED
      BY <3>1, OneMore
  <2> HIDE DEF ds
  <2>3. IsAncestor(ds, ours, Len(ds)) /\ IsAncestor(ds, theirs, Len(ds))
    BY <2>2, AncestorsAre
  <2> QED
    BY <1>6, <2>2, <2>3
<1> QED
  BY <1>1, <1>2, <1>3, <1>6

-----------------------------------------------------------------------------
(* Plans stay sound.                                                       *)

\* No step of a plan is a finish.
Quiet(w, steps) == \A i \in 1 .. Len(steps) : ~Finishing(w, steps[i])

\* A plan without a finish in it is sound whatever happens.
LEMMA NoFinishIsSound ==
    ASSUME NEW w, NEW D, NEW steps \in Seq(Write(D)),
           Quiet(w, steps), NEW cs, NEW develop, NEW calm
    PROVE  Sound(w, cs, develop, calm, steps)
BY DEF Sound, Quiet

\* A sound plan stays one as commits are made, while develop stays or somebody came
\* in between.
LEMMA SoundStays ==
    ASSUME NEW w, NEW cs, NEW ds, Graph(cs), Graph(ds), Grown(cs, ds),
           NEW d, NEW e, NEW calm, NEW calmer, NEW steps,
           Sound(w, cs, d, calm, steps), calmer => calm /\ e = d
    PROVE  Sound(w, ds, e, calmer, steps)
<1>1. SUFFICES ASSUME steps # <<>>, Finishing(w, steps[1])
               PROVE  Finishes(ds, e, calmer, steps[1].changes)
  BY DEF Sound
<1> DEFINE changes == steps[1].changes
<1>2. Finishes(cs, d, calm, changes)
  BY <1>1 DEF Sound
<1> HIDE DEF changes
<1>3. SUFFICES ASSUME NEW t \in Topics \cap DOMAIN changes, changes[t].new = None
               PROVE  Lands(ds, changes, t) /\ (calmer => LandsBack(ds, e, changes, t))
  BY DEF Finishes, changes
<1>4. Lands(cs, changes, t) /\ (calm => LandsBack(cs, d, changes, t))
  BY <1>2, <1>3 DEF Finishes
<1>5. Lands(ds, changes, t)
  BY <1>4, AncestryGrows DEF Lands, Grown
<1>6. ASSUME calmer PROVE LandsBack(ds, e, changes, t)
  <2>1. LandsBack(cs, e, changes, t)
    BY <1>4, <1>6
  <2> QED
    BY <2>1, AncestryGrows DEF LandsBack, Grown
<1> QED
  BY <1>5, <1>6

\* What is left of a sound plan has no finish in it.
LEMMA TailIsSound ==
    ASSUME NEW w, NEW D, NEW steps \in Seq(Write(D)), steps # <<>>,
           NEW cs, NEW develop, NEW calm, Sound(w, cs, develop, calm, steps)
    PROVE  /\ Tail(steps) \in Seq(Write(D))
           /\ Quiet(w, Tail(steps))
<1>1. /\ Tail(steps) \in Seq(Write(D)) /\ Len(Tail(steps)) = Len(steps) - 1
      /\ \A i \in 1 .. Len(Tail(steps)) : Tail(steps)[i] = steps[i + 1] /\ i + 1 \in 2 .. Len(steps)
  OBVIOUS
<1> QED
  BY <1>1 DEF Sound, Quiet

\* Two plans in a row.
LEMMA OneAfterTheOther ==
    ASSUME NEW w, NEW D, NEW s \in Seq(Write(D)), NEW t \in Seq(Write(D)), Quiet(w, t)
    PROVE  /\ s \o t \in Seq(Write(D))
           /\ Quiet(w, s) => Quiet(w, s \o t)
           /\ \A cs, develop, calm : s # <<>> /\ Sound(w, cs, develop, calm, s)
                                     => Sound(w, cs, develop, calm, s \o t)
<1>1. /\ s \o t \in Seq(Write(D)) /\ Len(s \o t) = Len(s) + Len(t)
      /\ \A i \in 1 .. Len(s) + Len(t) :
            (s \o t)[i] = IF i <= Len(s) THEN s[i] ELSE t[i - Len(s)]
  BY ConcatProperties
<1> DEFINE u == s \o t
<1>2. \A i \in 1 .. Len(u) : \/ i \in 1 .. Len(s) /\ u[i] = s[i]
                             \/ i - Len(s) \in 1 .. Len(t) /\ u[i] = t[i - Len(s)]
  BY <1>1
<1>3. s # <<>> => 1 \in 1 .. Len(s) /\ u[1] = s[1]
  BY <1>1
<1> HIDE DEF u
<1>4. \A i \in 1 .. Len(u) : (i \in 1 .. Len(s) /\ u[i] = s[i]) \/ ~Finishing(w, u[i])
  BY <1>2 DEF Quiet
<1>5. Quiet(w, s) => Quiet(w, u)
  BY <1>4 DEF Quiet
<1>6. ASSUME NEW cs, NEW develop, NEW calm, s # <<>>, Sound(w, cs, develop, calm, s)
      PROVE  Sound(w, cs, develop, calm, u)
  <2>1. \A i \in 2 .. Len(u) : ~Finishing(w, u[i])
    BY <1>1, <1>4, <1>6 DEF Sound, u
  <2> QED
    BY <1>3, <1>6, <2>1 DEF Sound
<1> QED
  BY <1>1, <1>5, <1>6 DEF u

\* What a checkout writes (checkout_tree in native.rs) is no finish.
LEMMA CheckoutIs ==
    ASSUME NEW D, NEW old \in SUBSET Paths, NEW c \in Commits(D), NEW w
    PROVE  Checkout(old, c) \in Seq(Write(D)) /\ Quiet(w, Checkout(old, c))
<1> DEFINE files == [op |-> "files", old |-> old, of |-> c]
           stat == [op |-> "index", of |-> c]
<1>1. files \in Write(D) /\ stat \in Write(D)
  BY DEF Write, FilesStep, IndexStep
<1>2. ~Finishing(w, files) /\ ~Finishing(w, stat)
  BY DEF Finishing
<1>3. Checkout(old, c) = <<files, stat>>
  BY DEF Checkout
<1> HIDE DEF files, stat
<1> QED
  BY <1>1, <1>2, <1>3 DEF Quiet

\* A transaction is a plan of one write.
OneTx(s, D, changes, checkout) ==
    /\ s \in Seq(Write(D)) /\ Len(s) = 1 /\ s # <<>>
    /\ s[1].op = "tx" /\ s[1].changes = changes /\ s[1].checkout = checkout

LEMMA TxIs ==
    ASSUME NEW D, NEW changes \in RefChanges(D), NEW made \in Commits(D),
           NEW checkout \in BOOLEAN, NEW otherwise \in Unmarks
    PROVE  OneTx(TxOf(changes, made, checkout, otherwise), D, changes, checkout)
<1> DEFINE s == [op |-> "tx", changes |-> changes, made |-> made, checkout |-> checkout,
                 otherwise |-> otherwise]
<1>1. s \in Write(D)
  BY DEF Write, TxStep
<1>2. s.op = "tx" /\ s.changes = changes /\ s.checkout = checkout
  OBVIOUS
<1>3. TxOf(changes, made, checkout, otherwise) = <<s>>
  BY DEF TxOf
<1> HIDE DEF s
<1> QED
  BY <1>1, <1>2, <1>3 DEF OneTx

-----------------------------------------------------------------------------
(* Commands.                                                               *)

\* w begins with a plan, the commits being cs now.
Began(w, cs, steps) ==
    /\ commits' = cs /\ plan' = [plan EXCEPT ![w] = steps] /\ left' = left - 1 /\ left > 0
    /\ refs' = refs /\ last' = last /\ dirs' = dirs /\ index' = index /\ work' = work
    /\ daemon' = daemon /\ base' = base
    /\ daemon => \A v \in Workspaces : plan[v] = <<>>

\* A command that begins leaves the invariant as it is if its plan is typed and sound.
LEMMA BeganKeeps ==
    ASSUME WorkspacesInv, NEW w \in Workspaces,
           NEW cs \in Seq(Node), Graph(cs), Grown(commits, cs),
           NEW steps \in Seq(Write(DOMAIN cs)), Began(w, cs, steps),
           excused' \subseteq Workspaces, excused \subseteq excused',
           Sound(w, cs, refs["develop"], Calm(daemon, excused', w), steps)
    PROVE  WorkspacesInv'
<1>1. /\ commits' = cs /\ plan' = [plan EXCEPT ![w] = steps] /\ left' = left - 1 /\ left > 0
      /\ refs' = refs /\ last' = last /\ dirs' = dirs /\ index' = index /\ work' = work
      /\ daemon' = daemon /\ base' = base
      /\ daemon => \A v \in Workspaces : plan[v] = <<>>
  BY DEF Began
<1>2. /\ TypeInv /\ OneHolder /\ AloneInv /\ FinishInv
      /\ plan \in [Workspaces -> Seq(Write(DOMAIN commits))]
      /\ \A v \in Workspaces : plan'[v] = IF v = w THEN steps ELSE plan[v]
  BY <1>1 DEF WorkspacesInv, TypeInv
<1>3. DOMAIN commits \subseteq DOMAIN cs
  BY DEF Grown
<1>4. TypeInv'
  <2>1. /\ Commits(DOMAIN commits) \subseteq Commits(DOMAIN cs)
        /\ Operation(DOMAIN commits) \subseteq Operation(DOMAIN cs)
        /\ Seq(Write(DOMAIN commits)) \subseteq Seq(Write(DOMAIN cs))
        /\ Refs(DOMAIN commits) \subseteq Refs(DOMAIN cs)
    BY <1>3, TypesGrow
  <2>2. plan' \in [Workspaces -> Seq(Write(DOMAIN cs))]
    BY <1>1, <1>2, <2>1
  <2>3. base \in [Workspaces -> Commits(DOMAIN cs)]
    BY <1>2, <2>1 DEF TypeInv
  <2>4. last \in {None} \cup Operation(DOMAIN cs) /\ refs \in Refs(DOMAIN cs)
    BY <1>2, <2>1 DEF TypeInv
  <2>5. left - 1 \in Nat
    BY <1>1, <1>2 DEF TypeInv
  <2> HIDE DEF Write
  <2> QED
    BY <1>1, <1>2, <2>2, <2>3, <2>4, <2>5 DEF TypeInv
<1>5. OneHolder'
  BY <1>1, <1>2 DEF OneHolder
<1>6. AloneInv'
  BY <1>1, <1>2 DEF AloneInv
<1>7. FinishInv'
  <2>1. SUFFICES ASSUME NEW v \in Workspaces
                 PROVE  Sound(v, cs, refs["develop"], Calm(daemon, excused', v), plan'[v])
    BY <1>1 DEF FinishInv
  <2>2. CASE v = w
    BY <1>2, <2>2
  <2>3. CASE v # w
    <3>1. Sound(v, commits, refs["develop"], Calm(daemon, excused, v), plan[v])
      BY <1>2 DEF FinishInv
    <3>2. Calm(daemon, excused', v) => Calm(daemon, excused, v)
      BY DEF Calm
    <3>3. plan'[v] = plan[v]
      BY <1>2, <2>3
    <3>4. Graph(commits)
      BY <1>2 DEF TypeInv
    <3> QED
      BY <3>1, <3>2, <3>3, <3>4, SoundStays
  <2> QED
    BY <2>2, <2>3
<1> QED
  BY <1>4, <1>5, <1>6, <1>7 DEF WorkspacesInv

\* The same, of a command that reads everything it needs and then only writes.
LEMMA RunKeeps ==
    ASSUME WorkspacesInv, NEW w \in Workspaces,
           NEW cs \in Seq(Node), Graph(cs), Grown(commits, cs),
           NEW steps \in Seq(Write(DOMAIN cs)), Run(w, cs, steps),
           excused' \subseteq Workspaces, excused \subseteq excused',
           Sound(w, cs, refs["develop"], Calm(daemon, excused', w), steps)
    PROVE  WorkspacesInv'
<1>1. Began(w, cs, steps)
  BY DEF Run, Began, Commands
<1> QED
  BY <1>1, BeganKeeps

\* A command that makes no commit and finishes nothing.
LEMMA BeginKeeps ==
    ASSUME WorkspacesInv, NEW w \in Workspaces, NEW steps \in Seq(Write(DOMAIN commits)),
           Begin(w, steps), Quiet(w, steps)
    PROVE  WorkspacesInv'
<1>1. commits \in Seq(Node) /\ Graph(commits) /\ Grown(commits, commits) /\ excused \subseteq Workspaces
  BY DEF WorkspacesInv, TypeInv, Grown
<1>2. Run(w, commits, steps) /\ excused' = excused
  BY DEF Begin, BeginWith
<1>4. Sound(w, commits, refs["develop"], Calm(daemon, excused', w), steps)
  BY NoFinishIsSound
<1> QED
  BY <1>1, <1>2, <1>4, RunKeeps

\* What commands read (head_branch, and the refs) and how they write it.
LEMMA Reads ==
    ASSUME TypeInv, NEW w \in Workspaces
    PROVE  /\ \A b \in Branches : b \in Name /\ b \notin Workspaces /\ refs[b] \in Side(DOMAIN commits, b)
           /\ \A b \in Branches : refs[b] \in Commits(DOMAIN commits)
           /\ \A v \in Workspaces : v \in Name /\ refs[v] \in Side(DOMAIN commits, v)
           /\ \A v \in Workspaces : Side(DOMAIN commits, v) = {None} \cup Branches
           /\ \A b \in Branches : Side(DOMAIN commits, b) = Commits(DOMAIN commits)
           /\ HeadBranch(w) \in Branches
           /\ Tip(w) \in Commits(DOMAIN commits)
           /\ "main" \in Branches /\ "develop" \in Branches /\ Topics \subseteq Branches
           /\ None \notin Branches /\ None \notin Nat /\ None \in Commits(DOMAIN commits)
<1>1. /\ refs \in [Name -> Sides(DOMAIN commits)]
      /\ \A x \in Name : refs[x] \in Side(DOMAIN commits, x)
  BY DEF TypeInv, Refs
<1>2. \A b \in Branches : b \in Name /\ b \notin Workspaces
  BY WorkspacesAssumption DEF Name
<1>3. /\ \A v \in Workspaces : Side(DOMAIN commits, v) = {None} \cup Branches
      /\ \A b \in Branches : Side(DOMAIN commits, b) = Commits(DOMAIN commits)
  BY <1>2 DEF Side, Commits
<1>4. "main" \in Branches /\ "develop" \in Branches /\ Topics \subseteq Branches
  BY DEF Branches
<1>5. None \notin Branches /\ None \notin Nat /\ None \in Commits(DOMAIN commits)
  BY WorkspacesAssumption DEF Commits
<1>6. HeadBranch(w) \in Branches
  BY <1>1, <1>3, <1>4 DEF HeadBranch, Name
<1>7. Tip(w) \in Commits(DOMAIN commits)
  BY <1>1, <1>2, <1>3, <1>6 DEF Tip
<1> QED
  BY <1>1, <1>2, <1>3, <1>4, <1>5, <1>6, <1>7 DEF Name

\* A checkout begins with the paths of the index (checkout in native.rs).
LEMMA CheckoutFromIs ==
    ASSUME TypeInv, NEW w \in Workspaces, NEW D, NEW c \in Commits(D)
    PROVE  CheckoutFrom(w, c) \in Seq(Write(D)) /\ Quiet(w, CheckoutFrom(w, c))
<1>1. PathsIn(Staged(index[w])) \in SUBSET Paths
  BY TreesAre DEF TypeInv
<1> QED
  BY <1>1, CheckoutIs DEF CheckoutFrom

\* A transaction that is no finish.
LEMMA TxIsQuiet ==
    ASSUME NEW D, NEW changes \in RefChanges(D), NEW made \in Commits(D),
           NEW checkout \in BOOLEAN, NEW otherwise \in Unmarks, NEW w,
           \/ checkout
           \/ w \notin DOMAIN changes
           \/ \A t \in Topics \cap DOMAIN changes : changes[t].new # None
    PROVE  /\ TxOf(changes, made, checkout, otherwise) \in Seq(Write(D))
           /\ Quiet(w, TxOf(changes, made, checkout, otherwise))
<1> DEFINE s == TxOf(changes, made, checkout, otherwise)
<1>1. OneTx(s, D, changes, checkout)
  BY TxIs
<1> HIDE DEF s
<1>2. ~Finishing(w, s[1])
  BY <1>1 DEF Finishing, OneTx
<1>3. s \in Seq(Write(D)) /\ Quiet(w, s)
  BY <1>1, <1>2 DEF Quiet, OneTx
<1> QED
  BY <1>3 DEF s

\* The same, of a transaction that is all there is to a plan.
LEMMA PlainTxIsQuiet ==
    ASSUME NEW D, NEW changes \in RefChanges(D), NEW w, None \in Commits(D),
           \/ w \notin DOMAIN changes
           \/ \A t \in Topics \cap DOMAIN changes : changes[t].new # None
    PROVE  Tx(changes) \in Seq(Write(D)) /\ Quiet(w, Tx(changes))
<1>1. <<>> \in Unmarks
  BY DEF Unmarks
<1> QED
  BY <1>1, TxIsQuiet DEF Tx

\* Moving a HEAD (switch in native.rs).
LEMMA MoveHeadIs ==
    ASSUME TypeInv, NEW w \in Workspaces, NEW b \in Branches
    PROVE  /\ MoveHead(w, b) \in Seq(Write(DOMAIN commits))
           /\ Quiet(w, MoveHead(w, b))
<1> DEFINE from == IF refs[w] = None THEN HeadBranch(w) ELSE refs[w]
           changes == Change(w, from, b)
           D == DOMAIN commits
<1>1. None \in Commits(D) /\ w \in Name /\ Side(D, w) = {None} \cup Branches
  BY Reads
<1>2. from \in Side(D, w) /\ b \in Side(D, w)
  BY <1>1, Reads
<1> HIDE DEF from, D
<1>3. OneRef(D, changes, w, from, b)
  BY <1>1, <1>2, OneChange
<1> HIDE DEF changes
<1>4. w \notin Topics
  BY Reads
<1>5. Tx(changes) \in Seq(Write(D)) /\ Quiet(w, Tx(changes))
  <2>1. changes \in RefChanges(D) /\ \A t \in Topics \cap DOMAIN changes : changes[t].new # None
    BY <1>3, <1>4 DEF OneRef
  <2> QED
    BY <1>1, <2>1, PlainTxIsQuiet
<1> QED
  BY <1>5 DEF MoveHead, changes, from, D

\* The commands on branches (branch, switch in native.rs).
LEMMA BranchKeeps ==
    ASSUME WorkspacesInv, NEW w \in Workspaces, NEW b \in Branches,
           CreateBranch(w, b) \/ SwitchCreate(w, b) \/ DeleteBranch(w, b) \/ Switch(w, b)
    PROVE  WorkspacesInv'
<1> DEFINE D == DOMAIN commits
<1>1. TypeInv
  BY DEF WorkspacesInv
<1>2. /\ b \in Name /\ w \notin {b} /\ None \in Commits(D)
      /\ refs[b] \in Side(D, b) /\ Tip(w) \in Side(D, b) /\ None \in Side(D, b)
      /\ refs[b] \in Commits(D)
  BY <1>1, Reads
<1>3. MoveHead(w, b) \in Seq(Write(D)) /\ Quiet(w, MoveHead(w, b))
  BY <1>1, MoveHeadIs
<1>4. /\ Tx(Change(b, None, Tip(w))) \in Seq(Write(D)) /\ Quiet(w, Tx(Change(b, None, Tip(w))))
      /\ Tx(Change(b, refs[b], None)) \in Seq(Write(D)) /\ Quiet(w, Tx(Change(b, refs[b], None)))
  <2> DEFINE f == Change(b, None, Tip(w))
             g == Change(b, refs[b], None)
  <2>1. OneRef(D, f, b, None, Tip(w))
    BY <1>2, OneChange
  <2>2. OneRef(D, g, b, refs[b], None)
    BY <1>2, OneChange
  <2> HIDE DEF D, f, g
  <2>3. f \in RefChanges(D) /\ w \notin DOMAIN f /\ g \in RefChanges(D) /\ w \notin DOMAIN g
    BY <1>2, <2>1, <2>2 DEF OneRef
  <2>4. /\ Tx(f) \in Seq(Write(D)) /\ Quiet(w, Tx(f))
        /\ Tx(g) \in Seq(Write(D)) /\ Quiet(w, Tx(g))
    BY <1>2, <2>3, PlainTxIsQuiet
  <2> QED
    BY <2>4 DEF f, g
<1>5. CASE CreateBranch(w, b)
  BY <1>4, <1>5, BeginKeeps DEF CreateBranch
<1>6. CASE DeleteBranch(w, b)
  BY <1>4, <1>6, BeginKeeps DEF DeleteBranch
<1>7. CASE SwitchCreate(w, b)
  <2> DEFINE made == IF Tip(w) = None THEN <<>> ELSE Tx(Change(b, None, Tip(w)))
  <2>1. made \in Seq(Write(D)) /\ Quiet(w, made)
    <3>1. <<>> \in Seq(Write(D)) /\ Quiet(w, <<>>)
      BY DEF Quiet
    <3> QED
      BY <1>4, <3>1
  <2>2. Begin(w, made \o MoveHead(w, b))
    BY <1>7 DEF SwitchCreate
  <2> HIDE DEF made
  <2>3. made \o MoveHead(w, b) \in Seq(Write(D)) /\ Quiet(w, made \o MoveHead(w, b))
    BY <1>2, <1>3, <2>1, OneAfterTheOther
  <2> QED
    BY <2>2, <2>3, BeginKeeps
<1>8. CASE Switch(w, b)
  <2> DEFINE out == CheckoutFrom(w, refs[b])
  <2>1. out \in Seq(Write(D)) /\ Quiet(w, out)
    BY <1>1, <1>2, CheckoutFromIs
  <2>2. Begin(w, out \o MoveHead(w, b))
    BY <1>8 DEF Switch
  <2> HIDE DEF out
  <2>3. out \o MoveHead(w, b) \in Seq(Write(D)) /\ Quiet(w, out \o MoveHead(w, b))
    BY <1>2, <1>3, <2>1, OneAfterTheOther
  <2> QED
    BY <2>2, <2>3, BeginKeeps
<1> QED
  BY <1>5, <1>6, <1>7, <1>8

\* A file is edited.
LEMMA EditKeeps ==
    ASSUME WorkspacesInv, NEW w \in Workspaces, NEW p \in Paths, NEW c \in Contents, Edit(w, p, c)
    PROVE  WorkspacesInv'
<1>1. /\ TypeInv /\ OneHolder /\ AloneInv /\ FinishInv
      /\ work' = [work EXCEPT ![w][p] = c] /\ left' = left - 1 /\ left > 0
      /\ UNCHANGED <<commits, refs, last, dirs, index, plan, daemon, base, excused>>
  BY DEF WorkspacesInv, Edit, Commands
<1>2. TypeInv'
  <2>1. work' \in [Workspaces -> Trees]
    BY <1>1 DEF TypeInv, Trees, Blobs
  <2>2. left' \in Nat
    BY <1>1 DEF TypeInv
  <2> HIDE DEF Write
  <2> QED
    BY <1>1, <2>1, <2>2 DEF TypeInv
<1>3. OneHolder' /\ AloneInv'
  BY <1>1 DEF OneHolder, AloneInv
<1>4. FinishInv'
  BY <1>1 DEF FinishInv
<1> QED
  BY <1>2, <1>3, <1>4 DEF WorkspacesInv

\* `alt add .` (add in native.rs).
LEMMA AddKeeps ==
    ASSUME WorkspacesInv, NEW w \in Workspaces, Add(w)
    PROVE  WorkspacesInv'
<1> DEFINE D == DOMAIN commits
           ps == {q \in Paths : index[w][q] # work[w][q]}
           changes == [p \in ps |-> [old |-> index[w][p], new |-> work[w][p]]]
           stage == [op |-> "stage", index |-> work[w]]
           record == [op |-> "record", changes |-> changes]
<1>1. TypeInv
  BY DEF WorkspacesInv
<1>2. index[w] \in [Paths -> Entry] /\ work[w] \in [Paths -> Entry] /\ work[w] \in Trees
  BY <1>1, TreesAre DEF TypeInv, Trees, Entry
<1>3. changes \in IndexChanges
  <2>1. ps \in SUBSET Paths /\ changes \in [ps -> [old : Entry, new : Entry]]
    BY <1>2
  <2> QED
    BY <2>1 DEF IndexChanges
<1>4. Begin(w, <<stage, record>>)
  BY DEF Add
<1> HIDE DEF changes
<1>5. stage \in Write(D) /\ record \in Write(D)
  BY <1>2, <1>3 DEF Write, StageStep, RecordStep
<1>6. ~Finishing(w, stage) /\ ~Finishing(w, record)
  BY DEF Finishing
<1> HIDE DEF stage, record
<1>7. <<stage, record>> \in Seq(Write(D)) /\ Quiet(w, <<stage, record>>)
  BY <1>5, <1>6 DEF Quiet
<1> QED
  BY <1>4, <1>7, BeginKeeps

\* A commit, and a commit in the place of another (record_commit in native.rs).
LEMMA CommitKeeps ==
    ASSUME WorkspacesInv, NEW w \in Workspaces, Commit(w) \/ Amend(w)
    PROVE  WorkspacesInv'
<1> DEFINE D == DOMAIN commits
           b == HeadBranch(w)
<1>1. /\ TypeInv /\ commits \in Seq(Node) /\ Graph(commits) /\ index[w] \in Trees
      /\ excused \subseteq Workspaces
  BY DEF WorkspacesInv, TypeInv
<1>2. /\ b \in Branches /\ Tip(w) \in Commits(D)
      /\ b \in Name /\ b \notin Workspaces
      /\ \A E : Side(E, b) = Commits(E)
  BY <1>1, Reads DEF Side, Commits
<1>3. PICK parents \in Seq(Nat) : ToSet(parents) \subseteq DOMAIN commits /\ Recorded(w, parents)
  <2>1. CASE Commit(w)
    <3> DEFINE parents == IF Tip(w) = None THEN <<>> ELSE <<Tip(w)>>
    <3>1. parents \in Seq(Nat) /\ ToSet(parents) \subseteq DOMAIN commits
      <4>1. Tip(w) # None => Tip(w) \in DOMAIN commits /\ Tip(w) \in Nat
        BY <1>1, <1>2 DEF Commits, Graph
      <4> QED
        BY <4>1 DEF ToSet
    <3>2. Recorded(w, parents)
      BY <2>1 DEF Commit
    <3> QED
      BY <3>1, <3>2
  <2>2. CASE Amend(w)
    <3> DEFINE t == Tip(w)
    <3>1. t \in DOMAIN commits /\ Recorded(w, commits[t].parents)
      BY <1>2, <2>2 DEF Amend, Commits
    <3> HIDE DEF t
    <3>2. commits[t].parents \in Seq(Nat)
      <4>1. commits[t] \in Node
        BY <1>1, <3>1
      <4> QED
        BY <4>1 DEF Node
    <3>3. ToSet(commits[t].parents) \subseteq DOMAIN commits
      <4>1. ParentsOf(commits, t) \subseteq 1 .. t - 1 /\ t \in Nat
        BY <1>1, <3>1 DEF Graph
      <4> QED
        BY <1>1, <3>1, <4>1 DEF Graph, ParentsOf
    <3> QED
      BY <3>1, <3>2, <3>3
  <2> QED
    BY <2>1, <2>2
<1> DEFINE new == [parents |-> parents, tree |-> Staged(index[w])]
           cs == Append(commits, new)
           at == Len(commits) + 1
           old == Tip(w)
           changes == Change(b, old, at)
           steps == TxOf(changes, at, FALSE, <<>>)
<1>4. Run(w, cs, steps) /\ excused' = excused
  BY <1>3 DEF Recorded, BeginWith
<1>5. /\ new \in Node /\ ToSet(new.parents) \subseteq DOMAIN commits
  BY <1>1, <1>3, TreesAre DEF Node
<1> HIDE DEF new
<1>6. cs \in Seq(Node) /\ Graph(cs) /\ Grown(commits, cs) /\ at \in DOMAIN cs
  BY <1>1, <1>5, OneMore
<1>7. old \in Commits(D)
  BY <1>2
<1> HIDE DEF cs, at, old, b
<1>8. OneRef(DOMAIN cs, changes, b, old, at)
  <2>1. old \in Side(DOMAIN cs, b) /\ at \in Side(DOMAIN cs, b)
    BY <1>2, <1>6, <1>7 DEF Grown, Commits
  <2> QED
    BY <1>2, <2>1, OneChange
<1> HIDE DEF changes
<1>9. steps \in Seq(Write(DOMAIN cs)) /\ Quiet(w, steps)
  <2>1. /\ <<>> \in Unmarks /\ at \in Commits(DOMAIN cs)
        /\ changes \in RefChanges(DOMAIN cs) /\ w \notin DOMAIN changes
    BY <1>2, <1>6, <1>8 DEF Unmarks, Commits, OneRef
  <2> QED
    BY <2>1, TxIsQuiet
<1> HIDE DEF steps
<1>10. Sound(w, cs, refs["develop"], Calm(daemon, excused', w), steps)
  BY <1>9, NoFinishIsSound
<1> QED
  BY <1>1, <1>4, <1>6, <1>9, <1>10, RunKeeps

\* The flow begins (flow_init in native.rs).
LEMMA FlowInitKeeps ==
    ASSUME WorkspacesInv, NEW w \in Workspaces, FlowInit(w)
    PROVE  WorkspacesInv'
<1> DEFINE D == DOMAIN commits
           start == IF refs["main"] # None THEN refs["main"] ELSE Tip(w)
           f == Change("develop", None, start)
           g == Change(w, refs[w], "develop")
<1>1. /\ TypeInv /\ commits \in Seq(Node) /\ Graph(commits) /\ Grown(commits, commits)
      /\ excused \subseteq Workspaces
  BY DEF WorkspacesInv, TypeInv, Grown
<1>2. /\ Run(w, commits, Tx(f ++ g))
      /\ excused \subseteq excused' /\ excused' \subseteq Workspaces
  BY <1>1 DEF FlowInit
<1>3. /\ None \in Commits(D) /\ "develop" \in Name /\ w \in Name
      /\ "develop" \notin Workspaces
      /\ start \in Side(D, "develop") /\ None \in Side(D, "develop")
      /\ refs[w] \in Side(D, w) /\ "develop" \in Side(D, w)
      /\ w \notin Topics /\ "develop" \notin Topics
  BY <1>1, Reads, WorkspacesAssumption DEF Side
<1> DEFINE changes == f ++ g
<1> HIDE DEF D, start
<1>4. OneRef(D, f, "develop", None, start) /\ OneRef(D, g, w, refs[w], "develop")
  BY <1>3, OneChange
<1> HIDE DEF f, g
<1>5. changes \in RefChanges(D) /\ DOMAIN changes = {"develop", w}
  <2>1. Apart(f, g) /\ f \in RefChanges(D) /\ g \in RefChanges(D)
    BY <1>3, <1>4 DEF OneRef, Apart
  <2>2. BothOf(D, changes, f, g)
    BY <2>1, Joined
  <2> QED
    BY <1>4, <2>2 DEF OneRef, BothOf
<1> HIDE DEF changes
<1>6. Tx(changes) \in Seq(Write(D)) /\ Quiet(w, Tx(changes))
  BY <1>3, <1>5, PlainTxIsQuiet
<1>7. Sound(w, commits, refs["develop"], Calm(daemon, excused', w), Tx(changes))
  BY <1>3, <1>6, NoFinishIsSound
<1> QED
  BY <1>1, <1>2, <1>6, <1>7, RunKeeps DEF D, changes, f, g

\* A topic begins (flow_topic_start and flow_feature_start in native.rs).
LEMMA TopicStartKeeps ==
    ASSUME WorkspacesInv, NEW w \in Workspaces, NEW topic \in Topics, TopicStart(w, topic)
    PROVE  WorkspacesInv'
<1> DEFINE D == DOMAIN commits
           at == refs[FlowBase(topic)]
           f == Change(topic, None, at)
           g == Change(w, refs[w], topic)
           out == CheckoutFrom(w, at)
<1>1. TypeInv
  BY DEF WorkspacesInv
<1>2. at # None /\ Begin(w, out \o Tx(f ++ g))
  BY DEF TopicStart
<1>3. /\ None \in Commits(D) /\ topic \in Name /\ w \in Name
      /\ topic \notin Workspaces
      /\ at \in Side(D, topic) /\ at \in Commits(D) /\ None \in Side(D, topic)
      /\ refs[w] \in Side(D, w) /\ topic \in Side(D, w)
      /\ w \notin Topics
  BY <1>1, Reads DEF Side, FlowBase
<1>4. out \in Seq(Write(D)) /\ Quiet(w, out)
  BY <1>1, <1>3, CheckoutFromIs
<1> DEFINE changes == f ++ g
<1> HIDE DEF D, at, out
<1>5. OneRef(D, f, topic, None, at) /\ OneRef(D, g, w, refs[w], topic)
  BY <1>3, OneChange
<1> HIDE DEF f, g
<1>6. changes \in RefChanges(D) /\ DOMAIN changes = {topic, w} /\ changes[topic].new = at
  <2>1. Apart(f, g) /\ f \in RefChanges(D) /\ g \in RefChanges(D)
    BY <1>3, <1>5 DEF OneRef, Apart
  <2>2. BothOf(D, changes, f, g)
    BY <2>1, Joined
  <2> QED
    BY <1>5, <2>2 DEF OneRef, BothOf
<1> HIDE DEF changes
<1>7. Tx(changes) \in Seq(Write(D)) /\ Quiet(w, Tx(changes))
  <2>1. \A t \in Topics \cap DOMAIN changes : changes[t].new # None
    BY <1>2, <1>3, <1>6
  <2> QED
    BY <1>3, <1>6, <2>1, PlainTxIsQuiet
<1> DEFINE rest == Tx(changes)
<1>8. rest \in Seq(Write(D)) /\ Quiet(w, rest) /\ Begin(w, out \o rest)
  BY <1>2, <1>7 DEF changes
<1> HIDE DEF rest
<1>9. out \o rest \in Seq(Write(D)) /\ Quiet(w, out \o rest)
  BY <1>3, <1>4, <1>8, OneAfterTheOther
<1> QED
  BY <1>8, <1>9, BeginKeeps DEF D

\* A workspace is added or removed (create_workspace_with, remove_workspace).
LEMMA WorkspaceKeeps ==
    ASSUME WorkspacesInv, NEW w \in Workspaces, NEW v \in Workspaces,
           (\E b \in Branches : WorkspaceAdd(w, v, b)) \/ WorkspaceRemove(w, v)
    PROVE  WorkspacesInv'
<1> DEFINE D == DOMAIN commits
           unmark == [op |-> "unmark", ws |-> v]
           mark == [op |-> "mark", ws |-> v]
<1>1. TypeInv
  BY DEF WorkspacesInv
<1>2. /\ None \in Commits(D) /\ v \in Name /\ v \notin Topics
      /\ refs[v] \in Side(D, v) /\ None \in Side(D, v)
  BY <1>1, Reads DEF Side
<1>3. /\ mark \in Write(D) /\ unmark \in Write(D)
      /\ ~Finishing(w, mark) /\ ~Finishing(w, unmark)
  BY DEF Write, MarkStep, Finishing
<1>4. <<unmark>> \in Unmarks
  BY DEF Unmarks
<1> DEFINE m == <<mark>>
           u == <<unmark>>
<1>5. /\ m \in Seq(Write(D)) /\ Quiet(w, m)
      /\ u \in Seq(Write(D)) /\ Quiet(w, u)
  <2> HIDE DEF mark, unmark
  <2> QED
    BY <1>3 DEF Quiet
<1>6. ASSUME NEW b \in Branches, WorkspaceAdd(w, v, b) PROVE WorkspacesInv'
  <2> DEFINE f == Change(v, None, b)
             g == IF refs[b] = None THEN Change(b, None, Tip(w)) ELSE NoChange
             of == IF refs[b] = None THEN Tip(w) ELSE refs[b]
             populate == [op |-> "populate", ws |-> v, of |-> of]
             p == <<populate>>
             tx == TxOf(f ++ g, None, FALSE, u)
  <2>1. /\ Begin(w, m \o tx \o p)
        /\ refs[b] = None => Tip(w) # None
    BY <1>6 DEF WorkspaceAdd, AddChanges
  <2>2. /\ b \in Name /\ b \notin Workspaces /\ b \in Side(D, v)
        /\ None \in Side(D, b) /\ Tip(w) \in Side(D, b) /\ of \in Commits(D)
    BY <1>1, Reads DEF Side
  <2>3. p \in Seq(Write(D)) /\ Quiet(w, p)
    <3>1. populate \in Write(D) /\ ~Finishing(w, populate)
      BY <2>2 DEF Write, PopulateStep, Finishing
    <3> HIDE DEF populate
    <3> QED
      BY <3>1 DEF Quiet
  <2> DEFINE changes == f ++ g
             at == Tip(w)
             h == Change(b, None, at)
  <2>4. at \in Side(D, b) /\ (refs[b] = None => at # None)
    BY <2>1, <2>2
  <2> HIDE DEF p, of, D, at
  <2>5. OneRef(D, f, v, None, b)
    BY <1>2, <2>2, OneChange
  <2>11. OneRef(D, h, b, None, at)
    BY <1>2, <2>2, <2>4, OneChange
  <2>12. g = IF refs[b] = None THEN h ELSE NoChange
    BY DEF at
  <2> HIDE DEF f, g, h
  <2>13. g \in RefChanges(D) /\ DOMAIN g \subseteq {b} /\ (b \in DOMAIN g => g[b].new # None)
    BY <2>4, <2>11, <2>12, NothingChanged DEF OneRef
  <2>14. Apart(f, g) /\ f \in RefChanges(D)
    BY <2>2, <2>5, <2>13 DEF OneRef, Apart
  <2>15. BothOf(D, changes, f, g)
    BY <2>13, <2>14, Joined
  <2> HIDE DEF changes
  <2>16. changes \in RefChanges(D) /\ \A t \in Topics \cap DOMAIN changes : changes[t].new # None
    BY <1>2, <2>5, <2>13, <2>15 DEF OneRef, BothOf
  <2>6. TxOf(changes, None, FALSE, u) \in Seq(Write(D)) /\ Quiet(w, TxOf(changes, None, FALSE, u))
    <3> HIDE DEF u
    <3>1. u \in Unmarks
      BY <1>4 DEF u
    <3> QED
      BY <1>2, <2>16, <3>1, TxIsQuiet
  <2>7. tx \in Seq(Write(D)) /\ Quiet(w, tx)
    BY <2>6 DEF changes
  <2> HIDE DEF tx, m
  <2> DEFINE mt == m \o tx
  <2>8. mt \in Seq(Write(D)) /\ Quiet(w, mt)
    BY <1>2, <1>5, <2>7, OneAfterTheOther
  <2>9. Begin(w, mt \o p)
    BY <2>1
  <2> HIDE DEF mt
  <2>10. mt \o p \in Seq(Write(D)) /\ Quiet(w, mt \o p)
    BY <1>2, <2>3, <2>8, OneAfterTheOther
  <2> QED
    BY <2>9, <2>10, BeginKeeps DEF D
<1>7. CASE WorkspaceRemove(w, v)
  <2> DEFINE changes == Change(v, refs[v], None)
             tx == Tx(changes)
  <2>1. Begin(w, tx \o u)
    BY <1>7 DEF WorkspaceRemove
  <2> HIDE DEF D, u
  <2>2. OneRef(D, changes, v, refs[v], None)
    BY <1>2, OneChange
  <2> HIDE DEF changes
  <2>3. tx \in Seq(Write(D)) /\ Quiet(w, tx)
    <3>1. changes \in RefChanges(D) /\ \A t \in Topics \cap DOMAIN changes : changes[t].new # None
      BY <1>2, <2>2 DEF OneRef
    <3> QED
      BY <1>2, <3>1, PlainTxIsQuiet
  <2> HIDE DEF tx
  <2>4. tx \o u \in Seq(Write(D)) /\ Quiet(w, tx \o u)
    BY <1>2, <1>5, <2>3, OneAfterTheOther
  <2> QED
    BY <2>1, <2>4, BeginKeeps DEF D
<1> QED
  BY <1>6, <1>7

\* A finish: its transaction, and the checkout after it.
LEMMA FinishKeeps ==
    ASSUME WorkspacesInv, NEW w \in Workspaces,
           NEW cs \in Seq(Node), Graph(cs), Grown(commits, cs),
           NEW changes \in RefChanges(DOMAIN cs), NEW c \in Commits(DOMAIN cs),
           BeginWith(w, cs, Tx(changes) \o CheckoutFrom(w, c)),
           Finishes(cs, refs["develop"], TRUE, changes)
    PROVE  WorkspacesInv'
<1> DEFINE tx == Tx(changes)
           out == CheckoutFrom(w, c)
           D == DOMAIN cs
<1>1. TypeInv /\ excused \subseteq Workspaces
  BY DEF WorkspacesInv, TypeInv
<1>2. None \in Commits(D) /\ <<>> \in Unmarks
  BY DEF Commits, Unmarks
<1>11. OneTx(tx, D, changes, FALSE)
  BY <1>2, TxIs DEF Tx
<1>4. out \in Seq(Write(D)) /\ Quiet(w, out)
  BY <1>1, CheckoutFromIs
<1>5. Run(w, cs, tx \o out) /\ excused' = excused
  BY DEF BeginWith
<1> DEFINE calm == Calm(daemon, excused', w)
<1> HIDE DEF tx, out, calm
<1>3. /\ tx \in Seq(Write(D)) /\ Len(tx) = 1 /\ tx # <<>>
      /\ tx[1].op = "tx" /\ tx[1].changes = changes
  BY <1>11 DEF OneTx
<1>6. Finishes(cs, refs["develop"], calm, changes)
  BY DEF Finishes
<1>7. Sound(w, cs, refs["develop"], calm, tx)
  BY <1>3, <1>6 DEF Sound
<1>8. tx # <<>>
  BY <1>3
<1>9. tx \o out \in Seq(Write(D)) /\ Sound(w, cs, refs["develop"], calm, tx \o out)
  BY <1>3, <1>4, <1>7, <1>8, OneAfterTheOther
<1> DEFINE steps == tx \o out
<1> HIDE DEF steps
<1>10. /\ steps \in Seq(Write(DOMAIN cs)) /\ Run(w, cs, steps)
       /\ Sound(w, cs, refs["develop"], Calm(daemon, excused', w), steps)
  BY <1>5, <1>9 DEF steps, calm
<1> QED
  BY <1>1, <1>5, <1>10, RunKeeps

\* What the transaction of a finish changes: a topic and the HEAD of w, and what f
\* and k change.
FinishOf(D, c, f, k, topic, w, old) ==
    /\ c \in RefChanges(D)
    /\ DOMAIN c = DOMAIN f \cup DOMAIN k \cup {topic, w}
    /\ \A r \in DOMAIN f : c[r] = f[r]
    /\ \A r \in DOMAIN k : c[r] = k[r]
    /\ c[topic].old = old
    /\ Topics \cap DOMAIN c = {topic}

LEMMA FinishChanges ==
    ASSUME TypeInv, NEW w \in Workspaces, NEW topic \in Topics, NEW D, DOMAIN commits \subseteq D,
           NEW f \in RefChanges(D), NEW k \in RefChanges(D),
           DOMAIN f \subseteq {"main", "develop"}, DOMAIN k \subseteq {"main", "develop"} \ DOMAIN f
    PROVE  FinishOf(D, f ++ Change(topic, refs[topic], None) ++ Change(w, refs[w], "develop") ++ k,
                    f, k, topic, w, refs[topic])
<1> DEFINE g == Change(topic, refs[topic], None)
           h == Change(w, refs[w], "develop")
           a == f ++ g
           b == a ++ h
           c == b ++ k
           o == refs[topic]
           p == refs[w]
<1>1. /\ topic \in Name /\ topic \notin Workspaces /\ w \in Name /\ w \notin Topics
      /\ o \in Side(D, topic) /\ None \in Side(D, topic)
      /\ p \in Side(D, w) /\ "develop" \in Side(D, w)
      /\ "main" \notin Topics /\ "develop" \notin Topics
      /\ "main" \notin Workspaces /\ "develop" \notin Workspaces
      /\ "main" \in Branches /\ "develop" \in Branches
  BY Reads, WorkspacesAssumption DEF Side
<1> HIDE DEF o, p
<1>2. OneRef(D, g, topic, o, None) /\ OneRef(D, h, w, p, "develop")
  BY <1>1, OneChange DEF o, p
<1>3. c = f ++ Change(topic, refs[topic], None) ++ Change(w, refs[w], "develop") ++ k
  BY DEF o, p
<1> HIDE DEF g, h
<1>4. g \in RefChanges(D) /\ h \in RefChanges(D) /\ Apart(f, g)
  BY <1>1, <1>2 DEF OneRef, Apart
<1>5. BothOf(D, a, f, g)
  BY <1>4, Joined
<1> HIDE DEF a
<1>6. a \in RefChanges(D) /\ DOMAIN a = DOMAIN f \cup {topic} /\ Apart(a, h)
  BY <1>1, <1>2, <1>5 DEF OneRef, BothOf, Apart
<1>7. BothOf(D, b, a, h)
  BY <1>4, <1>6, Joined
<1> HIDE DEF b
<1>8. b \in RefChanges(D) /\ DOMAIN b = DOMAIN f \cup {topic, w} /\ Apart(b, k)
  BY <1>1, <1>2, <1>6, <1>7 DEF OneRef, BothOf, Apart
<1>9. BothOf(D, c, b, k)
  BY <1>8, Joined
<1> HIDE DEF c
<1>10. /\ c \in RefChanges(D)
       /\ DOMAIN c = DOMAIN f \cup DOMAIN k \cup {topic, w}
  BY <1>8, <1>9 DEF BothOf
<1>11. /\ \A r \in DOMAIN b : c[r] = b[r]
       /\ \A r \in DOMAIN k \ DOMAIN b : c[r] = k[r]
       /\ \A r \in DOMAIN a : b[r] = a[r]
       /\ \A r \in DOMAIN f : a[r] = f[r]
       /\ \A r \in DOMAIN g \ DOMAIN f : a[r] = g[r]
  BY <1>5, <1>7, <1>9 DEF BothOf
<1>12. topic \notin DOMAIN f /\ topic # w /\ DOMAIN k \cap DOMAIN b = {}
  BY <1>1, <1>8
<1>13. c[topic].old = o
  BY <1>2, <1>6, <1>8, <1>11, <1>12 DEF OneRef
<1>14. (\A r \in DOMAIN f : c[r] = f[r]) /\ (\A r \in DOMAIN k : c[r] = k[r])
  BY <1>6, <1>8, <1>11, <1>12
<1>15. Topics \cap DOMAIN c = {topic}
  BY <1>1, <1>10
<1>16. FinishOf(D, c, f, k, topic, w, refs[topic])
  BY <1>10, <1>13, <1>14, <1>15 DEF o, FinishOf
<1> QED
  BY <1>3, <1>16

\* A feature is in develop when it goes (flow_feature_finish in native.rs).
LEMMA FeatureFinishKeeps ==
    ASSUME WorkspacesInv, NEW w \in Workspaces, NEW topic \in Features, FeatureFinish(w, topic)
    PROVE  WorkspacesInv'
<1> DEFINE dev == refs["develop"]
           top == refs[topic]
           merged == Integrated(commits, dev, top)
           cs == merged.commits
           at == merged.at
           D == DOMAIN cs
           f == Change("develop", dev, at)
           g == Change(topic, refs[topic], None)
           h == Change(w, refs[w], "develop")
           changes == f ++ g ++ h
           all == f ++ g ++ h ++ NoChange
<1>1. TypeInv /\ commits \in Seq(Node) /\ Graph(commits)
  BY DEF WorkspacesInv, TypeInv
<1>2. /\ top # None /\ dev # None /\ at # 0
      /\ BeginWith(w, cs, Tx(changes) \o CheckoutFrom(w, at))
  BY DEF FeatureFinish
<1>3. /\ topic \in Topics /\ FlowTarget(topic) = "develop"
      /\ top \in DOMAIN commits /\ dev \in DOMAIN commits
      /\ "develop" \in Name /\ "develop" \notin Workspaces
  BY <1>1, <1>2, Reads DEF Topics, FlowTarget, Commits
<1>4. /\ cs \in Seq(Node) /\ Graph(cs) /\ Grown(commits, cs) /\ at \in D
      /\ IsAncestor(cs, top, at)
  <2> HIDE DEF merged, top, dev
  <2>1. merged = Integrated(commits, dev, top)
    BY DEF merged, top, dev
  <2> QED
    BY <1>1, <1>2, <1>3, <2>1, IntegratedHasBoth
<1> HIDE DEF merged, cs, at, D
<1>5. OneRef(D, f, "develop", dev, at)
  <2>1. dev \in Side(D, "develop") /\ at \in Side(D, "develop")
    BY <1>3, <1>4 DEF Grown, Side, D
  <2> HIDE DEF dev
  <2> QED
    BY <1>3, <2>1, OneChange
<1>6. NoChange \in RefChanges(D) /\ DOMAIN NoChange = {}
  BY NothingChanged
<1>7. changes = all
  BY <1>6 DEF ++
<1> HIDE DEF f
<1>8. /\ all \in RefChanges(D) /\ DOMAIN f = {"develop"} /\ DOMAIN all = {"develop", topic, w}
      /\ all["develop"] = f["develop"] /\ f["develop"].new = at
      /\ all[topic].old = top
      /\ Topics \cap DOMAIN all = {topic}
  <2>1. /\ f \in RefChanges(D) /\ DOMAIN f = {"develop"} /\ f["develop"].new = at
        /\ DOMAIN commits \subseteq D
    BY <1>4, <1>5 DEF OneRef, Grown, D
  <2>2. FinishOf(D, all, f, NoChange, topic, w, refs[topic])
    BY <1>1, <1>3, <1>6, <2>1, FinishChanges
  <2> HIDE DEF all
  <2> QED
    BY <1>6, <2>1, <2>2 DEF FinishOf
<1>9. BeginWith(w, cs, Tx(all) \o CheckoutFrom(w, at))
  BY <1>2, <1>7
<1> HIDE DEF all, changes
<1>10. Finishes(cs, dev, TRUE, all)
  <2>1. Lands(cs, all, topic)
    BY <1>3, <1>4, <1>8 DEF Lands, D
  <2>2. LandsBack(cs, dev, all, topic)
    BY <1>4, <1>8 DEF LandsBack, D
  <2> QED
    BY <1>8, <2>1, <2>2 DEF Finishes
<1>11. at \in Commits(DOMAIN cs) /\ all \in RefChanges(DOMAIN cs)
  BY <1>4, <1>8 DEF Commits, D
<1> QED
  BY <1>4, <1>9, <1>10, <1>11, FinishKeeps

\* A release or a hotfix is in main when it goes, and in develop
\* (flow_topic_finish_dual in native.rs).
LEMMA TopicFinishKeeps ==
    ASSUME WorkspacesInv, NEW w \in Workspaces, NEW topic \in Releases \cup Hotfixes,
           TopicFinish(w, topic)
    PROVE  WorkspacesInv'
<1> DEFINE target == refs["main"]
           back == refs["develop"]
           top == refs[topic]
           merged == Integrated(commits, target, top)
           ms == merged.commits
           mt == merged.at
           backed == IF mt = back THEN [commits |-> ms, at |-> back]
                     ELSE Integrated(ms, back, mt)
           cs == backed.commits
           at == backed.at
           D == DOMAIN cs
           f == Change("main", target, mt)
           g == Change(topic, refs[topic], None)
           h == Change(w, refs[w], "develop")
           k == IF at = back THEN NoChange ELSE Change("develop", back, at)
           all == f ++ g ++ h ++ k
<1>1. TypeInv /\ commits \in Seq(Node) /\ Graph(commits)
  BY DEF WorkspacesInv, TypeInv
<1>2. /\ top # None /\ target # None /\ back # None /\ mt # 0 /\ at # 0
      /\ BeginWith(w, cs, Tx(all) \o CheckoutFrom(w, at))
  BY DEF TopicFinish
<1>3. /\ topic \in Topics /\ FlowTarget(topic) = "main"
      /\ top \in DOMAIN commits /\ target \in DOMAIN commits /\ back \in DOMAIN commits
      /\ "develop" \in Name /\ "develop" \notin Workspaces
      /\ "main" \in Name /\ "main" \notin Workspaces
  BY <1>1, <1>2, Reads, WorkspacesAssumption DEF Topics, FlowTarget, Commits
<1>4. /\ ms \in Seq(Node) /\ Graph(ms) /\ Grown(commits, ms) /\ mt \in DOMAIN ms
      /\ IsAncestor(ms, top, mt)
  <2> HIDE DEF merged, top, target
  <2>1. merged = Integrated(commits, target, top)
    BY DEF merged, top, target
  <2> QED
    BY <1>1, <1>2, <1>3, <2>1, IntegratedHasBoth
<1> HIDE DEF merged, ms, mt
<1>5. /\ cs \in Seq(Node) /\ Graph(cs) /\ Grown(ms, cs) /\ at \in D
      /\ IsAncestor(cs, mt, at)
  <2>1. CASE mt = back
    <3>1. cs = ms /\ at = mt
      BY <2>1
    <3>2. Grown(ms, ms) /\ IsAncestor(ms, mt, mt)
      BY <1>4, AncestorsAre DEF Grown
    <3> HIDE DEF cs, at
    <3> QED
      BY <1>4, <3>1, <3>2
  <2>2. CASE mt # back
    <3>1. backed = Integrated(ms, back, mt) /\ back \in DOMAIN ms
      BY <1>3, <1>4, <2>2 DEF Grown
    <3> HIDE DEF backed, back
    <3> QED
      BY <1>2, <1>4, <3>1, IntegratedHasBoth
  <2> QED
    BY <2>1, <2>2
<1> HIDE DEF backed, cs, at, D
<1>6. /\ Grown(commits, cs) /\ mt \in D
      /\ IsAncestor(cs, top, mt) /\ IsAncestor(cs, top, at)
  <2>1. Grown(commits, cs) /\ mt \in D
    BY <1>4, <1>5 DEF Grown, D
  <2>2. IsAncestor(cs, top, mt)
    BY <1>4, <1>5, AncestryGrows
  <2>3. IsAncestor(cs, top, at)
    BY <1>5, <2>1, <2>2, AncestorsAre DEF D
  <2> QED
    BY <2>1, <2>2, <2>3
<1>7. OneRef(D, f, "main", target, mt)
  <2>1. target \in Side(D, "main") /\ mt \in Side(D, "main")
    BY <1>3, <1>6 DEF Grown, Side, D
  <2> HIDE DEF target
  <2> QED
    BY <1>3, <2>1, OneChange
<1>8. /\ k \in RefChanges(D) /\ DOMAIN k = IF at = back THEN {} ELSE {"develop"}
      /\ at # back => k["develop"].new = at
  <2> DEFINE dk == Change("develop", back, at)
  <2>1. OneRef(D, dk, "develop", back, at)
    <3>1. back \in Side(D, "develop") /\ at \in Side(D, "develop")
      BY <1>3, <1>5, <1>6 DEF Grown, Side, D
    <3> HIDE DEF back
    <3> QED
      BY <1>3, <3>1, OneChange
  <2> HIDE DEF dk
  <2>2. k = IF at = back THEN NoChange ELSE dk
    BY DEF dk
  <2> HIDE DEF k
  <2> QED
    BY <2>1, <2>2, NothingChanged DEF OneRef
<1> HIDE DEF f, k
<1>9. /\ all \in RefChanges(D) /\ DOMAIN all = DOMAIN k \cup {"main", topic, w}
      /\ all["main"].new = mt
      /\ \A r \in DOMAIN k : all[r] = k[r]
      /\ all[topic].old = top
      /\ Topics \cap DOMAIN all = {topic}
  <2>1. /\ f \in RefChanges(D) /\ DOMAIN f = {"main"} /\ f["main"].new = mt
        /\ DOMAIN commits \subseteq D
        /\ DOMAIN k \subseteq {"main", "develop"} \ DOMAIN f
    BY <1>6, <1>7, <1>8 DEF OneRef, Grown, D
  <2>2. FinishOf(D, all, f, k, topic, w, refs[topic])
    BY <1>1, <1>3, <1>8, <2>1, FinishChanges
  <2> HIDE DEF all
  <2> QED
    BY <2>1, <2>2 DEF FinishOf
<1>10. BeginWith(w, cs, Tx(all) \o CheckoutFrom(w, at))
  BY <1>2 DEF f, k
<1> HIDE DEF all
<1>11. Finishes(cs, back, TRUE, all)
  <2>1. Lands(cs, all, topic)
    BY <1>3, <1>6, <1>9 DEF Lands, D
  <2>2. LandsBack(cs, back, all, topic)
    <3>1. "develop" \in DOMAIN all <=> at # back
      BY <1>3, <1>8, <1>9, WorkspacesAssumption
    <3>2. at # back => all["develop"].new = at
      BY <1>8, <1>9
    <3> QED
      BY <1>5, <1>6, <1>9, <3>1, <3>2 DEF LandsBack, D
  <2> QED
    BY <1>9, <2>1, <2>2 DEF Finishes
<1>12. at \in Commits(DOMAIN cs) /\ all \in RefChanges(DOMAIN cs)
  BY <1>5, <1>9 DEF Commits, D
<1> QED
  BY <1>5, <1>6, <1>10, <1>11, <1>12, FinishKeeps

\* The last operation is undone (undo in native.rs).
LEMMA UndoKeeps ==
    ASSUME WorkspacesInv, NEW w \in Workspaces, Undo(w)
    PROVE  WorkspacesInv'
<1> DEFINE D == DOMAIN commits
           ch == last.changes
           steps == UndoSteps(w)
<1>1. /\ TypeInv /\ commits \in Seq(Node) /\ Graph(commits) /\ Grown(commits, commits)
      /\ excused \subseteq Workspaces /\ index[w] \in Trees
      /\ last # None /\ last \in {None} \cup Operation(D)
  BY DEF WorkspacesInv, TypeInv, Grown, Undo
<1>2. Began(w, commits, steps) /\ excused' = excused
  BY DEF Undo, Began, Commands, disk
<1>3. ch = last.changes
  OBVIOUS
<1>4. \/ last.kind = "refs" /\ ch \in RefChanges(D)
      \/ last.kind # "refs" /\ ch \in IndexChanges
  BY <1>1 DEF Operation
<1> HIDE DEF ch
<1>5. steps \in Seq(Write(D)) /\ Quiet(w, steps)
  <2>1. CASE last.kind = "refs" /\ ch \in RefChanges(D)
    <3> DEFINE inv == Inverted(ch)
    <3>1. /\ ch = [r \in DOMAIN ch |-> ch[r]] /\ DOMAIN ch \subseteq Name /\ OneHead(ch)
          /\ \A r \in DOMAIN ch : \E o, n \in Side(D, r) : ch[r] = [old |-> o, new |-> n]
      BY <2>1, ChangesAre
    <3>2. /\ DOMAIN inv = DOMAIN ch /\ inv = [r \in DOMAIN inv |-> inv[r]]
          /\ \A r \in DOMAIN ch : inv[r] = [old |-> ch[r].new, new |-> ch[r].old]
      BY DEF Inverted
    <3> HIDE DEF inv
    <3>3. \A r \in DOMAIN inv : \E o, n \in Side(D, r) : inv[r] = [old |-> o, new |-> n]
      <4>1. TAKE r \in DOMAIN inv
      <4>2. PICK o \in Side(D, r), n \in Side(D, r) : ch[r] = [old |-> o, new |-> n]
        BY <3>1, <3>2
      <4>3. inv[r] = [old |-> n, new |-> o]
        BY <3>2, <4>2
      <4> QED
        BY <4>3
    <3>4. OneHead(inv)
      BY <3>1, <3>2 DEF OneHead
    <3>5. inv \in RefChanges(D)
      BY <3>1, <3>2, <3>3, <3>4, ChangesAre
    <3>6. None \in Commits(D) /\ <<>> \in Unmarks
      BY DEF Commits, Unmarks
    <3>7. steps = TxOf(inv, None, TRUE, <<>>)
      BY <1>3, <2>1 DEF UndoSteps, inv
    <3> HIDE DEF steps
    <3>8. TxOf(inv, None, TRUE, <<>>) \in Seq(Write(D)) /\ Quiet(w, TxOf(inv, None, TRUE, <<>>))
      BY <3>5, <3>6, TxIsQuiet
    <3> QED
      BY <3>7, <3>8
  <2>2. CASE last.kind # "refs" /\ ch \in IndexChanges
    <3> DEFINE to == Reverted(w, ch)
               inv == Inverted(ch)
               stage == [op |-> "stage", index |-> to]
               record == [op |-> "record", changes |-> inv]
    <3>1. steps = <<stage, record>>
      BY <1>3, <2>2 DEF UndoSteps
    <3>2. PICK ps \in SUBSET Paths : ch \in [ps -> [old : Entry, new : Entry]]
      BY <2>2 DEF IndexChanges
    <3>3. to \in Trees
      <4>1. Staged(index[w]) \in Trees
        BY <1>1, TreesAre
      <4>2. \A p \in DOMAIN ch : ch[p].old \in Entry
        BY <3>2
      <4> QED
        BY <4>1, <4>2 DEF Reverted, Trees, Entry
    <3>4. inv \in IndexChanges
      <4>1. inv \in [ps -> [old : Entry, new : Entry]]
        BY <3>2 DEF Inverted
      <4> QED
        BY <4>1 DEF IndexChanges
    <3> HIDE DEF to, inv
    <3>5. stage \in Write(D) /\ record \in Write(D)
      BY <3>3, <3>4 DEF Write, StageStep, RecordStep
    <3>6. ~Finishing(w, stage) /\ ~Finishing(w, record)
      BY DEF Finishing
    <3> HIDE DEF stage, record, steps
    <3> QED
      BY <3>1, <3>5, <3>6 DEF Quiet
  <2> QED
    BY <1>4, <2>1, <2>2
<1> HIDE DEF steps
<1>6. Sound(w, commits, refs["develop"], Calm(daemon, excused', w), steps)
  BY <1>5, NoFinishIsSound
<1> QED
  BY <1>1, <1>2, <1>5, <1>6, BeganKeeps

\* Every command keeps the invariant.
LEMMA CommandKeeps ==
    ASSUME WorkspacesInv, NEW w \in Workspaces, Command(w)
    PROVE  WorkspacesInv'
<1>1. CASE \/ \E p \in Paths, c \in Contents : Edit(w, p, c)
           \/ Add(w) \/ Commit(w) \/ Amend(w)
  BY <1>1, EditKeeps, AddKeeps, CommitKeeps
<1>2. CASE \/ \E b \in Plain : CreateBranch(w, b) \/ SwitchCreate(w, b)
           \/ \E b \in Branches : DeleteBranch(w, b) \/ Switch(w, b)
  BY <1>2, BranchKeeps DEF Branches
<1>3. CASE \/ FlowInit(w)
           \/ \E t \in Features : FeatureStart(w, t) \/ FeatureFinish(w, t)
           \/ \E t \in Releases \cup Hotfixes : TopicStart(w, t) \/ TopicFinish(w, t)
  BY <1>3, FlowInitKeeps, TopicStartKeeps, FeatureFinishKeeps, TopicFinishKeeps
     DEF FeatureStart, Topics
<1>4. CASE Undo(w)
  BY <1>4, UndoKeeps
<1>5. CASE \/ \E v \in Workspaces, b \in Branches : WorkspaceAdd(w, v, b)
           \/ \E v \in Workspaces : WorkspaceRemove(w, v)
  BY <1>5, WorkspaceKeeps
<1> QED
  BY <1>1, <1>2, <1>3, <1>4, <1>5 DEF Command

-----------------------------------------------------------------------------
(* The steps of the running commands.                                      *)

\* The plan of a running command, its first write and the rest.
LEMMA Running ==
    ASSUME WorkspacesInv, NEW w \in Workspaces, plan[w] # <<>>
    PROVE  /\ plan[w] \in Seq(Write(DOMAIN commits))
           /\ Head(plan[w]) = plan[w][1] /\ Head(plan[w]) \in Write(DOMAIN commits)
           /\ Tail(plan[w]) \in Seq(Write(DOMAIN commits))
           /\ Quiet(w, Tail(plan[w]))
<1> DEFINE D == DOMAIN commits
           s == plan[w]
<1>1. s \in Seq(Write(D))
  BY DEF WorkspacesInv, TypeInv
<1>2. Sound(w, commits, refs["develop"], Calm(daemon, excused, w), s)
  BY DEF WorkspacesInv, FinishInv
<1>3. s # <<>>
  OBVIOUS
<1> HIDE DEF s, D
<1>4. Head(s) = s[1] /\ Head(s) \in Write(D)
  BY <1>1, <1>3
<1>5. Tail(s) \in Seq(Write(D)) /\ Quiet(w, Tail(s))
  BY <1>1, <1>2, <1>3, TailIsSound
<1> QED
  BY <1>1, <1>4, <1>5 DEF s, D

\* A running command goes on with writes that finish nothing: the plans of the others
\* are sound still, because there are none or nothing is promised of develop.
LEMMA GoesOn ==
    ASSUME WorkspacesInv, NEW w \in Workspaces, plan[w] # <<>>,
           NEW steps \in Seq(Write(DOMAIN commits)), Quiet(w, steps),
           plan' = [plan EXCEPT ![w] = steps],
           commits' = commits, daemon' = daemon, excused \subseteq excused'
    PROVE  /\ plan' \in [Workspaces -> Seq(Write(DOMAIN commits))]
           /\ AloneInv' /\ FinishInv'
<1>1. /\ plan \in [Workspaces -> Seq(Write(DOMAIN commits))]
      /\ \A v \in Workspaces : plan'[v] = IF v = w THEN steps ELSE plan[v]
      /\ Graph(commits) /\ Grown(commits, commits) /\ AloneInv /\ FinishInv
  BY DEF WorkspacesInv, TypeInv, Grown
<1>2. plan' \in [Workspaces -> Seq(Write(DOMAIN commits))]
  BY <1>1
<1>3. AloneInv'
  BY <1>1 DEF AloneInv
<1>4. FinishInv'
  <2>1. SUFFICES ASSUME NEW v \in Workspaces
                 PROVE  Sound(v, commits, refs'["develop"], Calm(daemon, excused', v), plan'[v])
    BY DEF FinishInv
  <2>2. CASE v = w
    BY <1>1, <2>2, NoFinishIsSound
  <2>3. CASE v # w /\ daemon
    <3>1. plan'[v] = <<>>
      BY <1>1, <2>3 DEF AloneInv
    <3> QED
      BY <3>1 DEF Sound
  <2>4. CASE v # w /\ ~daemon
    <3>1. Sound(v, commits, refs["develop"], Calm(daemon, excused, v), plan[v])
      BY <1>1 DEF FinishInv
    <3>2. ~Calm(daemon, excused', v) /\ plan'[v] = plan[v]
      BY <1>1, <2>4 DEF Calm
    <3> QED
      BY <1>1, <3>1, <3>2, SoundStays
  <2> QED
    BY <2>2, <2>3, <2>4
<1> QED
  BY <1>2, <1>3, <1>4

\* The commit a HEAD is at.
LEMMA TipOf ==
    ASSUME NEW D, NEW r \in Refs(D), NEW w \in Workspaces
    PROVE  (IF r[w] = None THEN r["main"] ELSE r[r[w]]) \in Commits(D)
<1>1. /\ r[w] \in {None} \cup Branches
      /\ \A b \in Branches : r[b] \in Commits(D)
      /\ "main" \in Branches
  BY WorkspacesAssumption DEF Refs, Side, Name, Commits, Branches
<1> QED
  BY <1>1

\* A transaction is made or refused (commit_refs_with in native.rs).
LEMMA TxKeeps ==
    ASSUME WorkspacesInv, NEW w \in Workspaces, StepTx(w)
    PROVE  WorkspacesInv'
<1> DEFINE D == DOMAIN commits
           t == Head(plan[w])
           ch == t.changes
           rest == Tail(plan[w])
           held == \A r \in DOMAIN ch : refs[r] = ch[r].old
<1>1. /\ TypeInv /\ OneHolder
      /\ plan[w] # <<>> /\ t.op = "tx"
      /\ UNCHANGED <<commits, dirs, index, work, daemon, left>>
  BY DEF WorkspacesInv, StepTx, At
<1>2. /\ t \in TxStep(D) /\ rest \in Seq(Write(D)) /\ Quiet(w, rest)
  BY <1>1, Running, KindOfWrite
<1>3. /\ ch \in RefChanges(D) /\ t.made \in Commits(D) /\ t.checkout \in BOOLEAN
      /\ t.otherwise \in Unmarks
  BY <1>2 DEF TxStep
<1>4. CASE held /\ ~Taken(w, ch)
  <2> DEFINE out == IF t.checkout THEN CheckoutFrom(w, Tip(w)') ELSE <<>>
  <2>1. /\ refs' = Applied(ch) /\ last' = RefOp(ch)
        /\ plan' = [plan EXCEPT ![w] = out \o Tail(@)]
        /\ base' = [base EXCEPT ![w] = IF t.made = None THEN @ ELSE t.made]
        /\ excused' = excused \cup
                      IF t.checkout THEN Disturbed(w, refs') \cup {v \in {w} : refs'[v] = None}
                      ELSE {}
    BY <1>4 DEF StepTx
  <2>2. /\ ch = [r \in DOMAIN ch |-> ch[r]] /\ DOMAIN ch \subseteq Name /\ OneHead(ch)
        /\ \A r \in DOMAIN ch : \E o, n \in Side(D, r) : ch[r] = [old |-> o, new |-> n]
    BY <1>3, ChangesAre
  <2>3. refs \in [Name -> Sides(D)] /\ \A r \in Name : refs[r] \in Side(D, r)
    BY <1>1 DEF TypeInv, Refs
  <2> HIDE DEF ch
  <2>4. /\ DOMAIN refs' = Name
        /\ \A r \in Name : refs'[r] = IF r \in DOMAIN ch THEN ch[r].new ELSE refs[r]
        /\ refs' = [r \in Name |-> refs'[r]]
    BY <2>1, <2>3 DEF Applied
  <2>5. \A r \in DOMAIN ch : ch[r].new \in Side(D, r)
    BY <2>2
  <2>6. refs' \in Refs(D)
    <3>1. \A r \in Name : refs'[r] \in Side(D, r) /\ refs'[r] \in Sides(D)
      BY <2>3, <2>4, <2>5 DEF Side, Sides
    <3> QED
      BY <2>4, <3>1 DEF Refs
  <2>7. out \in Seq(Write(D)) /\ Quiet(w, out)
    <3>1. Tip(w)' \in Commits(D)
      <4>1. Tip(w)' = IF refs'[w] = None THEN refs'["main"] ELSE refs'[refs'[w]]
        BY DEF Tip, HeadBranch
      <4> QED
        BY <2>6, <4>1, TipOf
    <3>2. CheckoutFrom(w, Tip(w)') \in Seq(Write(D)) /\ Quiet(w, CheckoutFrom(w, Tip(w)'))
      BY <1>1, <3>1, CheckoutFromIs
    <3>3. <<>> \in Seq(Write(D)) /\ Quiet(w, <<>>)
      BY DEF Quiet
    <3> QED
      BY <3>2, <3>3
  <2> HIDE DEF out
  <2>8. out \o rest \in Seq(Write(D)) /\ Quiet(w, out \o rest)
    BY <1>2, <2>7, OneAfterTheOther
  <2> DEFINE steps == out \o rest
  <2>9. plan' = [plan EXCEPT ![w] = steps]
    BY <2>1
  <2> HIDE DEF steps
  <2>10. excused \subseteq excused' /\ excused' \subseteq Workspaces
    BY <1>1, <2>1 DEF Disturbed, TypeInv
  <2>11. plan' \in [Workspaces -> Seq(Write(D))] /\ AloneInv' /\ FinishInv'
    BY <1>1, <2>8, <2>9, <2>10, GoesOn DEF steps
  <2>12. last' \in {None} \cup Operation(D)
    BY <1>3, <2>1 DEF RefOp, Operation, ch
  <2>13. base' \in [Workspaces -> Commits(D)]
    BY <1>1, <1>3, <2>1 DEF TypeInv
  <2>14. TypeInv'
    BY <1>1, <2>6, <2>10, <2>11, <2>12, <2>13 DEF TypeInv
  <2>15. OneHolder'
    <3>1. SUFFICES ASSUME NEW u \in Workspaces, NEW v \in Workspaces, u # v,
                          refs'[u] # None, refs'[u] = refs'[v]
                   PROVE  FALSE
      BY DEF OneHolder
    <3>2. u \in Name /\ v \in Name
      BY DEF Name
    <3>3. ~Taken(w, ch)
      BY <1>4 DEF ch
    <3>4. \A x, y \in Workspaces : x # y /\ refs'[x] # None /\ refs'[x] = refs'[y]
                                   => ~(x \in DOMAIN ch /\ y \notin DOMAIN ch)
      <4>1. SUFFICES ASSUME NEW x \in Workspaces, NEW y \in Workspaces, x # y,
                            refs'[x] # None, refs'[x] = refs'[y],
                            x \in DOMAIN ch, y \notin DOMAIN ch
                     PROVE  FALSE
        OBVIOUS
      <4>2. ch[x].new = refs[y] /\ ch[x].new # None
        BY <2>4, <4>1 DEF Name
      <4>3. StaysOn(y, ch)
        BY <4>1 DEF StaysOn
      <4> QED
        BY <3>3, <4>1, <4>2, <4>3 DEF Taken
    <3>5. CASE u \in DOMAIN ch /\ v \in DOMAIN ch
      BY <2>2, <3>1, <3>5 DEF OneHead
    <3>6. CASE u \notin DOMAIN ch /\ v \notin DOMAIN ch
      BY <1>1, <2>4, <3>1, <3>2, <3>6 DEF OneHolder
    <3> QED
      BY <3>1, <3>4, <3>5, <3>6
  <2> QED
    BY <2>11, <2>14, <2>15 DEF WorkspacesInv
<1>5. CASE ~(held /\ ~Taken(w, ch))
  <2>1. /\ plan' = [plan EXCEPT ![w] = t.otherwise]
        /\ excused' = excused \cup {w}
        /\ UNCHANGED <<refs, last, base>>
    BY <1>5 DEF StepTx
  <2> DEFINE steps == t.otherwise
  <2>2. steps \in Unmarks
    BY <1>3
  <2> HIDE DEF steps
  <2>3. steps \in Seq(Write(D)) /\ Quiet(w, steps)
    <3> DEFINE U == [op : {"unmark"}, ws : Workspaces]
    <3>1. U \subseteq Write(D)
      BY DEF Write, MarkStep
    <3>2. \A s \in U : ~Finishing(w, s)
      BY DEF Finishing
    <3>3. steps \in Seq(U)
      BY <2>2 DEF Unmarks
    <3> HIDE DEF U
    <3> QED
      BY <3>1, <3>2, <3>3 DEF Quiet
  <2>4. excused \subseteq excused' /\ excused' \subseteq Workspaces
    BY <1>1, <2>1 DEF TypeInv
  <2>5. plan' = [plan EXCEPT ![w] = steps]
    BY <2>1 DEF steps
  <2>6. plan' \in [Workspaces -> Seq(Write(D))] /\ AloneInv' /\ FinishInv'
    BY <1>1, <2>3, <2>4, <2>5, GoesOn
  <2>7. TypeInv'
    BY <1>1, <2>1, <2>4, <2>6 DEF TypeInv
  <2>8. OneHolder'
    BY <1>1, <2>1 DEF OneHolder
  <2> QED
    BY <2>6, <2>7, <2>8 DEF WorkspacesInv
<1> QED
  BY <1>4, <1>5

\* What a step that leaves the refs alone has to show.
LEMMA StepKeeps ==
    ASSUME WorkspacesInv, NEW w \in Workspaces, plan[w] # <<>>,
           plan' = [plan EXCEPT ![w] = Tail(@)] \/ plan' = [plan EXCEPT ![w] = <<>>],
           UNCHANGED <<commits, refs, daemon, left>>,
           last' \in {None} \cup Operation(DOMAIN commits),
           dirs' \subseteq Workspaces,
           index' \in [Workspaces -> Trees], work' \in [Workspaces -> Trees],
           base' \in [Workspaces -> Commits(DOMAIN commits)],
           excused \subseteq excused', excused' \subseteq Workspaces
    PROVE  WorkspacesInv'
<1>1. PICK steps \in Seq(Write(DOMAIN commits)) :
         Quiet(w, steps) /\ plan' = [plan EXCEPT ![w] = steps]
  <2>1. CASE plan' = [plan EXCEPT ![w] = Tail(@)]
    <3>1. plan' = [plan EXCEPT ![w] = Tail(plan[w])]
      BY <2>1
    <3> QED
      BY <3>1, Running
  <2>2. CASE plan' = [plan EXCEPT ![w] = <<>>]
    <3>1. <<>> \in Seq(Write(DOMAIN commits)) /\ Quiet(w, <<>>)
      BY DEF Quiet
    <3> QED
      BY <2>2, <3>1
  <2> QED
    BY <2>1, <2>2
<1>2. plan' \in [Workspaces -> Seq(Write(DOMAIN commits))] /\ AloneInv' /\ FinishInv'
  BY <1>1, GoesOn
<1>3. TypeInv'
  BY <1>2 DEF WorkspacesInv, TypeInv
<1>4. OneHolder'
  BY DEF WorkspacesInv, OneHolder
<1> QED
  BY <1>2, <1>3, <1>4 DEF WorkspacesInv

\* The writes of a checkout, of a stage, and of a workspace made or removed.
LEMMA WriteKeeps ==
    ASSUME WorkspacesInv, NEW w \in Workspaces,
           \/ StepFiles(w) \/ StepIndex(w) \/ StepStage(w) \/ StepRecord(w)
           \/ StepMark(w) \/ StepPopulate(w)
    PROVE  WorkspacesInv'
<1> DEFINE D == DOMAIN commits
           t == Head(plan[w])
           tree == CommitTree(t.of)
<1>1. /\ TypeInv /\ commits \in Seq(Node) /\ excused \subseteq Workspaces
      /\ last \in {None} \cup Operation(D) /\ dirs \subseteq Workspaces
      /\ index \in [Workspaces -> Trees] /\ work \in [Workspaces -> Trees]
      /\ base \in [Workspaces -> Commits(D)]
  BY DEF WorkspacesInv, TypeInv
<1>2. plan[w] # <<>>
  BY DEF StepFiles, StepIndex, StepStage, StepRecord, StepMark, StepPopulate, At
<1>3. /\ t.op = "files" => t \in FilesStep(D)
      /\ t.op = "index" => t \in IndexStep(D)
      /\ t.op = "stage" => t \in StageStep
      /\ t.op = "record" => t \in RecordStep
      /\ t.op \in {"mark", "unmark"} => t \in MarkStep
      /\ t.op = "populate" => t \in PopulateStep(D)
  BY <1>2, Running, KindOfWrite
<1>4. \A c \in Commits(D) : CommitTree(c) \in Trees
  <2>1. TAKE c \in Commits(D)
  <2>2. c # None => commits[c] \in Node
    BY <1>1 DEF Commits
  <2> QED
    BY <2>2, TreesAre DEF CommitTree, TreeOf, Node
<1>5. CASE StepFiles(w)
  <2>1. t.of \in Commits(D)
    BY <1>3, <1>5 DEF StepFiles, At, FilesStep
  <2>2. tree \in Trees
    BY <1>4, <2>1
  <2> HIDE DEF tree
  <2>3. \/ /\ plan' = [plan EXCEPT ![w] = <<>>] /\ excused' = excused \cup {w} /\ work' = work
        \/ /\ plan' = [plan EXCEPT ![w] = Tail(@)] /\ excused' = excused
           /\ work' = [work EXCEPT ![w] = CheckedOut(t.old, tree, @)]
    BY <1>5 DEF StepFiles, Done, tree
  <2>4. UNCHANGED <<commits, refs, last, dirs, index, daemon, left, base>>
    BY <1>5 DEF StepFiles
  <2>5. work' \in [Workspaces -> Trees]
    BY <1>1, <2>2, <2>3, TreesAre
  <2>6. excused \subseteq excused' /\ excused' \subseteq Workspaces
    BY <1>1, <2>3
  <2>7. plan' = [plan EXCEPT ![w] = Tail(@)] \/ plan' = [plan EXCEPT ![w] = <<>>]
    BY <2>3
  <2> QED
    BY <1>1, <1>2, <2>4, <2>5, <2>6, <2>7, StepKeeps
<1>6. CASE StepIndex(w)
  <2>1. t.of \in Commits(D)
    BY <1>3, <1>6 DEF StepIndex, At, IndexStep
  <2>2. index' \in [Workspaces -> Trees] /\ base' \in [Workspaces -> Commits(D)]
    BY <1>1, <1>4, <1>6, <2>1 DEF StepIndex
  <2>3. plan' = [plan EXCEPT ![w] = Tail(@)]
    BY <1>6 DEF StepIndex, Done
  <2>4. UNCHANGED <<commits, refs, last, dirs, work, daemon, left, excused>>
    BY <1>6 DEF StepIndex
  <2> QED
    BY <1>1, <1>2, <2>2, <2>3, <2>4, StepKeeps
<1>7. CASE StepStage(w)
  <2>1. t.index \in Trees
    BY <1>3, <1>7 DEF StepStage, At, StageStep
  <2>2. index' \in [Workspaces -> Trees]
    BY <1>1, <1>7, <2>1 DEF StepStage
  <2>3. plan' = [plan EXCEPT ![w] = Tail(@)]
    BY <1>7 DEF StepStage, Done
  <2>4. UNCHANGED <<commits, refs, last, dirs, work, daemon, left, base, excused>>
    BY <1>7 DEF StepStage
  <2> QED
    BY <1>1, <1>2, <2>2, <2>3, <2>4, StepKeeps
<1>8. CASE StepRecord(w)
  <2>1. t.changes \in IndexChanges
    BY <1>3, <1>8 DEF StepRecord, At, RecordStep
  <2>2. last' \in {None} \cup Operation(D)
    BY <1>8, <2>1 DEF StepRecord, IndexOp, Operation
  <2>3. plan' = [plan EXCEPT ![w] = Tail(@)]
    BY <1>8 DEF StepRecord, Done
  <2>4. UNCHANGED <<commits, refs, dirs, index, work, daemon, left, base, excused>>
    BY <1>8 DEF StepRecord
  <2> QED
    BY <1>1, <1>2, <2>2, <2>3, <2>4, StepKeeps
<1>9. CASE StepMark(w)
  <2>1. t.ws \in Workspaces
    BY <1>3, <1>9 DEF StepMark, At, MarkStep
  <2>2. dirs' \subseteq Workspaces
    BY <1>1, <1>9, <2>1 DEF StepMark
  <2>3. plan' = [plan EXCEPT ![w] = Tail(@)]
    BY <1>9 DEF StepMark, Done
  <2>4. UNCHANGED <<commits, refs, last, index, work, daemon, left, base, excused>>
    BY <1>9 DEF StepMark
  <2> QED
    BY <1>1, <1>2, <2>2, <2>3, <2>4, StepKeeps
<1>10. CASE StepPopulate(w)
  <2>1. t.of \in Commits(D) /\ t.ws \in Workspaces
    BY <1>3, <1>10 DEF StepPopulate, At, PopulateStep
  <2>2. tree \in Trees
    BY <1>4, <2>1
  <2> HIDE DEF tree
  <2>3. \/ excused' = excused \cup {t.ws} /\ UNCHANGED <<index, work, base>>
        \/ /\ work' = [work EXCEPT ![t.ws] = CheckedOut({}, tree, @)]
           /\ index' = [index EXCEPT ![t.ws] = tree]
           /\ base' = [base EXCEPT ![t.ws] = t.of]
           /\ UNCHANGED excused
    BY <1>10 DEF StepPopulate, tree
  <2>4. /\ work' \in [Workspaces -> Trees] /\ index' \in [Workspaces -> Trees]
        /\ base' \in [Workspaces -> Commits(D)]
    BY <1>1, <2>1, <2>2, <2>3, TreesAre
  <2>5. excused \subseteq excused' /\ excused' \subseteq Workspaces
    BY <1>1, <2>1, <2>3
  <2>6. plan' = [plan EXCEPT ![w] = Tail(@)]
    BY <1>10 DEF StepPopulate, Done
  <2>7. UNCHANGED <<commits, refs, last, dirs, daemon, left>>
    BY <1>10 DEF StepPopulate
  <2> QED
    BY <1>1, <1>2, <2>4, <2>5, <2>6, <2>7, StepKeeps
<1> QED
  BY <1>5, <1>6, <1>7, <1>8, <1>9, <1>10

\* A process dies in the middle of a command.
LEMMA CrashKeeps ==
    ASSUME WorkspacesInv, NEW w \in Workspaces, Crash(w)
    PROVE  WorkspacesInv'
<1> DEFINE D == DOMAIN commits
           s == plan[w]
           more == {t.ws : t \in {q \in ToSet(s) : q.op \in {"populate", "unmark"}}}
<1>1. /\ s # <<>> /\ plan' = [plan EXCEPT ![w] = <<>>]
      /\ excused' = excused \cup {w} \cup more
      /\ UNCHANGED <<commits, refs, last, dirs, index, work, daemon, left, base>>
  BY DEF Crash, disk
<1>2. /\ last \in {None} \cup Operation(D) /\ dirs \subseteq Workspaces
      /\ index \in [Workspaces -> Trees] /\ work \in [Workspaces -> Trees]
      /\ base \in [Workspaces -> Commits(D)] /\ excused \subseteq Workspaces
  BY DEF WorkspacesInv, TypeInv
<1>3. more \subseteq Workspaces
  <2>1. \A q \in ToSet(s) : q \in Write(D)
    <3>1. s \in Seq(Write(D))
      BY DEF WorkspacesInv, TypeInv
    <3> HIDE DEF s, D
    <3> QED
      BY <3>1 DEF ToSet
  <2>2. \A q \in Write(D) : q.op \in {"populate", "unmark"} => q.ws \in Workspaces
    BY KindOfWrite DEF MarkStep, PopulateStep
  <2> HIDE DEF s
  <2> QED
    BY <2>1, <2>2
<1> HIDE DEF more
<1> QED
  BY <1>1, <1>2, <1>3, StepKeeps

\* A push to the server moves a branch: no HEAD, and what a finish under way was
\* promised of develop is promised no more.
LEMMA PushKeeps ==
    ASSUME WorkspacesInv, NEW b \in Branches, NEW c \in DOMAIN commits, Push(b, c)
    PROVE  WorkspacesInv'
<1> DEFINE D == DOMAIN commits
           ch == Change(b, refs[b], c)
           idle == \A w \in Workspaces : plan[w] = <<>>
<1>1. /\ TypeInv /\ OneHolder /\ AloneInv /\ FinishInv
      /\ refs' = [refs EXCEPT ![b] = c] /\ last' = RefOp(ch)
      /\ left' = left - 1 /\ left > 0
      /\ excused' = IF idle THEN excused \cup Disturbed(None, refs') ELSE Workspaces
      /\ UNCHANGED <<commits, dirs, index, work, plan, daemon, base>>
  BY DEF WorkspacesInv, Push
<1>2. /\ refs \in [Name -> Sides(D)] /\ \A r \in Name : refs[r] \in Side(D, r)
      /\ left \in Nat /\ excused \subseteq Workspaces
  BY <1>1 DEF TypeInv, Refs
<1>3. b \in Name /\ b \notin Workspaces /\ c \in Side(D, b) /\ c \in Sides(D)
  BY WorkspacesAssumption DEF Name, Side, Sides
<1>4. refs' \in Refs(D)
  BY <1>1, <1>2, <1>3 DEF Refs
<1>5. last' \in Operation(D)
  <2> DEFINE old == refs[b]
  <2>1. old \in Side(D, b)
    BY <1>2, <1>3
  <2> HIDE DEF old, D
  <2>2. OneRef(D, Change(b, old, c), b, old, c)
    BY <1>3, <2>1, OneChange
  <2>3. ch \in RefChanges(D)
    BY <2>2 DEF OneRef, old
  <2> QED
    BY <1>1, <2>3 DEF RefOp, Operation
<1>6. excused \subseteq excused' /\ excused' \subseteq Workspaces
  BY <1>1, <1>2 DEF Disturbed
<1>7. left' \in Nat
  BY <1>1, <1>2
<1> HIDE DEF ch
<1>8. TypeInv'
  BY <1>1, <1>4, <1>5, <1>6, <1>7 DEF TypeInv
<1>9. OneHolder'
  <2>1. \A w \in Workspaces : refs'[w] = refs[w]
    BY <1>1, <1>2, <1>3
  <2> QED
    BY <1>1, <2>1 DEF OneHolder
<1>10. AloneInv'
  BY <1>1 DEF AloneInv
<1>11. FinishInv'
  <2>1. SUFFICES ASSUME NEW v \in Workspaces
                 PROVE  Sound(v, commits, refs'["develop"], Calm(daemon, excused', v), plan[v])
    BY <1>1 DEF FinishInv
  <2>2. CASE idle
    BY <2>2 DEF Sound
  <2>3. CASE ~idle
    <3>1. Sound(v, commits, refs["develop"], Calm(daemon, excused, v), plan[v])
      BY <1>1 DEF FinishInv
    <3>2. ~Calm(daemon, excused', v)
      BY <1>1, <2>3 DEF Calm
    <3>3. Graph(commits) /\ Grown(commits, commits)
      BY <1>1 DEF TypeInv, Grown
    <3> QED
      BY <3>1, <3>2, <3>3, SoundStays
  <2> QED
    BY <2>2, <2>3
<1> QED
  BY <1>8, <1>9, <1>10, <1>11 DEF WorkspacesInv

-----------------------------------------------------------------------------
(* The theorems.                                                           *)

\* The repository a command finds first.
LEMMA StartsWell ==
    ASSUME Init PROVE WorkspacesInv
<1>1. PICK s \in Starts :
        /\ commits = s.commits
        /\ refs = [r \in Branches \cup Workspaces |->
                      IF r \in DOMAIN s.refs THEN s.refs[r] ELSE None]
        /\ last = None
        /\ dirs = {w \in Workspaces : refs[w] # None}
        /\ base = [w \in Workspaces |-> IF w \in dirs THEN refs[refs[w]] ELSE None]
        /\ index = [w \in Workspaces |-> IF w \in dirs THEN TreeOf(commits, base[w])
                                         ELSE EmptyTree]
        /\ work = index
        /\ plan = [w \in Workspaces |-> <<>>]
        /\ daemon = s.daemon
        /\ left = s.commands
        /\ excused = {}
  BY DEF Init
<1> DEFINE D == DOMAIN commits
<1>2. /\ commits \in Seq(Node)
      /\ \A c \in D : ParentsOf(commits, c) \subseteq 1 .. c - 1
      /\ \A b \in DOMAIN s.refs \cap Branches : s.refs[b] \in D
      /\ \A w \in DOMAIN s.refs \cap Workspaces :
            /\ s.refs[w] \in DOMAIN s.refs \cap Branches
            /\ \A v \in DOMAIN s.refs \cap Workspaces : s.refs[v] = s.refs[w] => v = w
      /\ daemon \in BOOLEAN /\ left \in Nat
  BY <1>1, StartsAssumption DEF Node
<1>3. Graph(commits)
  <2>1. D = 1 .. Len(commits) /\ Len(commits) \in Nat
    BY <1>2
  <2> QED
    BY <1>2, <2>1 DEF Graph
<1>4. Workspaces \cap Branches = {} /\ None \notin Branches /\ None \notin Nat
  BY WorkspacesAssumption
<1>5. /\ \A b \in Branches : refs[b] \in {None} \cup D
      /\ \A w \in Workspaces : refs[w] = IF w \in DOMAIN s.refs THEN s.refs[w] ELSE None
      /\ \A w \in Workspaces : w \in DOMAIN s.refs => refs[w] \in Branches /\ refs[refs[w]] \in D
  BY <1>1, <1>2
<1>6. refs \in Refs(D)
  <2>1. refs = [r \in Name |-> refs[r]]
    BY <1>1 DEF Name
  <2>2. \A r \in Name : refs[r] \in Side(D, r) /\ refs[r] \in Sides(D)
    BY <1>4, <1>5 DEF Name, Side, Sides
  <2> QED
    BY <2>1, <2>2 DEF Refs
<1>7. \A w \in dirs : refs[w] \in Branches /\ refs[refs[w]] \in D
  BY <1>1, <1>5
<1>8. base \in [Workspaces -> Commits(D)] /\ \A w \in dirs : base[w] \in D
  BY <1>1, <1>7 DEF Commits
<1>9. index \in [Workspaces -> Trees]
  <2>1. \A w \in dirs : TreeOf(commits, base[w]) \in Trees
    <3>1. \A c \in D : commits[c] \in Node
      BY <1>2
    <3> QED
      BY <1>8, <3>1 DEF TreeOf, Node
  <2> QED
    BY <1>1, <2>1, TreesAre
<1>10. plan \in [Workspaces -> Seq(Write(D))]
  BY <1>1
<1>11. TypeInv
  <2>1. index \in [Workspaces -> Trees] /\ work \in [Workspaces -> Trees]
    BY <1>1, <1>9, TreesAre
  <2> QED
    BY <1>1, <1>2, <1>3, <1>6, <1>8, <1>10, <2>1 DEF TypeInv
<1>12. OneHolder
  BY <1>2, <1>5 DEF OneHolder
<1>13. AloneInv /\ FinishInv
  BY <1>1 DEF AloneInv, FinishInv, Sound
<1> QED
  BY <1>11, <1>12, <1>13 DEF WorkspacesInv

\* Every step keeps the invariant.
LEMMA NextKeeps ==
    ASSUME WorkspacesInv, [Next]_vars PROVE WorkspacesInv'
<1>1. CASE \E w \in Workspaces : Command(w)
  BY <1>1, CommandKeeps
<1>2. CASE \E w \in Workspaces : Steps(w)
  BY <1>2, TxKeeps, WriteKeeps DEF Steps
<1>3. CASE \E w \in Workspaces : Crash(w)
  BY <1>3, CrashKeeps
<1>4. CASE \E b \in Branches, c \in DOMAIN commits : Push(b, c)
  BY <1>4, PushKeeps
<1>5. CASE UNCHANGED vars
  <2>1. UNCHANGED <<commits, refs, last, dirs, index, work, plan, daemon, left, base, excused>>
    BY <1>5 DEF vars
  <2>2. TypeInv'
    BY <2>1 DEF WorkspacesInv, TypeInv
  <2>3. OneHolder' /\ AloneInv' /\ FinishInv'
    BY <2>1 DEF WorkspacesInv, OneHolder, AloneInv, FinishInv
  <2> QED
    BY <2>2, <2>3 DEF WorkspacesInv
<1> QED
  BY <1>1, <1>2, <1>3, <1>4, <1>5 DEF Next

\* The inductive invariant: the types; no branch in two workspaces; one command at a
\* time under a daemon; and a finish, while it waits to be written, is of commits in
\* which the topic is in its target.
THEOREM WorkspacesInvariant == Spec => []WorkspacesInv
<1>1. Init => WorkspacesInv
  BY StartsWell
<1>2. WorkspacesInv /\ [Next]_vars => WorkspacesInv'
  BY NextKeeps
<1> QED
  BY <1>1, <1>2, PTL DEF Spec

\* The refs, the operations, the indexes, the files and the writes of every plan are of
\* their types (the HEADs name branches, the branches commits there are).
THEOREM WorkspacesTypes == Spec => []TypeInv
<1>1. WorkspacesInv => TypeInv
  BY DEF WorkspacesInv
<1> QED
  BY <1>1, WorkspacesInvariant, PTL

\* No branch is checked out in two workspaces (one_workspace_per_branch in refstore),
\* whatever commands run in them, one at a time or interleaved write by write.
THEOREM OneWorkspacePerBranch == Spec => []OneHolder
<1>1. WorkspacesInv => OneHolder
  BY DEF WorkspacesInv
<1> QED
  BY <1>1, WorkspacesInvariant, PTL

\* Refs and the plan of a workspace change together in a transaction only, and when one
\* is made every ref in it is as the command saw it.
LEMMA RefsMoveInTransactions ==
    ASSUME WorkspacesInv, [Next]_vars, NEW w \in Workspaces,
           refs' # refs, plan'[w] # plan[w]
    PROVE  /\ plan[w] # <<>> /\ Head(plan[w]).op = "tx" /\ refs' = Applied(Head(plan[w]).changes)
           /\ \A r \in DOMAIN Head(plan[w]).changes : refs[r] = Head(plan[w]).changes[r].old
<1>1. plan \in [Workspaces -> Seq(Write(DOMAIN commits))]
  BY DEF WorkspacesInv, TypeInv
<1>2. PICK v \in Workspaces : StepTx(v)
  <2>1. ASSUME NEW v \in Workspaces, Command(v) PROVE refs' = refs
    BY <2>1 DEF Command, Edit, Add, Commit, Amend, Recorded, CreateBranch, DeleteBranch,
       SwitchCreate, Switch, FlowInit, FeatureStart, TopicStart, FeatureFinish, TopicFinish,
       Undo, WorkspaceAdd, WorkspaceRemove, Begin, BeginWith, Run, disk
  <2>2. ASSUME NEW v \in Workspaces,
               \/ StepFiles(v) \/ StepIndex(v) \/ StepStage(v) \/ StepRecord(v)
               \/ StepMark(v) \/ StepPopulate(v) \/ Crash(v)
        PROVE  refs' = refs
    BY <2>2 DEF StepFiles, StepIndex, StepStage, StepRecord, StepMark, StepPopulate, Crash, disk
  <2>3. ASSUME NEW b \in Branches, NEW c \in DOMAIN commits, Push(b, c) PROVE plan' = plan
    BY <2>3 DEF Push
  <2>4. UNCHANGED vars => refs' = refs
    BY DEF vars
  <2> QED
    BY <2>1, <2>2, <2>3, <2>4, SMTT(30) DEF Next, Steps
<1>3. v = w
  BY <1>1, <1>2 DEF StepTx
<1>4. plan[w] # <<>> /\ Head(plan[w]).op = "tx"
  BY <1>2, <1>3 DEF StepTx, At
<1>5. /\ \A r \in DOMAIN Head(plan[w]).changes : refs[r] = Head(plan[w]).changes[r].old
      /\ refs' = Applied(Head(plan[w]).changes)
  BY <1>2, <1>3 DEF StepTx
<1> QED
  BY <1>4, <1>5

\* A finished topic is in its target when its branch goes, and in develop as well if
\* nobody came in between (flow_feature_finish, flow_topic_finish_dual).
THEOREM FinishedTopicsAreKept == Spec => FinishKeepsTopic
<1> DEFINE Keeps(w, t) ==
             /\ At(w, "tx") /\ plan'[w] # plan[w]
             /\ {t, w} \subseteq DOMAIN Head(plan[w]).changes
             /\ ~Head(plan[w]).checkout
             /\ refs[t] # None /\ refs'[t] = None
             => \A b \in {FlowTarget(t)} \cup (IF daemon /\ w \notin excused THEN {"develop"} ELSE {}) :
                   IsAncestor(commits, refs[t], refs'[b])
<1>1. ASSUME WorkspacesInv, [Next]_vars, NEW w \in Workspaces, NEW t \in Topics
      PROVE  Keeps(w, t)
  <2> DEFINE s == Head(plan[w])
             ch == s.changes
  <2>1. SUFFICES ASSUME At(w, "tx"), plan'[w] # plan[w], {t, w} \subseteq DOMAIN ch, ~s.checkout,
                        refs[t] # None, refs'[t] = None
                 PROVE  \A b \in {FlowTarget(t)}
                                 \cup (IF daemon /\ w \notin excused THEN {"develop"} ELSE {}) :
                           IsAncestor(commits, refs[t], refs'[b])
    OBVIOUS
  <2>2. /\ plan[w] # <<>> /\ s.op = "tx" /\ refs' = Applied(ch)
        /\ \A r \in DOMAIN ch : refs[r] = ch[r].old
    BY <1>1, <2>1, RefsMoveInTransactions
  <2>3. /\ s = plan[w][1]
        /\ Sound(w, commits, refs["develop"], Calm(daemon, excused, w), plan[w])
        /\ DOMAIN refs = Name
    BY <1>1, <2>2, Running DEF WorkspacesInv, FinishInv, TypeInv, Refs
  <2>4. t \in Name /\ FlowTarget(t) \in Name /\ "develop" \in Name
    BY DEF Name, Branches, FlowTarget
  <2>5. \A r \in Name : refs'[r] = IF r \in DOMAIN ch THEN ch[r].new ELSE refs[r]
    BY <2>2, <2>3 DEF Applied
  <2>6. ch[t].new = None /\ refs[t] = ch[t].old
    BY <2>1, <2>2, <2>4, <2>5
  <2>7. Finishing(w, s)
    BY <2>1, <2>2, <2>6 DEF Finishing
  <2>8. Finishes(commits, refs["develop"], Calm(daemon, excused, w), ch)
    BY <2>2, <2>3, <2>7 DEF Sound
  <2>9. /\ Lands(commits, ch, t)
        /\ Calm(daemon, excused, w) => LandsBack(commits, refs["develop"], ch, t)
    BY <2>1, <2>6, <2>8 DEF Finishes
  <2> HIDE DEF s, ch
  <2>10. IsAncestor(commits, refs[t], refs'[FlowTarget(t)])
    BY <2>4, <2>5, <2>6, <2>9 DEF Lands
  <2>11. daemon /\ w \notin excused => IsAncestor(commits, refs[t], refs'["develop"])
    BY <2>4, <2>5, <2>6, <2>9 DEF LandsBack, Calm
  <2> QED
    BY <2>10, <2>11
<1>2. WorkspacesInv /\ [Next]_vars => [\A w \in Workspaces, t \in Topics : Keeps(w, t)]_vars
  BY <1>1
<1> QED
  BY <1>2, WorkspacesInvariant, PTL DEF Spec, FinishKeepsTopic


-----------------------------------------------------------------------------
(* What the files of a workspace will be.                                  *)
(*                                                                         *)
(* v has the plan p to make; rs and bs are the refs and the commits the    *)
(* indexes were made from, ds the workspaces there are, ex the excused.    *)

In(p) == {p[i] : i \in 1 .. Len(p)}

\* The ref r is at x when p is made.
Becomes(p, rs, r, x) ==
    LET at == {s \in In(p) : s.op = "tx" /\ r \in DOMAIN s.changes}
    IN (\A s \in at : s.changes[r].new = x) /\ (at = {} => rs[r] = x)

\* A write that makes the index of w from a commit, and the commit.
SetsBase(s, v, w) ==
    \/ s.op = "index" /\ v = w
    \/ s.op = "tx" /\ v = w /\ s.made # None
    \/ s.op = "populate" /\ s.ws = w
Given(s) == IF s.op = "tx" THEN s.made ELSE s.of
MadeFrom(p, bs, v, w, c) ==
    LET at == {s \in In(p) : SetsBase(s, v, w)}
    IN (\A s \in at : Given(s) = c) /\ (at = {} => bs[w] = c)

\* The index of w is made from the commit its HEAD names; or will be, once p is made.
Now(rs, bs, w) == rs[w] # None /\ bs[w] = rs[rs[w]]
WillFor(p, rs, bs, v, w, h, c) ==
    Becomes(p, rs, w, h) /\ Becomes(p, rs, h, c) /\ MadeFrom(p, bs, v, w, c)
Will(p, rs, bs, v, w) == \E h \in Branches : \E c : WillFor(p, rs, bs, v, w, h, c)

Arrives(p, w) == \E s \in In(p) : s.op = "populate" /\ s.ws = w
Departs(p, w) == p # <<>> /\ p[1].op = "unmark" /\ p[1].ws = w

\* v does not go away with p, and p does not end in a checkout still to be planned.
Settled(v, p) ==
    \A s \in In(p) : ~(s.op = "unmark" /\ s.ws = v) /\ ~(s.op = "tx" /\ s.checkout)

\* While v makes p, everyone is where its HEAD is, or will be, or is on its way.
Good(v, p, rs, bs, ds, ex) ==
    /\ \A w \in ds \ ex : \/ Now(rs, bs, w)
                          \/ p # <<>> /\ v = w
                          \/ Arrives(p, w) \/ Departs(p, w)
    /\ v \in ds \ ex /\ p # <<>> /\ Settled(v, p) => Will(p, rs, bs, v, v)
    /\ \A x \in Workspaces \ ex : Arrives(p, x) => Will(p, rs, bs, v, x)

\* A HEAD that is not one's own is moved by who removes or adds its workspace; a
\* workspace is filled last, and its name goes back if the transaction is refused; a
\* checkout still to be planned is last.
Placed(v, p, i) ==
    /\ p[i].op = "tx" /\ p[i].checkout => i = Len(p)
    /\ p[i].op = "tx" /\ ~p[i].checkout =>
         \A w \in (DOMAIN p[i].changes \cap Workspaces) \ {v} :
            \/ i + 1 \in 1 .. Len(p) /\ p[i + 1].op = "unmark" /\ p[i + 1].ws = w
            \/ \E j \in i + 1 .. Len(p) : p[j].op = "populate" /\ p[j].ws = w
    /\ \A j \in i + 1 .. Len(p) : p[j].op = "populate" =>
         /\ p[i].op \in {"mark", "tx"}
         /\ p[i].op = "tx" => p[i].otherwise = <<[op |-> "unmark", ws |-> p[j].ws]>>
    /\ p[i].op = "mark" =>
         \E j \in i + 1 .. Len(p) : p[j].op = "populate" /\ p[j].ws = p[i].ws
    /\ p[i].op = "populate" => i = Len(p)
Shape(v, p) == \A i \in 1 .. Len(p) : Placed(v, p, i)

\* A write of p, and what follows it.
First(v, s, r) ==
    /\ s.op = "tx" /\ s.checkout => r = <<>>
    /\ s.op = "tx" /\ ~s.checkout =>
         \A w \in (DOMAIN s.changes \cap Workspaces) \ {v} : Departs(r, w) \/ Arrives(r, w)
    /\ \A x : Arrives(r, x) =>
         /\ s.op \in {"mark", "tx"}
         /\ s.op = "tx" => s.otherwise = <<[op |-> "unmark", ws |-> x]>>
    /\ s.op = "mark" => Arrives(r, s.ws)
    /\ s.op = "populate" => r = <<>>

\* The first write of a plan.
LEMMA FirstOf ==
    ASSUME NEW S, NEW p \in Seq(S), p # <<>>, NEW v, Shape(v, p)
    PROVE  /\ In(p) = {p[1]} \cup In(Tail(p)) /\ Head(p) = p[1]
           /\ First(v, p[1], Tail(p))
           /\ Shape(v, Tail(p))
<1> DEFINE q == Tail(p)
<1>1. /\ Len(p) \in Nat \ {0} /\ q \in Seq(S) /\ Len(q) = Len(p) - 1
      /\ \A i \in 1 .. Len(q) : q[i] = p[i + 1] /\ i + 1 \in 2 .. Len(p)
      /\ 1 \in 1 .. Len(p) /\ Head(p) = p[1]
  OBVIOUS
<1>2. \A j \in 2 .. Len(p) : j - 1 \in 1 .. Len(q) /\ q[j - 1] = p[j]
  BY <1>1
<1> HIDE DEF q
<1>3. q = <<>> <=> Len(p) = 1
  <2>1. q = <<>> <=> Len(q) = 0
    BY <1>1
  <2> QED
    BY <1>1, <2>1
<1>4. In(p) = {p[1]} \cup In(q)
  <2>1. \A i \in 1 .. Len(p) : i = 1 \/ i \in 2 .. Len(p)
    BY <1>1
  <2>2. \A i \in 1 .. Len(q) : i + 1 \in 1 .. Len(p)
    BY <1>1
  <2>3. In(p) \subseteq {p[1]} \cup In(q)
    BY <1>2, <2>1 DEF In
  <2>4. p[1] \in In(p) /\ In(q) \subseteq In(p)
    BY <1>1, <2>2 DEF In
  <2> QED
    BY <2>3, <2>4
<1>5. Placed(v, p, 1)
  BY <1>1 DEF Shape
<1>6. First(v, p[1], q)
  <2>1. \A x : Arrives(q, x) <=> \E j \in 2 .. Len(p) : p[j].op = "populate" /\ p[j].ws = x
    BY <1>1, <1>2 DEF Arrives, In
  <2>2. \A x : 2 \in 1 .. Len(p) /\ p[2].op = "unmark" /\ p[2].ws = x => Departs(q, x)
    BY <1>1, <1>2, <1>3 DEF Departs
  <2> QED
    BY <1>3, <1>5, <2>1, <2>2 DEF Placed, First
<1>7. Shape(v, q)
  <2>1. SUFFICES ASSUME NEW i \in 1 .. Len(q) PROVE Placed(v, q, i)
    BY DEF Shape
  <2> DEFINE k == i + 1
  <2>2. /\ Placed(v, p, k) /\ q[i] = p[k]
        /\ i = Len(q) <=> k = Len(p)
    BY <1>1 DEF Shape
  <2>3. /\ \A j \in k .. Len(q) : q[j] = p[j + 1] /\ j + 1 \in k + 1 .. Len(p)
        /\ \A j \in k + 1 .. Len(p) : q[j - 1] = p[j] /\ j - 1 \in k .. Len(q)
        /\ k + 1 \in 1 .. Len(p) => k \in 1 .. Len(q) /\ q[k] = p[k + 1]
    BY <1>1, <1>2
  <2> HIDE DEF k
  <2>4. /\ q[i].op = "tx" /\ q[i].checkout => i = Len(q)
        /\ q[i].op = "populate" => i = Len(q)
    BY <2>2 DEF Placed
  <2>5. ASSUME q[i].op = "tx", ~q[i].checkout,
               NEW w \in (DOMAIN q[i].changes \cap Workspaces) \ {v}
        PROVE  \/ k \in 1 .. Len(q) /\ q[k].op = "unmark" /\ q[k].ws = w
               \/ \E j \in k .. Len(q) : q[j].op = "populate" /\ q[j].ws = w
    <3>1. \/ k + 1 \in 1 .. Len(p) /\ p[k + 1].op = "unmark" /\ p[k + 1].ws = w
          \/ \E j \in k + 1 .. Len(p) : p[j].op = "populate" /\ p[j].ws = w
      BY <2>2, <2>5 DEF Placed
    <3> QED
      BY <2>3, <3>1
  <2>6. ASSUME NEW j \in k .. Len(q), q[j].op = "populate"
        PROVE  /\ q[i].op \in {"mark", "tx"}
               /\ q[i].op = "tx" => q[i].otherwise = <<[op |-> "unmark", ws |-> q[j].ws]>>
    <3>1. PICK m \in k + 1 .. Len(p) : p[m] = q[j]
      BY <2>3
    <3>2. /\ p[k].op \in {"mark", "tx"}
          /\ p[k].op = "tx" => p[k].otherwise = <<[op |-> "unmark", ws |-> p[m].ws]>>
      BY <2>2, <2>6, <3>1 DEF Placed
    <3> QED
      BY <2>2, <3>1, <3>2
  <2>7. q[i].op = "mark" =>
           \E j \in k .. Len(q) : q[j].op = "populate" /\ q[j].ws = q[i].ws
    BY <2>2, <2>3 DEF Placed
  <2> QED
    BY <2>4, <2>5, <2>6, <2>7 DEF Placed, k
<1> QED
  BY <1>1, <1>4, <1>6, <1>7 DEF q

\* What a write does to the refs, and to the commit of the index of w.
After(s, rs, rs2) ==
    \A x \in Name : rs2[x] = IF s.op = "tx" /\ x \in DOMAIN s.changes
                             THEN s.changes[x].new ELSE rs[x]
Remade(s, v, w, bs, bs2) == bs2[w] = IF SetsBase(s, v, w) THEN Given(s) ELSE bs[w]

\* What p promises stays as its first write is made.
LEMMA WillStays ==
    ASSUME NEW p, NEW s, NEW r, In(p) = {s} \cup In(r),
           NEW v, NEW w \in Workspaces, NEW rs, NEW bs, NEW rs2, NEW bs2,
           After(s, rs, rs2), Remade(s, v, w, bs, bs2), Will(p, rs, bs, v, w)
    PROVE  Will(r, rs2, bs2, v, w)
<1>0. PICK h \in Branches : \E c : WillFor(p, rs, bs, v, w, h, c)
  BY DEF Will
<1>1. PICK c : WillFor(p, rs, bs, v, w, h, c)
  BY <1>0
<1>2. ASSUME NEW x \in Name, NEW y, Becomes(p, rs, x, y) PROVE Becomes(r, rs2, x, y)
  <2>1. rs2[x] = IF s.op = "tx" /\ x \in DOMAIN s.changes THEN s.changes[x].new ELSE rs[x]
    BY DEF After
  <2>2. \A t \in In(p) : t.op = "tx" /\ x \in DOMAIN t.changes => t.changes[x].new = y
    BY <1>2 DEF Becomes
  <2>3. (\A t \in In(p) : ~(t.op = "tx" /\ x \in DOMAIN t.changes)) => rs[x] = y
    BY <1>2 DEF Becomes
  <2>4. \A t \in In(r) : t.op = "tx" /\ x \in DOMAIN t.changes => t.changes[x].new = y
    BY <2>2
  <2>5. (\A t \in In(r) : ~(t.op = "tx" /\ x \in DOMAIN t.changes)) => rs2[x] = y
    BY <2>1, <2>2, <2>3
  <2> QED
    BY <2>4, <2>5 DEF Becomes
<1>3. MadeFrom(r, bs2, v, w, c)
  <2>1. \A t \in In(p) : SetsBase(t, v, w) => Given(t) = c
    BY <1>1 DEF WillFor, MadeFrom
  <2>2. (\A t \in In(p) : ~SetsBase(t, v, w)) => bs[w] = c
    BY <1>1 DEF WillFor, MadeFrom
  <2>3. (\A t \in In(r) : ~SetsBase(t, v, w)) => bs2[w] = c
    BY <2>1, <2>2 DEF Remade
  <2> QED
    BY <2>1, <2>3 DEF MadeFrom
<1>4. h \in Name /\ w \in Name
  BY DEF Name
<1> QED
  BY <1>1, <1>2, <1>3, <1>4 DEF WillFor, Will

\* When all is made, it is so.
LEMMA WillIsNow ==
    ASSUME NEW rs, NEW bs, NEW v, NEW w, NEW r, In(r) = {}, Will(r, rs, bs, v, w)
    PROVE  Now(rs, bs, w)
<1>0. PICK h \in Branches : \E c : WillFor(r, rs, bs, v, w, h, c)
  BY DEF Will
<1>1. PICK c : WillFor(r, rs, bs, v, w, h, c)
  BY <1>0
<1>2. rs[w] = h /\ rs[h] = c /\ bs[w] = c
  BY <1>1 DEF WillFor, Becomes, MadeFrom
<1> QED
  BY <1>2, WorkspacesAssumption DEF Now

\* The others, while v makes a transaction: who is where its HEAD is stays there, or its
\* HEAD is moved.
Apartness(v, s, rs) ==
    s.op = "tx" => \A w \in Workspaces \ {v} : w \notin DOMAIN s.changes /\ rs[w] # None
                                               => rs[w] \notin DOMAIN s.changes

\* A workspace that is there, or no more, after a write.
Marked2(s, ds) == IF s.op = "mark" THEN ds \cup {s.ws}
                  ELSE IF s.op = "unmark" THEN ds \ {s.ws} ELSE ds

\* The first write of a plan is made.
LEMMA Advances ==
    ASSUME NEW v \in Workspaces, NEW p, NEW s, NEW r,
           In(p) = {s} \cup In(r), r = <<>> => In(r) = {}, First(v, s, r),
           p # <<>>, s = p[1], ~(s.op = "tx" /\ s.checkout),
           s.op = "mark" => s.ws \in Workspaces,
           NEW rs, NEW rs2, NEW bs, NEW bs2, NEW ds \in SUBSET Workspaces, NEW ex, NEW ex2,
           \A w \in Workspaces : rs[w] \in {None} \cup Branches,
           After(s, rs, rs2), \A w \in Workspaces \ ex2 : Remade(s, v, w, bs, bs2),
           ex \subseteq ex2, Apartness(v, s, rs),
           Good(v, p, rs, bs, ds, ex)
    PROVE  Good(v, r, rs2, bs2, Marked2(s, ds), ex2)
<1> DEFINE ds2 == Marked2(s, ds)
<1>1. \A w \in Workspaces \ ex2 : Will(p, rs, bs, v, w) => Will(r, rs2, bs2, v, w)
  BY WillStays
<1>2. \A w : Will(r, rs2, bs2, v, w) /\ r = <<>> => Now(rs2, bs2, w)
  BY WillIsNow
<1>3. \A w : Arrives(p, w) <=> Arrives(r, w) \/ (s.op = "populate" /\ s.ws = w)
  BY DEF Arrives
<1>4. \A x \in Workspaces \ ex : Arrives(p, x) => Will(p, rs, bs, v, x)
  BY DEF Good
<1>5. \A w : w \in ds2 => \/ w \in ds /\ ~(s.op = "unmark" /\ s.ws = w)
                          \/ s.op = "mark" /\ s.ws = w
  BY DEF Marked2
<1>6. ds2 \subseteq Workspaces
  BY DEF Marked2
<1>8. Settled(v, p) <=> Settled(v, r) /\ ~(s.op = "unmark" /\ s.ws = v)
  BY DEF Settled
<1> HIDE DEF ds2
<1>9. ASSUME v \in ds2 \ ex2, Settled(v, r) PROVE Will(r, rs2, bs2, v, v)
  <2>1. CASE v \in ds /\ ~(s.op = "unmark" /\ s.ws = v)
    <3>1. Will(p, rs, bs, v, v)
      BY <1>8, <1>9, <2>1 DEF Good
    <3> QED
      BY <1>1, <1>9, <3>1
  <2>2. CASE s.op = "mark" /\ s.ws = v
    <3>1. Arrives(p, v)
      BY <1>3, <2>2 DEF First
    <3> QED
      BY <1>1, <1>4, <1>9, <3>1
  <2> QED
    BY <1>5, <1>9, <2>1, <2>2
<1>10. ASSUME NEW w \in ds2 \ ex2
       PROVE  Now(rs2, bs2, w) \/ (r # <<>> /\ v = w) \/ Arrives(r, w) \/ Departs(r, w)
  <2>0. w \in Workspaces
    BY <1>6
  <2>1. CASE v = w
    <3>1. r = <<>> => Settled(v, r)
      BY DEF Settled
    <3> QED
      BY <1>2, <1>9, <1>10, <2>1, <3>1
  <2>2. CASE s.op = "mark" /\ s.ws = w
    BY <2>2 DEF First
  <2>3. CASE s.op = "populate" /\ s.ws = w
    <3>1. Will(p, rs, bs, v, w)
      BY <1>3, <1>4, <1>10, <2>0, <2>3
    <3> QED
      BY <1>1, <1>2, <1>10, <2>0, <2>3, <3>1 DEF First
  <2>4. CASE v # w /\ w \in ds /\ ~(s.op = "unmark" /\ s.ws = w) /\ ~(s.op = "populate" /\ s.ws = w)
    <3>1. Now(rs, bs, w) \/ Arrives(p, w) \/ Departs(p, w)
      BY <1>10, <2>4 DEF Good
    <3>2. ~Departs(p, w)
      BY <2>4 DEF Departs
    <3>3. CASE Now(rs, bs, w)
      <4>1. CASE s.op = "tx" /\ w \in DOMAIN s.changes
        BY <2>0, <2>4, <4>1 DEF First
      <4>2. CASE ~(s.op = "tx" /\ w \in DOMAIN s.changes)
        <5>1. rs[w] # None /\ rs[w] \in Branches /\ bs[w] = rs[rs[w]] /\ rs[w] \in Name /\ w \in Name
          BY <2>0, <3>3 DEF Now, Name
        <5>2. rs2[w] = rs[w]
          BY <4>2, <5>1 DEF After
        <5>3. rs2[rs[w]] = rs[rs[w]]
          BY <2>0, <2>4, <4>2, <5>1 DEF After, Apartness
        <5>4. bs2[w] = bs[w]
          BY <1>10, <2>0, <2>4 DEF Remade, SetsBase
        <5> QED
          BY <5>1, <5>2, <5>3, <5>4 DEF Now
      <4> QED
        BY <4>1, <4>2
    <3> QED
      BY <1>3, <2>4, <3>1, <3>2, <3>3
  <2> QED
    BY <1>5, <1>10, <2>1, <2>2, <2>3, <2>4
<1>11. \A x \in Workspaces \ ex2 : Arrives(r, x) => Will(r, rs2, bs2, v, x)
  BY <1>1, <1>3, <1>4
<1> QED
  BY <1>9, <1>10, <1>11 DEF Good, ds2

\* What a refused transaction leaves to do.
LEMMA UnmarksAre ==
    ASSUME NEW q, q \in Unmarks \/ q = <<>>
    PROVE  Len(q) \in Nat /\ \A i \in 1 .. Len(q) : q[i].op = "unmark"
<1> DEFINE U == [op : {"unmark"}, ws : Workspaces]
<1>1. \A u \in U : u.op = "unmark"
  OBVIOUS
<1> HIDE DEF U
<1>2. <<>> \in Seq(U)
  OBVIOUS
<1>3. q \in Seq(U)
  BY <1>2 DEF Unmarks, U
<1> QED
  BY <1>1, <1>3

\* A transaction is refused, or a checkout finds a file in its way.
LEMMA Refuses ==
    ASSUME NEW v \in Workspaces, NEW p, NEW s, NEW r, NEW q,
           In(p) = {s} \cup In(r), First(v, s, r), p # <<>>, s = p[1],
           \/ s.op = "tx" /\ q = s.otherwise /\ q \in Unmarks
           \/ s.op = "files" /\ q = <<>>,
           NEW rs, NEW bs, NEW ds, NEW ex, NEW ex2, ex2 = ex \cup {v},
           Good(v, p, rs, bs, ds, ex)
    PROVE  Good(v, q, rs, bs, ds, ex2) /\ Shape(v, q)
<1>2. Len(q) \in Nat /\ \A i \in 1 .. Len(q) : q[i].op = "unmark"
  BY UnmarksAre
<1>3. \A x : ~Arrives(q, x)
  BY <1>2 DEF Arrives, In
<1>4. ASSUME NEW w \in ds \ ex2 PROVE Now(rs, bs, w) \/ Departs(q, w)
  <2>1. CASE Arrives(p, w)
    <3>1. Arrives(r, w)
      BY <2>1 DEF Arrives
    <3>2. s.op = "tx" /\ s.otherwise = <<[op |-> "unmark", ws |-> w]>>
      BY <3>1 DEF First
    <3>3. q = <<[op |-> "unmark", ws |-> w]>>
      BY <3>2
    <3> QED
      BY <3>3 DEF Departs
  <2>2. ~Departs(p, w) /\ v # w
    BY <1>4 DEF Departs
  <2> QED
    BY <1>4, <2>1, <2>2 DEF Good
<1>5. Shape(v, q)
  BY <1>2 DEF Shape, Placed
<1>6. Good(v, q, rs, bs, ds, ex2)
  BY <1>3, <1>4 DEF Good
<1> QED
  BY <1>5, <1>6

\* The process dies: who was on the way stays there.
LEMMA Dies ==
    ASSUME NEW v, NEW p, p # <<>> => p[1] \in In(p), NEW rs, NEW bs, NEW ds, NEW ex, NEW ex2,
           ex \cup {v} \subseteq ex2,
           \A s \in In(p) : s.op \in {"populate", "unmark"} => s.ws \in ex2,
           Good(v, p, rs, bs, ds, ex)
    PROVE  Good(v, <<>>, rs, bs, ds, ex2)
<1>1. \A w : Arrives(p, w) \/ Departs(p, w) => w \in ex2
  BY DEF Arrives, Departs
<1>2. \A x : ~Arrives(<<>>, x)
  BY DEF Arrives, In
<1> QED
  BY <1>1, <1>2 DEF Good

\* An undo moves refs; v checks its new commit out, who else was moved is excused.
LEMMA ChecksOut ==
    ASSUME NEW v \in Workspaces, NEW p, NEW s, In(p) = {s}, p # <<>>, s = p[1], s.op = "tx",
           NEW rs, NEW rs2, NEW bs, NEW bs2, NEW ds \in SUBSET Workspaces, NEW ex, NEW ex2,
           NEW q, NEW a, NEW b, In(q) = {a, b}, a.op = "files", b.op = "index",
           \A w \in Workspaces : rs[w] \in {None} \cup Branches,
           \A w \in Workspaces : rs2[w] \in {None} \cup Branches,
           rs2[v] # None => b.of = rs2[rs2[v]],
           ex \subseteq ex2, rs2[v] = None => v \in ex2,
           \A w \in Workspaces \ ex2 : w # v =>
              bs2[w] = bs[w] /\ rs2[w] = rs[w] /\ (rs[w] # None => rs2[rs[w]] = rs[rs[w]]),
           Good(v, p, rs, bs, ds, ex)
    PROVE  Good(v, q, rs2, bs2, ds, ex2)
<1>1. \A w : ~Arrives(p, w) /\ ~Departs(p, w) /\ ~Arrives(q, w)
  BY DEF Arrives, Departs
<1>2. ASSUME NEW w \in ds \ ex2, w # v PROVE Now(rs2, bs2, w)
  BY <1>1, <1>2 DEF Good, Now
<1>3. ASSUME v \notin ex2 PROVE Will(q, rs2, bs2, v, v)
  <2>1. rs2[v] \in Branches /\ b.of = rs2[rs2[v]]
    BY <1>3
  <2>2. Becomes(q, rs2, v, rs2[v]) /\ Becomes(q, rs2, rs2[v], b.of)
    BY <2>1 DEF Becomes
  <2>3. MadeFrom(q, bs2, v, v, b.of)
    BY DEF MadeFrom, SetsBase, Given
  <2> QED
    BY <2>1, <2>2, <2>3 DEF Will, WillFor
<1>4. q # <<>>
  BY DEF In
<1> QED
  BY <1>1, <1>2, <1>3, <1>4 DEF Good

\* A plan that v may begin with: it has its shape, and leaves v and who comes with it
\* where their HEADs are.
Fits(v, p, rs, bs, ex) ==
    /\ Shape(v, p)
    /\ v \notin ex /\ Now(rs, bs, v) /\ Settled(v, p) => Will(p, rs, bs, v, v)
    /\ \A x \in Workspaces \ ex : Arrives(p, x) => Will(p, rs, bs, v, x)

\* A plan that fits begins, with nobody at work.
LEMMA Begins ==
    ASSUME NEW v, NEW p, p # <<>>, NEW rs, NEW bs, NEW ds, NEW ex, NEW ex2, ex \subseteq ex2,
           Fits(v, p, rs, bs, ex2), Good(v, <<>>, rs, bs, ds, ex)
    PROVE  Good(v, p, rs, bs, ds, ex2)
<1>1. \A x : ~Arrives(<<>>, x) /\ ~Departs(<<>>, x)
  BY DEF Arrives, In, Departs
<1>2. \A w \in ds \ ex2 : Now(rs, bs, w)
  BY <1>1 DEF Good
<1> QED
  BY <1>2 DEF Good, Fits

\* With nobody at work it is the same whoever is asked.
LEMMA Rests ==
    ASSUME NEW rs, NEW bs, NEW ds, NEW ex, NEW v
    PROVE  Good(v, <<>>, rs, bs, ds, ex) <=> \A w \in ds \ ex : Now(rs, bs, w)
<1>1. \A x : ~Arrives(<<>>, x) /\ ~Departs(<<>>, x)
  BY DEF Arrives, In, Departs
<1> QED
  BY <1>1 DEF Good

\* Nobody but v is at work.
Others(v) == \A u \in Workspaces \ {v} : plan[u] = <<>>
\* The strengthening of FilesDescribeHead.
FilesInv ==
    /\ \A v \in Workspaces : Shape(v, plan[v])
    /\ \A v \in Workspaces :
         daemon /\ Others(v) => Good(v, plan[v], refs, base, dirs, excused)

\* v goes on with p; under a daemon, nobody else is at work.
LEMMA Onward ==
    ASSUME WorkspacesInv, FilesInv, NEW v \in Workspaces, NEW p,
           plan' = [plan EXCEPT ![v] = p], daemon' = daemon,
           daemon => Others(v), Shape(v, p),
           daemon => Good(v, p, refs', base', dirs', excused')
    PROVE  FilesInv'
<1>1. \A u \in Workspaces : plan'[u] = IF u = v THEN p ELSE plan[u]
  BY DEF WorkspacesInv, TypeInv
<1>2. \A u \in Workspaces : Shape(u, plan'[u])
  BY <1>1 DEF FilesInv
<1>3. ASSUME NEW u \in Workspaces, daemon, Others(u)'
      PROVE  Good(u, plan'[u], refs', base', dirs', excused')
  <2>1. CASE u = v
    BY <1>1, <1>3, <2>1
  <2>2. CASE u # v
    <3>1. plan'[u] = <<>> /\ p = <<>>
      BY <1>1, <1>3, <2>2 DEF Others
    <3>2. \A w \in dirs' \ excused' : Now(refs', base', w)
      BY <1>3, <3>1, Rests
    <3> QED
      BY <3>1, <3>2, Rests
  <2> QED
    BY <2>1, <2>2
<1> QED
  BY <1>2, <1>3 DEF FilesInv

\* The first write of a running command.
LEMMA AtWork ==
    ASSUME WorkspacesInv, FilesInv, NEW v \in Workspaces, plan[v] # <<>>
    PROVE  /\ Head(plan[v]) = plan[v][1] /\ Head(plan[v]) \in Write(DOMAIN commits)
           /\ In(plan[v]) = {Head(plan[v])} \cup In(Tail(plan[v]))
           /\ First(v, Head(plan[v]), Tail(plan[v]))
           /\ Shape(v, Tail(plan[v]))
           /\ Tail(plan[v]) = <<>> => In(Tail(plan[v])) = {}
           /\ plan' = [plan EXCEPT ![v] = Tail(@)] <=> plan' = [plan EXCEPT ![v] = Tail(plan[v])]
           /\ daemon => Others(v)
           /\ daemon => Good(v, plan[v], refs, base, dirs, excused)
<1> DEFINE D == DOMAIN commits
           s == plan[v]
<1>1. s \in Seq(Write(D)) /\ Shape(v, s) /\ s # <<>> /\ Head(s) = s[1] /\ Head(s) \in Write(D)
  BY Running DEF FilesInv
<1>2. daemon => Others(v)
  BY DEF WorkspacesInv, AloneInv, Others
<1>3. daemon => Good(v, s, refs, base, dirs, excused)
  BY <1>2 DEF FilesInv
<1> HIDE DEF s, D
<1>4. /\ In(s) = {s[1]} \cup In(Tail(s)) /\ First(v, s[1], Tail(s)) /\ Shape(v, Tail(s))
  BY <1>1, FirstOf
<1>5. Tail(s) = <<>> => In(Tail(s)) = {}
  BY DEF In
<1>6. plan' = [plan EXCEPT ![v] = Tail(@)] <=> plan' = [plan EXCEPT ![v] = Tail(plan[v])]
  BY DEF WorkspacesInv, TypeInv
<1> QED
  BY <1>1, <1>2, <1>3, <1>4, <1>5, <1>6 DEF s, D

\* The HEADs name branches.
LEMMA HeadsAre ==
    ASSUME TypeInv
    PROVE  /\ refs \in [Name -> Sides(DOMAIN commits)]
           /\ \A w \in Workspaces : refs[w] \in {None} \cup Branches
           /\ base \in [Workspaces -> Commits(DOMAIN commits)]
           /\ dirs \in SUBSET Workspaces /\ excused \subseteq Workspaces
BY WorkspacesAssumption DEF TypeInv, Refs, Side, Name

\* A write that is no transaction, and is not refused.
LEMMA WriteGoesOn ==
    ASSUME WorkspacesInv, FilesInv, NEW v \in Workspaces, plan[v] # <<>>,
           Head(plan[v]).op # "tx",
           plan' = [plan EXCEPT ![v] = Tail(@)], refs' = refs, daemon' = daemon,
           Head(plan[v]).op = "mark" => Head(plan[v]).ws \in Workspaces,
           dirs' = Marked2(Head(plan[v]), dirs), excused \subseteq excused',
           \A w \in Workspaces \ excused' : Remade(Head(plan[v]), v, w, base, base')
    PROVE  FilesInv'
<1> DEFINE s == Head(plan[v])
           r == Tail(plan[v])
           p == plan[v]
<1>1. /\ s = p[1] /\ p # <<>> /\ In(p) = {s} \cup In(r) /\ First(v, s, r) /\ Shape(v, r)
      /\ r = <<>> => In(r) = {}
      /\ plan' = [plan EXCEPT ![v] = r]
      /\ daemon => Others(v)
      /\ daemon => Good(v, p, refs, base, dirs, excused)
  BY AtWork
<1>2. /\ \A w \in Workspaces : refs[w] \in {None} \cup Branches
      /\ dirs \in SUBSET Workspaces
  BY HeadsAre DEF WorkspacesInv
<1>3. After(s, refs, refs') /\ Apartness(v, s, refs)
  BY DEF After, Apartness
<1>4. /\ s.op # "tx" /\ (s.op = "mark" => s.ws \in Workspaces)
      /\ dirs' = Marked2(s, dirs)
      /\ \A w \in Workspaces \ excused' : Remade(s, v, w, base, base')
  OBVIOUS
<1> HIDE DEF s, r, p
<1>5. ASSUME daemon PROVE Good(v, r, refs', base', dirs', excused')
  <2>1. Good(v, p, refs, base, dirs, excused) /\ excused \subseteq excused'
    BY <1>1, <1>5
  <2>2. Good(v, r, refs', base', Marked2(s, dirs), excused')
    BY <1>1, <1>2, <1>3, <1>4, <2>1, Advances
  <2> QED
    BY <1>4, <2>2
<1> QED
  BY <1>1, <1>5, Onward

\* The writes of files, indexes and operations, a marker, and the files of a new workspace.
LEMMA WritesDescribe ==
    ASSUME WorkspacesInv, FilesInv, NEW v \in Workspaces,
           \/ StepFiles(v) \/ StepIndex(v) \/ StepStage(v) \/ StepRecord(v)
           \/ StepMark(v) \/ StepPopulate(v)
    PROVE  FilesInv'
<1> DEFINE s == Head(plan[v])
           r == Tail(plan[v])
           p == plan[v]
<1>1. p # <<>> /\ s \in Write(DOMAIN commits)
  <2>1. p # <<>>
    BY DEF StepFiles, StepIndex, StepStage, StepRecord, StepMark, StepPopulate, At
  <2> QED
    BY <2>1, AtWork
<1>2. /\ dirs \subseteq Workspaces /\ base \in [Workspaces -> Commits(DOMAIN commits)]
  BY HeadsAre DEF WorkspacesInv
<1>3. /\ s.op \in {"mark", "unmark"} => s \in MarkStep
      /\ s.op = "populate" => s \in PopulateStep(DOMAIN commits)
  BY <1>1, KindOfWrite
<1>4. CASE StepFiles(v) /\ InTheWay(s.old, CommitTree(s.of), work[v])
  <2>1. /\ s.op = "files" /\ plan' = [plan EXCEPT ![v] = <<>>]
        /\ excused' = excused \cup {v}
        /\ UNCHANGED <<refs, dirs, daemon, base>>
    BY <1>4 DEF StepFiles, At
  <2>2. /\ s = p[1] /\ In(p) = {s} \cup In(r) /\ First(v, s, r)
        /\ daemon => Others(v)
        /\ daemon => Good(v, p, refs, base, dirs, excused)
    BY <1>1, AtWork
  <2> HIDE DEF s, r, p
  <2>3. Shape(v, <<>>)
    BY DEF Shape
  <2>4. ASSUME daemon PROVE Good(v, <<>>, refs', base', dirs', excused')
    <3>1. Good(v, p, refs, base, dirs, excused)
      BY <2>2, <2>4
    <3>2. Good(v, <<>>, refs, base, dirs, excused')
      BY <1>1, <2>1, <2>2, <3>1, Refuses
    <3> QED
      BY <2>1, <3>2
  <2> QED
    BY <2>1, <2>2, <2>3, <2>4, Onward
<1>5. CASE StepFiles(v) /\ ~InTheWay(s.old, CommitTree(s.of), work[v])
  <2>1. /\ s.op = "files" /\ plan' = [plan EXCEPT ![v] = Tail(@)]
        /\ UNCHANGED <<refs, dirs, daemon, base, excused>>
    BY <1>5 DEF StepFiles, At, Done
  <2>2. dirs' = Marked2(s, dirs) /\ \A w \in Workspaces : Remade(s, v, w, base, base')
    BY <2>1 DEF Marked2, Remade, SetsBase
  <2> QED
    BY <1>1, <2>1, <2>2, WriteGoesOn
<1>6. CASE StepIndex(v)
  <2>1. /\ s.op = "index" /\ plan' = [plan EXCEPT ![v] = Tail(@)]
        /\ base' = [base EXCEPT ![v] = s.of]
        /\ UNCHANGED <<refs, dirs, daemon, excused>>
    BY <1>6 DEF StepIndex, At, Done
  <2>2. dirs' = Marked2(s, dirs) /\ \A w \in Workspaces : Remade(s, v, w, base, base')
    BY <1>2, <2>1 DEF Marked2, Remade, SetsBase, Given
  <2> QED
    BY <1>1, <2>1, <2>2, WriteGoesOn
<1>7. CASE StepStage(v) \/ StepRecord(v)
  <2>1. /\ s.op \in {"stage", "record"} /\ plan' = [plan EXCEPT ![v] = Tail(@)]
        /\ UNCHANGED <<refs, dirs, daemon, base, excused>>
    BY <1>7 DEF StepStage, StepRecord, At, Done
  <2>2. dirs' = Marked2(s, dirs) /\ \A w \in Workspaces : Remade(s, v, w, base, base')
    BY <2>1 DEF Marked2, Remade, SetsBase
  <2> QED
    BY <1>1, <2>1, <2>2, WriteGoesOn
<1>8. CASE StepMark(v)
  <2>1. /\ s.op \in {"mark", "unmark"} /\ plan' = [plan EXCEPT ![v] = Tail(@)]
        /\ dirs' = IF s.op = "mark" THEN dirs \cup {s.ws} ELSE dirs \ {s.ws}
        /\ UNCHANGED <<refs, daemon, base, excused>>
    BY <1>8 DEF StepMark, At, Done
  <2>2. /\ dirs' = Marked2(s, dirs) /\ \A w \in Workspaces : Remade(s, v, w, base, base')
        /\ s.ws \in Workspaces
    BY <1>3, <2>1 DEF Marked2, Remade, SetsBase, MarkStep
  <2> QED
    BY <1>1, <2>1, <2>2, WriteGoesOn
<1>9. CASE StepPopulate(v)
  <2>1. /\ s.op = "populate" /\ plan' = [plan EXCEPT ![v] = Tail(@)]
        /\ \/ excused' = excused \cup {s.ws} /\ base' = base
           \/ base' = [base EXCEPT ![s.ws] = s.of] /\ excused' = excused
        /\ UNCHANGED <<refs, dirs, daemon>>
    BY <1>9 DEF StepPopulate, At, Done
  <2>2. s.ws \in Workspaces
    BY <1>3, <2>1 DEF PopulateStep
  <2>3. dirs' = Marked2(s, dirs) /\ \A w \in Workspaces \ excused' : Remade(s, v, w, base, base')
    BY <1>2, <2>1, <2>2 DEF Marked2, Remade, SetsBase, Given
  <2> QED
    BY <1>1, <2>1, <2>3, WriteGoesOn
<1> QED
  BY <1>4, <1>5, <1>6, <1>7, <1>8, <1>9

\* A transaction is made, is refused, or is an undo's that moves HEADs.
LEMMA TxDescribes ==
    ASSUME WorkspacesInv, FilesInv, NEW v \in Workspaces, StepTx(v), WorkspacesInv'
    PROVE  FilesInv'
<1> DEFINE s == Head(plan[v])
           ch == s.changes
           r == Tail(plan[v])
           p == plan[v]
           held == \A x \in DOMAIN ch : refs[x] = ch[x].old
<1>1. /\ p # <<>> /\ s.op = "tx" /\ s = p[1] /\ s \in TxStep(DOMAIN commits)
      /\ In(p) = {s} \cup In(r) /\ First(v, s, r) /\ Shape(v, r)
      /\ r = <<>> => In(r) = {}
      /\ daemon => Others(v)
      /\ daemon => Good(v, p, refs, base, dirs, excused)
      /\ UNCHANGED <<dirs, daemon>>
  <2>1. p # <<>> /\ s.op = "tx" /\ UNCHANGED <<dirs, daemon>>
    BY DEF StepTx, At
  <2>2. s \in Write(DOMAIN commits)
    BY <2>1, AtWork
  <2>3. s \in TxStep(DOMAIN commits)
    BY <2>1, <2>2, KindOfWrite
  <2> QED
    BY <2>1, <2>3, AtWork
<1>2. /\ s.otherwise \in Unmarks /\ s.made \in Commits(DOMAIN commits)
  BY <1>1 DEF TxStep
<1>3. /\ refs \in [Name -> Sides(DOMAIN commits)]
      /\ \A w \in Workspaces : refs[w] \in {None} \cup Branches
      /\ base \in [Workspaces -> Commits(DOMAIN commits)]
      /\ dirs \in SUBSET Workspaces
  BY HeadsAre DEF WorkspacesInv
<1>4. CASE ~(held /\ ~Taken(v, ch))
  <2>1. /\ plan' = [plan EXCEPT ![v] = s.otherwise] /\ excused' = excused \cup {v}
        /\ UNCHANGED <<refs, base>>
    BY <1>4 DEF StepTx
  <2> HIDE DEF s, r, p, ch, held
  <2> DEFINE q == s.otherwise
  <2> HIDE DEF q
  <2>2. q = s.otherwise /\ q \in Unmarks
    BY <1>2 DEF q
  <2>3. Shape(v, q)
    <3>1. \A i \in 1 .. Len(q) : q[i].op = "unmark"
      BY <2>2, UnmarksAre
    <3> QED
      BY <3>1 DEF Shape, Placed
  <2>4. ASSUME daemon PROVE Good(v, q, refs', base', dirs', excused')
    <3>1. Good(v, p, refs, base, dirs, excused)
      BY <1>1, <2>4
    <3>2. Good(v, q, refs, base, dirs, excused')
      BY <1>1, <2>1, <2>2, <3>1, Refuses
    <3> QED
      BY <1>1, <2>1, <3>2
  <2>5. plan' = [plan EXCEPT ![v] = q]
    BY <2>1 DEF q
  <2> QED
    BY <1>1, <2>3, <2>4, <2>5, Onward
<1>5. CASE held /\ ~Taken(v, ch) /\ ~s.checkout
  <2>1. /\ refs' = Applied(ch)
        /\ plan' = [plan EXCEPT ![v] = <<>> \o Tail(@)]
        /\ base' = [base EXCEPT ![v] = IF s.made = None THEN @ ELSE s.made]
        /\ excused' = excused
    BY <1>5 DEF StepTx
  <2>2. plan' = [plan EXCEPT ![v] = r]
    <3>1. r \in Seq(Write(DOMAIN commits)) /\ plan \in [Workspaces -> Seq(Write(DOMAIN commits))]
      BY <1>1, Running DEF WorkspacesInv, TypeInv
    <3>2. <<>> \o r = r
      BY <3>1
    <3> QED
      BY <2>1, <3>2
  <2>3. After(s, refs, refs')
    BY <1>1, <1>3, <2>1 DEF After, Applied
  <2>4. \A w \in Workspaces : Remade(s, v, w, base, base')
    BY <1>1, <1>3, <2>1 DEF Remade, SetsBase, Given
  <2>5. Apartness(v, s, refs)
    <3>1. SUFFICES ASSUME NEW w \in Workspaces \ {v}, w \notin DOMAIN ch, refs[w] \in DOMAIN ch
                   PROVE  FALSE
      BY DEF Apartness
    <3>2. StaysOn(w, ch)
      BY <3>1 DEF StaysOn
    <3> QED
      BY <1>5, <3>1, <3>2 DEF Taken
  <2>6. dirs' = Marked2(s, dirs)
    BY <1>1 DEF Marked2
  <2>7. ~(s.op = "tx" /\ s.checkout) /\ (s.op = "mark" => s.ws \in Workspaces)
    BY <1>1, <1>5
  <2> HIDE DEF s, r, p, ch, held
  <2>8. ASSUME daemon PROVE Good(v, r, refs', base', dirs', excused')
    <3>1. Good(v, p, refs, base, dirs, excused) /\ excused \subseteq excused'
      BY <1>1, <2>1, <2>8
    <3>2. Good(v, r, refs', base', Marked2(s, dirs), excused')
      BY <1>1, <1>3, <2>3, <2>4, <2>5, <2>7, <3>1, Advances
    <3> QED
      BY <2>6, <3>2
  <2> QED
    BY <1>1, <2>2, <2>8, Onward
<1>6. CASE held /\ ~Taken(v, ch) /\ s.checkout
  <2> DEFINE c == Tip(v)'
             a == [op |-> "files", old |-> PathsIn(Staged(index[v])), of |-> c]
             b == [op |-> "index", of |-> c]
             q == <<a, b>>
  <2>1. /\ refs' = Applied(ch)
        /\ plan' = [plan EXCEPT ![v] = CheckoutFrom(v, c) \o Tail(@)]
        /\ base' = [base EXCEPT ![v] = IF s.made = None THEN @ ELSE s.made]
        /\ excused' = excused \cup (Disturbed(v, refs') \cup {w \in {v} : refs'[w] = None})
    BY <1>6 DEF StepTx
  <2>2. r = <<>> /\ In(p) = {s}
    BY <1>1, <1>6 DEF First
  <2>3. plan' = [plan EXCEPT ![v] = q]
    <3>1. CheckoutFrom(v, c) = q
      BY DEF CheckoutFrom, Checkout
    <3>2. q \o r = q
      <4> HIDE DEF a, b
      <4>1. q \in Seq({a, b})
        OBVIOUS
      <4> HIDE DEF q
      <4>2. q \o <<>> = q
        BY <4>1
      <4> QED
        BY <2>2, <4>2
    <3>3. plan \in [Workspaces -> Seq(Write(DOMAIN commits))]
      BY DEF WorkspacesInv, TypeInv
    <3> QED
      BY <2>1, <3>1, <3>2, <3>3
  <2>4. /\ In(q) = {a, b} /\ a.op = "files" /\ b.op = "index"
        /\ \A i \in 1 .. Len(q) : q[i].op \in {"files", "index"}
    <3> HIDE DEF a, b
    <3>1. In(q) = {a, b} /\ \A i \in 1 .. Len(q) : q[i] \in {a, b}
      BY DEF In
    <3>2. a.op = "files" /\ b.op = "index"
      BY DEF a, b
    <3> QED
      BY <3>1, <3>2
  <2>5. \A w \in Workspaces : refs'[w] \in {None} \cup Branches
    <3>1. TypeInv'
      BY DEF WorkspacesInv
    <3> QED
      BY <3>1, WorkspacesAssumption DEF TypeInv, Refs, Side, Name
  <2>6. refs'[v] # None => b.of = refs'[refs'[v]]
    BY DEF Tip, HeadBranch
  <2>7. /\ excused \subseteq excused' /\ (refs'[v] = None => v \in excused')
        /\ \A w \in Workspaces \ excused' : w # v =>
              /\ base'[w] = base[w] /\ refs'[w] = refs[w]
              /\ refs[w] # None => refs'[refs[w]] = refs[refs[w]]
    BY <1>3, <2>1 DEF Disturbed
  <2> HIDE DEF s, r, p, ch, held, a, b, q
  <2>8. Shape(v, q)
    BY <2>4 DEF Shape, Placed
  <2>9. ASSUME daemon PROVE Good(v, q, refs', base', dirs', excused')
    <3>1. Good(v, p, refs, base, dirs, excused)
      BY <1>1, <2>9
    <3>2. Good(v, q, refs', base', dirs, excused')
      BY <1>1, <1>3, <2>2, <2>4, <2>5, <2>6, <2>7, <3>1, ChecksOut
    <3> QED
      BY <1>1, <3>2
  <2> QED
    BY <1>1, <2>3, <2>8, <2>9, Onward
<1> QED
  BY <1>4, <1>5, <1>6

\* A process dies in the middle of a command.
LEMMA CrashDescribes ==
    ASSUME WorkspacesInv, FilesInv, NEW v \in Workspaces, Crash(v)
    PROVE  FilesInv'
<1> DEFINE p == plan[v]
<1>1. /\ p # <<>> /\ plan' = [plan EXCEPT ![v] = <<>>]
      /\ excused' = excused \cup {v} \cup
                    {t.ws : t \in {s \in ToSet(plan[v]) : s.op \in {"populate", "unmark"}}}
      /\ UNCHANGED <<refs, dirs, daemon, base>>
  BY DEF Crash, disk
<1>2. /\ In(p) = {Head(p)} \cup In(Tail(p)) /\ Head(p) = p[1]
      /\ daemon => Others(v)
      /\ daemon => Good(v, p, refs, base, dirs, excused)
  BY <1>1, AtWork
<1>3. In(p) = ToSet(p)
  <2>1. p \in Seq(Write(DOMAIN commits))
    BY DEF WorkspacesInv, TypeInv
  <2> HIDE DEF p
  <2> QED
    BY <2>1 DEF In, ToSet
<1>4. \A s \in In(p) : s.op \in {"populate", "unmark"} => s.ws \in excused'
  BY <1>1, <1>3
<1>5. excused \cup {v} \subseteq excused'
  BY <1>1
<1> HIDE DEF p
<1>6. Shape(v, <<>>)
  BY DEF Shape
<1>7. ASSUME daemon PROVE Good(v, <<>>, refs', base', dirs', excused')
  <2>1. Good(v, <<>>, refs, base, dirs, excused')
    BY <1>1, <1>2, <1>4, <1>5, <1>7, Dies
  <2> QED
    BY <1>1, <2>1
<1> QED
  BY <1>1, <1>2, <1>6, <1>7, Onward

\* A push moves a branch: who has it checked out is excused.
LEMMA PushDescribes ==
    ASSUME WorkspacesInv, FilesInv, NEW b \in Branches, NEW c \in DOMAIN commits, Push(b, c)
    PROVE  FilesInv'
<1> DEFINE idle == \A w \in Workspaces : plan[w] = <<>>
<1>1. /\ refs' = [refs EXCEPT ![b] = c]
      /\ excused' = IF idle THEN excused \cup Disturbed(None, refs') ELSE Workspaces
      /\ UNCHANGED <<dirs, plan, daemon, base>>
  BY DEF Push
<1>2. /\ dirs \subseteq Workspaces /\ None \notin Workspaces
  BY HeadsAre, WorkspacesAssumption DEF WorkspacesInv
<1>3. \A v \in Workspaces : Shape(v, plan'[v])
  BY <1>1 DEF FilesInv
<1>4. ASSUME NEW v \in Workspaces, daemon, Others(v)'
      PROVE  Good(v, plan'[v], refs', base', dirs', excused')
  <2>1. CASE idle
    <3>1. Good(v, <<>>, refs, base, dirs, excused) /\ plan'[v] = <<>>
      BY <1>1, <1>4, <2>1 DEF FilesInv, Others
    <3>2. \A w \in dirs \ excused : Now(refs, base, w)
      BY <3>1, Rests
    <3>3. \A w \in dirs \ excused' : Now(refs', base', w)
      <4>1. SUFFICES ASSUME NEW w \in dirs \ excused' PROVE Now(refs', base', w)
        OBVIOUS
      <4>2. w \notin excused /\ w \notin Disturbed(None, refs')
        BY <1>1, <2>1, <4>1
      <4>3. refs'[w] = refs[w] /\ (refs[w] # None => refs'[refs[w]] = refs[refs[w]])
        BY <1>2, <4>2 DEF Disturbed
      <4>4. Now(refs, base, w) /\ base' = base
        BY <1>1, <3>2, <4>1, <4>2
      <4> QED
        BY <4>3, <4>4 DEF Now
    <3>4. dirs' = dirs
      BY <1>1
    <3>5. Good(v, <<>>, refs', base', dirs', excused')
      BY <3>3, <3>4, Rests
    <3> QED
      BY <3>1, <3>5
  <2>2. CASE ~idle
    BY <1>1, <1>2, <2>2 DEF Good
  <2> QED
    BY <2>1, <2>2
<1> QED
  BY <1>1, <1>3, <1>4 DEF FilesInv

\* Nothing of it changes.
LEMMA SameDescribes ==
    ASSUME FilesInv, UNCHANGED <<refs, dirs, plan, daemon, base, excused>>
    PROVE  FilesInv'
BY DEF FilesInv, Others

\* A command begins.
LEMMA BeganDescribes ==
    ASSUME WorkspacesInv, FilesInv, NEW v \in Workspaces, NEW cs, NEW steps, Began(v, cs, steps),
           steps # <<>>, excused \subseteq excused', Fits(v, steps, refs, base, excused')
    PROVE  FilesInv'
<1>1. /\ plan' = [plan EXCEPT ![v] = steps]
      /\ UNCHANGED <<refs, dirs, daemon, base>>
      /\ daemon => \A u \in Workspaces : plan[u] = <<>>
  BY DEF Began
<1>2. Shape(v, steps)
  BY DEF Fits
<1>3. ASSUME daemon PROVE Good(v, steps, refs', base', dirs', excused')
  <2>1. Good(v, <<>>, refs, base, dirs, excused)
    BY <1>1, <1>3 DEF FilesInv, Others
  <2>2. Good(v, steps, refs, base, dirs, excused')
    BY <2>1, Begins
  <2> QED
    BY <1>1, <2>2
<1> QED
  BY <1>1, <1>2, <1>3, Onward DEF Others

-----------------------------------------------------------------------------
(* The plans the commands begin with.                                      *)

\* A plan of one write.
LEMMA OneStep ==
    ASSUME NEW a PROVE In(<<a>>) = {a} /\ Len(<<a>>) = 1 /\ <<a>> # <<>> /\ <<>> \o <<a>> = <<a>>
<1>1. In(<<a>>) = {a}
  BY DEF In
<1>2. <<a>> \in Seq({a})
  OBVIOUS
<1> QED
  BY <1>1, <1>2, ConcatEmptySeq

\* A plan of two writes, one after the other.
LEMMA TwoSteps ==
    ASSUME NEW a, NEW b
    PROVE  In(<<a, b>>) = {a, b} /\ Len(<<a, b>>) = 2 /\ <<a, b>> # <<>> /\ <<a>> \o <<b>> = <<a, b>>
<1> DEFINE S == {a, b}
           u == <<a>> \o <<b>>
<1>1. In(<<a, b>>) = {a, b}
  BY DEF In
<1>2. <<a>> \in Seq(S) /\ <<b>> \in Seq(S) /\ <<a, b>> \in Seq(S)
  OBVIOUS
<1>3. u \in Seq(S) /\ Len(u) = 2 /\ u[1] = a /\ u[2] = b
  BY <1>2, ConcatProperties
<1> HIDE DEF u
<1>4. \A i \in 1 .. Len(u) : u[i] = <<a, b>>[i]
  BY <1>3
<1>5. u = <<a, b>>
  BY <1>2, <1>3, <1>4, SeqEqual
<1> QED
  BY <1>1, <1>5 DEF u

\* A plan of three.
LEMMA ThreeSteps ==
    ASSUME NEW a, NEW b, NEW c
    PROVE  /\ In(<<a, b, c>>) = {a, b, c} /\ Len(<<a, b, c>>) = 3 /\ <<a, b, c>> # <<>>
           /\ <<a>> \o <<b, c>> = <<a, b, c>> /\ <<a, b>> \o <<c>> = <<a, b, c>>
<1> DEFINE S == {a, b, c}
           u == <<a>> \o <<b, c>>
           v == <<a, b>> \o <<c>>
<1>1. In(<<a, b, c>>) = {a, b, c}
  BY DEF In
<1>2. /\ <<a>> \in Seq(S) /\ <<c>> \in Seq(S)
      /\ <<a, b>> \in Seq(S) /\ <<b, c>> \in Seq(S) /\ <<a, b, c>> \in Seq(S)
  OBVIOUS
<1>3. u \in Seq(S) /\ Len(u) = 3 /\ u[1] = a /\ u[2] = b /\ u[3] = c
  BY <1>2, ConcatProperties
<1>4. v \in Seq(S) /\ Len(v) = 3 /\ v[1] = a /\ v[2] = b /\ v[3] = c
  BY <1>2, ConcatProperties
<1> HIDE DEF u, v
<1>5. /\ \A i \in 1 .. Len(u) : u[i] = <<a, b, c>>[i]
      /\ \A i \in 1 .. Len(v) : v[i] = <<a, b, c>>[i]
  BY <1>3, <1>4
<1>6. u = <<a, b, c>> /\ v = <<a, b, c>>
  BY <1>2, <1>3, <1>4, <1>5, SeqEqual
<1> QED
  BY <1>1, <1>6 DEF u, v

\* t is the transaction of these changes, not followed by a checkout to plan.
IsTx(t, ch, made) == t.op = "tx" /\ t.changes = ch /\ t.made = made /\ ~t.checkout

\* The one write of a transaction (commit_refs_with in native.rs).
LEMMA TxWrite ==
    ASSUME NEW ch, NEW made, NEW otherwise
    PROVE  \E t : /\ TxOf(ch, made, FALSE, otherwise) = <<t>>
                  /\ IsTx(t, ch, made) /\ t.otherwise = otherwise
<1> DEFINE t == [op |-> "tx", changes |-> ch, made |-> made, checkout |-> FALSE,
                 otherwise |-> otherwise]
<1>1. IsTx(t, ch, made) /\ t.otherwise = otherwise
  BY DEF IsTx
<1>2. TxOf(ch, made, FALSE, otherwise) = <<t>>
  BY DEF TxOf
<1> HIDE DEF t
<1> QED
  BY <1>1, <1>2

\* The same, when nothing is made and nothing written if it is refused.
LEMMA PlainTx ==
    ASSUME NEW ch PROVE \E t : Tx(ch) = <<t>> /\ IsTx(t, ch, None)
BY TxWrite DEF Tx

\* The change of one ref.
LEMMA ChangeIs ==
    ASSUME NEW r, NEW o, NEW n
    PROVE  DOMAIN Change(r, o, n) = {r} /\ Change(r, o, n)[r].new = n
BY DEF Change

\* The changes of one transaction, put together.
LEMMA BothChanges ==
    ASSUME NEW f, NEW g
    PROVE  /\ DOMAIN (f ++ g) = DOMAIN f \cup DOMAIN g
           /\ \A r \in DOMAIN f \cup DOMAIN g : (f ++ g)[r] = IF r \in DOMAIN f THEN f[r] ELSE g[r]
BY DEF ++

\* A plan of files, indexes, operations and transactions that move no HEAD but v's.
Own(v, p) ==
    \A s \in In(p) : /\ s.op \in {"files", "index", "stage", "record", "tx"}
                     /\ s.op = "tx" => ~s.checkout /\ DOMAIN s.changes \cap Workspaces \subseteq {v}

\* Such a plan may begin if it leaves v where its HEAD is.
LEMMA OwnFits ==
    ASSUME NEW v, NEW p, Own(v, p), NEW rs, NEW bs, NEW ex, Len(p) \in Nat,
           v \notin ex /\ Now(rs, bs, v) => Will(p, rs, bs, v, v)
    PROVE  Fits(v, p, rs, bs, ex)
<1>1. \A x : ~Arrives(p, x)
  BY DEF Own, Arrives
<1>2. Shape(v, p)
  <2>1. SUFFICES ASSUME NEW i \in 1 .. Len(p) PROVE Placed(v, p, i)
    BY DEF Shape
  <2>2. p[i].op # "mark" /\ p[i].op # "populate"
        /\ (p[i].op = "tx" => ~p[i].checkout /\ DOMAIN p[i].changes \cap Workspaces \subseteq {v})
    BY DEF Own, In
  <2>3. \A j \in i + 1 .. Len(p) : p[j].op # "populate"
    BY DEF Own, In
  <2> QED
    BY <2>2, <2>3 DEF Placed
<1> QED
  BY <1>1, <1>2 DEF Fits

\* A plan that leaves the HEAD of v, its branch and its index alone.
LEMMA StaysPut ==
    ASSUME NEW v, NEW p, NEW rs, NEW bs, Now(rs, bs, v), rs[v] \in Branches,
           \A s \in In(p) : /\ ~SetsBase(s, v, v)
                            /\ s.op = "tx" => v \notin DOMAIN s.changes /\ rs[v] \notin DOMAIN s.changes
    PROVE  Will(p, rs, bs, v, v)
<1>1. Becomes(p, rs, v, rs[v]) /\ Becomes(p, rs, rs[v], rs[rs[v]])
  BY DEF Becomes
<1>2. MadeFrom(p, bs, v, v, rs[rs[v]])
  BY DEF MadeFrom, Now
<1> QED
  BY <1>1, <1>2 DEF Will, WillFor

\* A workspace that is where its HEAD is.
LEMMA NowReads ==
    ASSUME TypeInv, NEW w \in Workspaces
    PROVE  /\ w \notin Branches /\ HeadBranch(w) \in Branches
           /\ refs[w] \in Workspaces \cup Branches \cup {None}
           /\ \A b \in Branches : b \notin Workspaces
           /\ Now(refs, base, w) =>
                /\ refs[w] \in Branches /\ HeadBranch(w) = refs[w]
                /\ Tip(w) = refs[refs[w]] /\ base[w] = Tip(w)
<1>1. refs[w] \in {None} \cup Branches /\ HeadBranch(w) \in Branches
  BY HeadsAre, Reads
<1> QED
  BY <1>1, WorkspacesAssumption DEF Now, HeadBranch, Tip

\* A command that reads everything and then only writes.
LEMMA BeginDescribes ==
    ASSUME WorkspacesInv, FilesInv, NEW w \in Workspaces, NEW cs, NEW steps,
           BeginWith(w, cs, steps), steps # <<>>, Fits(w, steps, refs, base, excused)
    PROVE  FilesInv'
<1>1. Began(w, cs, steps) /\ excused' = excused
  BY DEF BeginWith, Run, Began, Commands
<1>2. excused \subseteq excused'
  BY <1>1
<1>3. Fits(w, steps, refs, base, excused')
  BY <1>1
<1> QED
  BY <1>1, <1>2, <1>3, BeganDescribes

\* The writes of a checkout.
LEMMA CheckoutWrites ==
    ASSUME NEW w, NEW c
    PROVE  \E a, b : /\ CheckoutFrom(w, c) = <<a, b>>
                     /\ a.op = "files" /\ b.op = "index" /\ b.of = c
<1> DEFINE a == [op |-> "files", old |-> PathsIn(Staged(index[w])), of |-> c]
           b == [op |-> "index", of |-> c]
<1>1. a.op = "files" /\ b.op = "index" /\ b.of = c
  OBVIOUS
<1>2. CheckoutFrom(w, c) = <<a, b>>
  BY DEF CheckoutFrom, Checkout
<1> HIDE DEF a, b
<1> QED
  BY <1>1, <1>2

\* `alt add .`, and the undo of one.
LEMMA StagingFits ==
    ASSUME TypeInv, NEW w \in Workspaces, NEW i, NEW changes, NEW ex
    PROVE  Fits(w, <<[op |-> "stage", index |-> i], [op |-> "record", changes |-> changes]>>,
                refs, base, ex)
<1> DEFINE a == [op |-> "stage", index |-> i]
           b == [op |-> "record", changes |-> changes]
           p == <<a, b>>
<1>1. a.op = "stage" /\ b.op = "record"
  OBVIOUS
<1> HIDE DEF a, b
<1>2. In(p) = {a, b} /\ Len(p) \in Nat
  BY OneStep, TwoSteps
<1> HIDE DEF p
<1>3. Own(w, p)
  BY <1>1, <1>2 DEF Own
<1>4. Now(refs, base, w) => Will(p, refs, base, w, w)
  <2>1. \A s \in In(p) : ~SetsBase(s, w, w) /\ s.op # "tx"
    BY <1>1, <1>2 DEF SetsBase
  <2> QED
    BY <2>1, NowReads, StaysPut
<1>5. Fits(w, p, refs, base, ex)
  BY <1>2, <1>3, <1>4, OwnFits
<1> QED
  BY <1>5 DEF p, a, b

\* A commit, or an amend: the branch and the index go to it.
LEMMA CommitFits ==
    ASSUME TypeInv, NEW w \in Workspaces, NEW old, NEW c, c # None, NEW ex
    PROVE  Fits(w, TxOf(Change(HeadBranch(w), old, c), c, FALSE, <<>>), refs, base, ex)
<1> DEFINE b == HeadBranch(w)
           ch == Change(b, old, c)
<1>0. DOMAIN ch = {b} /\ ch[b].new = c
  BY ChangeIs
<1>1. PICK t : TxOf(ch, c, FALSE, <<>>) = <<t>> /\ IsTx(t, ch, c)
  BY TxWrite
<1> DEFINE p == <<t>>
<1>2. In(p) = {t} /\ Len(p) \in Nat
  BY OneStep, TwoSteps
<1> HIDE DEF p, ch, b
<1>3. b \notin Workspaces /\ w \notin Branches
  BY NowReads DEF b
<1>4. Own(w, p)
  BY <1>0, <1>1, <1>2, <1>3 DEF Own, IsTx
<1>5. ASSUME Now(refs, base, w) PROVE Will(p, refs, base, w, w)
  <2>1. b = refs[w] /\ b \in Branches /\ b # w
    BY <1>3, <1>5, NowReads DEF b
  <2>2. Becomes(p, refs, w, b) /\ Becomes(p, refs, b, c)
    BY <1>0, <1>1, <1>2, <2>1 DEF Becomes, IsTx
  <2>3. MadeFrom(p, base, w, w, c)
    BY <1>1, <1>2 DEF MadeFrom, SetsBase, Given, IsTx
  <2> QED
    BY <2>1, <2>2, <2>3 DEF Will, WillFor
<1>6. Fits(w, p, refs, base, ex)
  BY <1>2, <1>4, <1>5, OwnFits
<1> QED
  BY <1>1, <1>6 DEF p, ch, b

\* A branch that is not checked out is made or deleted.
LEMMA BranchFits ==
    ASSUME TypeInv, NEW w \in Workspaces, NEW b \in Branches, b # HeadBranch(w),
           NEW old, NEW new, NEW ex
    PROVE  Fits(w, Tx(Change(b, old, new)), refs, base, ex)
<1> DEFINE ch == Change(b, old, new)
<1>0. DOMAIN ch = {b}
  BY ChangeIs
<1>1. PICK t : Tx(ch) = <<t>> /\ IsTx(t, ch, None)
  BY PlainTx
<1> DEFINE p == <<t>>
<1>2. In(p) = {t} /\ Len(p) \in Nat
  BY OneStep, TwoSteps
<1> HIDE DEF p, ch
<1>3. b \notin Workspaces
  BY NowReads
<1>4. Own(w, p)
  BY <1>0, <1>1, <1>2, <1>3 DEF Own, IsTx
<1>5. ASSUME Now(refs, base, w) PROVE Will(p, refs, base, w, w)
  <2>1. refs[w] \in Branches /\ refs[w] # b
    BY <1>5, NowReads
  <2>2. \A s \in In(p) : /\ ~SetsBase(s, w, w)
                         /\ s.op = "tx" => w \notin DOMAIN s.changes /\ refs[w] \notin DOMAIN s.changes
    BY <1>0, <1>1, <1>2, <1>3, <2>1 DEF SetsBase, IsTx
  <2> QED
    BY <1>5, <2>1, <2>2, StaysPut
<1>6. Fits(w, p, refs, base, ex)
  BY <1>2, <1>4, <1>5, OwnFits
<1> QED
  BY <1>1, <1>6 DEF p, ch

\* A new branch is checked out.
LEMMA SwitchCreateFits ==
    ASSUME TypeInv, NEW w \in Workspaces, NEW b \in Branches, refs[b] = None, NEW ex
    PROVE  LET steps == (IF Tip(w) = None THEN <<>> ELSE Tx(Change(b, None, Tip(w))))
                        \o MoveHead(w, b)
           IN steps # <<>> /\ Fits(w, steps, refs, base, ex)
<1> DEFINE at == Tip(w)
           ch == Change(b, None, at)
           from == IF refs[w] = None THEN HeadBranch(w) ELSE refs[w]
           mh == Change(w, from, b)
<1> HIDE DEF from, at
<1>01. DOMAIN ch = {b} /\ ch[b].new = Tip(w)
  <2>1. DOMAIN ch = {b} /\ ch[b].new = at
    BY DEF Change
  <2> HIDE DEF ch
  <2> QED
    BY <2>1 DEF at
<1>02. DOMAIN mh = {w} /\ mh[w].new = b
  BY ChangeIs
<1>0. DOMAIN ch = {b} /\ ch[b].new = Tip(w) /\ DOMAIN mh = {w} /\ mh[w].new = b
  BY <1>01, <1>02
<1>1. PICK t : Tx(ch) = <<t>> /\ IsTx(t, ch, None)
  BY PlainTx
<1>2. PICK m : MoveHead(w, b) = <<m>> /\ IsTx(m, mh, None)
  BY PlainTx DEF MoveHead, from
<1> DEFINE p == IF Tip(w) = None THEN <<m>> ELSE <<t, m>>
<1>3. (IF Tip(w) = None THEN <<>> ELSE Tx(ch)) \o MoveHead(w, b) = p
  <2>1. <<>> \o <<m>> = <<m>>
    BY OneStep
  <2>2. <<t>> \o <<m>> = <<t, m>>
    BY TwoSteps
  <2>3. CASE Tip(w) = None
    BY <1>2, <2>1, <2>3
  <2>4. CASE Tip(w) # None
    BY <1>1, <1>2, <2>2, <2>4
  <2> QED
    BY <2>3, <2>4
<1>4. /\ In(p) = IF Tip(w) = None THEN {m} ELSE {t, m}
      /\ Len(p) \in Nat /\ p # <<>>
  BY OneStep, TwoSteps
<1> HIDE DEF p, ch, mh
<1>5. b \notin Workspaces /\ w \notin Branches
  BY NowReads
<1>6. Own(w, p)
  BY <1>0, <1>1, <1>2, <1>4, <1>5 DEF Own, IsTx
<1>7. ASSUME Now(refs, base, w) PROVE Will(p, refs, base, w, w)
  <2>1. base[w] = Tip(w) /\ b # w
    BY <1>5, <1>7, NowReads
  <2>2. Becomes(p, refs, w, b) /\ Becomes(p, refs, b, Tip(w))
    BY <1>0, <1>1, <1>2, <1>4, <2>1 DEF Becomes, IsTx
  <2>3. MadeFrom(p, base, w, w, Tip(w))
    BY <1>1, <1>2, <1>4, <2>1 DEF MadeFrom, SetsBase, IsTx
  <2> QED
    BY <2>2, <2>3 DEF Will, WillFor
<1>8. Fits(w, p, refs, base, ex)
  BY <1>4, <1>6, <1>7, OwnFits
<1> QED
  BY <1>3, <1>4, <1>8 DEF ch, at

\* A checkout of c, and a transaction that moves the HEAD to h at c.
LEMMA ThenMoves ==
    ASSUME TypeInv, NEW w \in Workspaces, NEW h \in Branches, NEW c, NEW ch, NEW ex,
           DOMAIN ch \cap Workspaces = {w}, ch[w].new = h,
           IF h \in DOMAIN ch THEN ch[h].new = c ELSE refs[h] = c
    PROVE  CheckoutFrom(w, c) \o Tx(ch) # <<>> /\ Fits(w, CheckoutFrom(w, c) \o Tx(ch), refs, base, ex)
<1>1. PICK a, b : /\ CheckoutFrom(w, c) = <<a, b>>
                  /\ a.op = "files" /\ b.op = "index" /\ b.of = c
  BY CheckoutWrites
<1>2. PICK t : Tx(ch) = <<t>> /\ IsTx(t, ch, None)
  BY PlainTx
<1> DEFINE p == <<a, b, t>>
<1>3. CheckoutFrom(w, c) \o Tx(ch) = p
  <2>1. <<a, b>> \o <<t>> = p
    BY ThreeSteps
  <2> HIDE DEF p
  <2> QED
    BY <1>1, <1>2, <2>1
<1>4. In(p) = {a, b, t} /\ Len(p) \in Nat /\ p # <<>>
  BY ThreeSteps
<1> HIDE DEF p
<1>5. Own(w, p)
  BY <1>1, <1>2, <1>4 DEF Own, IsTx
<1>6. Will(p, refs, base, w, w)
  <2>1. Becomes(p, refs, w, h) /\ Becomes(p, refs, h, c)
    BY <1>1, <1>2, <1>4 DEF Becomes, IsTx
  <2>2. MadeFrom(p, base, w, w, c)
    BY <1>1, <1>2, <1>4 DEF MadeFrom, SetsBase, Given, IsTx
  <2> QED
    BY <2>1, <2>2 DEF Will, WillFor
<1>7. Fits(w, p, refs, base, ex)
  BY <1>4, <1>5, <1>6, OwnFits
<1> QED
  BY <1>3, <1>4, <1>7

\* The transaction, and then the checkout.
LEMMA ThenChecksOut ==
    ASSUME TypeInv, NEW w \in Workspaces, NEW h \in Branches, NEW c, NEW ch, NEW ex,
           DOMAIN ch \cap Workspaces = {w}, ch[w].new = h,
           IF h \in DOMAIN ch THEN ch[h].new = c ELSE refs[h] = c
    PROVE  Tx(ch) \o CheckoutFrom(w, c) # <<>> /\ Fits(w, Tx(ch) \o CheckoutFrom(w, c), refs, base, ex)
<1>1. PICK a, b : /\ CheckoutFrom(w, c) = <<a, b>>
                  /\ a.op = "files" /\ b.op = "index" /\ b.of = c
  BY CheckoutWrites
<1>2. PICK t : Tx(ch) = <<t>> /\ IsTx(t, ch, None)
  BY PlainTx
<1> DEFINE p == <<t, a, b>>
<1>3. Tx(ch) \o CheckoutFrom(w, c) = p
  <2>1. <<t>> \o <<a, b>> = p
    BY ThreeSteps
  <2> HIDE DEF p
  <2> QED
    BY <1>1, <1>2, <2>1
<1>4. In(p) = {t, a, b} /\ Len(p) \in Nat /\ p # <<>>
  BY ThreeSteps
<1> HIDE DEF p
<1>5. Own(w, p)
  BY <1>1, <1>2, <1>4 DEF Own, IsTx
<1>6. Will(p, refs, base, w, w)
  <2>1. Becomes(p, refs, w, h) /\ Becomes(p, refs, h, c)
    BY <1>1, <1>2, <1>4 DEF Becomes, IsTx
  <2>2. MadeFrom(p, base, w, w, c)
    BY <1>1, <1>2, <1>4 DEF MadeFrom, SetsBase, Given, IsTx
  <2> QED
    BY <2>1, <2>2 DEF Will, WillFor
<1>7. Fits(w, p, refs, base, ex)
  BY <1>4, <1>5, <1>6, OwnFits
<1> QED
  BY <1>3, <1>4, <1>7

-----------------------------------------------------------------------------
(* The commands.                                                           *)

\* A file is edited, staged or committed.
LEMMA CommitsDescribe ==
    ASSUME WorkspacesInv, FilesInv, NEW w \in Workspaces,
           \/ \E p \in Paths, c \in Contents : Edit(w, p, c)
           \/ Add(w) \/ Commit(w) \/ Amend(w)
    PROVE  FilesInv'
<1>1. TypeInv
  BY DEF WorkspacesInv
<1>2. CASE \E p \in Paths, c \in Contents : Edit(w, p, c)
  <2>1. UNCHANGED <<refs, dirs, plan, daemon, base, excused>>
    BY <1>2 DEF Edit
  <2> QED
    BY <2>1, SameDescribes
<1>3. CASE Add(w)
  <2> DEFINE i == work[w]
             changes == [p \in {q \in Paths : index[w][q] # work[w][q]} |->
                            [old |-> index[w][p], new |-> work[w][p]]]
             p == <<[op |-> "stage", index |-> i], [op |-> "record", changes |-> changes]>>
  <2>1. BeginWith(w, commits, p)
    BY <1>3 DEF Add, Begin
  <2> HIDE DEF i, changes
  <2>2. Fits(w, p, refs, base, excused)
    BY <1>1, StagingFits
  <2>3. p # <<>>
    BY TwoSteps
  <2> HIDE DEF p
  <2> QED
    BY <2>1, <2>2, <2>3, BeginDescribes
<1>4. CASE Commit(w) \/ Amend(w)
  <2> DEFINE c == Len(commits) + 1
             old == Tip(w)
             p == TxOf(Change(HeadBranch(w), old, c), c, FALSE, <<>>)
  <2>1. PICK parents : Recorded(w, parents)
    BY <1>4 DEF Commit, Amend
  <2>2. \E cs : BeginWith(w, cs, p)
    BY <2>1 DEF Recorded
  <2>3. c # None
    BY <1>1, WorkspacesAssumption DEF TypeInv
  <2> HIDE DEF c, old
  <2>4. Fits(w, p, refs, base, excused)
    BY <1>1, <2>3, CommitFits
  <2>5. p # <<>>
    BY OneStep DEF TxOf
  <2> HIDE DEF p
  <2> QED
    BY <2>2, <2>4, <2>5, BeginDescribes
<1> QED
  BY <1>2, <1>3, <1>4

\* A branch is made or deleted, and checked out.
LEMMA BranchDescribes ==
    ASSUME WorkspacesInv, FilesInv, NEW w \in Workspaces, NEW b \in Branches,
           CreateBranch(w, b) \/ DeleteBranch(w, b) \/ SwitchCreate(w, b) \/ Switch(w, b)
    PROVE  FilesInv'
<1>1. TypeInv
  BY DEF WorkspacesInv
<1>2. ASSUME NEW old, NEW new, b # HeadBranch(w), Begin(w, Tx(Change(b, old, new)))
      PROVE  FilesInv'
  <2> DEFINE p == Tx(Change(b, old, new))
  <2>1. Fits(w, p, refs, base, excused)
    BY <1>1, <1>2, BranchFits
  <2>2. p # <<>>
    BY OneStep DEF Tx, TxOf
  <2>3. BeginWith(w, commits, p)
    BY <1>2 DEF Begin
  <2> HIDE DEF p
  <2> QED
    BY <2>1, <2>2, <2>3, BeginDescribes
<1>3. CASE CreateBranch(w, b)
  <2>1. b # HeadBranch(w) /\ Begin(w, Tx(Change(b, None, Tip(w))))
    BY <1>3 DEF CreateBranch, Tip
  <2> QED
    BY <1>2, <2>1
<1>4. CASE DeleteBranch(w, b)
  <2>1. b # HeadBranch(w) /\ Begin(w, Tx(Change(b, refs[b], None)))
    BY <1>4 DEF DeleteBranch
  <2> QED
    BY <1>2, <2>1
<1>5. CASE SwitchCreate(w, b)
  <2> DEFINE p == (IF Tip(w) = None THEN <<>> ELSE Tx(Change(b, None, Tip(w)))) \o MoveHead(w, b)
  <2>1. BeginWith(w, commits, p) /\ refs[b] = None
    BY <1>5 DEF SwitchCreate, Begin
  <2>2. p # <<>> /\ Fits(w, p, refs, base, excused)
    BY <1>1, <2>1, SwitchCreateFits
  <2> HIDE DEF p
  <2> QED
    BY <2>1, <2>2, BeginDescribes
<1>6. CASE Switch(w, b)
  <2> DEFINE from == IF refs[w] = None THEN HeadBranch(w) ELSE refs[w]
             ch == Change(w, from, b)
             c == refs[b]
             p == CheckoutFrom(w, c) \o Tx(ch)
  <2>1. BeginWith(w, commits, p)
    BY <1>6 DEF Switch, Begin, MoveHead
  <2> HIDE DEF from
  <2>2. DOMAIN ch = {w} /\ ch[w].new = b
    BY ChangeIs
  <2>3. b \notin Workspaces
    BY <1>1, NowReads
  <2> HIDE DEF ch
  <2>4. /\ DOMAIN ch \cap Workspaces = {w} /\ ch[w].new = b
        /\ IF b \in DOMAIN ch THEN ch[b].new = c ELSE refs[b] = c
    BY <2>2, <2>3
  <2> HIDE DEF c
  <2>5. p # <<>> /\ Fits(w, p, refs, base, excused)
    BY <1>1, <2>4, ThenMoves
  <2> HIDE DEF p
  <2> QED
    BY <2>1, <2>5, BeginDescribes
<1> QED
  BY <1>3, <1>4, <1>5, <1>6

\* A transaction moves the HEAD to h at c, the commit of the index already.
LEMMA MovesFits ==
    ASSUME TypeInv, NEW w \in Workspaces, NEW h \in Branches, NEW c, NEW ch, NEW ex,
           DOMAIN ch \cap Workspaces = {w}, ch[w].new = h,
           IF h \in DOMAIN ch THEN ch[h].new = c ELSE refs[h] = c,
           w \notin ex /\ Now(refs, base, w) => base[w] = c
    PROVE  Tx(ch) # <<>> /\ Fits(w, Tx(ch), refs, base, ex)
<1>1. PICK t : Tx(ch) = <<t>> /\ IsTx(t, ch, None)
  BY PlainTx
<1> DEFINE p == <<t>>
<1>2. In(p) = {t} /\ Len(p) \in Nat /\ p # <<>>
  BY OneStep
<1> HIDE DEF p
<1>3. Own(w, p)
  BY <1>1, <1>2 DEF Own, IsTx
<1>4. ASSUME w \notin ex, Now(refs, base, w) PROVE Will(p, refs, base, w, w)
  <2>1. Becomes(p, refs, w, h) /\ Becomes(p, refs, h, c)
    BY <1>1, <1>2 DEF Becomes, IsTx
  <2>2. MadeFrom(p, base, w, w, c)
    BY <1>1, <1>2, <1>4 DEF MadeFrom, SetsBase, IsTx
  <2> QED
    BY <2>1, <2>2 DEF Will, WillFor
<1>5. Fits(w, p, refs, base, ex)
  BY <1>2, <1>3, <1>4, OwnFits
<1> QED
  BY <1>1, <1>2, <1>5 DEF p

\* The flow begins, and topics.
LEMMA StartsDescribe ==
    ASSUME WorkspacesInv, FilesInv, NEW w \in Workspaces,
           FlowInit(w) \/ \E topic \in Topics : TopicStart(w, topic)
    PROVE  FilesInv'
<1>1. /\ TypeInv /\ w \notin Branches /\ (\A b \in Branches : b \notin Workspaces)
      /\ "develop" \in Branches /\ Topics \subseteq Branches
  BY NowReads, Reads DEF WorkspacesInv
<1>2. ASSUME NEW h \in Branches, NEW c, NEW old, NEW from
      PROVE  LET ch == Change(h, old, c) ++ Change(w, from, h)
             IN /\ DOMAIN ch \cap Workspaces = {w} /\ ch[w].new = h
                /\ h \in DOMAIN ch /\ ch[h].new = c
  <2> DEFINE f == Change(h, old, c)
             g == Change(w, from, h)
  <2>1. DOMAIN f = {h} /\ f[h].new = c
    BY ChangeIs
  <2>2. DOMAIN g = {w} /\ g[w].new = h
    BY ChangeIs
  <2> HIDE DEF f, g
  <2> DEFINE ch == f ++ g
  <2>3. /\ DOMAIN ch = DOMAIN f \cup DOMAIN g
        /\ \A r \in DOMAIN f \cup DOMAIN g : ch[r] = IF r \in DOMAIN f THEN f[r] ELSE g[r]
    BY DEF ++
  <2> HIDE DEF ch
  <2>4. DOMAIN ch \cap Workspaces = {w} /\ ch[w].new = h /\ h \in DOMAIN ch /\ ch[h].new = c
    BY <1>1, <2>1, <2>2, <2>3
  <2> QED
    BY <2>4 DEF ch, f, g
<1>3. CASE FlowInit(w)
  <2> DEFINE c == IF refs["main"] # None THEN refs["main"] ELSE Tip(w)
             from == refs[w]
             none == None
             h == "develop"
             ch == Change(h, none, c) ++ Change(w, from, h)
             p == Tx(ch)
  <2>1. /\ Run(w, commits, p)
        /\ excused' = excused \cup (IF c = Tip(w) THEN {} ELSE {w})
    BY <1>3 DEF FlowInit
  <2>2. h \in Branches
    BY <1>1
  <2>3. w \notin excused' /\ Now(refs, base, w) => base[w] = c
    <3>1. Now(refs, base, w) => base[w] = Tip(w)
      BY <1>1, NowReads
    <3> HIDE DEF c
    <3> QED
      BY <2>1, <3>1
  <2> HIDE DEF c, from, none, h
  <2>4. DOMAIN ch \cap Workspaces = {w} /\ ch[w].new = h /\ h \in DOMAIN ch /\ ch[h].new = c
    BY <1>2, <2>2
  <2> HIDE DEF ch
  <2>5. p # <<>> /\ Fits(w, p, refs, base, excused')
    BY <1>1, <2>2, <2>3, <2>4, MovesFits
  <2>6. Began(w, commits, p) /\ excused \subseteq excused'
    BY <2>1 DEF Run, Began, Commands
  <2> HIDE DEF p
  <2> QED
    BY <2>5, <2>6, BeganDescribes
<1>4. ASSUME NEW topic \in Topics, TopicStart(w, topic) PROVE FilesInv'
  <2> DEFINE c == refs[FlowBase(topic)]
             from == refs[w]
             none == None
             ch == Change(topic, none, c) ++ Change(w, from, topic)
             p == CheckoutFrom(w, c) \o Tx(ch)
  <2>1. BeginWith(w, commits, p)
    BY <1>4 DEF TopicStart, Begin
  <2>2. topic \in Branches
    BY <1>1
  <2> HIDE DEF c, from, none
  <2>3. /\ DOMAIN ch \cap Workspaces = {w} /\ ch[w].new = topic
        /\ topic \in DOMAIN ch /\ ch[topic].new = c
    BY <1>2, <2>2
  <2> HIDE DEF ch
  <2>4. p # <<>> /\ Fits(w, p, refs, base, excused)
    BY <1>1, <2>2, <2>3, ThenMoves
  <2> HIDE DEF p
  <2> QED
    BY <2>1, <2>4, BeginDescribes
<1> QED
  BY <1>3, <1>4

\* What the transaction of a finish does to the HEAD of w and to develop.
LEMMA FinishMoves ==
    ASSUME TypeInv, NEW w \in Workspaces, NEW topic \in Topics, NEW old, NEW from,
           NEW f, NEW k, DOMAIN f \subseteq Branches, DOMAIN k \subseteq Branches
    PROVE  LET ch == f ++ Change(topic, old, None) ++ Change(w, from, "develop") ++ k
           IN /\ DOMAIN ch \cap Workspaces = {w} /\ ch[w].new = "develop"
              /\ "develop" \in DOMAIN ch <=> "develop" \in DOMAIN f \cup DOMAIN k
              /\ "develop" \in DOMAIN ch =>
                   ch["develop"] = IF "develop" \in DOMAIN f THEN f["develop"] ELSE k["develop"]
<1> DEFINE d == "develop"
           none == None
           g == Change(topic, old, none)
           h == Change(w, from, d)
           a == f ++ g
           b == a ++ h
           ch == b ++ k
<1>1. /\ w \notin Branches /\ \A x \in Branches : x \notin Workspaces
      /\ d \in Branches /\ topic \in Branches /\ topic # d
  BY NowReads, Reads, WorkspacesAssumption
<1> HIDE DEF d, none
<1>2. DOMAIN g = {topic}
  BY DEF Change
<1>3. DOMAIN h = {w} /\ h[w].new = d
  BY DEF Change
<1> HIDE DEF g, h
<1>4. /\ DOMAIN a = DOMAIN f \cup DOMAIN g
      /\ \A r \in DOMAIN f \cup DOMAIN g : a[r] = IF r \in DOMAIN f THEN f[r] ELSE g[r]
  BY DEF ++
<1> HIDE DEF a
<1>5. /\ DOMAIN b = DOMAIN a \cup DOMAIN h
      /\ \A r \in DOMAIN a \cup DOMAIN h : b[r] = IF r \in DOMAIN a THEN a[r] ELSE h[r]
  BY DEF ++
<1> HIDE DEF b
<1>6. /\ DOMAIN ch = DOMAIN b \cup DOMAIN k
      /\ \A r \in DOMAIN b \cup DOMAIN k : ch[r] = IF r \in DOMAIN b THEN b[r] ELSE k[r]
  BY DEF ++
<1> HIDE DEF ch
<1>7. DOMAIN ch \cap Workspaces = {w} /\ ch[w].new = d
  BY <1>1, <1>2, <1>3, <1>4, <1>5, <1>6
<1>8. d \in DOMAIN ch <=> d \in DOMAIN f \cup DOMAIN k
  BY <1>1, <1>2, <1>3, <1>4, <1>5, <1>6
<1>9. d \in DOMAIN ch => ch[d] = IF d \in DOMAIN f THEN f[d] ELSE k[d]
  BY <1>1, <1>2, <1>3, <1>4, <1>5, <1>6
<1> QED
  BY <1>7, <1>8, <1>9 DEF ch, b, a, g, h, d, none

\* The same, when there is nothing else to it.
LEMMA FeatureMoves ==
    ASSUME TypeInv, NEW w \in Workspaces, NEW topic \in Topics, NEW old, NEW from,
           NEW f, DOMAIN f = {"develop"}
    PROVE  LET ch == f ++ Change(topic, old, None) ++ Change(w, from, "develop")
           IN /\ DOMAIN ch \cap Workspaces = {w} /\ ch[w].new = "develop"
              /\ "develop" \in DOMAIN ch /\ ch["develop"] = f["develop"]
<1> DEFINE d == "develop"
           none == None
           g == Change(topic, old, none)
           h == Change(w, from, d)
           a == f ++ g
           ch == a ++ h
<1>1. /\ w \notin Branches /\ \A x \in Branches : x \notin Workspaces
      /\ d \in Branches /\ topic \in Branches /\ DOMAIN f = {d}
  BY NowReads, Reads
<1> HIDE DEF d, none
<1>2. DOMAIN g = {topic}
  BY DEF Change
<1>3. DOMAIN h = {w} /\ h[w].new = d
  BY DEF Change
<1> HIDE DEF g, h
<1>4. /\ DOMAIN a = DOMAIN f \cup DOMAIN g
      /\ \A r \in DOMAIN f \cup DOMAIN g : a[r] = IF r \in DOMAIN f THEN f[r] ELSE g[r]
  BY DEF ++
<1> HIDE DEF a
<1>5. /\ DOMAIN ch = DOMAIN a \cup DOMAIN h
      /\ \A r \in DOMAIN a \cup DOMAIN h : ch[r] = IF r \in DOMAIN a THEN a[r] ELSE h[r]
  BY DEF ++
<1> HIDE DEF ch
<1>6. DOMAIN ch \cap Workspaces = {w} /\ ch[w].new = d /\ d \in DOMAIN ch /\ ch[d] = f[d]
  BY <1>1, <1>2, <1>3, <1>4, <1>5
<1> QED
  BY <1>6 DEF ch, a, g, h, d, none

\* A finish: its transaction, and the checkout of develop.
LEMMA FinishesDescribe ==
    ASSUME WorkspacesInv, FilesInv, NEW w \in Workspaces, NEW topic \in Topics,
           FeatureFinish(w, topic) \/ TopicFinish(w, topic)
    PROVE  FilesInv'
<1>1. /\ TypeInv /\ "develop" \in Branches /\ "main" \in Branches
  BY Reads DEF WorkspacesInv
<1>2. ASSUME NEW ch, NEW c, NEW cs, BeginWith(w, cs, Tx(ch) \o CheckoutFrom(w, c)),
             DOMAIN ch \cap Workspaces = {w}, ch[w].new = "develop",
             IF "develop" \in DOMAIN ch THEN ch["develop"].new = c ELSE refs["develop"] = c
      PROVE  FilesInv'
  <2> DEFINE p == Tx(ch) \o CheckoutFrom(w, c)
             h == "develop"
  <2>1. h \in Branches /\ DOMAIN ch \cap Workspaces = {w} /\ ch[w].new = h
        /\ (IF h \in DOMAIN ch THEN ch[h].new = c ELSE refs[h] = c)
    BY <1>1, <1>2
  <2> HIDE DEF h
  <2>2. p # <<>> /\ Fits(w, p, refs, base, excused)
    BY <1>1, <2>1, ThenChecksOut
  <2>3. BeginWith(w, cs, p)
    BY <1>2
  <2> HIDE DEF p
  <2> QED
    BY <2>2, <2>3, BeginDescribes
<1>3. CASE FeatureFinish(w, topic)
  <2> DEFINE merged == Integrated(commits, refs["develop"], refs[topic])
             c == merged.at
             cs == merged.commits
             dev == refs["develop"]
             old == refs[topic]
             from == refs[w]
             f == Change("develop", dev, c)
             ch == f ++ Change(topic, old, None) ++ Change(w, from, "develop")
  <2>1. BeginWith(w, cs, Tx(ch) \o CheckoutFrom(w, c))
    BY <1>3 DEF FeatureFinish
  <2> HIDE DEF merged, c, cs, dev, old, from
  <2>2. DOMAIN f = {"develop"} /\ f["develop"].new = c
    BY DEF Change
  <2> HIDE DEF f
  <2>3. /\ DOMAIN ch \cap Workspaces = {w} /\ ch[w].new = "develop"
        /\ "develop" \in DOMAIN ch /\ ch["develop"].new = c
    BY <1>1, <2>2, FeatureMoves
  <2> HIDE DEF ch
  <2> QED
    BY <1>2, <2>1, <2>3
<1>4. CASE TopicFinish(w, topic)
  <2> DEFINE target == refs["main"]
             back == refs["develop"]
             merged == Integrated(commits, target, refs[topic])
             backed == IF merged.at = back THEN [commits |-> merged.commits, at |-> back]
                       ELSE Integrated(merged.commits, back, merged.at)
             c == backed.at
             cs == backed.commits
             new == merged.at
             old == refs[topic]
             from == refs[w]
             f == Change("main", target, new)
             k == IF c = back THEN NoChange ELSE Change("develop", back, c)
             ch == f ++ Change(topic, old, None) ++ Change(w, from, "develop") ++ k
  <2>1. BeginWith(w, cs, Tx(ch) \o CheckoutFrom(w, c))
    BY <1>4 DEF TopicFinish
  <2>2. back = refs["develop"]
    OBVIOUS
  <2> HIDE DEF merged, backed, c, cs, target, back, new, old, from
  <2>3. DOMAIN f = {"main"}
    BY DEF Change
  <2>4. /\ c = back => DOMAIN k = {}
        /\ c # back => DOMAIN k = {"develop"} /\ k["develop"].new = c
    BY DEF Change, NoChange
  <2> HIDE DEF f, k
  <2>5. DOMAIN f \subseteq Branches /\ DOMAIN k \subseteq Branches
    BY <1>1, <2>3, <2>4
  <2>6. /\ DOMAIN ch \cap Workspaces = {w} /\ ch[w].new = "develop"
        /\ "develop" \in DOMAIN ch <=> "develop" \in DOMAIN f \cup DOMAIN k
        /\ "develop" \in DOMAIN ch =>
             ch["develop"] = IF "develop" \in DOMAIN f THEN f["develop"] ELSE k["develop"]
    BY <1>1, <2>5, FinishMoves
  <2> HIDE DEF ch
  <2>7. IF "develop" \in DOMAIN ch THEN ch["develop"].new = c ELSE refs["develop"] = c
    BY <2>2, <2>3, <2>4, <2>6
  <2> QED
    BY <1>2, <2>1, <2>6, <2>7
<1> QED
  BY <1>3, <1>4

\* The last operation is undone.
LEMMA UndoDescribes ==
    ASSUME WorkspacesInv, FilesInv, NEW w \in Workspaces, Undo(w)
    PROVE  FilesInv'
<1>1. TypeInv
  BY DEF WorkspacesInv
<1>2. Began(w, commits, UndoSteps(w)) /\ excused' = excused
  BY DEF Undo, Began, Commands, disk
<1>3. CASE last.kind = "refs"
  <2> DEFINE inv == Inverted(last.changes)
             t == [op |-> "tx", changes |-> inv, made |-> None, checkout |-> TRUE,
                   otherwise |-> <<>>]
             p == <<t>>
  <2>1. UndoSteps(w) = p
    BY <1>3 DEF UndoSteps, TxOf
  <2>2. t.op = "tx" /\ t.checkout
    OBVIOUS
  <2> HIDE DEF t
  <2>3. In(p) = {t} /\ Len(p) = 1 /\ p # <<>> /\ p[1] = t
    BY OneStep
  <2> HIDE DEF p
  <2>4. Shape(w, p)
    BY <2>2, <2>3 DEF Shape, Placed
  <2>5. ~Settled(w, p) /\ \A x : ~Arrives(p, x)
    BY <2>2, <2>3 DEF Settled, Arrives
  <2>6. Fits(w, p, refs, base, excused')
    BY <2>4, <2>5 DEF Fits
  <2>7. Began(w, commits, p) /\ excused \subseteq excused'
    BY <1>2, <2>1
  <2> QED
    BY <2>3, <2>6, <2>7, BeganDescribes
<1>4. CASE last.kind # "refs"
  <2> DEFINE to == Reverted(w, last.changes)
             inv == Inverted(last.changes)
             p == <<[op |-> "stage", index |-> to], [op |-> "record", changes |-> inv]>>
  <2>1. UndoSteps(w) = p
    BY <1>4 DEF UndoSteps
  <2> HIDE DEF to, inv
  <2>2. Fits(w, p, refs, base, excused')
    BY <1>1, StagingFits
  <2>3. p # <<>>
    BY TwoSteps
  <2> HIDE DEF p
  <2>4. Began(w, commits, p) /\ excused \subseteq excused'
    BY <1>2, <2>1
  <2> QED
    BY <2>2, <2>3, <2>4, BeganDescribes
<1> QED
  BY <1>3, <1>4

\* A workspace is removed: its HEAD goes, and its name.
LEMMA RemoveDescribes ==
    ASSUME WorkspacesInv, FilesInv, NEW w \in Workspaces, NEW v \in Workspaces,
           WorkspaceRemove(w, v)
    PROVE  FilesInv'
<1> DEFINE from == refs[v]
           none == None
           ch == Change(v, from, none)
           u == [op |-> "unmark", ws |-> v]
           tx == Tx(ch)
           q == tx \o <<u>>
<1>1. TypeInv /\ BeginWith(w, commits, q)
  BY DEF WorkspacesInv, WorkspaceRemove, Begin
<1> HIDE DEF from, none
<1>2. DOMAIN ch = {v}
  BY DEF Change
<1> HIDE DEF ch
<1>3. PICK t : tx = <<t>> /\ IsTx(t, ch, None)
  BY PlainTx
<1>4. u.op = "unmark" /\ u.ws = v
  OBVIOUS
<1> HIDE DEF u, tx
<1> DEFINE p == <<t, u>>
<1>5. q = p
  <2>1. <<t>> \o <<u>> = p
    BY TwoSteps
  <2> HIDE DEF p
  <2> QED
    BY <1>3, <2>1
<1> HIDE DEF q
<1>6. In(p) = {t, u} /\ Len(p) = 2 /\ p # <<>> /\ p[1] = t /\ p[2] = u
  BY TwoSteps
<1> HIDE DEF p
<1>7. Shape(w, p)
  <2>1. Placed(w, p, 1)
    BY <1>2, <1>3, <1>4, <1>6 DEF Placed, IsTx
  <2>2. Placed(w, p, 2)
    BY <1>4, <1>6 DEF Placed
  <2> QED
    BY <1>6, <2>1, <2>2 DEF Shape
<1>8. \A x : ~Arrives(p, x)
  BY <1>3, <1>4, <1>6 DEF Arrives, IsTx
<1>9. ASSUME Now(refs, base, w), Settled(w, p) PROVE Will(p, refs, base, w, w)
  <2>1. v # w
    BY <1>4, <1>6, <1>9 DEF Settled
  <2>2. refs[w] \in Branches /\ v \notin Branches
    BY <1>1, <1>9, NowReads
  <2>3. \A s \in In(p) : /\ ~SetsBase(s, w, w)
                         /\ s.op = "tx" => w \notin DOMAIN s.changes /\ refs[w] \notin DOMAIN s.changes
    BY <1>2, <1>3, <1>4, <1>6, <2>1, <2>2 DEF SetsBase, IsTx
  <2> QED
    BY <1>9, <2>2, <2>3, StaysPut
<1>10. Fits(w, p, refs, base, excused)
  BY <1>7, <1>8, <1>9 DEF Fits
<1> QED
  BY <1>1, <1>5, <1>6, <1>10, BeginDescribes

\* A workspace is added: its name, its HEAD, and last its files.
LEMMA AddDescribes ==
    ASSUME WorkspacesInv, FilesInv, NEW w \in Workspaces, NEW v \in Workspaces,
           NEW b \in Branches, WorkspaceAdd(w, v, b)
    PROVE  FilesInv'
<1> DEFINE none == None
           at == Tip(w)
           of == IF refs[b] = None THEN at ELSE refs[b]
           f == Change(v, none, b)
           g == IF refs[b] = None THEN Change(b, none, at) ELSE NoChange
           ch == f ++ g
           u == [op |-> "unmark", ws |-> v]
           m == [op |-> "mark", ws |-> v]
           back == <<u>>
           tx == TxOf(ch, None, FALSE, back)
           o == [op |-> "populate", ws |-> v, of |-> of]
           q == <<m>> \o tx \o <<o>>
<1>1. TypeInv /\ BeginWith(w, commits, q) /\ refs[v] = None
  BY DEF WorkspacesInv, WorkspaceAdd, AddChanges, Begin
<1>2. v \notin Branches /\ b \notin Workspaces
  BY <1>1, NowReads
<1>3. m.op = "mark" /\ m.ws = v /\ o.op = "populate" /\ o.ws = v /\ o.of = of
  OBVIOUS
<1>4. back = <<[op |-> "unmark", ws |-> v]>>
  OBVIOUS
<1>5. of = IF refs[b] = None THEN at ELSE refs[b]
  OBVIOUS
<1> HIDE DEF none, at, of, back
<1>6. DOMAIN f = {v} /\ f[v].new = b
  BY DEF Change
<1>7. /\ refs[b] = None => DOMAIN g = {b} /\ g[b].new = at
      /\ refs[b] # None => DOMAIN g = {}
  BY DEF Change, NoChange
<1> HIDE DEF f, g
<1>8. /\ DOMAIN ch = DOMAIN f \cup DOMAIN g
      /\ \A r \in DOMAIN f \cup DOMAIN g : ch[r] = IF r \in DOMAIN f THEN f[r] ELSE g[r]
  BY DEF ++
<1> HIDE DEF ch
<1> DEFINE t == [op |-> "tx", changes |-> ch, made |-> None, checkout |-> FALSE,
                 otherwise |-> back]
<1>9. tx = <<t>> /\ IsTx(t, ch, None) /\ t.otherwise = back
  BY DEF TxOf, IsTx
<1> HIDE DEF t
<1> HIDE DEF m, o, tx
<1> DEFINE p == <<m, t, o>>
<1>10. q = p
  <2>1. <<m>> \o <<t>> = <<m, t>>
    BY TwoSteps
  <2>2. <<m, t>> \o <<o>> = p
    BY ThreeSteps
  <2> HIDE DEF p
  <2> QED
    BY <1>9, <2>1, <2>2
<1> HIDE DEF q
<1>11. In(p) = {m, t, o} /\ Len(p) = 3 /\ p # <<>> /\ p[1] = m /\ p[2] = t /\ p[3] = o
  BY ThreeSteps
<1> HIDE DEF p
<1>12. /\ v \in DOMAIN ch /\ ch[v].new = b /\ DOMAIN ch \cap Workspaces = {v}
       /\ DOMAIN ch \subseteq {v, b}
       /\ IF b \in DOMAIN ch THEN ch[b].new = of ELSE refs[b] = of
       /\ refs[b] # None => b \notin DOMAIN ch
  BY <1>2, <1>5, <1>6, <1>7, <1>8
<1>13. Shape(w, p)
  <2>1. Placed(w, p, 1)
    BY <1>3, <1>4, <1>9, <1>11 DEF Placed, IsTx
  <2>2. Placed(w, p, 2)
    BY <1>3, <1>4, <1>9, <1>11, <1>12 DEF Placed, IsTx
  <2>3. Placed(w, p, 3)
    BY <1>3, <1>11 DEF Placed
  <2> QED
    BY <1>11, <2>1, <2>2, <2>3 DEF Shape
<1>14. ASSUME NEW x, Arrives(p, x) PROVE Will(p, refs, base, w, x)
  <2>1. x = v
    BY <1>3, <1>9, <1>11, <1>14 DEF Arrives, IsTx
  <2>2. Becomes(p, refs, v, b) /\ Becomes(p, refs, b, of)
    BY <1>3, <1>9, <1>11, <1>12 DEF Becomes, IsTx
  <2>3. MadeFrom(p, base, w, v, of)
    BY <1>3, <1>9, <1>11 DEF MadeFrom, SetsBase, Given, IsTx
  <2> QED
    BY <2>1, <2>2, <2>3 DEF Will, WillFor
<1>15. ASSUME Now(refs, base, w) PROVE Will(p, refs, base, w, w)
  <2>1. v # w
    BY <1>1, <1>15 DEF Now
  <2>2. refs[w] \in Branches /\ refs[w] # v /\ w # b
    BY <1>1, <1>2, <1>15, NowReads
  <2>3. CASE refs[w] \notin DOMAIN ch
    <3>1. \A s \in In(p) : /\ ~SetsBase(s, w, w)
                           /\ s.op = "tx" => w \notin DOMAIN s.changes /\ refs[w] \notin DOMAIN s.changes
      BY <1>3, <1>9, <1>11, <1>12, <2>1, <2>2, <2>3 DEF SetsBase, IsTx
    <3> QED
      BY <1>15, <2>2, <3>1, StaysPut
  <2>4. CASE refs[w] = b /\ refs[b] = None
    <3>1. Becomes(p, refs, w, b) /\ Becomes(p, refs, b, of)
      BY <1>3, <1>9, <1>11, <1>12, <2>1, <2>2, <2>4 DEF Becomes, IsTx
    <3>2. base[w] = of
      <4>1. base[w] = at
        BY <1>1, <1>15, NowReads DEF at
      <4> QED
        BY <1>5, <2>4, <4>1
    <3>3. MadeFrom(p, base, w, w, of)
      BY <1>3, <1>9, <1>11, <2>1, <3>2 DEF MadeFrom, SetsBase, Given, IsTx
    <3> QED
      BY <3>1, <3>3 DEF Will, WillFor
  <2> QED
    BY <1>12, <2>2, <2>3, <2>4
<1>16. Fits(w, p, refs, base, excused)
  BY <1>13, <1>14, <1>15 DEF Fits
<1> QED
  BY <1>1, <1>10, <1>11, <1>16, BeginDescribes

\* Every command.
LEMMA CommandDescribes ==
    ASSUME WorkspacesInv, FilesInv, NEW w \in Workspaces, Command(w)
    PROVE  FilesInv'
<1>1. CASE \/ \E p \in Paths, c \in Contents : Edit(w, p, c)
           \/ Add(w) \/ Commit(w) \/ Amend(w)
  BY <1>1, CommitsDescribe
<1>2. CASE \/ \E b \in Plain : CreateBranch(w, b) \/ SwitchCreate(w, b)
           \/ \E b \in Branches : DeleteBranch(w, b) \/ Switch(w, b)
  <2>1. \E b \in Branches : \/ CreateBranch(w, b) \/ DeleteBranch(w, b)
                            \/ SwitchCreate(w, b) \/ Switch(w, b)
    BY <1>2 DEF Branches
  <2> QED
    BY <2>1, BranchDescribes
<1>3. CASE \/ FlowInit(w)
           \/ \E t \in Features : FeatureStart(w, t) \/ FeatureFinish(w, t)
           \/ \E t \in Releases \cup Hotfixes : TopicStart(w, t) \/ TopicFinish(w, t)
  BY <1>3, StartsDescribe, FinishesDescribe DEF FeatureStart, Topics
<1>4. CASE Undo(w)
  BY <1>4, UndoDescribes
<1>5. CASE \/ \E v \in Workspaces, b \in Branches : WorkspaceAdd(w, v, b)
           \/ \E v \in Workspaces : WorkspaceRemove(w, v)
  BY <1>5, AddDescribes, RemoveDescribes
<1> QED
  BY <1>1, <1>2, <1>3, <1>4, <1>5 DEF Command

\* The repository a command finds first.
LEMMA StartsDescribed ==
    ASSUME Init PROVE FilesInv
<1>1. PICK s \in Starts :
        /\ commits = s.commits
        /\ refs = [r \in Branches \cup Workspaces |->
                      IF r \in DOMAIN s.refs THEN s.refs[r] ELSE None]
        /\ dirs = {w \in Workspaces : refs[w] # None}
        /\ base = [w \in Workspaces |-> IF w \in dirs THEN refs[refs[w]] ELSE None]
        /\ plan = [w \in Workspaces |-> <<>>]
  BY DEF Init
<1>2. \A w \in dirs : Now(refs, base, w)
  BY <1>1 DEF Now
<1>3. \A v : Good(v, <<>>, refs, base, dirs, excused)
  BY <1>2, Rests
<1>4. \A v : Shape(v, <<>>)
  BY DEF Shape
<1> QED
  BY <1>1, <1>3, <1>4 DEF FilesInv

\* Every step.
LEMMA NextDescribes ==
    ASSUME WorkspacesInv, FilesInv, [Next]_vars PROVE FilesInv'
<1>1. CASE \E w \in Workspaces : Command(w)
  BY <1>1, CommandDescribes
<1>2. CASE \E w \in Workspaces : Steps(w)
  BY <1>2, NextKeeps, TxDescribes, WritesDescribe DEF Steps
<1>3. CASE \E w \in Workspaces : Crash(w)
  BY <1>3, CrashDescribes
<1>4. CASE \E b \in Branches, c \in DOMAIN commits : Push(b, c)
  BY <1>4, PushDescribes
<1>5. CASE UNCHANGED vars
  <2>1. UNCHANGED <<refs, dirs, plan, daemon, base, excused>>
    BY <1>5 DEF vars
  <2> QED
    BY <2>1, SameDescribes
<1> QED
  BY <1>1, <1>2, <1>3, <1>4, <1>5 DEF Next

\* With commands one at a time, the index of a workspace at rest was made from the commit
\* its HEAD names, but for the excused (the purpose of one_workspace_per_branch).
THEOREM FilesDescribeTheHead == Spec => []FilesDescribeHead
<1>1. Init => WorkspacesInv /\ FilesInv
  BY StartsWell, StartsDescribed
<1>2. WorkspacesInv /\ FilesInv /\ [Next]_vars => (WorkspacesInv /\ FilesInv)'
  BY NextKeeps, NextDescribes
<1>3. WorkspacesInv /\ FilesInv => FilesDescribeHead
  <2>1. SUFFICES ASSUME WorkspacesInv, FilesInv, daemon, NEW w \in dirs \ excused,
                        \A v \in Workspaces : plan[v] = <<>>
                 PROVE  base[w] = Tip(w)
    BY DEF FilesDescribeHead
  <2>2. TypeInv /\ w \in Workspaces
    BY <2>1, HeadsAre DEF WorkspacesInv
  <2>3. Good(w, <<>>, refs, base, dirs, excused)
    BY <2>1, <2>2 DEF FilesInv, Others
  <2>4. Now(refs, base, w)
    BY <2>1, <2>3, Rests
  <2> QED
    BY <2>2, <2>4, NowReads
<1> QED
  BY <1>1, <1>2, <1>3, PTL DEF Spec

-----------------------------------------------------------------------------
(* Undo, and undo again.  x and y are a repository before and after an     *)
(* undo, c what is undone, w where.                                        *)

TipAt(rs, w) == IF rs[w] = None THEN rs["main"] ELSE rs[rs[w]]
TreeAt(cs, rs, w) == IF TipAt(rs, w) = None THEN EmptyTree ELSE TreeOf(cs, TipAt(rs, w))

\* What the undo of a transaction is to make of a repository.
RefsBack(cs, w, x, y, c) ==
    /\ y.refs = [r \in Name |-> IF r \in DOMAIN c THEN c[r].old ELSE x.refs[r]]
    /\ y.index = [x.index EXCEPT ![w] = TreeAt(cs, y.refs, w)]
    /\ y.work = [x.work EXCEPT ![w] = CheckedOut(PathsIn(x.index[w]), TreeAt(cs, y.refs, w), @)]

\* The refs are as c left them, and no file is in the way.
RefsHold(x, c) == \A r \in DOMAIN c : x.refs[r] = c[r].new
Unhindered(cs, w, x, y) == ~InTheWay(PathsIn(x.index[w]), TreeAt(cs, y.refs, w), x.work[w])

\* How far it has come: the plan, the last operation, the refs, the indexes, the files.
RefsWalk(cs, w, x, y, c, p, l, rs, ix, wk) ==
    \/ /\ p = TxOf(Inverted(c), None, TRUE, <<>>) /\ l = RefOp(c)
       /\ rs = x.refs /\ ix = x.index /\ wk = x.work
    \/ /\ l = RefOp(Inverted(c)) /\ rs = y.refs /\ RefsHold(x, c)
       /\ \/ /\ p = Checkout(PathsIn(x.index[w]), TipAt(y.refs, w))
             /\ ix = x.index /\ wk = x.work
          \/ /\ p = <<[op |-> "index", of |-> TipAt(y.refs, w)]>> /\ Unhindered(cs, w, x, y)
             /\ ix = x.index /\ wk = y.work
          \/ p = <<>> /\ Unhindered(cs, w, x, y) /\ ix = y.index /\ wk = y.work

\* The same of an operation on the index.
Entries(c, tree) == [p \in Paths |-> IF p \in DOMAIN c THEN c[p].old ELSE tree[p]]
IndexBack(w, x, y, c) ==
    /\ y.refs = x.refs /\ y.work = x.work
    /\ y.index = [x.index EXCEPT ![w] = Entries(c, @)]
IndexHolds(w, x, c) == \A p \in DOMAIN c : x.index[w][p] = c[p].new
Recording(c) == [op |-> "record", changes |-> c]
IndexWalk(w, x, y, c, p, l, rs, ix, wk) ==
    /\ rs = x.refs /\ wk = x.work
    /\ \/ /\ p = <<[op |-> "stage", index |-> y.index[w]], Recording(Inverted(c))>>
          /\ ix = x.index
       \/ p = <<Recording(Inverted(c))>> /\ ix = y.index
       \/ p = <<>> /\ ix = y.index /\ l = IndexOp(Inverted(c))

\* A repository that was kept, and one where w has no changes.
Snapshot(x) ==
    /\ x.refs = [r \in Name |-> x.refs[r]]
    /\ x.index \in [Workspaces -> Trees] /\ x.work \in [Workspaces -> Trees]
AtHead(cs, w, x) ==
    /\ x.index[w] = TreeAt(cs, x.refs, w)
    /\ \A p \in PathsIn(x.index[w]) : x.work[w][p] = x.index[w][p]

Once(cs, w, u, p, l, rs, ix, wk) ==
    \E y, c : \/ /\ AtHead(cs, w, u) /\ RefsBack(cs, w, u, y, c)
                 /\ RefsWalk(cs, w, u, y, c, p, l, rs, ix, wk)
              \/ /\ IndexHolds(w, u, c) /\ IndexBack(w, u, y, c)
                 /\ IndexWalk(w, u, y, c, p, l, rs, ix, wk)
Twice(cs, w, u, p, l, rs, ix, wk) ==
    \E x, c : \/ RefsBack(cs, w, x, u, c) /\ RefsWalk(cs, w, x, u, c, p, l, rs, ix, wk)
              \/ IndexBack(w, x, u, c) /\ IndexWalk(w, x, u, c, p, l, rs, ix, wk)

UndoneBy(u, w) ==
    /\ u = [by |-> w, times |-> u.times, refs |-> u.refs, index |-> u.index, work |-> u.work]
    /\ Snapshot(u) /\ Others(w)
    /\ \/ u.times = 1 /\ Once(commits, w, u, plan[w], last, refs, index, work)
       \/ u.times = 2 /\ Twice(commits, w, u, plan[w], last, refs, index, work)

\* While commands run one at a time, what is there is on the way from what the first undo
\* found to its inverse, or from there back.
UndoInv == daemon /\ undone.times # 0 => undone.by \in Workspaces /\ UndoneBy(undone, undone.by)

\* Taken back twice, a change is as it was.
LEMMA InvertedTwice ==
    ASSUME NEW c
    PROVE  /\ DOMAIN Inverted(c) = DOMAIN c
           /\ \A r \in DOMAIN c : Inverted(c)[r].old = c[r].new /\ Inverted(c)[r].new = c[r].old
BY DEF Inverted

\* The way back from an undone transaction leads to where it began: what was tracked is
\* in the tree of the HEAD, what was not was in no one's way.
LEMMA RefsReturn ==
    ASSUME NEW cs, NEW w \in Workspaces, NEW x, NEW y, NEW c,
           Snapshot(x), AtHead(cs, w, x), RefsBack(cs, w, x, y, c),
           RefsHold(x, c), Unhindered(cs, w, x, y)
    PROVE  RefsBack(cs, w, y, x, Inverted(c))
<1> DEFINE old == x.index[w]
           new == TreeAt(cs, y.refs, w)
           wk == x.work[w]
<1>1. /\ old \in Trees /\ wk \in Trees /\ old = TreeAt(cs, x.refs, w)
      /\ \A p \in PathsIn(old) : wk[p] = old[p]
      /\ x.index = [v \in Workspaces |-> x.index[v]]
      /\ x.work = [v \in Workspaces |-> x.work[v]]
  BY DEF Snapshot, AtHead
<1>2. /\ y.index = [v \in Workspaces |-> IF v = w THEN new ELSE x.index[v]]
      /\ y.work = [v \in Workspaces |->
                     IF v = w THEN CheckedOut(PathsIn(old), new, wk) ELSE x.work[v]]
  BY <1>1 DEF RefsBack
<1>3. x.refs = [r \in Name |-> IF r \in DOMAIN Inverted(c) THEN Inverted(c)[r].old ELSE y.refs[r]]
  <2>1. \A r \in Name : x.refs[r] = IF r \in DOMAIN Inverted(c) THEN Inverted(c)[r].old
                                    ELSE y.refs[r]
    BY InvertedTwice DEF RefsBack, RefsHold
  <2>2. x.refs = [r \in Name |-> x.refs[r]]
    BY DEF Snapshot
  <2> QED
    BY <2>1, <2>2
<1>4. CheckedOut(PathsIn(new), old, CheckedOut(PathsIn(old), new, wk)) = wk
  <2>1. \A p \in Paths : new[p] # Absent /\ old[p] = Absent => wk[p] = Absent
    BY DEF Unhindered, InTheWay, PathsIn
  <2>2. \A p \in Paths : old[p] # Absent => wk[p] = old[p]
    BY <1>1 DEF PathsIn
  <2>3. wk = [p \in Paths |-> wk[p]]
    BY <1>1 DEF Trees
  <2> HIDE DEF old, new, wk
  <2> DEFINE there == CheckedOut(PathsIn(old), new, wk)
             back == CheckedOut(PathsIn(new), old, there)
  <2>4. \A p \in Paths : there[p] = IF new[p] # Absent THEN new[p]
                                    ELSE IF old[p] # Absent THEN Absent ELSE wk[p]
    BY DEF CheckedOut, PathsIn
  <2> HIDE DEF there
  <2>5. \A p \in Paths : back[p] = IF old[p] # Absent THEN old[p]
                                   ELSE IF new[p] # Absent THEN Absent ELSE there[p]
    BY DEF CheckedOut, PathsIn
  <2>6. \A p \in Paths : back[p] = wk[p]
    BY <2>1, <2>2, <2>4, <2>5
  <2>7. back = [p \in Paths |-> back[p]]
    BY DEF CheckedOut
  <2> HIDE DEF back
  <2>8. back = wk
    BY <2>3, <2>6, <2>7
  <2> QED
    BY <2>8 DEF back, there
<1>5. x.index = [y.index EXCEPT ![w] = TreeAt(cs, x.refs, w)]
  BY <1>1, <1>2
<1>6. x.work = [y.work EXCEPT ![w] = CheckedOut(PathsIn(y.index[w]), TreeAt(cs, x.refs, w), @)]
  <2>1. y.index[w] = new
    BY <1>2
  <2>2. y.work[w] = CheckedOut(PathsIn(old), new, wk)
    BY <1>2
  <2>3. CheckedOut(PathsIn(y.index[w]), TreeAt(cs, x.refs, w), y.work[w]) = x.work[w]
    BY <1>1, <1>4, <2>1, <2>2
  <2> QED
    BY <1>1, <1>2, <2>3
<1> QED
  BY <1>3, <1>5, <1>6 DEF RefsBack

\* And from an undone operation on the index.
LEMMA IndexReturns ==
    ASSUME NEW w \in Workspaces, NEW x, NEW y, NEW c,
           Snapshot(x), IndexHolds(w, x, c), IndexBack(w, x, y, c)
    PROVE  IndexBack(w, y, x, Inverted(c))
<1>1. /\ x.index[w] = [p \in Paths |-> x.index[w][p]]
      /\ x.index = [v \in Workspaces |-> x.index[v]]
  BY DEF Snapshot, Trees
<1>2. y.index = [v \in Workspaces |-> IF v = w THEN Entries(c, x.index[w]) ELSE x.index[v]]
  BY <1>1 DEF IndexBack
<1>3. Entries(Inverted(c), y.index[w]) = x.index[w]
  <2>1. y.index[w] = Entries(c, x.index[w])
    BY <1>2
  <2>2. \A p \in Paths : Entries(Inverted(c), Entries(c, x.index[w]))[p] = x.index[w][p]
    BY InvertedTwice DEF Entries, IndexHolds
  <2>3. Entries(Inverted(c), Entries(c, x.index[w]))
        = [p \in Paths |-> Entries(Inverted(c), Entries(c, x.index[w]))[p]]
    BY DEF Entries
  <2> QED
    BY <1>1, <2>1, <2>2, <2>3
<1>4. x.index = [y.index EXCEPT ![w] = Entries(Inverted(c), @)]
  BY <1>1, <1>2, <1>3
<1> QED
  BY <1>4 DEF IndexBack

\* The HEAD's commit and its tree (head_tree in native.rs).
LEMMA HeadIs ==
    ASSUME NEW w
    PROVE  Tip(w) = TipAt(refs, w) /\ HeadTree(w) = TreeAt(commits, refs, w)
BY DEF Tip, HeadBranch, TipAt, TreeAt, HeadTree, CommitTree

\* A plan of one write, of two.
LEMMA PlansOf ==
    ASSUME NEW s, NEW t
    PROVE  /\ <<s>> # <<>> /\ Head(<<s>>) = s /\ Tail(<<s>>) = <<>>
           /\ <<s, t>> # <<>> /\ Head(<<s, t>>) = s /\ Tail(<<s, t>>) = <<t>>
           /\ <<s, t>> \o <<>> = <<s, t>>
OBVIOUS

\* Which write a plan is at.
LEMMA OnlyWrite ==
    ASSUME NEW w, Steps(w), NEW o, Head(plan[w]).op = o
    PROVE  /\ o = "tx" => StepTx(w)
           /\ o = "files" => StepFiles(w)
           /\ o = "index" => StepIndex(w)
           /\ o = "stage" => StepStage(w)
           /\ o = "record" => StepRecord(w)
BY DEF Steps, StepTx, StepFiles, StepIndex, StepStage, StepRecord, StepMark, StepPopulate, At

\* The transaction of an undo is refused, or moves the refs and goes on to the checkout
\* (undo_ref_tx).
LEMMA UndoesRefs ==
    ASSUME WorkspacesInv, NEW w \in Workspaces, StepTx(w), undone' # NoUndo,
           NEW x, NEW y, NEW c, RefsBack(commits, w, x, y, c),
           plan[w] = TxOf(Inverted(c), None, TRUE, <<>>),
           refs = x.refs, index = x.index, work = x.work
    PROVE  /\ RefsWalk(commits, w, x, y, c, plan'[w], last', refs', index', work')
           /\ undone' = undone /\ index' = index
<1> DEFINE inv == Inverted(c)
           t == [op |-> "tx", changes |-> inv, made |-> None, checkout |-> TRUE,
                 otherwise |-> <<>>]
<1>1. TypeInv
  BY DEF WorkspacesInv
<1>2. Head(plan[w]) = t /\ Tail(plan[w]) = <<>>
  BY PlansOf DEF TxOf
<1>3. /\ RefsHold(x, c) /\ refs' = Applied(inv) /\ last' = RefOp(inv)
      /\ plan' = [plan EXCEPT ![w] = CheckoutFrom(w, Tip(w)') \o Tail(@)]
      /\ UNCHANGED <<undone, index, work>>
  <2>1. UNCHANGED <<index, work>>
    BY DEF StepTx
  <2>2. (\A r \in DOMAIN inv : refs[r] = inv[r].old) => RefsHold(x, c)
    BY InvertedTwice DEF RefsHold
  <2>3. /\ Head(plan[w]).changes = inv /\ Head(plan[w]).checkout = TRUE
        /\ Head(plan[w]).otherwise = <<>>
    <3>1. t.changes = inv /\ t.checkout = TRUE /\ t.otherwise = <<>>
      OBVIOUS
    <3>2. Head(plan[w]) = t
      BY <1>2
    <3> HIDE DEF t, inv
    <3> QED
      BY <3>1, <3>2
  <2> HIDE DEF inv, t
  <2>4. ~((\A r \in DOMAIN inv : refs[r] = inv[r].old) /\ ~Taken(w, inv)) => undone' = NoUndo
    BY <2>3 DEF StepTx
  <2>5. (\A r \in DOMAIN inv : refs[r] = inv[r].old) /\ ~Taken(w, inv)
    BY <2>4
  <2> QED
    BY <2>1, <2>2, <2>3, <2>5 DEF StepTx
<1>4. refs' = y.refs
  <2>1. DOMAIN refs = Name
    BY <1>1 DEF TypeInv, Refs
  <2>2. \A r \in Name : (IF r \in DOMAIN inv THEN inv[r].new ELSE refs[r])
                        = (IF r \in DOMAIN c THEN c[r].old ELSE x.refs[r])
    BY InvertedTwice
  <2> QED
    BY <1>3, <2>1, <2>2 DEF Applied, RefsBack
<1>5. Tip(w)' = TipAt(y.refs, w)
  BY <1>4 DEF Tip, HeadBranch, TipAt
<1>6. CheckoutFrom(w, Tip(w)') = Checkout(PathsIn(x.index[w]), TipAt(y.refs, w))
  <2>1. Staged(index[w]) = index[w]
    BY <1>1, AllStaged DEF TypeInv
  <2> QED
    BY <1>5, <2>1 DEF CheckoutFrom
<1>7. plan'[w] = Checkout(PathsIn(x.index[w]), TipAt(y.refs, w))
  <2>1. plan'[w] = CheckoutFrom(w, Tip(w)') \o Tail(plan[w])
    BY <1>1, <1>3 DEF TypeInv
  <2> QED
    BY <1>2, <1>6, <2>1, PlansOf DEF Checkout
<1> QED
  BY <1>3, <1>4, <1>7 DEF RefsWalk

\* Its checkout is refused, or writes the files and then the index.
LEMMA UndoesFiles ==
    ASSUME WorkspacesInv, NEW w \in Workspaces, Steps(w), undone' # NoUndo,
           NEW x, NEW y, NEW c, RefsBack(commits, w, x, y, c),
           RefsWalk(commits, w, x, y, c, plan[w], last, refs, index, work),
           plan[w] # TxOf(Inverted(c), None, TRUE, <<>>)
    PROVE  /\ RefsWalk(commits, w, x, y, c, plan'[w], last', refs', index', work')
           /\ undone' = undone
<1> DEFINE at == TipAt(y.refs, w)
           old == PathsIn(x.index[w])
           files == [op |-> "files", old |-> old, of |-> at]
           entry == [op |-> "index", of |-> at]
<1>1. TypeInv
  BY DEF WorkspacesInv
<1>2. /\ last = RefOp(Inverted(c)) /\ refs = y.refs /\ RefsHold(x, c)
      /\ \/ plan[w] = <<files, entry>> /\ index = x.index /\ work = x.work
         \/ plan[w] = <<entry>> /\ Unhindered(commits, w, x, y) /\ index = x.index /\ work = y.work
         \/ plan[w] = <<>>
  BY DEF RefsWalk, Checkout
<1>3. plan[w] # <<>>
  BY DEF Steps, StepTx, StepFiles, StepIndex, StepStage, StepRecord, StepMark, StepPopulate, At
<1>4. CommitTree(at) = TreeAt(commits, y.refs, w)
  BY DEF CommitTree, TreeAt
<1>5. plan \in [Workspaces -> Seq(Write(DOMAIN commits))] /\ index \in [Workspaces -> Trees]
      /\ work \in [Workspaces -> Trees]
  BY <1>1 DEF TypeInv
<1>6. CASE plan[w] = <<files, entry>> /\ index = x.index /\ work = x.work
  <2>1. Head(plan[w]) = files /\ Tail(plan[w]) = <<entry>>
    BY <1>6, PlansOf
  <2>2. StepFiles(w)
    BY <2>1, OnlyWrite
  <2>3. /\ ~InTheWay(old, CommitTree(at), work[w])
        /\ work' = [work EXCEPT ![w] = CheckedOut(old, CommitTree(at), @)]
        /\ plan' = [plan EXCEPT ![w] = Tail(@)]
        /\ UNCHANGED <<undone, last, refs, index>>
    BY <2>1, <2>2 DEF StepFiles, Done
  <2>4. plan'[w] = <<entry>> /\ work' = y.work
    BY <1>4, <1>5, <1>6, <2>1, <2>3 DEF RefsBack
  <2>5. Unhindered(commits, w, x, y)
    BY <1>4, <1>6, <2>3 DEF Unhindered
  <2> QED
    BY <1>2, <1>6, <2>3, <2>4, <2>5 DEF RefsWalk
<1>7. CASE plan[w] = <<entry>> /\ Unhindered(commits, w, x, y) /\ index = x.index /\ work = y.work
  <2>1. Head(plan[w]) = entry /\ Tail(plan[w]) = <<>>
    BY <1>7, PlansOf
  <2>2. StepIndex(w)
    BY <2>1, OnlyWrite
  <2>3. /\ index' = [index EXCEPT ![w] = CommitTree(at)]
        /\ plan' = [plan EXCEPT ![w] = Tail(@)]
        /\ UNCHANGED <<undone, last, refs, work>>
    <3>1. Head(plan[w]).of = at
      BY <2>1
    <3> QED
      BY <2>2, <3>1 DEF StepIndex, Done
  <2>4. plan'[w] = <<>> /\ index' = y.index
    BY <1>4, <1>5, <1>7, <2>1, <2>3 DEF RefsBack
  <2> QED
    BY <1>2, <1>7, <2>3, <2>4 DEF RefsWalk
<1> QED
  BY <1>2, <1>3, <1>6, <1>7

\* Every write of the undo of a transaction.
LEMMA RefsGoOn ==
    ASSUME WorkspacesInv, NEW w \in Workspaces, Steps(w), undone' # NoUndo,
           NEW x, NEW y, NEW c, RefsBack(commits, w, x, y, c),
           RefsWalk(commits, w, x, y, c, plan[w], last, refs, index, work)
    PROVE  /\ RefsWalk(commits, w, x, y, c, plan'[w], last', refs', index', work')
           /\ undone' = undone
<1>1. CASE plan[w] = TxOf(Inverted(c), None, TRUE, <<>>)
  <2>1. Head(plan[w]).op = "tx"
    BY <1>1, PlansOf DEF TxOf
  <2>2. StepTx(w)
    BY <2>1, OnlyWrite
  <2>3. refs = x.refs /\ index = x.index /\ work = x.work
    <3>1. Head(plan[w]) # [op |-> "files", old |-> PathsIn(x.index[w]), of |-> TipAt(y.refs, w)]
          /\ Head(plan[w]) # [op |-> "index", of |-> TipAt(y.refs, w)]
      BY <2>1
    <3>2. plan[w] # <<>>
      BY <1>1, PlansOf DEF TxOf
    <3>3. plan[w] # Checkout(PathsIn(x.index[w]), TipAt(y.refs, w))
          /\ plan[w] # <<[op |-> "index", of |-> TipAt(y.refs, w)]>>
      BY <3>1, PlansOf DEF Checkout
    <3> QED
      BY <3>2, <3>3 DEF RefsWalk
  <2> QED
    BY <1>1, <2>2, <2>3, UndoesRefs
<1>2. CASE plan[w] # TxOf(Inverted(c), None, TRUE, <<>>)
  BY <1>2, UndoesFiles
<1> QED
  BY <1>1, <1>2

\* Every write of the undo of an operation on the index (undo_index_tx).
LEMMA IndexGoesOn ==
    ASSUME WorkspacesInv, NEW w \in Workspaces, Steps(w),
           NEW x, NEW y, NEW c, IndexBack(w, x, y, c),
           IndexWalk(w, x, y, c, plan[w], last, refs, index, work)
    PROVE  /\ IndexWalk(w, x, y, c, plan'[w], last', refs', index', work')
           /\ undone' = undone
<1> DEFINE stage == [op |-> "stage", index |-> y.index[w]]
           record == Recording(Inverted(c))
<1>1. /\ plan \in [Workspaces -> Seq(Write(DOMAIN commits))] /\ index \in [Workspaces -> Trees]
  BY DEF WorkspacesInv, TypeInv
<1>2. /\ refs = x.refs /\ work = x.work
      /\ \/ plan[w] = <<stage, record>> /\ index = x.index
         \/ plan[w] = <<record>> /\ index = y.index
         \/ plan[w] = <<>>
  BY DEF IndexWalk
<1>3. plan[w] # <<>>
  BY DEF Steps, StepTx, StepFiles, StepIndex, StepStage, StepRecord, StepMark, StepPopulate, At
<1>4. CASE plan[w] = <<stage, record>> /\ index = x.index
  <2>1. Head(plan[w]) = stage /\ Tail(plan[w]) = <<record>>
    BY <1>4, PlansOf
  <2>2. StepStage(w)
    BY <2>1, OnlyWrite
  <2>3. /\ index' = [index EXCEPT ![w] = y.index[w]]
        /\ plan' = [plan EXCEPT ![w] = Tail(@)]
        /\ UNCHANGED <<undone, refs, work>>
    <3>1. Head(plan[w]).index = y.index[w]
      BY <2>1
    <3> QED
      BY <2>2, <3>1 DEF StepStage, Done
  <2>4. plan'[w] = <<record>> /\ index' = y.index
    BY <1>1, <1>4, <2>1, <2>3 DEF IndexBack
  <2> QED
    BY <1>2, <2>3, <2>4 DEF IndexWalk
<1>5. CASE plan[w] = <<record>> /\ index = y.index
  <2>1. Head(plan[w]) = record /\ Tail(plan[w]) = <<>> /\ record.op = "record"
    BY <1>5, PlansOf DEF Recording
  <2>2. StepRecord(w)
    BY <2>1, OnlyWrite
  <2>3. /\ last' = IndexOp(Inverted(c)) /\ plan' = [plan EXCEPT ![w] = Tail(@)]
        /\ UNCHANGED <<undone, refs, index, work>>
    BY <2>1, <2>2 DEF StepRecord, Done, Recording
  <2>4. plan'[w] = <<>>
    BY <1>1, <2>1, <2>3
  <2> QED
    BY <1>2, <1>5, <2>3, <2>4 DEF IndexWalk
<1> QED
  BY <1>2, <1>3, <1>4, <1>5

\* A write of one workspace: the others' plans are theirs; what was undone before stays
\* so, unless the write is refused.
LEMMA WritesKeep ==
    ASSUME WorkspacesInv, NEW w \in Workspaces, Steps(w)
    PROVE  /\ plan[w] # <<>>
           /\ \A v \in Workspaces \ {w} : plan'[v] = plan[v]
           /\ commits' = commits /\ daemon' = daemon
           /\ undone' \in {NoUndo, undone}
<1>1. plan \in [Workspaces -> Seq(Write(DOMAIN commits))]
  BY DEF WorkspacesInv, TypeInv
<1>2. CASE StepTx(w)
  BY <1>1, <1>2 DEF StepTx, At
<1>3. CASE StepFiles(w)
  BY <1>1, <1>3 DEF StepFiles, At, Done
<1>4. CASE StepIndex(w) \/ StepStage(w) \/ StepRecord(w)
  BY <1>1, <1>4 DEF StepIndex, StepStage, StepRecord, At, Done
<1>5. CASE StepMark(w) \/ StepPopulate(w)
  BY <1>1, <1>5 DEF StepMark, StepPopulate, At, Done
<1> QED
  BY <1>2, <1>3, <1>4, <1>5 DEF Steps

\* Nothing undone, nothing to say.
LEMMA NothingUndone ==
    ASSUME undone' = NoUndo PROVE UndoInv'
BY DEF NoUndo, UndoInv

\* The writes of an undo keep to the way.
LEMMA UndoGoesOn ==
    ASSUME WorkspacesInv, UndoInv, NEW v \in Workspaces, Steps(v)
    PROVE  UndoInv'
<1>1. /\ plan[v] # <<>> /\ commits' = commits /\ daemon' = daemon
      /\ undone' \in {NoUndo, undone}
      /\ \A u \in Workspaces \ {v} : plan'[u] = plan[u]
  BY WritesKeep
<1>2. CASE undone' = NoUndo
  BY <1>2, NothingUndone
<1>3. CASE undone' # NoUndo /\ ~(daemon /\ undone.times # 0)
  BY <1>1, <1>3 DEF UndoInv
<1>4. CASE undone' # NoUndo /\ daemon /\ undone.times # 0
  <2>1. undone.by \in Workspaces /\ UndoneBy(undone, undone.by) /\ undone' = undone
    BY <1>1, <1>4 DEF UndoInv
  <2>2. v = undone.by
    BY <1>1, <2>1 DEF UndoneBy, Others
  <2>3. Others(v)'
    BY <1>1, <2>1, <2>2 DEF UndoneBy, Others
  <2>4. ASSUME Once(commits, v, undone, plan[v], last, refs, index, work)
        PROVE  Once(commits, v, undone, plan'[v], last', refs', index', work')
    <3>1. PICK y, c :
            \/ /\ AtHead(commits, v, undone) /\ RefsBack(commits, v, undone, y, c)
               /\ RefsWalk(commits, v, undone, y, c, plan[v], last, refs, index, work)
            \/ /\ IndexHolds(v, undone, c) /\ IndexBack(v, undone, y, c)
               /\ IndexWalk(v, undone, y, c, plan[v], last, refs, index, work)
      BY <2>4 DEF Once
    <3>2. CASE /\ AtHead(commits, v, undone) /\ RefsBack(commits, v, undone, y, c)
               /\ RefsWalk(commits, v, undone, y, c, plan[v], last, refs, index, work)
      <4>1. RefsWalk(commits, v, undone, y, c, plan'[v], last', refs', index', work')
        BY <1>4, <2>2, <3>2, RefsGoOn
      <4> QED
        BY <3>2, <4>1 DEF Once
    <3>3. CASE /\ IndexHolds(v, undone, c) /\ IndexBack(v, undone, y, c)
               /\ IndexWalk(v, undone, y, c, plan[v], last, refs, index, work)
      <4>1. IndexWalk(v, undone, y, c, plan'[v], last', refs', index', work')
        BY <2>2, <3>3, IndexGoesOn
      <4> QED
        BY <3>3, <4>1 DEF Once
    <3> QED
      BY <3>1, <3>2, <3>3
  <2>5. ASSUME Twice(commits, v, undone, plan[v], last, refs, index, work)
        PROVE  Twice(commits, v, undone, plan'[v], last', refs', index', work')
    <3>1. PICK x, c :
            \/ /\ RefsBack(commits, v, x, undone, c)
               /\ RefsWalk(commits, v, x, undone, c, plan[v], last, refs, index, work)
            \/ /\ IndexBack(v, x, undone, c)
               /\ IndexWalk(v, x, undone, c, plan[v], last, refs, index, work)
      BY <2>5 DEF Twice
    <3>2. CASE /\ RefsBack(commits, v, x, undone, c)
               /\ RefsWalk(commits, v, x, undone, c, plan[v], last, refs, index, work)
      <4>1. RefsWalk(commits, v, x, undone, c, plan'[v], last', refs', index', work')
        BY <1>4, <2>2, <3>2, RefsGoOn
      <4> QED
        BY <3>2, <4>1 DEF Twice
    <3>3. CASE /\ IndexBack(v, x, undone, c)
               /\ IndexWalk(v, x, undone, c, plan[v], last, refs, index, work)
      <4>1. IndexWalk(v, x, undone, c, plan'[v], last', refs', index', work')
        BY <2>2, <3>3, IndexGoesOn
      <4> QED
        BY <3>3, <4>1 DEF Twice
    <3> QED
      BY <3>1, <3>2, <3>3
  <2>6. UndoneBy(undone, v)'
    <3>1. Once(commits, v, undone, plan[v], last, refs, index, work)
          => Once(commits, v, undone, plan[v], last, refs, index, work)'
      BY <1>1, <2>1, <2>4
    <3>2. Twice(commits, v, undone, plan[v], last, refs, index, work)
          => Twice(commits, v, undone, plan[v], last, refs, index, work)'
      BY <1>1, <2>1, <2>5
    <3> QED
      BY <2>1, <2>2, <2>3, <3>1, <3>2 DEF UndoneBy, Snapshot
  <2> QED
    BY <1>4, <2>1, <2>2, <2>6 DEF UndoInv
<1> QED
  BY <1>2, <1>3, <1>4

\* An undo that is the second.
LEMMA UndoesAgain ==
    ASSUME WorkspacesInv, UndoInv, daemon, NEW w \in Workspaces, Undo(w),
           undone.by = w, undone.times = 1
    PROVE  UndoInv'
<1> DEFINE u == [by |-> w, times |-> 2, refs |-> undone.refs, index |-> undone.index,
                 work |-> undone.work]
<1>1. TypeInv /\ plan \in [Workspaces -> Seq(Write(DOMAIN commits))] /\ index[w] \in Trees
  BY DEF WorkspacesInv, TypeInv
<1>2. /\ plan[w] = <<>> /\ plan' = [plan EXCEPT ![w] = UndoSteps(w)]
      /\ undone' = [undone EXCEPT !.times = 2]
      /\ UNCHANGED <<commits, refs, last, index, work, daemon>>
  BY DEF Undo, Commands, disk
<1>3. UndoneBy(undone, w)
  BY DEF UndoInv
<1>4. plan'[w] = UndoSteps(w) /\ Others(w)'
  BY <1>1, <1>2, <1>3 DEF UndoneBy, Others
<1>5. undone' = u
  <2>1. undone = [by |-> w, times |-> undone.times, refs |-> undone.refs,
                  index |-> undone.index, work |-> undone.work]
    BY <1>3 DEF UndoneBy
  <2> QED
    BY <1>2, <2>1
<1>6. Snapshot(u) /\ Snapshot(undone)
  BY <1>3 DEF UndoneBy, Snapshot
<1>7. Once(commits, w, undone, <<>>, last, refs, index, work)
  BY <1>2, <1>3 DEF UndoneBy
<1>8. PICK y, c :
        \/ /\ AtHead(commits, w, undone) /\ RefsBack(commits, w, undone, y, c)
           /\ RefsWalk(commits, w, undone, y, c, <<>>, last, refs, index, work)
        \/ /\ IndexHolds(w, undone, c) /\ IndexBack(w, undone, y, c)
           /\ IndexWalk(w, undone, y, c, <<>>, last, refs, index, work)
  BY <1>7 DEF Once
<1>9. Twice(commits, w, u, plan'[w], last, refs, index, work)
  <2>1. CASE /\ AtHead(commits, w, undone) /\ RefsBack(commits, w, undone, y, c)
             /\ RefsWalk(commits, w, undone, y, c, <<>>, last, refs, index, work)
    <3>1. /\ last = RefOp(Inverted(c)) /\ refs = y.refs /\ index = y.index /\ work = y.work
          /\ RefsHold(undone, c) /\ Unhindered(commits, w, undone, y)
      BY <2>1, PlansOf DEF RefsWalk, TxOf, Checkout
    <3>2. RefsBack(commits, w, y, undone, Inverted(c))
      BY <1>6, <2>1, <3>1, RefsReturn
    <3>3. RefsBack(commits, w, y, u, Inverted(c))
      BY <3>2 DEF RefsBack
    <3>4. plan'[w] = TxOf(Inverted(Inverted(c)), None, TRUE, <<>>)
      BY <1>4, <3>1 DEF UndoSteps, RefOp
    <3> HIDE DEF u
    <3>5. RefsWalk(commits, w, y, u, Inverted(c), plan'[w], last, refs, index, work)
      BY <3>1, <3>4 DEF RefsWalk
    <3> QED
      BY <3>3, <3>5 DEF Twice
  <2>2. CASE /\ IndexHolds(w, undone, c) /\ IndexBack(w, undone, y, c)
              /\ IndexWalk(w, undone, y, c, <<>>, last, refs, index, work)
    <3>1. /\ last = IndexOp(Inverted(c)) /\ index = y.index
          /\ refs = undone.refs /\ work = undone.work
      BY <2>2, PlansOf DEF IndexWalk
    <3>2. IndexBack(w, y, undone, Inverted(c))
      BY <1>6, <2>2, IndexReturns
    <3>3. IndexBack(w, y, u, Inverted(c)) /\ y.refs = refs /\ y.work = work
      BY <2>2, <3>1, <3>2 DEF IndexBack
    <3> HIDE DEF u
    <3>4. Reverted(w, Inverted(c)) = u.index[w]
      <4>1. Reverted(w, Inverted(c)) = Entries(Inverted(c), index[w])
        BY <1>1, AllStaged DEF Reverted, Entries
      <4>2. u.index[w] = Entries(Inverted(c), y.index[w])
        BY <1>1, <3>1, <3>3 DEF IndexBack, TypeInv
      <4> QED
        BY <3>1, <4>1, <4>2
    <3>5. plan'[w] = <<[op |-> "stage", index |-> u.index[w]], Recording(Inverted(Inverted(c)))>>
      BY <1>4, <3>1, <3>4 DEF UndoSteps, IndexOp, Recording
    <3>6. IndexWalk(w, y, u, Inverted(c), plan'[w], last, refs, index, work)
      BY <3>1, <3>3, <3>5 DEF IndexWalk
    <3> QED
      BY <3>3, <3>6 DEF Twice
  <2> QED
    BY <1>8, <2>1, <2>2
<1>10. undone'.by = w /\ undone'.times = 2
  BY <1>5
<1>11. UndoneBy(undone, w)'
  <2>1. Twice(commits, w, undone, plan[w], last, refs, index, work)'
    BY <1>2, <1>5, <1>9
  <2>2. Snapshot(undone)' /\ Others(w)'
    BY <1>4, <1>5, <1>6 DEF Snapshot
  <2>3. undone' = [by |-> w, times |-> undone'.times, refs |-> undone'.refs,
                   index |-> undone'.index, work |-> undone'.work]
    BY <1>5
  <2> QED
    BY <1>10, <2>1, <2>2, <2>3 DEF UndoneBy
<1> QED
  BY <1>10, <1>11 DEF UndoInv

\* What a clean workspace has is the tree of its HEAD (ensure_clean).
LEMMA CleanIsAtHead ==
    ASSUME WorkspacesInv, NEW w \in Workspaces, Clean(w)
    PROVE  /\ index[w] = TreeAt(commits, refs, w)
           /\ \A p \in PathsIn(index[w]) : work[w][p] = index[w][p]
<1>1. TypeInv /\ index[w] \in Trees /\ Staged(index[w]) = index[w]
  BY AllStaged DEF WorkspacesInv, TypeInv
<1>2. TreeAt(commits, refs, w) \in Trees
  <2>1. commits \in Seq(Node) /\ refs \in Refs(DOMAIN commits) /\ None \notin Nat
    BY <1>1, WorkspacesAssumption DEF TypeInv
  <2>2. TipAt(refs, w) \in Commits(DOMAIN commits)
    BY <2>1, TipOf DEF TipAt
  <2> QED
    BY <2>1, <2>2, CommitTrees DEF TreeAt
<1>3. \A p \in Paths : TreeAt(commits, refs, w)[p] = index[w][p]
  BY <1>1, HeadIs DEF Clean, IsClean, StagedChanges
<1>4. \A p \in PathsIn(index[w]) : work[w][p] = index[w][p]
  BY <1>1 DEF Clean, IsClean, UnstagedChanges
<1> QED
  BY <1>1, <1>2, <1>3, <1>4 DEF Trees

\* An undo that is the first begins the way.
LEMMA UndoesFirst ==
    ASSUME WorkspacesInv, daemon, NEW w \in Workspaces, Undo(w), Holds(w),
           ~(undone.by = w /\ undone.times = 1)
    PROVE  UndoInv'
<1> DEFINE u == [by |-> w, times |-> 1, refs |-> refs, index |-> index, work |-> work]
<1>1. /\ TypeInv /\ plan \in [Workspaces -> Seq(Write(DOMAIN commits))]
      /\ index \in [Workspaces -> Trees] /\ work \in [Workspaces -> Trees]
      /\ index[w] \in Trees
  BY DEF WorkspacesInv, TypeInv
<1>2. /\ \A v \in Workspaces : plan[v] = <<>>
      /\ plan' = [plan EXCEPT ![w] = UndoSteps(w)] /\ undone' = u
      /\ last # None /\ (last.kind = "refs" => Clean(w))
      /\ UNCHANGED <<commits, refs, last, index, work, daemon>>
  BY DEF Undo, Commands, disk
<1>3. plan'[w] = UndoSteps(w) /\ Others(w)'
  BY <1>1, <1>2 DEF Others
<1>4. Snapshot(u)
  <2>1. refs = [r \in Name |-> refs[r]]
    BY <1>1 DEF TypeInv, Refs
  <2> QED
    BY <1>1, <2>1 DEF Snapshot
<1>5. PICK c : last = RefOp(c) \/ last = IndexOp(c)
  <2>1. last \in Operation(DOMAIN commits)
    BY <1>1, <1>2 DEF TypeInv
  <2>2. \/ last = [kind |-> "refs", changes |-> last.changes]
        \/ last = [kind |-> "index", changes |-> last.changes]
    BY <2>1 DEF Operation
  <2> QED
    BY <2>2 DEF RefOp, IndexOp
<1>6. Once(commits, w, u, plan'[w], last, refs, index, work)
  <2>1. CASE last = RefOp(c)
    <3>1. last.kind = "refs" /\ last.changes = c
      BY <2>1 DEF RefOp
    <3>2. AtHead(commits, w, u)
      BY <1>2, <3>1, CleanIsAtHead DEF AtHead
    <3>3. \E y : RefsBack(commits, w, u, y, c)
      <4> DEFINE rs == [r \in Name |-> IF r \in DOMAIN c THEN c[r].old ELSE u.refs[r]]
                 ix == [u.index EXCEPT ![w] = TreeAt(commits, rs, w)]
                 wk == [u.work EXCEPT ![w] =
                           CheckedOut(PathsIn(u.index[w]), TreeAt(commits, rs, w), @)]
                 y == [refs |-> rs, index |-> ix, work |-> wk]
      <4>1. y.refs = rs /\ y.index = ix /\ y.work = wk
        OBVIOUS
      <4> HIDE DEF u, y
      <4>2. RefsBack(commits, w, u, y, c)
        BY <4>1 DEF RefsBack
      <4> QED
        BY <4>2
    <3>4. plan'[w] = TxOf(Inverted(c), None, TRUE, <<>>)
      BY <1>3, <3>1 DEF UndoSteps
    <3>5. u.refs = refs /\ u.index = index /\ u.work = work
      OBVIOUS
    <3> HIDE DEF u
    <3>6. \A y : RefsWalk(commits, w, u, y, c, plan'[w], last, refs, index, work)
      BY <2>1, <3>4, <3>5 DEF RefsWalk
    <3> QED
      BY <3>2, <3>3, <3>6 DEF Once
  <2>2. CASE last = IndexOp(c)
    <3>1. last.kind = "index" /\ last.changes = c
      BY <2>2 DEF IndexOp
    <3>2. u.refs = refs /\ u.index = index /\ u.work = work
      OBVIOUS
    <3> HIDE DEF u
    <3>3. IndexHolds(w, u, c)
      BY <3>1, <3>2 DEF Holds, IndexHolds
    <3>4. PICK y : /\ y.refs = u.refs /\ y.work = u.work
                   /\ y.index = [u.index EXCEPT ![w] = Entries(c, @)]
      <4> DEFINE y == [refs |-> u.refs, index |-> [u.index EXCEPT ![w] = Entries(c, @)],
                       work |-> u.work]
      <4>1. /\ y.refs = u.refs /\ y.work = u.work
            /\ y.index = [u.index EXCEPT ![w] = Entries(c, @)]
        OBVIOUS
      <4> HIDE DEF y
      <4> QED
        BY <4>1
    <3>5. IndexBack(w, u, y, c) /\ y.index[w] = Entries(c, index[w])
      BY <1>1, <3>2, <3>4 DEF IndexBack
    <3>6. Reverted(w, c) = Entries(c, index[w])
      BY <1>1, AllStaged DEF Reverted, Entries
    <3>7. plan'[w] = <<[op |-> "stage", index |-> y.index[w]], Recording(Inverted(c))>>
      BY <1>3, <3>1, <3>5, <3>6 DEF UndoSteps, Recording
    <3>8. IndexWalk(w, u, y, c, plan'[w], last, refs, index, work)
      BY <3>2, <3>7 DEF IndexWalk
    <3> QED
      BY <3>3, <3>5, <3>8 DEF Once
  <2> QED
    BY <1>5, <2>1, <2>2
<1>7. undone'.by = w /\ undone'.times = 1
  BY <1>2
<1>8. UndoneBy(undone, w)'
  <2>1. Once(commits, w, undone, plan[w], last, refs, index, work)'
    BY <1>2, <1>6
  <2>2. Snapshot(undone)' /\ Others(w)'
    BY <1>2, <1>3, <1>4 DEF Snapshot
  <2>3. undone' = [by |-> w, times |-> undone'.times, refs |-> undone'.refs,
                   index |-> undone'.index, work |-> undone'.work]
    BY <1>2
  <2> QED
    BY <1>7, <2>1, <2>2, <2>3 DEF UndoneBy
<1> QED
  BY <1>7, <1>8 DEF UndoInv

\* Every undo.
LEMMA UndosAreUndone ==
    ASSUME WorkspacesInv, UndoInv, NEW w \in Workspaces, Undo(w)
    PROVE  UndoInv'
<1>1. CASE ~daemon
  BY <1>1 DEF Undo, UndoInv
<1>2. CASE daemon /\ undone.by = w /\ undone.times = 1
  BY <1>2, UndoesAgain
<1>3. CASE daemon /\ ~(undone.by = w /\ undone.times = 1) /\ Holds(w)
  BY <1>3, UndoesFirst
<1>4. CASE daemon /\ ~(undone.by = w /\ undone.times = 1) /\ ~Holds(w)
  <2>1. undone' = NoUndo
    BY <1>4 DEF Undo
  <2> QED
    BY <2>1, NothingUndone
<1> QED
  BY <1>1, <1>2, <1>3, <1>4

\* Any other command comes in between.
LEMMA OthersComeBetween ==
    ASSUME NEW w, Command(w), ~Undo(w) PROVE undone' = NoUndo
<1>1. CASE \/ \E p \in Paths, c \in Contents : Edit(w, p, c)
           \/ Add(w) \/ Commit(w) \/ Amend(w)
  BY <1>1 DEF Edit, Add, Commit, Amend, Recorded, Begin, BeginWith, Run
<1>2. CASE \/ \E b \in Plain : CreateBranch(w, b) \/ SwitchCreate(w, b)
           \/ \E b \in Branches : DeleteBranch(w, b) \/ Switch(w, b)
  BY <1>2 DEF CreateBranch, SwitchCreate, DeleteBranch, Switch, Begin, BeginWith, Run
<1>3. CASE FlowInit(w) \/ \E t \in Features : FeatureStart(w, t) \/ FeatureFinish(w, t)
  BY <1>3 DEF FlowInit, FeatureStart, FeatureFinish, TopicStart, Begin, BeginWith, Run
<1>4. CASE \E t \in Releases \cup Hotfixes : TopicStart(w, t) \/ TopicFinish(w, t)
  BY <1>4 DEF TopicStart, TopicFinish, Begin, BeginWith, Run
<1>5. CASE \/ \E v \in Workspaces, b \in Branches : WorkspaceAdd(w, v, b)
           \/ \E v \in Workspaces : WorkspaceRemove(w, v)
  BY <1>5 DEF WorkspaceAdd, WorkspaceRemove, Begin, BeginWith, Run
<1> QED
  BY <1>1, <1>2, <1>3, <1>4, <1>5 DEF Command

\* Every step.
LEMMA NextUndoes ==
    ASSUME WorkspacesInv, UndoInv, [Next]_vars PROVE UndoInv'
<1>1. CASE \E w \in Workspaces : Command(w)
  BY <1>1, UndosAreUndone, OthersComeBetween, NothingUndone
<1>2. CASE \E w \in Workspaces : Steps(w)
  BY <1>2, UndoGoesOn
<1>3. CASE \E w \in Workspaces : Crash(w)
  BY <1>3, NothingUndone DEF Crash
<1>4. CASE \E b \in Branches, c \in DOMAIN commits : Push(b, c)
  BY <1>4, NothingUndone DEF Push
<1>5. CASE UNCHANGED vars
  BY <1>5 DEF vars, UndoInv, UndoneBy, Snapshot, Others
<1> QED
  BY <1>1, <1>2, <1>3, <1>4, <1>5 DEF Next

\* Two undos in a row, nothing in between, leave refs, index and files as they were, when
\* commands run one at a time (undo_ref_tx and undo_index_tx record the inverse as an
\* operation, and undo what it names).
THEOREM UndoneTwiceIsAsBefore == Spec => []UndoTwiceRestores
<1>1. Init => WorkspacesInv /\ UndoInv
  <2>1. Init => undone = NoUndo
    BY DEF Init
  <2> QED
    BY <2>1, StartsWell DEF UndoInv, NoUndo
<1>2. WorkspacesInv /\ UndoInv /\ [Next]_vars => (WorkspacesInv /\ UndoInv)'
  BY NextKeeps, NextUndoes
<1>3. UndoInv => UndoTwiceRestores
  <2>1. SUFFICES ASSUME UndoInv, daemon, undone.times = 2, plan[undone.by] = <<>>
                 PROVE  refs = undone.refs /\ index = undone.index /\ work = undone.work
    BY DEF UndoTwiceRestores
  <2> DEFINE w == undone.by
  <2>2. Twice(commits, w, undone, <<>>, last, refs, index, work)
    BY <2>1 DEF UndoInv, UndoneBy
  <2> HIDE DEF w
  <2>3. PICK x, c :
          \/ /\ RefsBack(commits, w, x, undone, c)
             /\ RefsWalk(commits, w, x, undone, c, <<>>, last, refs, index, work)
          \/ /\ IndexBack(w, x, undone, c)
             /\ IndexWalk(w, x, undone, c, <<>>, last, refs, index, work)
    BY <2>2 DEF Twice
  <2>4. CASE RefsWalk(commits, w, x, undone, c, <<>>, last, refs, index, work)
    BY <2>4, PlansOf DEF RefsWalk, TxOf, Checkout
  <2>5. CASE /\ IndexBack(w, x, undone, c)
             /\ IndexWalk(w, x, undone, c, <<>>, last, refs, index, work)
    BY <2>5, PlansOf DEF IndexBack, IndexWalk
  <2> QED
    BY <2>3, <2>4, <2>5
<1> QED
  BY <1>1, <1>2, <1>3, PTL DEF Spec
=============================================================================
