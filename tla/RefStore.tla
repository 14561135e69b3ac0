------------------------------ MODULE RefStore ------------------------------
(***************************************************************************)
(* The ref store of crates/alt-refs: the refs are what the transactions in *)
(* the operation log make of them, from nothing or from a snapshot.  Each  *)
(* process folds the log into a map of its own; a transaction is validated *)
(* and appended under the log's flock, then folded once it is synced.      *)
(*                                                                         *)
(* The log is as OpChain promises it: appended to under its lock, and cut  *)
(* back by a power loss only.  An operation is its id and its changes, a   *)
(* function from the refs it touches to their old and new targets; an      *)
(* operation of another kind (record_op) changes none.                     *)
(***************************************************************************)
EXTENDS Integers, Sequences, FiniteSets

CONSTANTS
    Proc,           \* the processes that open the store
    Ref,            \* the ref names
    Target,         \* what a ref may point at
    Absent,         \* a ref that does not exist
    Change,         \* the transactions callers ask for
    Writable,       \* the refs the policy lets each process write
    SnapshotEvery,  \* operations of one process between two snapshots
    MaxOps,         \* bound: operations over the whole behaviour
    None

State == [Ref -> Target \cup {Absent}]
NoRefs == [r \in Ref |-> Absent]
Changing(refs) == [refs -> [old : Target \cup {Absent}, new : Target \cup {Absent}]]

ASSUME RefStoreAssumption ==
    /\ Absent \notin Target
    /\ Change \subseteq UNION {Changing(refs) : refs \in SUBSET Ref}
    /\ Writable \in [Proc -> SUBSET Ref]
    /\ SnapshotEvery \in Nat \ {0} /\ MaxOps \in Nat

VARIABLES
    log,         \* the operation log
    synced,      \* how many of its operations the device holds
    snapshot,    \* the snapshot file: the op it is anchored to and the refs
    nextId,      \* ids handed out so far
    pc,          \* where each process is
    known,       \* how much of the log it has read (its OpLog's ops)
    refs,        \* its map
    applied,     \* how many of the ops it read are folded into the map
    since,       \* its ops_since_snapshot
    tx           \* the changes it is committing

disk  == <<log, synced, snapshot, nextId>>
local == <<pc, known, refs, applied, since, tx>>
vars  == <<disk, local>>

Alive == {"idle", "undoing", "appended", "snapshot"}

Init ==
    /\ log = <<>> /\ synced = 0 /\ snapshot = None /\ nextId = 0
    /\ pc = [p \in Proc |-> "closed"]
    /\ known = [p \in Proc |-> 0]
    /\ refs = [p \in Proc |-> NoRefs]
    /\ applied = [p \in Proc |-> 0]
    /\ since = [p \in Proc |-> 0]
    /\ tx = [p \in Proc |-> <<>>]

\* These processes end: nothing of their memory is left.
Forget(procs) ==
    /\ pc' = [p \in Proc |-> IF p \in procs THEN "closed" ELSE pc[p]]
    /\ known' = [p \in Proc |-> IF p \in procs THEN 0 ELSE known[p]]
    /\ refs' = [p \in Proc |-> IF p \in procs THEN NoRefs ELSE refs[p]]
    /\ applied' = [p \in Proc |-> IF p \in procs THEN 0 ELSE applied[p]]
    /\ since' = [p \in Proc |-> IF p \in procs THEN 0 ELSE since[p]]
    /\ tx' = [p \in Proc |-> IF p \in procs THEN <<>> ELSE tx[p]]

Goto(p, where) == pc' = [pc EXCEPT ![p] = where]

(***************************************************************************)
(* apply_changes(): every expected-old value is compared first, against    *)
(* the state before any of the changes.                                    *)
(***************************************************************************)
\* Mutant: a ref that does not exist is not compared.
MatchesExisting(state, changes) ==
    \A r \in DOMAIN changes : state[r] # Absent => state[r] = changes[r].old

Matches(state, changes) == \A r \in DOMAIN changes : state[r] = changes[r].old

Apply(state, op) ==
    [r \in Ref |-> IF r \in DOMAIN op.changes THEN op.changes[r].new ELSE state[r]]

\* The last of some places of the log, and those of `from` .. `to` that change r.
LastOf(places) == CHOOSE i \in places : \A j \in places : j <= i
Changes(r, from, to) == {i \in from .. to : r \in DOMAIN log[i].changes}

\* The state after the operations `from` .. `to` of the log, applied in turn: each
\* ref is where the last one that changes it has put it.
Replay(state, from, to) ==
    [r \in Ref |->
        LET at == Changes(r, from, to)
        IN  IF at = {} THEN state[r] ELSE log[LastOf(at)].changes[r].new]

\* The replay of those operations meets no mismatch ("ref state diverged").
Replays(state, from, to) ==
    \A i \in from .. to : Matches(Replay(state, from, i - 1), log[i].changes)

(***************************************************************************)
(* open(): the log first, then the snapshot, then the operations past it.  *)
(***************************************************************************)
OpenLog(p) ==
    /\ pc[p] = "closed"
    /\ known' = [known EXCEPT ![p] = Len(log)]
    /\ Goto(p, "opening")
    /\ UNCHANGED <<disk, refs, applied, since, tx>>

\* Where the snapshot's operation is among the ones p has read; 0: it is not.
Anchor(p) ==
    IF snapshot # None /\ \E i \in 1 .. known[p] : log[i].id = snapshot.at
    THEN CHOOSE i \in 1 .. known[p] : log[i].id = snapshot.at ELSE 0

\* Mutant: the snapshot is used whether or not its operation is in the log.
BaseUnanchored(p) == IF snapshot = None THEN NoRefs ELSE snapshot.refs

Base(p) == IF Anchor(p) = 0 THEN NoRefs ELSE snapshot.refs

OpenRefs(p) ==
    /\ pc[p] = "opening"
    /\ refs' = [refs EXCEPT ![p] = Replay(Base(p), Anchor(p) + 1, known[p])]
    /\ since' = [since EXCEPT ![p] = known[p] - Anchor(p)]
    /\ applied' = [applied EXCEPT ![p] = known[p]]
    /\ Goto(p, "idle")
    /\ UNCHANGED <<disk, known, tx>>

(***************************************************************************)
(* Under the log's flock: catch up and fold_new(), then check and append.  *)
(***************************************************************************)
\* Mutant: only the operations read by this catch-up are folded in.
FoldedTail(p) == Replay(refs[p], known[p] + 1, Len(log))

Folded(p) == Replay(refs[p], applied[p] + 1, Len(log))

\* Mutant: the operation about to be appended counts as folded already.
FoldNewAhead(p) ==
    /\ refs' = [refs EXCEPT ![p] = Folded(p)]
    /\ applied' = [applied EXCEPT ![p] = Len(log) + 1]

FoldNew(p) ==
    /\ refs' = [refs EXCEPT ![p] = Folded(p)]
    /\ applied' = [applied EXCEPT ![p] = Len(log)]

\* RefPolicy::check(), then the compare of apply_changes().
Accepts(p, changes) ==
    /\ DOMAIN changes \subseteq Writable[p]
    /\ Matches(Folded(p), changes)

\* commit_idempotent(), or record_op() when nothing changes, up to the append.
AppendOp(p, changes) ==
    /\ nextId < MaxOps
    /\ Accepts(p, changes)
    /\ FoldNew(p)
    /\ nextId' = nextId + 1
    /\ log' = Append(log, [id |-> nextId + 1, changes |-> changes])
    /\ known' = [known EXCEPT ![p] = Len(log) + 1]
    /\ tx' = [tx EXCEPT ![p] = changes]
    /\ Goto(p, "appended")
    /\ UNCHANGED <<synced, snapshot, since>>

Refuse(p, changes) ==
    /\ ~Accepts(p, changes)
    /\ FoldNew(p)
    /\ known' = [known EXCEPT ![p] = Len(log)]
    /\ tx' = [tx EXCEPT ![p] = <<>>]
    /\ Goto(p, "idle")
    /\ UNCHANGED <<disk, since>>

Commit(p) ==
    /\ pc[p] = "idle"
    /\ \E changes \in Change : AppendOp(p, changes) \/ Refuse(p, changes)

RecordOp(p) == pc[p] = "idle" /\ AppendOp(p, <<>>)

Refresh(p) ==
    /\ pc[p] = "idle"
    /\ FoldNew(p)
    /\ known' = [known EXCEPT ![p] = Len(log)]
    /\ UNCHANGED <<disk, pc, since, tx>>

\* last_transaction(), of the operations this process has read.
LastTx(n) ==
    LET txs == {i \in 1 .. n : log[i].changes # <<>>}
    IN  IF txs = {} THEN 0 ELSE LastOf(txs)

InverseOf(changes) ==
    [r \in DOMAIN changes |-> [old |-> changes[r].new, new |-> changes[r].old]]

\* undo_ref_tx() makes the inverse first, from what it has read, and commits
\* it like any transaction.
UndoRead(p) ==
    /\ pc[p] = "idle" /\ LastTx(known[p]) # 0 /\ LastTx(known[p]) = known[p]
    /\ tx' = [tx EXCEPT ![p] = InverseOf(log[LastTx(known[p])].changes)]
    /\ Goto(p, "undoing")
    /\ UNCHANGED <<disk, known, refs, applied, since>>

UndoCommit(p) ==
    /\ pc[p] = "undoing"
    /\ AppendOp(p, tx[p]) \/ Refuse(p, tx[p])

(***************************************************************************)
(* After the append.                                                       *)
(***************************************************************************)
\* sync() fsyncs, or leaves that to the daemon; then the operation is folded
\* into the map and counted.
SyncOk(p) ==
    /\ pc[p] = "appended"
    /\ synced' \in {synced, Len(log)}
    /\ refs' = [refs EXCEPT ![p] = Apply(@, [changes |-> tx[p]])]
    /\ applied' = [applied EXCEPT ![p] = known[p]]
    /\ since' = [since EXCEPT ![p] = @ + 1]
    /\ tx' = [tx EXCEPT ![p] = <<>>]
    /\ Goto(p, IF since'[p] >= SnapshotEvery THEN "snapshot" ELSE "idle")
    /\ UNCHANGED <<log, snapshot, nextId, known>>

\* The caller is told of an error; the operation stays, and is folded in later.
SyncFails(p) ==
    /\ pc[p] = "appended"
    /\ tx' = [tx EXCEPT ![p] = <<>>]
    /\ Goto(p, "idle")
    /\ UNCHANGED <<disk, known, refs, applied, since>>

\* Two processes may write the same temporary file at once: what is renamed
\* into place is then unreadable, which is as if there were none.
Snapshot(p) ==
    /\ pc[p] = "snapshot"
    /\ snapshot' \in {[at |-> log[known[p]].id, refs |-> refs[p]], None}
    /\ since' = [since EXCEPT ![p] = 0]
    /\ Goto(p, "idle")
    /\ UNCHANGED <<log, synced, nextId, known, refs, applied, tx>>

SnapshotFails(p) ==
    /\ pc[p] = "snapshot"
    /\ Goto(p, "idle")
    /\ UNCHANGED <<disk, known, refs, applied, since, tx>>

Stop(p) ==
    /\ pc[p] # "closed"
    /\ Forget({p})
    /\ UNCHANGED disk

\* A snapshot may have become durable before the operation it is anchored to.
PowerLoss ==
    /\ \E k \in synced .. Len(log) : log' = SubSeq(log, 1, k) /\ synced' = k
    /\ snapshot' \in {snapshot, None}
    /\ Forget(Proc)
    /\ UNCHANGED nextId

Step(p) ==
    \/ OpenLog(p) \/ OpenRefs(p)
    \/ Commit(p) \/ RecordOp(p) \/ Refresh(p) \/ UndoRead(p) \/ UndoCommit(p)
    \/ SyncOk(p) \/ SyncFails(p) \/ Snapshot(p) \/ SnapshotFails(p)
    \/ Stop(p)

Next == PowerLoss \/ \E p \in Proc : Step(p)

Spec == Init /\ [][Next]_vars

-----------------------------------------------------------------------------
Op == [id : 1 .. MaxOps, changes : UNION {Changing(rs) : rs \in SUBSET Ref}]

\* The types; and no process has folded more operations than it has read, or
\* read more than there are (applied of RefStore, ops of OpLog).
TypeOK ==
    /\ log \in Seq(Op) /\ synced \in 0 .. Len(log) /\ nextId \in 0 .. MaxOps
    /\ snapshot \in [at : 1 .. MaxOps, refs : State] \cup {None}
    /\ pc \in [Proc -> {"closed", "opening"} \cup Alive]
    /\ known \in [Proc -> 0 .. Len(log)] /\ since \in [Proc -> Nat]
    /\ applied \in [Proc -> Nat] /\ \A p \in Proc : applied[p] <= known[p]
    /\ refs \in [Proc -> State]
    /\ tx \in [Proc -> UNION {Changing(rs) : rs \in SUBSET Ref}]

StateAt(k) == Replay(NoRefs, 1, k)

\* The map of every open store is what the operations it has folded make of no
\* refs at all: snapshots, failed syncs and catch-ups never let it drift
\* (open, fold_new, commit_idempotent).
RefsAreReplay ==
    \A p \in Proc : pc[p] \in Alive => refs[p] = StateAt(applied[p])

\* No replay ever fails: whatever a process is about to fold, at open or under
\* the lock, continues its map ("ref state diverged during replay").
ReplayNeverDiverges ==
    \A p \in Proc :
        /\ pc[p] = "opening" => Replays(Base(p), Anchor(p) + 1, known[p])
        /\ pc[p] \in Alive   => Replays(refs[p], applied[p] + 1, Len(log))

\* An undo takes back the most recent transaction: once it is in the log, the
\* refs are as they were before that one (the comment of undo).
UndoInvertsLast ==
    [][\A p \in Proc : pc[p] = "undoing" /\ pc'[p] = "appended"
         => (StateAt(Len(log)))' = StateAt(LastTx(Len(log)) - 1)]_vars

\* What the log and the processes stand for there: the states so far, and the place
\* each open store is at.
States == [k \in 1 .. Len(log) + 1 |-> StateAt(k - 1)]
Place == [p \in Proc |-> IF pc[p] \in Alive THEN applied[p] + 1 ELSE 0]

History == INSTANCE RefHistory WITH
    Reader  <- Proc,
    Initial <- NoRefs,
    Change  <- Change \cup {<<>>} \cup {InverseOf(c) : c \in Change},
    history <- States,
    seen    <- Place,
    view    <- refs

\* The ref store is one history of atomic compare-and-set transactions, and
\* every process reads states of it, in order.
ImplementsRefHistory == History!Spec
=============================================================================
