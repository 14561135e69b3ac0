------------------------------- MODULE Daemon -------------------------------
(***************************************************************************)
(* A write sent to the per-repository daemon (crates/alt-cli: client.rs,   *)
(* serve() and dispatch() of bin/altd.rs; crates/alt-refs: open and        *)
(* commit_idempotent).  The client sends its request under one id and      *)
(* retries under the same id while responses are lost; the daemon stamps   *)
(* the id on the operation and looks it up before running a request again. *)
(*                                                                         *)
(* Each member of `Daemon` is one process: it starts, serves and dies      *)
(* once.  Any number may be up, and a client may reach any of them: what   *)
(* is shown here does not rest on bind() keeping a second daemon out.      *)
(* The flush of a ticket is one step here; GroupCommit takes it apart.     *)
(***************************************************************************)
EXTENDS Integers, Sequences, FiniteSets

CONSTANTS
    Client,         \* the `alt` processes that write, each once
    Keyed,          \* those whose command ends in a ref transaction
    Daemon,         \* the daemon processes
    SnapshotEvery,  \* operations between two snapshots of the refs
    MaxTries,       \* bound: attempts before the retry budget has run out
    None

Op == [by : Client, try : Nat, keyed : BOOLEAN]

ASSUME DaemonAssumption ==
    /\ None \notin Daemon /\ None \notin Client /\ None \notin Op
    /\ Keyed \subseteq Client
    /\ SnapshotEvery \in Nat \ {0}
    /\ MaxTries \in Nat \ {0}

VARIABLES
    log,        \* the operation log: who wrote, in which attempt, with its id?
    flushed,    \* how many of its operations the device holds
    snapshot,   \* the operation the snapshot file is anchored to, or None
    up,         \* the daemons that are serving
    dead,       \* those that have ended
    mutex,      \* holder of each daemon's store mutex
    seen,       \* how much of the log each daemon has folded in
    byKey,      \* each daemon's index of applied ids
    sinceSnap,  \* each daemon's ops_since_snapshot
    pc,         \* where each client is
    tries,      \* attempts it made; 0 also means: nothing was ever sent
    conn,       \* the daemon its request went to
    work        \* how far that request has got there

store  == <<log, flushed, snapshot>>
procs  == <<up, dead>>
memory == <<mutex, seen, byKey, sinceSnap>>
client == <<pc, tries, conn, work>>
vars   == <<store, procs, memory, client>>

Ended  == {"served", "acked", "refused", "direct", "gaveUp", "dead"}
Places == {"new", "runDirect", "waiting", "lost"} \cup Ended
InTurn == {"running", "applied"}
Stages == {"none", "queued", "flushing", "ran", "known", "error"} \cup InTurn

Init ==
    /\ log = <<>> /\ flushed = 0 /\ snapshot = None
    /\ up = {} /\ dead = {}
    /\ mutex = [d \in Daemon |-> None]
    /\ seen = [d \in Daemon |-> 0]
    /\ byKey = [d \in Daemon |-> {}]
    /\ sinceSnap = [d \in Daemon |-> 0]
    /\ pc = [c \in Client |-> "new"]
    /\ tries = [c \in Client |-> 0]
    /\ conn = [c \in Client |-> None]
    /\ work = [c \in Client |-> "none"]

\* Mutant: off by one, the first of them is skipped.
KeysAfter(first) == {log[i].by : i \in {j \in first + 1 .. Len(log) : log[j].keyed}}

\* Mutant: an id counts as applied once its command has begun.
KeysBegun(first) ==
    {log[i].by : i \in {j \in first .. Len(log) : log[j].keyed}}
    \cup {c \in Client : work[c] = "running"}

\* The ids on the operations from place `first` on.
KeysFrom(first) == {log[i].by : i \in {j \in first .. Len(log) : log[j].keyed}}

\* Where the replay of the log starts: after the snapshot's operation, if that
\* operation is still in the log.
ReplayFrom ==
    IF \E i \in DOMAIN log : log[i] = snapshot
    THEN 1 + CHOOSE i \in DOMAIN log : log[i] = snapshot
    ELSE 1

(***************************************************************************)
(* The client.                                                             *)
(***************************************************************************)
Idle(c) == pc[c] \in {"new", "lost"}

\* connect_or_spawn() finds no daemon and starts one, which opens the store.
Spawn(d) ==
    /\ d \notin up \cup dead
    /\ \E c \in Client : Idle(c)
    /\ up' = up \cup {d}
    /\ seen' = [seen EXCEPT ![d] = Len(log)]
    /\ byKey' = [byKey EXCEPT ![d] = KeysFrom(ReplayFrom)]
    /\ sinceSnap' = [sinceSnap EXCEPT ![d] = 1 + Len(log) - ReplayFrom]
    /\ UNCHANGED <<store, dead, mutex, client>>

\* The whole request frame reaches a daemon.
Send(c, d) ==
    /\ Idle(c) /\ d \in up /\ tries[c] < MaxTries
    /\ pc' = [pc EXCEPT ![c] = "waiting"]
    /\ tries' = [tries EXCEPT ![c] = @ + 1]
    /\ conn' = [conn EXCEPT ![c] = d]
    /\ work' = [work EXCEPT ![c] = "queued"]
    /\ UNCHANGED <<store, procs, memory>>

\* NotSent on the first attempt: the caller runs the command itself, keyless.
FirstNotSent(c) ==
    /\ pc[c] = "new"
    /\ pc' = [pc EXCEPT ![c] = "runDirect"]
    /\ UNCHANGED <<store, procs, memory, tries, conn, work>>

\* Mutant: the retries have no budget.
LaterNotSentForEver(c) ==
    /\ pc[c] = "lost"
    /\ tries' = [tries EXCEPT ![c] = @ + 1]
    /\ UNCHANGED <<store, procs, memory, pc, conn, work>>

\* NotSent later on: one more attempt is gone, and the client keeps trying.
LaterNotSent(c) ==
    /\ pc[c] = "lost" /\ tries[c] < MaxTries
    /\ tries' = [tries EXCEPT ![c] = @ + 1]
    /\ UNCHANGED <<store, procs, memory, pc, conn, work>>

RunDirect(c) ==
    /\ pc[c] = "runDirect"
    /\ log' = Append(log, [by |-> c, try |-> 0, keyed |-> FALSE])
    /\ flushed' = Len(log')
    /\ pc' = [pc EXCEPT ![c] = "direct"]
    /\ UNCHANGED <<snapshot, procs, memory, tries, conn, work>>

\* The daemon died with the response unsent: LostAfterSend.
Lose(c) ==
    /\ pc[c] = "waiting" /\ conn[c] \in dead
    /\ pc' = [pc EXCEPT ![c] = "lost"]
    /\ conn' = [conn EXCEPT ![c] = None]
    /\ work' = [work EXCEPT ![c] = "none"]
    /\ UNCHANGED <<store, procs, memory, tries>>

\* Mutant: the deadline is looked at only while attempts are left.
GiveUpEarlyOnly(c) ==
    /\ pc[c] = "lost" /\ tries[c] < MaxTries
    /\ pc' = [pc EXCEPT ![c] = "gaveUp"]
    /\ UNCHANGED <<store, procs, memory, tries, conn, work>>

\* The budget is over (in the model, at the latest after MaxTries attempts).
GiveUp(c) ==
    /\ pc[c] = "lost"
    /\ pc' = [pc EXCEPT ![c] = "gaveUp"]
    /\ UNCHANGED <<store, procs, memory, tries, conn, work>>

\* `ran` answers a request that was run, `known` one recognised by its id.
Receive(c) ==
    /\ pc[c] = "waiting" /\ conn[c] \in up
    /\ work[c] \in {"ran", "known", "error"}
    /\ pc' = [pc EXCEPT ![c] = CASE work[c] = "ran"   -> "served"
                                 [] work[c] = "known" -> "acked"
                                 [] work[c] = "error" -> "refused"]
    /\ conn' = [conn EXCEPT ![c] = None]
    /\ work' = [work EXCEPT ![c] = "none"]
    /\ UNCHANGED <<store, procs, memory, tries>>

(***************************************************************************)
(* A worker thread of the daemon, for the request of client c.             *)
(***************************************************************************)
At(c, d, stage) == pc[c] = "waiting" /\ conn[c] = d /\ d \in up /\ work[c] = stage

Stage(c, stage) == work' = [work EXCEPT ![c] = stage]

\* Under the store mutex: refresh, then look the id up.
Dispatch(c, d) ==
    /\ At(c, d, "queued") /\ mutex[d] = None
    /\ byKey' = [byKey EXCEPT ![d] = @ \cup KeysFrom(seen[d] + 1)]
    /\ seen' = [seen EXCEPT ![d] = Len(log)]
    /\ IF c \in byKey'[d]
       THEN Stage(c, "known") /\ UNCHANGED mutex
       ELSE Stage(c, "running") /\ mutex' = [mutex EXCEPT ![d] = c]
    /\ UNCHANGED <<store, procs, sinceSnap, pc, tries, conn>>

\* The command appends its operation; only a ref transaction carries the id.
Apply(c, d) ==
    /\ At(c, d, "running")
    /\ log' = Append(log, [by |-> c, try |-> tries[c], keyed |-> c \in Keyed])
    /\ Stage(c, "applied")
    /\ UNCHANGED <<flushed, snapshot, procs, memory, pc, tries, conn>>

\* The command finds nothing to do or is refused: nothing is appended.
Refuse(c, d) ==
    /\ At(c, d, "running")
    /\ Stage(c, "error")
    /\ mutex' = [mutex EXCEPT ![d] = None]
    /\ UNCHANGED <<store, procs, seen, byKey, sinceSnap, pc, tries, conn>>

\* Back from the append: index the id, maybe write a snapshot, take a ticket.
\* Catching up under the log's flock folded in what others had written first.
Note(c, d) ==
    LET mine == CHOOSE i \in DOMAIN log : log[i].by = c /\ log[i].try = tries[c]
        due  == sinceSnap[d] + 1 >= SnapshotEvery
    IN  /\ At(c, d, "applied")
        /\ byKey' = [byKey EXCEPT ![d] =
             @ \cup {log[i].by : i \in {j \in seen[d] + 1 .. mine : log[j].keyed}}]
        /\ seen' = [seen EXCEPT ![d] = mine]
        /\ sinceSnap' = [sinceSnap EXCEPT ![d] = IF due THEN 0 ELSE @ + 1]
        /\ snapshot' = IF due THEN log[mine] ELSE snapshot
        /\ mutex' = [mutex EXCEPT ![d] = None]
        /\ Stage(c, "flushing")
        /\ UNCHANGED <<log, flushed, procs, pc, tries, conn>>

Flush(c, d) ==
    /\ At(c, d, "flushing")
    /\ flushed' = Len(log)
    /\ Stage(c, "ran")
    /\ UNCHANGED <<log, snapshot, procs, memory, pc, tries, conn>>

\* Mutant: the outcome of the fsync is ignored.
FlushFailsUnseen(c, d) ==
    /\ At(c, d, "flushing")
    /\ Stage(c, "ran")
    /\ UNCHANGED <<store, procs, memory, pc, tries, conn>>

FlushFails(c, d) ==
    /\ At(c, d, "flushing")
    /\ Stage(c, "error")
    /\ UNCHANGED <<store, procs, memory, pc, tries, conn>>

(***************************************************************************)
(* The environment: a daemon is killed (a crash, the SIGTERM of a newer    *)
(* client, an idle exit once nothing is in flight), or the machine stops.  *)
(***************************************************************************)
Kill(d) ==
    /\ d \in up
    /\ up' = up \ {d} /\ dead' = dead \cup {d}
    /\ mutex' = [mutex EXCEPT ![d] = None]
    /\ UNCHANGED <<store, seen, byKey, sinceSnap, client>>

\* The snapshot is renamed into place without an fsync of its directory.
PowerLoss ==
    /\ \E k \in flushed .. Len(log) : log' = SubSeq(log, 1, k) /\ flushed' = k
    /\ snapshot' \in {snapshot, None}
    /\ up' = {} /\ dead' = dead \cup up
    /\ mutex' = [d \in Daemon |-> None]
    /\ pc' = [c \in Client |-> IF pc[c] \in Ended \cup {"new"} THEN pc[c] ELSE "dead"]
    /\ work' = [c \in Client |-> "none"]
    /\ conn' = [c \in Client |-> None]
    /\ UNCHANGED <<seen, byKey, sinceSnap, tries>>

ClientStep(c) ==
    \/ \E d \in Daemon : Send(c, d)
    \/ FirstNotSent(c) \/ LaterNotSent(c) \/ RunDirect(c)
    \/ Lose(c) \/ GiveUp(c) \/ Receive(c)

WorkerStep(c) ==
    \E d \in Daemon :
        \/ Dispatch(c, d) \/ Apply(c, d) \/ Refuse(c, d)
        \/ Note(c, d) \/ Flush(c, d) \/ FlushFails(c, d)

Next ==
    \/ \E c \in Client : ClientStep(c) \/ WorkerStep(c)
    \/ \E d \in Daemon : Spawn(d) \/ Kill(d)
    \/ PowerLoss

Spec == Init /\ [][Next]_vars

\* Clients and workers run; an fsync ends.  Nothing is asked of the daemons:
\* whether one is spawned or killed, and when, is open.
FairSpec == Spec /\ \A c \in Client : WF_vars(ClientStep(c)) /\ WF_vars(WorkerStep(c))

-----------------------------------------------------------------------------
\* The types: every client, daemon and request is where serve_write() and serve()
\* can have it.
TypeOK ==
    /\ log \in Seq(Op) /\ flushed \in Nat
    /\ snapshot \in Op \cup {None}
    /\ up \subseteq Daemon /\ dead \subseteq Daemon
    /\ mutex \in [Daemon -> Client \cup {None}]
    /\ seen \in [Daemon -> Nat]
    /\ byKey \in [Daemon -> SUBSET Client]
    /\ sinceSnap \in [Daemon -> Nat]
    /\ pc \in [Client -> Places]
    /\ tries \in [Client -> 0 .. MaxTries]
    /\ conn \in [Client -> Daemon \cup {None}]
    /\ work \in [Client -> Stages]

Once(c) == \A i, j \in DOMAIN log : log[i].by = c /\ log[j].by = c => i = j

\* Exactly once: no command takes effect twice, whatever is lost, however often
\* it is retried, and whether a daemon or the client itself runs it
\* (serve_write, dispatch).
AppliedOnce == \A c \in Client : Once(c)

Applied(c) == \E i \in DOMAIN log : log[i].by = c
Durable(c) == \E i \in 1 .. flushed : i \in DOMAIN log /\ log[i].by = c

\* An answer of success is never given for a command that is not in the log
\* while the machine stays up: an id is recognised only if it was applied.
AcksAreTrue ==
    \A c \in Client : work[c] = "known" => Applied(c)

\* A command answered by the daemon that ran it, or run by the client itself,
\* survives a power loss (the two phases of serve, the inline fsync).
RunsAreDurable == \A c \in Client : pc[c] \in {"served", "direct"} => Durable(c)

\* The comment of dispatch: "a keyed write whose key is already in the durable
\* idempotency index has taken effect": what a retry acknowledges is durable.
AcksAreDurable == \A c \in Client : pc[c] = "acked" => Durable(c)

\* A client is never stuck: it gets an answer or gives up.
EveryClientEnds ==
    \A c \in Client : pc[c] # "new" ~> pc[c] \in Ended
=============================================================================
