---------------------------- MODULE GroupCommit ----------------------------
(***************************************************************************)
(* The group commit of the two daemons (crates/alt-cli: group_commit.rs,   *)
(* the two phases of serve() in bin/altd.rs, StoreSink in native.rs).      *)
(*                                                                         *)
(* A request runs under the store mutex: it appends its object to the odb, *)
(* its operation to the log, and takes a ticket before it lets go.  Then   *)
(* it waits, off the store mutex, until an fsync covers the ticket; one    *)
(* waiting thread at a time leads, the others sleep on the condition       *)
(* variable.  Steps that hold the coordinator's own mutex throughout are   *)
(* one action.                                                             *)
(***************************************************************************)
EXTENDS Integers, Sequences, FiniteSets

CONSTANTS
    Thread,      \* the request threads; each serves one request
    Nobody       \* the holder of a free mutex

ASSUME ThreadAssumption == Nobody \notin Thread

VARIABLES
    holder,      \* holder of the store mutex
    objs,        \* objects appended to the odb so far
    written,     \* operations appended to the log: the object each one names
    objsFlushed, \* how many of the objects the device holds
    logFlushed,  \* how many of the operations the device holds
    place,       \* where each thread is
    obj,         \* the object a thread's request relies on; 0: none
    op,          \* the place in the log of its operation; 0: none
    ticket,      \* its ticket; 0: none
    led,         \* it has led a flush
    covered,     \* next_ticket as it was when the thread became leader
    next_ticket, durable, syncing, fsync_count

disk      == <<objs, written, objsFlushed, logFlushed>>
group     == <<next_ticket, durable, syncing, fsync_count>>
local     == <<obj, op, ticket, led, covered>>
groupVars == <<holder, disk, place, local, group>>

Flushing == {"fsyncOdb", "fsyncLog", "flushed", "failed"}
Answered == {"ok", "err"}
States   == {"start", "run", "await", "asleep"} \cup Flushing \cup Answered

GroupInit ==
    /\ holder = Nobody
    /\ objs = 0 /\ written = <<>> /\ objsFlushed = 0 /\ logFlushed = 0
    /\ place = [t \in Thread |-> "start"]
    /\ obj = [t \in Thread |-> 0]
    /\ op = [t \in Thread |-> 0]
    /\ ticket = [t \in Thread |-> 0]
    /\ led = [t \in Thread |-> FALSE]
    /\ covered = [t \in Thread |-> 0]
    /\ next_ticket = 0 /\ durable = 0 /\ syncing = FALSE /\ fsync_count = 0

Goto(t, where) == place' = [place EXCEPT ![t] = where]

(***************************************************************************)
(* Phase 1, under the store mutex.                                         *)
(***************************************************************************)
LockStore(t) ==
    /\ place[t] = "start" /\ holder = Nobody
    /\ holder' = t
    /\ Goto(t, "run")
    /\ UNCHANGED <<disk, local, group>>

\* The odb already holds the object (put appends nothing), or appends it.
PutObject(t) ==
    /\ place[t] = "run" /\ obj[t] = 0 /\ op[t] = 0
    /\ \E i \in 1 .. objs + 1 :
         /\ obj' = [obj EXCEPT ![t] = i]
         /\ objs' = IF i > objs THEN i ELSE objs
    /\ UNCHANGED <<holder, written, objsFlushed, logFlushed, place, op, ticket,
                   led, covered, group>>

AppendOp(t) ==
    /\ place[t] = "run" /\ op[t] = 0
    /\ written' = Append(written, obj[t])
    /\ op' = [op EXCEPT ![t] = Len(written) + 1]
    /\ UNCHANGED <<holder, objs, objsFlushed, logFlushed, place, obj, ticket,
                   led, covered, group>>

Wrote(t) == obj[t] # 0 \/ op[t] # 0

\* Mutant: the ticket is not counted.
AssignUncounted(t) ==
    /\ place[t] = "run" /\ Wrote(t)
    /\ ticket' = [ticket EXCEPT ![t] = next_ticket + 1]
    /\ holder' = Nobody
    /\ Goto(t, "await")
    /\ UNCHANGED <<disk, obj, op, led, covered, group>>

\* The write epoch moved: take a ticket, then let go of the store.
Assign(t) ==
    /\ place[t] = "run" /\ Wrote(t)
    /\ next_ticket' = next_ticket + 1
    /\ ticket' = [ticket EXCEPT ![t] = next_ticket + 1]
    /\ holder' = Nobody
    /\ Goto(t, "await")
    /\ UNCHANGED <<disk, obj, op, led, covered, durable, syncing, fsync_count>>

\* A read, which takes no ticket and is answered at once.
AnswerRead(t) ==
    /\ place[t] = "run" /\ ~Wrote(t)
    /\ holder' = Nobody
    /\ Goto(t, "ok")
    /\ UNCHANGED <<disk, local, group>>

\* The command fails before its operation: it may leave an object behind.
CommandFails(t) ==
    /\ place[t] = "run" /\ op[t] = 0
    /\ holder' = Nobody
    /\ Goto(t, "err")
    /\ UNCHANGED <<disk, local, group>>

(***************************************************************************)
(* Phase 2: one round of the loop of await_durable_with().                 *)
(***************************************************************************)
\* Mutant: off by one, the ticket before is enough.
CoveredByPrevious(t) ==
    /\ place[t] = "await" /\ durable + 1 >= ticket[t]
    /\ Goto(t, "ok")
    /\ UNCHANGED <<holder, disk, local, group>>

Covered(t) ==
    /\ place[t] = "await" /\ durable >= ticket[t]
    /\ Goto(t, "ok")
    /\ UNCHANGED <<holder, disk, local, group>>

Sleep(t) ==
    /\ place[t] = "await" /\ durable < ticket[t] /\ syncing
    /\ Goto(t, "asleep")
    /\ UNCHANGED <<holder, disk, local, group>>

Lead(t) ==
    /\ place[t] = "await" /\ durable < ticket[t] /\ ~syncing /\ ~led[t]
    /\ syncing' = TRUE
    /\ led' = [led EXCEPT ![t] = TRUE]
    /\ covered' = [covered EXCEPT ![t] = next_ticket]
    /\ Goto(t, "fsyncOdb")
    /\ UNCHANGED <<holder, disk, obj, op, ticket, next_ticket, durable,
                   fsync_count>>

\* StoreSink::fsync_all(), off both mutexes: the objects, then the log.
FsyncOdb(t) ==
    /\ place[t] = "fsyncOdb"
    /\ objsFlushed' = objs
    /\ Goto(t, "fsyncLog")
    /\ UNCHANGED <<holder, objs, written, logFlushed, local, group>>

FsyncLog(t) ==
    /\ place[t] = "fsyncLog"
    /\ logFlushed' = Len(written)
    /\ Goto(t, "flushed")
    /\ UNCHANGED <<holder, objs, written, objsFlushed, local, group>>

\* Mutant: `?` on the fsync leaves at once, and `syncing` set.
FsyncFailsAtOnce(t) ==
    /\ place[t] \in {"fsyncOdb", "fsyncLog"}
    /\ Goto(t, "err")
    /\ UNCHANGED <<holder, disk, local, group>>

FsyncFails(t) ==
    /\ place[t] \in {"fsyncOdb", "fsyncLog"}
    /\ Goto(t, "failed")
    /\ UNCHANGED <<holder, disk, local, group>>

\* The leader takes the mutex back, publishes the outcome, wakes everyone and
\* goes round its loop once more before it lets the mutex go.
EndFlush(t) ==
    /\ place[t] \in {"flushed", "failed"}
    /\ syncing' = FALSE
    /\ fsync_count' = fsync_count + 1
    /\ durable' = IF place[t] = "flushed" /\ covered[t] > durable
                  THEN covered[t] ELSE durable
    /\ place' = [u \in Thread |->
                IF u = t THEN IF durable' >= ticket[t] THEN "ok" ELSE "err"
                ELSE IF place[u] = "asleep" THEN "await" ELSE place[u]]
    /\ UNCHANGED <<holder, disk, local, next_ticket>>

\* Mutant: a woken sleeper leaves the loop with no outcome.
WakeAndLeave(t) ==
    /\ place[t] = "asleep"
    /\ Goto(t, "woken")
    /\ UNCHANGED <<holder, disk, local, group>>

\* A condition variable may wake a sleeper for no reason.
WakeSpuriously(t) ==
    /\ place[t] = "asleep"
    /\ Goto(t, "await")
    /\ UNCHANGED <<holder, disk, local, group>>

Run(t)   == LockStore(t) \/ PutObject(t) \/ AppendOp(t) \/ Assign(t)
            \/ AnswerRead(t) \/ CommandFails(t)
Await(t) == Covered(t) \/ Sleep(t) \/ Lead(t)
            \/ FsyncOdb(t) \/ FsyncLog(t) \/ FsyncFails(t) \/ EndFlush(t)

GroupNext == \E t \in Thread : Run(t) \/ Await(t) \/ WakeSpuriously(t)

GroupSpec == GroupInit /\ [][GroupNext]_groupVars

\* Every thread that can move does: the scheduler runs it, its command ends, an
\* fsync returns.  Nothing is asked of the mutexes (each is free in the end,
\* there being finitely many requests), of fsync's success or of spurious
\* wake-ups.
GroupFairSpec == GroupSpec /\ \A t \in Thread : WF_groupVars(Run(t) \/ Await(t))

-----------------------------------------------------------------------------
\* The types of GroupInner, of the files and of the threads of serve().
GroupTypeOK ==
    /\ holder \in Thread \cup {Nobody}
    /\ objs \in Nat /\ written \in Seq(Nat)
    /\ objsFlushed \in Nat /\ logFlushed \in Nat
    /\ place \in [Thread -> States]
    /\ obj \in [Thread -> Nat] /\ op \in [Thread -> Nat]
    /\ ticket \in [Thread -> Nat] /\ covered \in [Thread -> Nat]
    /\ led \in [Thread -> BOOLEAN]
    /\ next_ticket \in Nat /\ durable \in Nat /\ fsync_count \in Nat
    /\ syncing \in BOOLEAN

OnDevice(t) == obj[t] <= objsFlushed /\ op[t] <= logFlushed

\* A write is answered 0 only when everything it relies on, its own operation
\* and an object another request may have appended, is on the device (the
\* promise of await_durable; serve answers 0 on no other path).
OkIsDurable == \A t \in Thread : place[t] = "ok" => OnDevice(t)

\* The leader is alone, and `syncing` says exactly whether there is one: two
\* flushes never overlap and the flag is never left set by a leader that left.
OneLeader ==
    /\ \A t, u \in Thread : place[t] \in Flushing /\ place[u] \in Flushing => t = u
    /\ syncing <=> \E t \in Thread : place[t] \in Flushing

\* Nobody sleeps unless a leader is there to wake everyone (no lost wake-up
\* between the test of `syncing` and the wait on the condition variable).
SleepersHaveLeader ==
    (\E t \in Thread : place[t] = "asleep")
    => \E t \in Thread : place[t] \in Flushing

\* There are never more fsyncs than tickets, failures included: a thread leads
\* at most once, so a dead disk is not retried for ever.
FsyncsBounded == fsync_count <= next_ticket

\* A flush that succeeds covers a ticket that was not covered: no thread leads
\* a flush for what an earlier one already made durable.
EveryFsyncCounts ==
    [][\A t \in Thread : place[t] = "flushed" /\ place'[t] # "flushed"
         => durable' > durable]_groupVars

\* What the comment of StoreSink says of the device: "a durable ref op always
\* has its commit object durable".
DurableOpHasObject ==
    \A k \in 1 .. logFlushed : written[k] <= objsFlushed

\* Every request is answered, whoever leads and however flushes fail.
EveryRequestAnswered ==
    \A t \in Thread : place[t] = "start" ~> place[t] \in Answered
=============================================================================
