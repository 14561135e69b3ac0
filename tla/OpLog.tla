------------------------------- MODULE OpLog -------------------------------
(***************************************************************************)
(* The operation log of crates/alt-oplog: one append-only file shared by   *)
(* several processes.  A record is chained to its predecessor by hash; an  *)
(* exclusive flock on the file brackets "catch up, then write"; the fsync  *)
(* that acknowledges an append is coalesced across processes through a     *)
(* marker file naming the byte length already made durable.                *)
(*                                                                         *)
(* The file is its header, a sequence `disk` of whole records, each with   *)
(* the byte offset at which it ends, and `torn` further bytes that are the *)
(* beginning of a record nobody finished.  `flushed` is the state of the   *)
(* storage device: the length of the prefix that survives a power loss.    *)
(***************************************************************************)
EXTENDS Integers, Sequences, FiniteSets

CONSTANTS
    Proc,        \* the processes that open the log
    Daemons,     \* those that defer durability (altd, altd-server)
    Sizes,       \* the byte lengths a record may have
    HeaderLen,   \* the byte length of the file header
    MaxTorn,     \* the longest fragment an interrupted write leaves; 0: none
    MaxOps,      \* bound: appends over the whole behaviour
    None         \* the holder of a free lock

ASSUME ProcAssumption == None \notin Proc /\ Daemons \subseteq Proc
ASSUME SizeAssumption ==
    /\ Sizes \subseteq Nat \ {0}
    /\ HeaderLen \in Nat \ {0}
    /\ MaxTorn \in Nat
    /\ MaxOps \in Nat

VARIABLES
    header,      \* the header is in the file
    disk,        \* the whole records of the file
    torn,        \* bytes of the file after the last whole record
    flushed,     \* bytes of the file the device holds
    marker,      \* the length in the `durable` file
    logLock,     \* holder of the exclusive flock on `log`
    syncLock,    \* holder of the flock on `sync.lock`
    pc,          \* where each process is
    mem,         \* the ops a process holds in memory
    lenBytes,    \* the file length a process has replayed
    eof,         \* the length a syncing process read before its fsync
    nextId,      \* ids handed out so far (ids are hashes: never reused)
    acked        \* ids some sync() reported durable

file   == <<header, disk, torn>>
device == <<flushed, marker>>
locks  == <<logLock, syncLock>>
local  == <<pc, mem, lenBytes, eof>>
vars   == <<file, device, locks, local, nextId, acked>>

ROOT == 0
Ids  == 1 .. MaxOps
Op   == [id : Ids, parent : Ids \cup {ROOT}, end : Nat]

\* Processes that are past open(): they hold a verified copy of the chain.
Closed  == {"closed", "repair"}
Open    == {"idle", "locked", "caughtUp", "appended", "waitSync", "inSync",
            "fsync", "mark"}
Syncing == {"inSync", "fsync", "mark"}

\* The byte length of the header and the first k records of l.
EndOf(l, k) == IF k = 0 THEN HeaderLen ELSE l[k].end
FileLen     == torn + (IF header THEN EndOf(disk, Len(disk)) ELSE 0)
\* Mutant: the parent is named by where it ends, not by its id.
HeadOfByOffset(l) == IF l = <<>> THEN ROOT ELSE l[Len(l)].end
HeadOf(l)   == IF l = <<>> THEN ROOT ELSE l[Len(l)].id
IdsIn(l)    == {l[i].id : i \in DOMAIN l}

Init ==
    /\ header = FALSE /\ disk = <<>> /\ torn = 0
    /\ flushed = 0 /\ marker = 0
    /\ logLock = None /\ syncLock = None
    /\ pc = [p \in Proc |-> "closed"]
    /\ mem = [p \in Proc |-> <<>>]
    /\ lenBytes = [p \in Proc |-> 0]
    /\ eof = [p \in Proc |-> 0]
    /\ nextId = 0
    /\ acked = {}

Goto(p, where) == pc' = [pc EXCEPT ![p] = where]

(***************************************************************************)
(* open(): the copy read under the shared lock is either whole, or needs a *)
(* repair, which retakes the lock exclusively and scans again.             *)
(***************************************************************************)
NeedsRepair == ~header \/ torn > 0

Load(p) ==
    /\ mem' = [mem EXCEPT ![p] = disk]
    /\ lenBytes' = [lenBytes EXCEPT ![p] = EndOf(disk, Len(disk))]

OpenRead(p) ==
    /\ pc[p] = "closed" /\ logLock = None
    /\ IF NeedsRepair
       THEN Goto(p, "repair") /\ UNCHANGED <<mem, lenBytes>>
       ELSE Goto(p, "idle") /\ Load(p)
    /\ UNCHANGED <<file, device, locks, eof, nextId, acked>>

OpenRepair(p) ==
    /\ pc[p] = "repair" /\ logLock = None
    /\ header' = TRUE /\ torn' = 0
    /\ disk' = IF header THEN disk ELSE <<>>
    /\ flushed' = IF NeedsRepair THEN EndOf(disk', Len(disk')) ELSE flushed
    /\ mem' = [mem EXCEPT ![p] = disk']
    /\ lenBytes' = [lenBytes EXCEPT ![p] = EndOf(disk', Len(disk'))]
    /\ Goto(p, "idle")
    /\ UNCHANGED <<marker, locks, eof, nextId, acked>>

\* What the device still holds of a file cut to `len` bytes.
KeptOf(len) == IF flushed > len THEN len ELSE flushed

\* The repair fails: the file cannot be cut, or it is cut (and the header is
\* begun) and not synced.  open() returns the error and the handle is gone.
OpenRepairFails(p) ==
    /\ pc[p] = "repair" /\ logLock = None
    /\ IF header
       THEN header' = header /\ torn' \in {torn, 0}
       ELSE \/ header' = TRUE /\ torn' = 0
            \/ header' = FALSE /\ torn' \in 0 .. HeaderLen - 1
    /\ UNCHANGED disk
    /\ flushed' = IF header THEN KeptOf(FileLen') ELSE 0
    /\ Goto(p, "closed")
    /\ UNCHANGED <<marker, locks, mem, lenBytes, eof, nextId, acked>>

(***************************************************************************)
(* append(), append_checked() and refresh(): lock, catch up, then write or *)
(* leave (a refresh, or a build that refuses).                             *)
(***************************************************************************)
Lock(p) ==
    /\ pc[p] = "idle" /\ logLock = None
    /\ logLock' = p
    /\ Goto(p, "locked")
    /\ UNCHANGED <<file, device, syncLock, mem, lenBytes, eof, nextId, acked>>

\* Mutant: catch_up() is left out.
UpToDateAlways(p) == TRUE

\* Nothing beyond the replayed length: catch_up() returns at once.
UpToDate(p) == FileLen <= lenBytes[p]

\* Mutant: the tail is replayed from the start of the file.
ContinuesFromStart(p, k) == k = 0

\* The bytes after the replayed length are the records from k + 1 on, and they
\* continue this process's chain; otherwise "oplog chain broken" refuses the
\* operation (OnlyTheBehindAreRefused tells when it happens).
Continues(p, k) ==
    /\ lenBytes[p] = EndOf(disk, k)
    /\ k < Len(disk) => disk[k + 1].parent = HeadOf(mem[p])

CatchUpNothing(p) ==
    /\ pc[p] = "locked" /\ UpToDate(p)
    /\ Goto(p, "caughtUp")
    /\ UNCHANGED <<file, device, locks, mem, lenBytes, eof, nextId, acked>>

\* Mutant: the replayed length moves, the records are not taken in.
CatchUpTailUnread(p) ==
    /\ pc[p] = "locked" /\ ~UpToDate(p)
    /\ \E k \in 0 .. Len(disk) : Continues(p, k)
    /\ lenBytes' = [lenBytes EXCEPT ![p] = EndOf(disk, Len(disk))]
    /\ torn' = 0
    /\ flushed' = IF torn > 0 THEN EndOf(disk, Len(disk)) ELSE flushed
    /\ Goto(p, "caughtUp")
    /\ UNCHANGED <<header, disk, marker, locks, mem, eof, nextId, acked>>

\* replay_records(): the records beyond the replayed length join the view.
TakeIn(p) ==
    \E k \in 0 .. Len(disk) :
        /\ Continues(p, k)
        /\ mem' = [mem EXCEPT ![p] = @ \o SubSeq(disk, k + 1, Len(disk))]

CatchUpTail(p) ==
    /\ pc[p] = "locked" /\ ~UpToDate(p)
    /\ TakeIn(p)
    /\ lenBytes' = [lenBytes EXCEPT ![p] = EndOf(disk, Len(disk))]
    /\ torn' = 0
    /\ flushed' = IF torn > 0 THEN EndOf(disk, Len(disk)) ELSE flushed
    /\ Goto(p, "caughtUp")
    /\ UNCHANGED <<header, disk, marker, locks, eof, nextId, acked>>

\* catch_up() returns an error and the operation ends: the tail cannot be read
\* or is refused, and nothing has changed.
CatchUpFails(p) ==
    /\ pc[p] = "locked"
    /\ logLock' = None
    /\ Goto(p, "idle")
    /\ UNCHANGED <<file, device, syncLock, mem, lenBytes, eof, nextId, acked>>

\* The records are in the view when set_len(), or sync_all() after it, fails
\* on the torn tail: the replayed length stays where it was, behind the view.
CutFails(p) ==
    /\ pc[p] = "locked" /\ torn > 0
    /\ TakeIn(p)
    /\ torn' \in {torn, 0}
    /\ UNCHANGED <<header, disk>>
    /\ flushed' = KeptOf(FileLen')
    /\ logLock' = None
    /\ Goto(p, "idle")
    /\ UNCHANGED <<marker, syncLock, lenBytes, eof, nextId, acked>>

Release(p) ==
    /\ pc[p] = "caughtUp"
    /\ logLock' = None
    /\ Goto(p, "idle")
    /\ UNCHANGED <<file, device, syncLock, mem, lenBytes, eof, nextId, acked>>

\* The record lands at the replayed length, over whatever is there.
WriteRecord(p, size) ==
    LET rec == [id     |-> nextId + 1,
                parent |-> HeadOf(mem[p]),
                end    |-> lenBytes[p] + size]
    IN  /\ pc[p] = "caughtUp" /\ nextId < MaxOps
        /\ nextId' = nextId + 1
        /\ \E k \in 0 .. Len(disk) :
             /\ EndOf(disk, k) = lenBytes[p]
             /\ disk' = Append(SubSeq(disk, 1, k), rec)
        /\ mem' = [mem EXCEPT ![p] = Append(@, rec)]
        /\ lenBytes' = [lenBytes EXCEPT ![p] = rec.end]
        /\ logLock' = None
        /\ Goto(p, "appended")
        /\ UNCHANGED <<header, torn, device, syncLock, eof, acked>>

\* The write stops after `bytes`: the call fails, or (Stop next) the process dies.
WriteTorn(p, bytes) ==
    /\ pc[p] = "caughtUp"
    /\ torn' = bytes
    /\ logLock' = None
    /\ Goto(p, "idle")
    /\ UNCHANGED <<header, disk, device, syncLock, mem, lenBytes, eof, nextId,
                   acked>>

(***************************************************************************)
(* sync(): the append is acknowledged once its bytes are durable.          *)
(***************************************************************************)
\* Mutant: every operation ever appended is reported, in the file or not.
AckEverything(p) == acked' = acked \cup 1 .. nextId

Ack(p) == acked' = acked \cup IdsIn(mem[p])

\* The daemon fsyncs through its own handle; marker and lock play no part.
SyncDeferred(p) ==
    /\ pc[p] = "appended" /\ p \in Daemons
    /\ flushed' = FileLen
    /\ Ack(p)
    /\ Goto(p, "idle")
    /\ UNCHANGED <<file, marker, locks, mem, lenBytes, eof, nextId>>

\* Mutant: any marker will do.
CoveredByAnyMarker(p) == marker > 0

Covered(p) == marker >= lenBytes[p]

SyncCovered(p) ==
    /\ pc[p] = "appended" /\ p \notin Daemons /\ Covered(p)
    /\ Ack(p)
    /\ Goto(p, "idle")
    /\ UNCHANGED <<file, device, locks, mem, lenBytes, eof, nextId>>

SyncNotCovered(p) ==
    /\ pc[p] = "appended" /\ p \notin Daemons /\ ~Covered(p)
    /\ Goto(p, "waitSync")
    /\ UNCHANGED <<file, device, locks, mem, lenBytes, eof, nextId, acked>>

SyncLock(p) ==
    /\ pc[p] = "waitSync" /\ syncLock = None
    /\ syncLock' = p
    /\ Goto(p, "inSync")
    /\ UNCHANGED <<file, device, logLock, mem, lenBytes, eof, nextId, acked>>

SyncSkip(p) ==
    /\ pc[p] = "inSync" /\ Covered(p)
    /\ Ack(p)
    /\ syncLock' = None
    /\ Goto(p, "idle")
    /\ UNCHANGED <<file, device, logLock, mem, lenBytes, eof, nextId>>

SyncEof(p) ==
    /\ pc[p] = "inSync" /\ ~Covered(p)
    /\ eof' = [eof EXCEPT ![p] = FileLen]
    /\ Goto(p, "fsync")
    /\ UNCHANGED <<file, device, locks, mem, lenBytes, nextId, acked>>

SyncFsync(p) ==
    /\ pc[p] = "fsync"
    /\ flushed' = FileLen
    /\ Goto(p, "mark")
    /\ UNCHANGED <<file, marker, locks, mem, lenBytes, eof, nextId, acked>>

SyncMark(p) ==
    /\ pc[p] = "mark"
    /\ marker' = eof[p]
    /\ Ack(p)
    /\ syncLock' = None
    /\ Goto(p, "idle")
    /\ UNCHANGED <<file, flushed, logLock, mem, lenBytes, eof, nextId>>

\* An fsync, or the marker's write, fails: sync() returns an error.
SyncFails(p) ==
    /\ pc[p] \in {"fsync", "mark"}
    /\ syncLock' = None
    /\ Goto(p, "idle")
    /\ UNCHANGED <<file, device, logLock, mem, lenBytes, eof, nextId, acked>>

(***************************************************************************)
(* The environment.                                                        *)
(***************************************************************************)
Freed(l, p) == IF l = p THEN None ELSE l

\* A process ends; the kernel drops its locks.  Drop's fsync, when it runs
\* and succeeds, flushes the file.
Stop(p) ==
    /\ pc[p] # "closed"
    /\ logLock' = Freed(logLock, p) /\ syncLock' = Freed(syncLock, p)
    /\ flushed' \in {flushed, FileLen}
    /\ Goto(p, "closed")
    /\ mem' = [mem EXCEPT ![p] = <<>>]
    /\ lenBytes' = [lenBytes EXCEPT ![p] = 0]
    /\ UNCHANGED <<file, marker, eof, nextId, acked>>

\* Every process ends; the file is cut somewhere past what the device holds;
\* the marker, renamed into place but never fsynced, may be an older one.
PowerLoss ==
    \E cut \in flushed .. FileLen, k \in 0 .. Len(disk) :
        /\ header' = (header /\ cut >= HeaderLen)
        /\ k > 0 => disk[k].end <= cut
        /\ k < Len(disk) => cut < disk[k + 1].end
        /\ disk' = SubSeq(disk, 1, k)
        /\ torn' = IF header' THEN cut - EndOf(disk, k) ELSE cut
        /\ flushed' = cut
        /\ marker' \in 0 .. marker
        /\ logLock' = None /\ syncLock' = None
        /\ pc' = [p \in Proc |-> "closed"]
        /\ mem' = [p \in Proc |-> <<>>]
        /\ lenBytes' = [p \in Proc |-> 0]
        /\ UNCHANGED <<eof, nextId, acked>>

Step(p) ==
    \/ OpenRead(p) \/ OpenRepair(p) \/ OpenRepairFails(p)
    \/ Lock(p) \/ CatchUpNothing(p) \/ CatchUpTail(p) \/ CatchUpFails(p)
    \/ CutFails(p) \/ Release(p)
    \/ \E size \in Sizes : WriteRecord(p, size)
    \/ \E bytes \in 1 .. MaxTorn : WriteTorn(p, bytes)
    \/ SyncDeferred(p) \/ SyncCovered(p) \/ SyncNotCovered(p) \/ SyncLock(p)
    \/ SyncSkip(p) \/ SyncEof(p) \/ SyncFsync(p) \/ SyncMark(p) \/ SyncFails(p)
    \/ Stop(p)

Next == PowerLoss \/ \E p \in Proc : Step(p)

Spec == Init /\ [][Next]_vars

-----------------------------------------------------------------------------
\* The types of the file, the device, the marker and the views (struct OpLog).
TypeOK ==
    /\ header \in BOOLEAN
    /\ disk \in Seq(Op)
    /\ torn \in Nat /\ flushed \in Nat /\ marker \in Nat
    /\ logLock \in Proc \cup {None} /\ syncLock \in Proc \cup {None}
    /\ pc \in [Proc -> Closed \cup Open]
    /\ mem \in [Proc -> Seq(Op)]
    /\ lenBytes \in [Proc -> Nat]
    /\ eof \in [Proc -> Nat]
    /\ nextId \in 0 .. MaxOps
    /\ acked \subseteq Ids

\* The file is one hash chain: every record names the one before it as its
\* parent and begins where that one ends, whichever process wrote it
\* (write_record after catch_up, under the flock).
ChainLinear ==
    \A i \in DOMAIN disk :
        /\ disk[i].parent = (IF i = 1 THEN ROOT ELSE disk[i - 1].id)
        /\ disk[i].end > EndOf(disk, i - 1)

Prefix(s, t) == Len(s) <= Len(t) /\ \A i \in 1 .. Len(s) : s[i] = t[i]

\* What an open log holds in memory is what the file begins with, and its
\* replayed length is the end of one of those records, of the last one
\* whenever the process goes on to write or to sync: no process serves or
\* builds on an operation that is not in the file, although a cut that failed
\* leaves the length behind the view (open, catch_up).
ViewIsPrefix ==
    \A p \in Proc : pc[p] \in Open =>
        /\ Prefix(mem[p], disk)
        /\ \E k \in 0 .. Len(mem[p]) :
             /\ lenBytes[p] = EndOf(disk, k)
             /\ pc[p] \notin {"idle", "locked"} => k = Len(mem[p])

\* The view of p goes beyond the length p has replayed.
Behind(p) == lenBytes[p] < EndOf(mem[p], Len(mem[p]))

\* A catch-up under the lock is refused ("oplog chain broken") exactly when an
\* earlier one of the same process failed between taking the records in and
\* moving its length: the process then reads the same records again, on top of
\* themselves, and every later operation of it fails until it is restarted.
\* Whatever else processes and crashes do, the tail continues the chain.
OnlyTheBehindAreRefused ==
    \A p \in Proc : pc[p] = "locked" /\ ~UpToDate(p) =>
        (Behind(p) <=> ~\E k \in 0 .. Len(disk) : Continues(p, k))

\* An operation some sync() reported durable is in the file and on the device:
\* no power loss can take it back (sync, sync_to, write_durable).
AckedDurable ==
    \A a \in acked : \E i \in DOMAIN disk :
        disk[i].id = a /\ disk[i].end <= flushed

\* While any process is left alive by a step, that step only appends to the
\* log: neither a repair, a truncation of a torn tail nor a second opener ever
\* drops or rewrites a whole record.
OnlyAppends == (\E p \in Proc : pc'[p] # "closed") => Prefix(disk, disk')
AppendOnly  == [][OnlyAppends]_vars

-----------------------------------------------------------------------------
\* What the log promises the layers above (module OpChain): the ids in chain
\* order, and those some sync() reported durable.
Chain == INSTANCE OpChain WITH
    chain    <- [i \in DOMAIN disk |-> disk[i].id],
    promised <- acked

\* Whatever the interleaving of the processes, the crashes and the power
\* losses, the file behaves as one chain that grows by an op at a time and
\* never loses a promised one, as long as no write is left unfinished.
ImplementsOpChain == Chain!Spec
=============================================================================
