-------------------------------- MODULE Odb --------------------------------
(***************************************************************************)
(* The object database of crates/alt-odb over crates/alt-store: packs of   *)
(* blobs, `tier1` (which blobs are kept in prismatic form) and `map.alt`   *)
(* (which objects exist), appended to by several processes under one       *)
(* exclusive flock, and made durable by an fsync coalesced through a       *)
(* marker file.                                                            *)
(*                                                                         *)
(* A file is the sequence of its records; the length of a file is the      *)
(* number of its records.  An object is one blob (the blobmap, which only  *)
(* multi-chunk blobs use, behaves as map.alt does and is left out).  A     *)
(* prismatic object is a record blob in a pack and an entry of `tier1`.    *)
(* Torn tails are as in OpLog, whose Torn run covers them, and left out.   *)
(***************************************************************************)
EXTENDS Integers, Sequences, FiniteSets

CONSTANTS
    Proc,        \* the processes that may open the store
    Obj,         \* the git objects that may be stored
    Uses,        \* the uses that are made of a store, see Use
    None

\* procs use the store, daemons of which fsync through OdbSink instead of flush;
\* of the objects, content is stored without an identity (put_content) and
\* prismatic is what a prism of the registry accepts; a pack is sealed at sealAt.
Use == [procs : SUBSET Proc, daemons : SUBSET Proc, objects : SUBSET Obj,
        content : SUBSET Obj, prismatic : SUBSET Obj, sealAt : Nat \ {0}]

ASSUME OdbAssumption == None \notin Proc /\ None \notin Obj /\ Uses \subseteq Use

VARIABLES
    use,         \* the use that is made of this store
    packs,       \* the packs; the last is the active one
    tier1, map,  \* the two record files
    flushed,     \* what the device holds of each: [packs, tier1, map]
    marker,      \* the lengths in odb.durable: [pack, map]
    lock,        \* holder of the exclusive flock on odb.lock
    syncLock,    \* holder of the flock on odb.sync.lock
    pc,          \* where each process is
    view,        \* what each process has read: [active, pack, tier1, map, prisms]
    cur,         \* the object it is storing
    batch,       \* the objects of its batch
    target,      \* how far its batch reaches in each file
    eofs,        \* the lengths it read before its fsyncs
    acked        \* objects some flush reported durable

files   == <<packs, tier1, map>>
device  == <<flushed, marker>>
locks   == <<lock, syncLock>>
durable == <<target, eofs>>
vars    == <<use, files, device, locks, pc, view, cur, batch, durable, acked>>

Writing == {"batch", "tier1", "map"}
Ending  == {"flush", "waitSync", "inSync", "fsyncPack", "fsyncTier1", "fsyncMap", "mark"}
Lens    == [pack : Nat, map : Nat]

\* `tier1` in a view is the write cursor of that file, `prisms` what was read.
NoView == [active |-> 0, pack |-> 0, tier1 |-> 0, map |-> 0, prisms |-> {}]

Init ==
    /\ use \in Uses
    /\ packs = << <<>> >> /\ tier1 = <<>> /\ map = <<>>
    /\ flushed = [packs |-> <<0>>, tier1 |-> 0, map |-> 0]
    /\ marker = [pack |-> 0, map |-> 0]
    /\ lock = None /\ syncLock = None
    /\ pc = [p \in Proc |-> "closed"]
    /\ view = [p \in Proc |-> NoView]
    /\ cur = [p \in Proc |-> None]
    /\ batch = [p \in Proc |-> {}]
    /\ target = [p \in Proc |-> [pack |-> 0, map |-> 0]]
    /\ eofs = [p \in Proc |-> [pack |-> 0, map |-> 0]]
    /\ acked = {}

Goto(p, where) == pc' = [pc EXCEPT ![p] = where]
First(s, n)    == {s[i] : i \in 1 .. n}
Elements(s)    == First(s, Len(s))
ActiveSeq      == Len(packs)

\* What a view has read: of the packs, and of the map.
Seen(some, v) ==
    (UNION {Elements(some[i]) : i \in 1 .. v.active - 1})
    \cup (IF v.active = 0 THEN {} ELSE First(some[v.active], v.pack))
BlobsSeen(p)   == Seen(packs, view[p])
ObjectsSeen(p) == First(map, view[p].map)

Open(p) ==
    /\ p \in use.procs /\ pc[p] = "closed" /\ lock = None
    /\ view' = [view EXCEPT ![p] =
         [active |-> ActiveSeq, pack |-> Len(packs[ActiveSeq]),
          tier1 |-> Len(tier1), map |-> Len(map), prisms |-> Elements(tier1)]]
    /\ Goto(p, "idle")
    /\ UNCHANGED <<use, files, device, locks, cur, batch, durable, acked>>

(***************************************************************************)
(* A batch: acquire, puts, flush.                                          *)
(***************************************************************************)
\* Mutant: only the map is read again.
AcquireMapOnly(p) ==
    /\ pc[p] = "idle" /\ lock \in {None, p}
    /\ lock' = p
    /\ view' = [view EXCEPT ![p].map = Len(map)]
    /\ batch' = [batch EXCEPT ![p] = {}]
    /\ Goto(p, "batch")
    /\ UNCHANGED <<use, files, device, syncLock, cur, durable, acked>>

\* sync_from_disk of the blobs and of the map; tier1 is not read again.  A
\* process that still holds the lock reads nothing.
Acquire(p) ==
    /\ pc[p] = "idle" /\ lock \in {None, p}
    /\ lock' = p
    /\ view' = IF lock = p THEN view
               ELSE [view EXCEPT ![p].active = ActiveSeq,
                                 ![p].pack = Len(packs[ActiveSeq]),
                                 ![p].map = Len(map)]
    /\ batch' = [batch EXCEPT ![p] = {}]
    /\ Goto(p, "batch")
    /\ UNCHANGED <<use, files, device, syncLock, cur, durable, acked>>

\* refresh(): what was read is kept, nothing is written.
Release(p) ==
    /\ pc[p] = "batch" /\ batch[p] = {}
    /\ lock' = None
    /\ Goto(p, "idle")
    /\ UNCHANGED <<use, files, device, syncLock, view, cur, batch, durable, acked>>

\* A command fails between its puts and its flush (a path the policy denies, an
\* object whose hash is wrong, a write error): nothing releases the lock.
Abandon(p) ==
    /\ pc[p] \in Writing
    /\ batch' = [batch EXCEPT ![p] = {}]
    /\ cur' = [cur EXCEPT ![p] = None]
    /\ Goto(p, "idle")
    /\ UNCHANGED <<use, files, device, locks, view, durable, acked>>

\* Mutants: put() does not look in the map; put_blob() takes any blob for stored.
MappedNever(p, o)  == FALSE
StoredAlways(p, o) == TRUE

\* A prismatic object is found under its own id in tier1 only: the blob in the
\* pack is its record, which has an id of its own.
Mapped(p, o) == o \notin use.content /\ o \in ObjectsSeen(p)
Stored(p, o) == IF o \in use.prismatic THEN o \in view[p].prisms
                                   ELSE o \in BlobsSeen(p)

\* put() finds the object in the map, or put_content() the blob in the store.
PutKnown(p, o) ==
    /\ pc[p] = "batch" /\ o \notin batch[p]
    /\ Mapped(p, o) \/ (o \in use.content /\ Stored(p, o))
    /\ batch' = [batch EXCEPT ![p] = @ \cup {o}]
    /\ UNCHANGED <<use, files, device, locks, pc, view, cur, durable, acked>>

\* Mutant: storing without an identity ends the batch.
AfterBlobEnds(o) == IF o \in use.content THEN "done" ELSE "map"

AfterBlob(o) == IF o \in use.content THEN "batch" ELSE "map"

\* The blob is there already, and only the identity is missing.
PutStored(p, o) ==
    /\ pc[p] = "batch" /\ o \notin batch[p] \cup use.content
    /\ ~Mapped(p, o) /\ Stored(p, o)
    /\ cur' = [cur EXCEPT ![p] = o]
    /\ Goto(p, "map")
    /\ UNCHANGED <<use, files, device, locks, view, batch, durable, acked>>

\* append_record(), and seal_and_roll() when that fills the pack.
AppendBlob(p, o) ==
    LET k       == view[p].active
        written == Append(SubSeq(packs[k], 1, view[p].pack), o)
        seal    == Len(written) >= use.sealAt
        lens    == [flushed.packs EXCEPT ![k] = IF seal THEN Len(written) ELSE @]
    IN  /\ packs' = IF seal THEN Append([packs EXCEPT ![k] = written], <<>>)
                            ELSE [packs EXCEPT ![k] = written]
        /\ flushed' = [flushed EXCEPT !.packs = IF seal THEN Append(lens, 0) ELSE lens]
        /\ view' = [view EXCEPT ![p].active = IF seal THEN k + 1 ELSE k,
                                ![p].pack = IF seal THEN 0 ELSE Len(written)]

\* put_blob(): the blob, or the record of a prismatic one, which a writer that
\* crashed may have left there.
PutBlob(p, o) ==
    /\ pc[p] = "batch" /\ o \notin batch[p]
    /\ ~Mapped(p, o) /\ ~Stored(p, o)
    /\ IF o \in BlobsSeen(p) THEN UNCHANGED <<packs, flushed, view>>
                                   ELSE AppendBlob(p, o)
    /\ cur' = [cur EXCEPT ![p] = o]
    /\ IF o \in use.prismatic
       THEN Goto(p, "tier1") /\ UNCHANGED batch
       ELSE /\ Goto(p, AfterBlob(o))
            /\ batch' = [batch EXCEPT ![p] = IF o \in use.content THEN @ \cup {o} ELSE @]
    /\ UNCHANGED <<use, tier1, map, marker, locks, durable, acked>>

\* The record lands at the process's own cursor, whatever is there.
AppendTier1(p) ==
    LET at == view[p].tier1 + 1
        o  == cur[p]
    IN  /\ pc[p] = "tier1"
        /\ tier1' = [i \in DOMAIN tier1 \cup {at} |-> IF i = at THEN o ELSE tier1[i]]
        /\ view' = [view EXCEPT ![p].tier1 = at, ![p].prisms = @ \cup {o}]
        /\ Goto(p, AfterBlob(o))
        /\ batch' = [batch EXCEPT ![p] = IF o \in use.content THEN @ \cup {o} ELSE @]
        /\ UNCHANGED <<use, packs, map, device, locks, cur, durable, acked>>

AppendMap(p) ==
    /\ pc[p] = "map"
    /\ map' = Append(SubSeq(map, 1, view[p].map), cur[p])
    /\ view' = [view EXCEPT ![p].map = Len(map')]
    /\ batch' = [batch EXCEPT ![p] = @ \cup {cur[p]}]
    /\ Goto(p, "batch")
    /\ UNCHANGED <<use, packs, tier1, device, locks, cur, durable, acked>>

\* flush(): note how far the batch reaches, let the lock go, then sync.
Flush(p) ==
    /\ pc[p] = "batch" /\ batch[p] # {}
    /\ target' = [target EXCEPT ![p] = [pack |-> view[p].pack, map |-> view[p].map]]
    /\ lock' = None
    /\ Goto(p, IF p \in use.daemons THEN "fsyncPack" ELSE "flush")
    /\ UNCHANGED <<use, files, device, syncLock, view, cur, batch, eofs, acked>>

(***************************************************************************)
(* sync_to(), and OdbSink::fsync() for a daemon.                           *)
(***************************************************************************)
\* Mutant: only the pack's length is compared.
CoversPack(p) == marker.pack >= target[p].pack

Covers(p) == marker.pack >= target[p].pack /\ marker.map >= target[p].map

Ack(p) ==
    /\ acked' = acked \cup batch[p]
    /\ Goto(p, "idle")

SyncCovered(p) ==
    /\ pc[p] = "flush" /\ Covers(p)
    /\ Ack(p)
    /\ UNCHANGED <<use, files, device, locks, view, cur, batch, durable>>

SyncLock(p) ==
    /\ pc[p] = "flush" /\ ~Covers(p)
    /\ Goto(p, "waitSync")
    /\ UNCHANGED <<use, files, device, locks, view, cur, batch, durable, acked>>

SyncLocked(p) ==
    /\ pc[p] = "waitSync" /\ syncLock = None
    /\ syncLock' = p
    /\ Goto(p, "inSync")
    /\ UNCHANGED <<use, files, device, lock, view, cur, batch, durable, acked>>

SyncSkip(p) ==
    /\ pc[p] = "inSync" /\ Covers(p)
    /\ syncLock' = None
    /\ Ack(p)
    /\ UNCHANGED <<use, files, device, lock, view, cur, batch, durable>>

\* The lengths of the pack this process holds open and of map.alt, as they are.
SyncEofs(p) ==
    /\ pc[p] = "inSync" /\ ~Covers(p)
    /\ eofs' = [eofs EXCEPT ![p] =
         [pack |-> Len(packs[view[p].active]), map |-> Len(map)]]
    /\ Goto(p, "fsyncPack")
    /\ UNCHANGED <<use, files, device, locks, view, cur, batch, target, acked>>

\* ChunkStore::fsync: the pack held open; ChunkSink::fsync: the highest one.
FsyncPack(p) ==
    LET k == IF p \in use.daemons THEN ActiveSeq ELSE view[p].active
    IN  /\ pc[p] = "fsyncPack"
        /\ flushed' = [flushed EXCEPT !.packs[k] = Len(packs[k])]
        /\ Goto(p, "fsyncTier1")
        /\ UNCHANGED <<use, files, marker, locks, view, cur, batch, durable, acked>>

\* Mutant: tier1 is not synced.
FsyncTier1Skipped(p) ==
    /\ pc[p] = "fsyncTier1"
    /\ Goto(p, "fsyncMap")
    /\ UNCHANGED <<use, files, device, locks, view, cur, batch, durable, acked>>

FsyncTier1(p) ==
    /\ pc[p] = "fsyncTier1"
    /\ flushed' = [flushed EXCEPT !.tier1 = Len(tier1)]
    /\ Goto(p, "fsyncMap")
    /\ UNCHANGED <<use, files, marker, locks, view, cur, batch, durable, acked>>

FsyncMap(p) ==
    /\ pc[p] = "fsyncMap"
    /\ flushed' = [flushed EXCEPT !.map = Len(map)]
    /\ IF p \in use.daemons THEN Ack(p) ELSE Goto(p, "mark") /\ UNCHANGED acked
    /\ UNCHANGED <<use, files, marker, locks, view, cur, batch, durable>>

SyncMark(p) ==
    /\ pc[p] = "mark"
    /\ marker' = eofs[p]
    /\ syncLock' = None
    /\ Ack(p)
    /\ UNCHANGED <<use, files, flushed, lock, view, cur, batch, durable>>

\* The process ends anywhere, an error of an fsync included; the kernel drops
\* its locks and nothing is flushed.
Crash(p) ==
    /\ pc[p] # "closed"
    /\ lock' = IF lock = p THEN None ELSE lock
    /\ syncLock' = IF syncLock = p THEN None ELSE syncLock
    /\ view' = [view EXCEPT ![p] = NoView]
    /\ cur' = [cur EXCEPT ![p] = None]
    /\ batch' = [batch EXCEPT ![p] = {}]
    /\ Goto(p, "closed")
    /\ UNCHANGED <<use, files, device, durable, acked>>

Step(p) ==
    \/ Open(p) \/ Acquire(p) \/ Release(p)
    \/ \E o \in use.objects : PutKnown(p, o) \/ PutStored(p, o) \/ PutBlob(p, o)
    \/ AppendTier1(p) \/ AppendMap(p) \/ Flush(p) \/ Abandon(p)
    \/ SyncCovered(p) \/ SyncLock(p) \/ SyncLocked(p) \/ SyncSkip(p) \/ SyncEofs(p)
    \/ FsyncPack(p) \/ FsyncTier1(p) \/ FsyncMap(p) \/ SyncMark(p)
    \/ Crash(p)

Next == \E p \in Proc : Step(p)

Spec == Init /\ [][Next]_vars

-----------------------------------------------------------------------------
\* The types of the append files, the views of them and the positions in put()
\* and sync_to().
TypeOK ==
    /\ use \in Uses
    /\ packs \in Seq(Seq(Obj)) /\ tier1 \in Seq(Obj) /\ map \in Seq(Obj)
    /\ flushed \in [packs : Seq(Nat), tier1 : Nat, map : Nat]
    /\ marker \in Lens
    /\ lock \in Proc \cup {None} /\ syncLock \in Proc \cup {None}
    /\ pc \in [Proc -> {"closed", "idle"} \cup Writing \cup Ending]
    /\ view \in [Proc -> [active : Nat, pack : Nat, tier1 : Nat, map : Nat,
                          prisms : SUBSET Obj]]
    /\ cur \in [Proc -> Obj \cup {None}]
    /\ batch \in [Proc -> SUBSET Obj]
    /\ target \in [Proc -> Lens] /\ eofs \in [Proc -> Lens]
    /\ acked \subseteq Obj

Blobs == UNION {Elements(packs[i]) : i \in DOMAIN packs}
FlushedBlobs ==
    UNION {First(packs[i], flushed.packs[i]) : i \in DOMAIN packs}

Held(o, blobs, prisms) == o \in blobs /\ (o \in use.prismatic => o \in prisms)

\* Whoever crashes wherever in a batch, an object that map.alt names can be
\* read back: its blob is in a pack and, for a prismatic one, `tier1` says so.
MappedHasContent == \A o \in Elements(map) : Held(o, Blobs, Elements(tier1))

\* The same in the memory of an open process: what by_git finds, get can read.
ViewHasContent ==
    \A p \in Proc : \A o \in ObjectsSeen(p) :
        Held(o, BlobsSeen(p), view[p].prisms)

\* No object is stored twice: the catch-up under the lock lets every writer see
\* what the others appended before it dedups (acquire, put).
NoDuplicates ==
    /\ \A i, j \in DOMAIN map : map[i] = map[j] => i = j
    /\ \A i, j \in DOMAIN packs : \A k \in DOMAIN packs[i], m \in DOMAIN packs[j] :
         packs[i][k] = packs[j][m] => i = j /\ k = m

\* What a flush reported durable is on the device, the identity included: the
\* marker never lets a process skip an fsync it needed.
AckedDurable ==
    \A o \in acked :
        /\ Held(o, FlushedBlobs, First(tier1, flushed.tier1))
        /\ o \notin use.content => o \in First(map, flushed.map)

\* Nobody's append lands on another's record: the files only grow.
Grows(s, t) == Len(s) <= Len(t) /\ SubSeq(t, 1, Len(s)) = s
FilesOnlyGrow ==
    [][Grows(map, map') /\ Grows(tier1, tier1')
       /\ \A i \in DOMAIN packs : Grows(packs[i], packs'[i])]_vars

\* The comment of refresh: "a batch always reaches `flush` first", so that the
\* lock is never held between two requests of a daemon.
IdleHoldsNoLock == \A p \in Proc : pc[p] = "idle" => lock # p

\* The comments of flush, sync_to and OdbSink: "a crash never leaves a durable
\* identity record pointing at lost content".
DurableIdentityHasContent ==
    \A o \in First(map, flushed.map) :
        Held(o, FlushedBlobs, First(tier1, flushed.tier1))
=============================================================================
