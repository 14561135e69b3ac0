------------------------------ MODULE ChunkStore ------------------------------
(***************************************************************************)
(* ChunkStore of crates/alt-store/src/lib.rs: numbered packs of chunk      *)
(* records, of which the last is appended to; chunks re-encoded as deltas  *)
(* against others (lineage), packs sealed, compacted into one, and read    *)
(* again by the next process.  Writers hold the exclusive lock of          *)
(* crates/alt-odb/src/lib.rs from their first write to their flush; what   *)
(* has to be on the device is fsynced after it is given up.                *)
(*                                                                         *)
(* altd-server takes a cursor before it ingests a push and one after it,   *)
(* and rewinds to the first where the push is rejected: the threads of its *)
(* pushes share the memory of one process and the mutex around it, which   *)
(* they give up between the ingest and the rewind.                         *)
(*                                                                         *)
(* A record is the chunk it stores and the chunk it is a delta against, or *)
(* None.  The length of a pack is the number of its records.  Torn tails   *)
(* are as in OpLog, whose Torn run covers them, and left out; so are the   *)
(* fsyncs of directories, each of which ends the step it is in.            *)
(***************************************************************************)
EXTENDS Integers, Sequences, FiniteSets, TLC

CONSTANTS
    Proc,      \* the processes
    Chunk,     \* the chunks, by what they contain
    Push,      \* the pushes altd-server is at, at one time
    SealAt,    \* seal_threshold
    MaxDepth,  \* MAX_DELTA_DEPTH
    MaxSeq,    \* bound: pack numbers
    None,      \* no chunk, no process, no cursor, nothing
    Missing    \* no record

\* A cursor; those of a push, before its ingest and behind it, and what it put.
Cursor == [seq : Nat, len : Nat]
Mark == [pre : Cursor, post : Cursor \cup {None}, put : SUBSET Chunk]

ASSUME ChunkStoreAssumption ==
    /\ IsFiniteSet(Chunk)
    /\ None \notin Chunk \cup Proc \cup Int /\ Missing \notin Chunk \cup {None}
    /\ None \notin Cursor /\ None \notin Mark
    /\ SealAt \in Nat \ {0} /\ MaxDepth \in Nat \ {0} /\ MaxSeq \in Nat \ {0}

VARIABLES
    packs,  \* the pack files by number: records, how many the device has, altidx
    lock,   \* who holds odb.lock
    view,   \* what each process has of the packs in memory, or None
    step,   \* where a writer is in a roll or a compaction
    ckpt,   \* the cursors of each push, with the chunks it put, or None
    acked   \* the chunks some flush has reported

vars == <<packs, lock, view, step, ckpt, acked>>

\* A pack with its header, and no altidx; a pack that is removed.
NewPack == [recs |-> <<>>, synced |-> 0, idx |-> None]
Gone == [recs |-> <<>>, synced |-> 0, idx |-> -1]

\* sync_all().
Synced(file) == [file EXCEPT !.synced = Len(file.recs)]

Seqs(files) == {s \in DOMAIN files : files[s] # Gone}

(***************************************************************************)
(* The index: of each chunk the record inserted last, in the order of      *)
(* their places.  load() takes of a sealed pack the records its altidx     *)
(* tells of, or all where there is none; the active pack is scanned.       *)
(***************************************************************************)
Inserted(live, rec) ==
    LET at == {i \in DOMAIN live : live[i].id = rec.id}
        was == CHOOSE i \in at : TRUE
    IN  Append(IF at = {} THEN live
               ELSE SubSeq(live, 1, was - 1) \o SubSeq(live, was + 1, Len(live)), rec)

\* Mutant: the altidx of the active pack is believed too.
ToldByIdx(files, s) ==
    IF files[s].idx = None THEN files[s].recs ELSE SubSeq(files[s].recs, 1, files[s].idx)

Told(files, s) ==
    IF s = Len(files) \/ files[s].idx = None THEN files[s].recs
    ELSE SubSeq(files[s].recs, 1, files[s].idx)

Records(files) ==
    LET Upto[s \in 0 .. Len(files)] == IF s = 0 THEN <<>> ELSE Upto[s - 1] \o Told(files, s)
    IN  Upto[Len(files)]

Live(recs) ==
    LET Upto[n \in 0 .. Len(recs)] == IF n = 0 THEN <<>> ELSE Inserted(Upto[n - 1], recs[n])
    IN  Upto[Len(recs)]

\* What a process has after load().
Loaded(files) == [seqs |-> Seqs(files), len |-> Len(files[Len(files)].recs), live |-> Live(Records(files))]

Indexed(recs) == {recs[i].id : i \in DOMAIN recs}

\* What each chunk is a delta against: None, or Missing where it is not indexed.
Bases(recs) ==
    [c \in Chunk \cup {None, Missing} |->
        IF c \in Indexed(recs)
        THEN LET at == {i \in DOMAIN recs : recs[i].id = c}
             IN  recs[CHOOSE i \in at : \A j \in at : j <= i].base
        ELSE IF c = None THEN None ELSE Missing]

\* The bases behind a chunk, one by one.
Chain(bases, c, n) ==
    LET Nth[k \in 0 .. n] == IF k = 0 THEN c ELSE bases[Nth[k - 1]] IN Nth

Behind(bases, c) == LET n == Cardinality(Chunk) IN {Chain(bases, c, n)[k] : k \in 0 .. n}

\* resolve(): a chain of at most n deltas that ends in a full record.
Within(bases, c, n) == Chain(bases, c, n + 1)[n + 1] = None

Resolved(live) == {c \in Chunk : Within(Bases(live), c, Cardinality(Chunk))}

NoPush == [x \in Push |-> None]

-----------------------------------------------------------------------------
Init ==
    /\ packs = <<NewPack>>
    /\ lock = None
    /\ view = [p \in Proc |-> None]
    /\ step = [p \in Proc |-> "ready"]
    /\ ckpt = NoPush
    /\ acked = {}

Active(p) == CHOOSE s \in view[p].seqs : \A t \in view[p].seqs : t <= s
Writes(p) == lock = p /\ step[p] = "ready"

\* NativeOdb::open_with(), under the shared lock; not while the server of this
\* store is at a push ("the server is the only writer to this store").
Open(p) ==
    /\ view[p] = None /\ lock = None /\ ckpt = NoPush
    /\ view' = [view EXCEPT ![p] = Loaded(packs)]
    /\ UNCHANGED <<packs, lock, step, ckpt, acked>>

\* disk_changed(): the numbers of the packs, or the length of the active one.
Changed(p) ==
    Seqs(packs) # view[p].seqs \/ Len(packs[Active(p)].recs) # view[p].len

\* acquire(): sync_from_disk().
Acquire(p) ==
    /\ view[p] # None /\ lock = None
    /\ lock' = p
    /\ view' = [view EXCEPT ![p] = IF Changed(p) THEN Loaded(packs) ELSE @]
    /\ UNCHANGED <<packs, step, ckpt, acked>>

\* append_record(); a pack that is full is sealed before anything else.
Append1(p, rec) ==
    LET s == Active(p)
    IN  /\ packs' = [packs EXCEPT ![s].recs = Append(@, rec)]
        /\ view' = [view EXCEPT ![p].len = @ + 1, ![p].live = Inserted(@, rec)]
        /\ step' = [step EXCEPT ![p] = IF view[p].len + 1 >= SealAt THEN "seal" ELSE @]

\* The push that has the mutex to ingest.
Ingesting(x) == ckpt[x] # None /\ ckpt[x].post = None

\* put() of a chunk that is not indexed; one that is writes nothing.
Put(p, c) ==
    /\ Writes(p) /\ c \notin Indexed(view[p].live)
    /\ view[p].len + 1 >= SealAt => Active(p) < MaxSeq
    /\ Append1(p, [id |-> c, base |-> None])
    /\ ckpt' = [x \in Push |-> IF Ingesting(x) THEN [ckpt[x] EXCEPT !.put = @ \cup {c}] ELSE ckpt[x]]
    /\ UNCHANGED <<lock, acked>>

\* Mutant: the chain of the base is not followed.
AllowsAny(bases, c, base) == c # base /\ bases[c] = None

\* reencode_as_delta(): not yet a delta, not on the chain of its base, and that
\* chain not too deep.
Allows(bases, c, base) ==
    /\ bases[c] = None /\ c \notin Behind(bases, base)
    /\ Within(bases, base, MaxDepth - 1)

\* The delta is smaller than what is stored.
Reencode(p, c, base) ==
    /\ Writes(p) /\ {c, base} \subseteq Indexed(view[p].live)
    /\ Allows(Bases(view[p].live), c, base)
    /\ view[p].len + 1 >= SealAt => Active(p) < MaxSeq
    /\ Append1(p, [id |-> c, base |-> base])
    /\ UNCHANGED <<lock, ckpt, acked>>

-----------------------------------------------------------------------------
(***************************************************************************)
(* seal_and_roll(): fsync, altidx, and the next pack.                      *)
(***************************************************************************)
Seal(p) ==
    /\ lock = p /\ step[p] = "seal"
    /\ packs' = [packs EXCEPT ![Active(p)] = [Synced(@) EXCEPT !.idx = Len(packs[Active(p)].recs)]]
    /\ step' = [step EXCEPT ![p] = "roll"]
    /\ UNCHANGED <<lock, view, ckpt, acked>>

Roll(p) ==
    /\ lock = p /\ step[p] = "roll"
    /\ packs' = Append(packs, NewPack)
    /\ view' = [view EXCEPT ![p].seqs = @ \cup {Len(packs')}, ![p].len = 0]
    /\ step' = [step EXCEPT ![p] = "ready"]
    /\ UNCHANGED <<lock, ckpt, acked>>

(***************************************************************************)
(* compact(): the record the index names of every chunk, in the order they *)
(* are in, goes to a pack of its own; then an active pack above it; then   *)
(* the old ones are removed.                                               *)
(***************************************************************************)
\* Mutant: what is a delta is left behind.
CompactedFull(p) ==
    LET full == SelectSeq(view[p].live, LAMBDA rec : rec.base = None)
    IN  [recs |-> full, synced |-> Len(full), idx |-> Len(full)]

Compacted(p) ==
    LET n == Len(view[p].live) IN [recs |-> view[p].live, synced |-> n, idx |-> n]

\* The active pack is on the device first; the new one is renamed into place.
CompactWrite(p) ==
    /\ Writes(p) /\ Len(packs) + 2 <= MaxSeq
    /\ packs' = Append([packs EXCEPT ![Active(p)] = Synced(@)], Compacted(p))
    /\ step' = [step EXCEPT ![p] = "compacted"]
    /\ UNCHANGED <<lock, view, ckpt, acked>>

CompactRoll(p) ==
    /\ lock = p /\ step[p] = "compacted"
    /\ packs' = Append(packs, NewPack)
    /\ step' = [step EXCEPT ![p] = "remove"]
    /\ UNCHANGED <<lock, view, ckpt, acked>>

Old(p) == view[p].seqs

\* remove_file(), one by one, lowest first.
CompactRemove(p) ==
    /\ lock = p /\ step[p] = "remove" /\ Old(p) \cap Seqs(packs) # {}
    /\ \E s \in Old(p) \cap Seqs(packs) :
         /\ \A t \in Old(p) \cap Seqs(packs) : s <= t
         /\ packs' = [packs EXCEPT ![s] = Gone]
    /\ UNCHANGED <<lock, view, step, ckpt, acked>>

\* The memory is made anew.
CompactDone(p) ==
    /\ lock = p /\ step[p] = "remove" /\ Old(p) \cap Seqs(packs) = {}
    /\ view' = [view EXCEPT ![p] = Loaded(packs)]
    /\ step' = [step EXCEPT ![p] = "ready"]
    /\ UNCHANGED <<packs, lock, ckpt, acked>>

-----------------------------------------------------------------------------
(***************************************************************************)
(* The batch around them.                                                  *)
(***************************************************************************)
\* NativeOdb::flush() gives the lock up first; so does a checkpoint().
Flush(p) ==
    /\ Writes(p)
    /\ lock' = None
    /\ UNCHANGED <<packs, view, step, ckpt, acked>>

\* The fsync of a flush, or of the group commit's sink, whoever writes by then: of
\* the active pack as the process knows it, which may be sealed or gone.
Sync(p) ==
    /\ view[p] # None
    /\ packs' = [packs EXCEPT ![Active(p)] = Synced(@)]
    /\ acked' = acked \cup Indexed(view[p].live)
    /\ UNCHANGED <<lock, view, step, ckpt>>

\* The server: "the only writer to this store".
Alone(p) ==
    /\ view[p] # None /\ step[p] = "ready" /\ ~Changed(p) /\ lock \in {p, None}
    /\ \A q \in Proc \ {p} : view[q] = None

\* ... with its mutex free.
Serves(p) == Alone(p) /\ \A x \in Push : ~Ingesting(x)

\* cursor(): without the lock, whoever is at a push besides.
Here(p) == [seq |-> Active(p), len |-> view[p].len]

Begin(p, x) ==
    /\ Serves(p) /\ ckpt[x] = None
    /\ ckpt' = [ckpt EXCEPT ![x] = [pre |-> Here(p), post |-> None, put |-> {}]]
    /\ UNCHANGED <<packs, lock, view, step, acked>>

\* The cursor behind the ingest, be it flushed or failed half way.
Ingested(p, x) ==
    /\ Alone(p) /\ Ingesting(x)
    /\ ckpt' = [ckpt EXCEPT ![x].post = Here(p)]
    /\ UNCHANGED <<packs, lock, view, step, acked>>

\* The push took effect, or its rewind is skipped or refused.
Ends(x) ==
    /\ ckpt[x] # None /\ ~Ingesting(x)
    /\ ckpt' = [ckpt EXCEPT ![x] = None]
    /\ UNCHANGED <<packs, lock, view, step, acked>>

Cut(file, n) ==
    [file EXCEPT !.recs = SubSeq(@, 1, n), !.synced = n]

\* Mutant: the cursor is not compared with the one behind the ingest.
UnmovedAlways(p, x) == ckpt[x].pre.len <= view[p].len

Unmoved(p, x) == ckpt[x].post = Here(p)

\* checkpoint(), and where nobody wrote since, rewind(), without the lock; a pack
\* that was rolled refuses it.  The memory is loaded again.  What was reported and
\* is still there stays so.
Rewind(p, x) ==
    /\ Serves(p) /\ ckpt[x] # None
    /\ Unmoved(p, x) /\ ckpt[x].pre.seq = Active(p)
    /\ packs' = [packs EXCEPT ![Active(p)] = Cut(@, ckpt[x].pre.len)]
    /\ view' = [view EXCEPT ![p] = Loaded(packs')]
    /\ acked' = acked \cap Indexed(Records(packs'))
    /\ ckpt' = [ckpt EXCEPT ![x] = None]
    /\ lock' = None
    /\ UNCHANGED step

\* A process ends, in the middle of a step or not.
Die(p) ==
    /\ view[p] # None
    /\ view' = [view EXCEPT ![p] = None]
    /\ lock' = IF lock = p THEN None ELSE lock
    /\ step' = [step EXCEPT ![p] = "ready"]
    /\ ckpt' = NoPush
    /\ UNCHANGED <<packs, acked>>

\* The power fails: every process ends, and the active pack may lose what was
\* not fsynced.
PowerFails ==
    /\ \E s \in Seqs(packs) : \E n \in packs[s].synced .. Len(packs[s].recs) - 1 :
         packs' = [packs EXCEPT ![s].recs = SubSeq(@, 1, n)]
    /\ view' = [p \in Proc |-> None]
    /\ lock' = None
    /\ step' = [p \in Proc |-> "ready"]
    /\ ckpt' = NoPush
    /\ UNCHANGED acked

Step(p) ==
    \/ Open(p) \/ Acquire(p) \/ Seal(p) \/ Roll(p) \/ Flush(p) \/ Sync(p) \/ Die(p)
    \/ CompactWrite(p) \/ CompactRoll(p) \/ CompactRemove(p) \/ CompactDone(p)
    \/ \E x \in Push : Begin(p, x) \/ Ingested(p, x) \/ Rewind(p, x)
    \/ \E c \in Chunk : Put(p, c) \/ \E base \in Chunk : Reencode(p, c, base)

Next == PowerFails \/ (\E x \in Push : Ends(x)) \/ \E p \in Proc : Step(p)

Spec == Init /\ [][Next]_vars

-----------------------------------------------------------------------------
\* Whatever a process has indexed can be read: every chain of deltas ends in a
\* full record, over chunks that are there, however chunks were re-encoded,
\* packs rolled, compacted and rewound, and whoever did it (resolve, load).
IndexedResolves ==
    \A p \in Proc : view[p] # None => Indexed(view[p].live) \subseteq Resolved(view[p].live)

Held ==
    {c \in Chunk : \E recs \in {Records(packs)} : \E bases \in {Bases(recs)} :
                      Within(bases, c, Cardinality(Chunk))}

\* The files implement a store of content: a re-encoding, a roll and every step
\* of a compaction, also one that dies there, change nothing of what can be
\* read (compact(): "crash-safe by construction"); what a flush reported stays
\* over power failures; and the rewind of a push takes only what that push put
\* first, though it cuts without the lock, after the flush, what others may have
\* ingested behind (cursor(), rewind(), handle_receive_pack).
Brought == [x \in Push |-> IF ckpt[x] = None THEN {} ELSE ckpt[x].put]
Content == INSTANCE ContentStore WITH held <- Held, kept <- acked, brought <- Brought
ImplementsContentStore == Content!Spec
=============================================================================
