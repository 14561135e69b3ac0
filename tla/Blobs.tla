-------------------------------- MODULE Blobs --------------------------------
(***************************************************************************)
(* How bytes are kept: cut into chunks where their content says so         *)
(* (crates/alt-cdc), a blob of several chunks under a tree of manifest      *)
(* nodes (alt-store/src/blob.rs, blobmap.rs), a file a prism takes apart as *)
(* its parts and a record (put_blob and fetch_blob in alt-odb/src/lib.rs,  *)
(* alt-prism), and what is told of all this (alt-odb/src/storage_view.rs). *)
(* A byte is a number up to 2, and an id is the content it is the hash of. *)
(***************************************************************************)
EXTENDS Integers, Sequences, FiniteSets
LOCAL INSTANCE SequencesExt
LOCAL INSTANCE FiniteSetsExt
LOCAL INSTANCE Functions
LOCAL INSTANCE TLC

MinChunk == 1           \* Params, 16 KiB, 64 KiB and 256 KiB in the code
AvgChunk == 2
MaxChunk == 3
Word == 8               \* values of the rolling hash, 2^64 in the code
Strict == 2             \* the hashes below are a cut before the average size,
Lax == 4                \* and these after it
Fanout == 2             \* entries of a manifest node, 4096 in the code

-----------------------------------------------------------------------------
(***************************************************************************)
(* next_cut() and chunks().                                                *)
(***************************************************************************)
Gear(byte) == <<5, 3, 6>>[byte + 1]
Hash(bytes) == FoldLeft(LAMBDA fp, byte : (2 * fp + Gear(byte)) % Word, 0, bytes)

NextCut(data) ==
    LET cap  == Min({Len(data), MaxChunk})
        hits == {i \in MinChunk + 1 .. cap :
                    Hash(SubSeq(data, MinChunk + 1, i)) < (IF i <= AvgChunk THEN Strict ELSE Lax)}
    IN  IF Len(data) <= MinChunk THEN Len(data) ELSE IF hits = {} THEN cap ELSE Min(hits)

RECURSIVE Chunks(_)
Chunks(data) ==
    IF data = <<>> THEN <<>>
    ELSE <<SubSeq(data, 1, NextCut(data))>> \o Chunks(SubSeq(data, NextCut(data) + 1, Len(data)))

-----------------------------------------------------------------------------
(***************************************************************************)
(* A store has chunks, id to what the pack holds for it, and the blobmap,  *)
(* blob to root and length.  A chunk is <<"data", bytes>>, a node          *)
(* <<"node", level, entries>>, a prism's record <<"record", part ids>>.    *)
(***************************************************************************)
Data(bytes) == <<"data", bytes>>
NoStore == [chunks |-> [c \in {} |-> c], map |-> [b \in {} |-> b]]
PutChunk(store, chunk) == [store EXCEPT !.chunks = @ @@ (chunk :> chunk)]

Groups(level) ==
    [g \in 1 .. (Len(level) + Fanout - 1) \div Fanout |->
        SubSeq(level, Fanout * (g - 1) + 1, Min({Fanout * g, Len(level)}))]
Span(entries) == FoldLeft(LAMBDA n, e : n + e.span, 0, entries)

RECURSIVE Manifest(_, _, _)
Manifest(store, level, depth) ==
    LET groups == Groups(level)
        nodes  == [g \in DOMAIN groups |-> <<"node", depth, groups[g]>>]
    IN  IF Len(level) = 1 THEN <<store, level[1].id>>
        ELSE Manifest(FoldLeft(PutChunk, store, nodes),
                      [g \in DOMAIN groups |-> [id |-> nodes[g], span |-> Span(groups[g])]], depth + 1)

\* BlobStore::contains() and put().
HasBlob(store, id) == id \in DOMAIN store.map \/ id \in DOMAIN store.chunks
Put(store, id) ==
    LET pieces == IF id[1] = "data" THEN Chunks(id[2]) ELSE <<>>
        leaves == [i \in DOMAIN pieces |-> [id |-> Data(pieces[i]), span |-> Len(pieces[i])]]
        built  == Manifest(FoldLeft(PutChunk, store, [i \in DOMAIN leaves |-> leaves[i].id]), leaves, 0)
    IN  CASE HasBlob(store, id) -> store
          [] ~HasBlob(store, id) /\ Len(pieces) <= 1 -> PutChunk(store, id)
          [] OTHER -> [built[1] EXCEPT !.map = @ @@ (id :> <<built[2], Len(id[2])>>)]

(***************************************************************************)
(* materialize(): "fast" hashes the whole, "deep" each chunk too, "bulk"   *)
(* nothing.  NoBytes is an error.                                         *)
(***************************************************************************)
NoBytes == <<"none">>
ReadChunk(store, id, mode) ==
    IF id \notin DOMAIN store.chunks \/ (mode = "deep" /\ store.chunks[id] # id) THEN NoBytes ELSE store.chunks[id]

RECURSIVE Walk(_, _, _, _)
Walk(store, id, expect, mode) ==
    LET node == ReadChunk(store, id, mode)
        Below(e) ==
            IF node[2] > 0 THEN Walk(store, e.id, {node[2] - 1}, mode)
            ELSE LET piece == ReadChunk(store, e.id, mode)
                 IN  IF piece[1] = "data" /\ Len(piece[2]) = e.span THEN piece ELSE NoBytes
        pieces == [i \in DOMAIN node[3] |-> Below(node[3][i])]
    IN  IF node[1] # "node" \/ (expect # {} /\ node[2] \notin expect) \/ NoBytes \in Range(pieces) THEN NoBytes
        ELSE Data(FlattenSeq([i \in DOMAIN pieces |-> pieces[i][2]]))

Materialize(store, id, mode) ==
    IF id \notin DOMAIN store.map
    THEN IF ReadChunk(store, id, mode) = NoBytes \/ (mode = "fast" /\ store.chunks[id] # id) THEN NoBytes
         ELSE store.chunks[id]
    ELSE LET out == Walk(store, store.map[id][1], {}, mode)
         IN  IF out = NoBytes \/ Len(out[2]) # store.map[id][2] \/ (mode # "bulk" /\ out # id) THEN NoBytes ELSE out

RECURSIVE LeavesUnder(_, _)
LeavesUnder(store, id) ==
    FlattenSeq([i \in DOMAIN store.chunks[id][3] |->
        LET e == store.chunks[id][3][i] IN IF store.chunks[id][2] = 0 THEN <<e.id>> ELSE LeavesUnder(store, e.id)])
LeafChunks(store, id) == IF id \in DOMAIN store.map THEN LeavesUnder(store, store.map[id][1]) ELSE <<id>>

-----------------------------------------------------------------------------
(***************************************************************************)
(* The blobmap's file: records <<blob, root>>, a torn one "bad", and bytes *)
(* of no whole record after them.                                          *)
(***************************************************************************)
Bad == <<"bad">>
Folded(records) == FoldLeft(LAMBDA m, r : (r[1] :> r[2]) @@ m, [b \in {} |-> b], records)
FirstBad(records) == SelectInSeq(records, LAMBDA r : r = Bad)

\* BlobMap::open(): the records kept, or NoBytes.
OpenMap(records, part) ==
    LET bad == FirstBad(records)
    IN  CASE bad = 0 -> records
          [] bad # 0 /\ bad = Len(records) /\ ~part -> Front(records)
          [] OTHER -> NoBytes
\* sync_from_disk() by a process that has read the first of them.
SyncMap(records, read) ==
    LET rest == SubSeq(records, read + 1, Len(records))
    IN  IF FirstBad(rest) = 0 THEN records ELSE SubSeq(records, 1, read + FirstBad(rest) - 1)
\* rewind() to the first records, given the map in memory.
RewindMap(map, records, keep) ==
    [b \in DOMAIN map \ {records[i][1] : i \in keep + 1 .. Len(records)} |-> map[b]]

-----------------------------------------------------------------------------
(***************************************************************************)
(* put_blob(): decompose_verified() takes the first prism whose parts make *)
(* the file again.  Here a file that begins with 2 is taken apart into what *)
(* follows, but first tried by a prism that loses a byte after 2, 2.       *)
(***************************************************************************)
Decompose(prism, bytes) ==
    CASE prism = "lossy" /\ IsPrefix(<<2, 2>>, bytes) -> <<SubSeq(bytes, 3, Len(bytes))>>
      [] prism = "faithful" /\ Len(bytes) > 1 /\ bytes[1] = 2 -> <<Tail(bytes)>>
      [] OTHER -> <<>>
Recompose(parts) == <<2>> \o parts[1]
DecomposeVerified(bytes) ==
    LET right == SelectSeq(<<"lossy", "faithful">>, LAMBDA prism :
                    Decompose(prism, bytes) # <<>> /\ Recompose(Decompose(prism, bytes)) = bytes)
    IN  IF right = <<>> THEN <<>> ELSE Decompose(Head(right), bytes)

NoOdb == [store |-> NoStore, tier1 |-> [b \in {} |-> b], objects |-> <<>>]
StoreBlob(odb, bytes) ==
    LET parts  == [i \in DOMAIN DecomposeVerified(bytes) |-> Data(DecomposeVerified(bytes)[i])]
        record == <<"record", parts>>
    IN  IF Data(bytes) \in DOMAIN odb.tier1 \/ HasBlob(odb.store, Data(bytes)) THEN odb
        ELSE IF parts = <<>> THEN [odb EXCEPT !.store = Put(@, Data(bytes))]
        ELSE [odb EXCEPT !.store = Put(FoldLeft(Put, @, parts), record), !.tier1 = @ @@ (Data(bytes) :> record)]
PutObject(odb, bytes) ==
    IF Data(bytes) \in ToSet(odb.objects) THEN odb
    ELSE [StoreBlob(odb, bytes) EXCEPT !.objects = Append(@, Data(bytes))]

FetchBlob(odb, id) ==
    LET record == Materialize(odb.store, odb.tier1[id], "fast")
        parts  == [i \in DOMAIN record[2] |-> Materialize(odb.store, record[2][i], "bulk")]
        bytes  == Recompose([i \in DOMAIN parts |-> parts[i][2]])
    IN  IF id \notin DOMAIN odb.tier1 THEN Materialize(odb.store, id, "fast")
        ELSE IF record[1] # "record" \/ NoBytes \in Range(parts) \/ Data(bytes) # id THEN NoBytes ELSE Data(bytes)

\* for_each_object_unverified(): the objects whose id is that of a chunk, and then
\* those of the other kinds.
Visits(odb, id) ==
    (IF id \in DOMAIN odb.store.chunks THEN 1 ELSE 0)
      + (IF id \in DOMAIN odb.tier1 \/ id \in DOMAIN odb.store.map THEN 1 ELSE 0)

(***************************************************************************)
(* storage_stats(): blobs that were seen, as objects or as parts, are not  *)
(* counted again.                                                          *)
(***************************************************************************)
Counted(odb, stats, id) == [stats EXCEPT !.chunks = @ \cup ToSet(LeafChunks(odb.store, id)), !.seen = @ \cup {id}]
CountObject(odb, stats, id) ==
    LET record == odb.tier1[id]
        own    == [stats EXCEPT !.seen = @ \cup {id}, !.tier1 = @ + 1, !.chunks = @ \cup ToSet(LeafChunks(odb.store, record))]
        Part(st, part) == IF part \in st.seen THEN st ELSE Counted(odb, st, part)
    IN  CASE id \in stats.seen -> stats
          [] id \notin stats.seen /\ id \in DOMAIN odb.tier1 -> FoldLeft(Part, own, record[2])
          [] OTHER -> Counted(odb, [stats EXCEPT !.tier0 = @ + 1], id)
StorageStats(odb) ==
    FoldLeft(LAMBDA stats, id : CountObject(odb, stats, id),
             [seen |-> {}, chunks |-> {}, tier0 |-> 0, tier1 |-> 0], odb.objects)

-----------------------------------------------------------------------------
LOCAL Bytes(n) == SeqOf(0 .. 2, n)

\* Chunks make the data again; all but the last are of a size within the bounds;
\* and data that goes on differently has all but its last chunk in common.
ASSUME ChunksAreBounded ==
    \A data \in Bytes(5) :
        LET chunks == Chunks(data)
        IN  /\ FlattenSeq(chunks) = data
            /\ \A i \in DOMAIN chunks : Len(chunks[i]) <= MaxChunk /\ (i < Len(chunks) => Len(chunks[i]) > MinChunk)
            /\ \A more \in Bytes(2) : data # <<>> => IsPrefix(Front(chunks), Chunks(data \o more))

LOCAL Stored(data) == Put(NoStore, Data(data))
LOCAL Long == {<<0, 1>> \o b \o <<1, 0>> : b \in Bytes(5)}

\* What was put is read in every mode, whatever of it, or of another blob, was left
\* by a put that died before the blobmap's record; what was not put is not there,
\* but for a blob that is another's chunk.
ASSUME BlobsReadBack ==
    \A data \in Long : \A other \in {<<0>>, <<2, 2, 2, 2>>, <<0, 1, 0, 1, 2, 1, 0>>, data} :
        LET died  == [Stored(data) EXCEPT !.map = [b \in {} |-> b]]
            store == Put(Put(died, Data(other)), Data(data))
        IN  /\ \A mode \in {"fast", "deep", "bulk"}, id \in {Data(data), Data(other)} : Materialize(store, id, mode) = id
            /\ HasBlob(died, Data(data)) => LeafChunks(store, Data(data)) = <<Data(data)>>
            /\ FlattenSeq([i \in DOMAIN LeafChunks(store, Data(data)) |-> LeafChunks(store, Data(data))[i][2]]) = data

\* One chunk or node of a blob goes bad: get() finds out with its one hash as surely
\* as verify() does, and the bulk read may give other bytes, of the same length.
LOCAL Spoiled(store) ==
    {[store EXCEPT !.chunks = [@ EXCEPT ![c] = other]] :
        c \in DOMAIN store.chunks, other \in DOMAIN store.chunks \cup {Data(<<1>>), Data(<<2, 0>>), Data(<<0, 2, 2>>)}} \ {store}
ASSUME CorruptionIsFound ==
    \A data \in {d \in Long : Len(d) \in {4, 6}} :
        \A store \in Spoiled(Stored(data)) :
            /\ Materialize(store, Data(data), "fast") = NoBytes /\ Materialize(store, Data(data), "deep") = NoBytes
            /\ Data(data) \in DOMAIN store.map =>
                   \E out \in {Materialize(store, Data(data), "bulk")} : out = NoBytes \/ (out # Data(data) /\ Len(out[2]) = Len(data))

LOCAL Records == SeqOf({<<"b1", "r1">>, <<"b2", "r2">>, Bad}, 3)
\* A record that was being appended is dropped by the next open and the next
\* refresh; "a bad record anywhere else is corruption and reported as such" by
\* open() only: a process that is already there drops what follows it, good
\* records too, and where it drops nothing both keep all.
ASSUME TornRecordsAreDropped ==
    \A records \in Records, read \in 0 .. 3 :
        (read <= Len(records) /\ FirstBad(SubSeq(records, 1, read)) = 0) =>
            /\ OpenMap(records, FALSE) # NoBytes => OpenMap(records, FALSE) = SyncMap(records, read)
            /\ (OpenMap(records, FALSE) = NoBytes) <=> FirstBad(records) \in 1 .. Len(records) - 1
            /\ FirstBad(records) = 0 => SyncMap(records, read) = records
            /\ OpenMap(records, TRUE) # NoBytes => FirstBad(records) = 0

\* A rewind leaves what the kept records say, as long as no blob has a record on
\* both sides of the cut: put() asks contains() first, under the lock.
ASSUME RewindsKeepTheRest ==
    \A records \in SeqOf({"b1", "b2", "b3"} \X {"r1", "r2"}, 3), keep \in 0 .. 3 :
        LET kept == SubSeq(records, 1, Min({keep, Len(records)}))
            cut  == SubSeq(records, keep + 1, Len(records))
        IN  (RewindMap(Folded(records), records, keep) = Folded(kept)) <=>
                {r[1] : r \in ToSet(kept)} \cap {r[1] : r \in ToSet(cut)} = {}

LOCAL Files == {<<0>>, <<2, 0>>, <<2, 2, 0>>, <<0, 1, 0, 1, 1>>, <<2, 0, 1, 0, 1, 1>>, <<2, 2, 0, 1, 0, 1, 1>>}
LOCAL Odbs == {FoldLeft(PutObject, NoOdb, files) : files \in [1 .. 3 -> Files]}

\* Whatever order files come in, as objects or as parts of others, each is read
\* back, and a prism that would lose a byte is never used.
ASSUME FilesReadBack ==
    \A odb \in Odbs : \A id \in ToSet(odb.objects) :
        /\ FetchBlob(odb, id) = id
        /\ id \in DOMAIN odb.tier1 => odb.tier1[id] = <<"record", <<Data(Tail(id[2]))>>>>

\* "every mapped object's bytes exactly once": an object kept as parts that is also
\* a part of a later one, and of one chunk, is visited twice, so that an export,
\* which declares as many objects as there are, fails.
ASSUME VisitedOnceOrTwice ==
    /\ \A odb \in Odbs : \A id \in ToSet(odb.objects) :
         /\ Visits(odb, id) \in 1 .. 2
         /\ (Visits(odb, id) = 2) <=> (id \in DOMAIN odb.tier1 /\ id \in DOMAIN odb.store.chunks)
         /\ Visits(odb, id) = 2 => \E other \in DOMAIN odb.tier1 : id \in ToSet(odb.tier1[other][2])
    /\ \E odb \in Odbs : \E id \in ToSet(odb.objects) : Visits(odb, id) = 2

\* Stats count a chunk once, and miss the record of a file met as a part before it
\* was met as an object: what they tell depends on the order of the objects.
LOCAL AllLeaves(odb) ==
    UNION {ToSet(LeafChunks(odb.store, id)) :
        id \in (ToSet(odb.objects) \ DOMAIN odb.tier1) \cup Range(odb.tier1) \cup UNION {ToSet(r[2]) : r \in Range(odb.tier1)}}
ASSUME StatsDependOnOrder ==
    /\ \A odb \in Odbs :
         LET parts == UNION {ToSet(odb.tier1[id][2]) : id \in DOMAIN odb.tier1}
             stats == StorageStats(odb)
         IN  /\ stats.chunks \subseteq AllLeaves(odb)
             /\ parts \cap ToSet(odb.objects) = {} =>
                    stats.chunks = AllLeaves(odb) /\ stats.tier0 + stats.tier1 = Len(odb.objects)
    /\ \E odb \in Odbs : \E turned \in {[odb EXCEPT !.objects = Reverse(@)]} :
         StorageStats(odb).tier0 # StorageStats(turned).tier0
=============================================================================
