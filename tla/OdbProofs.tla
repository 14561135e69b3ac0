------------------------------ MODULE OdbProofs ------------------------------
(***************************************************************************)
(* Proofs about Odb, for any processes, objects and uses of a store that   *)
(* keep to the hypotheses below.                                           *)
(***************************************************************************)
EXTENDS Odb, FiniteSetTheorems, SequenceTheorems, TLAPS

\* The cursor of tier1 is read once, when a process opens the store, so records of
\* prisms are only written by a process that is alone (Tier1Map::append).
OneWriterOfPrisms ==
    \A u \in Uses : u.prismatic = {} \/ \A p, q \in u.procs : p = q

\* The marker counts records of the active pack and of the map: it says enough
\* where no pack fills up, and no content has its only record in tier1 (sync_to).
MarkerSuffices ==
    \A u \in Uses :
        \/ u.procs \subseteq u.daemons
        \/ /\ u.prismatic \cap u.content = {}
           /\ IsFiniteSet(u.objects) /\ Cardinality(u.objects) < u.sealAt

-----------------------------------------------------------------------------
(* The inductive invariant.                                                *)

\* A view of files that may have grown since, and one that has all.
Within(v) ==
    /\ v.active \in 1 .. Len(packs) /\ v.pack \in 0 .. Len(packs[v.active])
    /\ v.map \in 0 .. Len(map)
Current(v) ==
    /\ v.active = Len(packs) /\ v.pack = Len(packs[Len(packs)]) /\ v.map = Len(map)

\* Who holds the lock has read everything, and only that process writes.
LockInv ==
    /\ Len(packs) > 0
    /\ \A p \in Proc :
         /\ pc[p] \in Writing => lock = p
         /\ lock = p => pc[p] \in Writing \cup {"idle"} /\ Current(view[p])
         /\ pc[p] = "closed" => view[p] = NoView
         /\ pc[p] # "closed" => p \in use.procs /\ Within(view[p])

\* Where there are prisms, the one process there is has read everything.
PrismInv ==
    use.prismatic = {} \/
        \A p \in Proc : pc[p] # "closed" =>
            /\ Current(view[p])
            /\ view[p].tier1 = Len(tier1) /\ view[p].prisms = Elements(tier1)

\* Content is there before what names it.
ContentInv ==
    /\ Elements(tier1) \subseteq Blobs
    /\ MappedHasContent /\ ViewHasContent
    /\ \A p \in Proc :
         /\ pc[p] = "tier1" => cur[p] \in use.prismatic \cap Blobs
         /\ pc[p] = "map" => cur[p] \notin use.content /\ Held(cur[p], Blobs, Elements(tier1))
         /\ \A o \in batch[p] : /\ Held(o, Blobs, Elements(tier1))
                                /\ o \notin use.content => o \in Elements(map)

\* The device holds a part of each file, and every sealed pack.
FlushInv ==
    /\ Len(flushed.packs) = Len(packs)
    /\ \A i \in 1 .. Len(packs) :
         /\ flushed.packs[i] <= Len(packs[i])
         /\ i < Len(packs) => flushed.packs[i] = Len(packs[i])
    /\ flushed.tier1 <= Len(tier1) /\ flushed.map <= Len(map)

FileInv == TypeOK /\ LockInv /\ PrismInv /\ ContentInv /\ FlushInv

\* Some process goes by the marker: then one pack holds all there is.
Marked == ~(use.procs \subseteq use.daemons)
OnePack ==
    Marked => /\ Len(packs) = 1 /\ Elements(packs[1]) \subseteq use.objects
              /\ \A i, j \in 1 .. Len(packs[1]) : packs[1][i] = packs[1][j] => i = j

\* The device holds of a batch what the fsyncs of its process have got to.
SyncInv ==
    \A p \in Proc :
        /\ pc[p] \in {"flush", "waitSync", "inSync", "mark"} => p \notin use.daemons
        /\ pc[p] \in {"fsyncTier1", "fsyncMap", "mark"} => batch[p] \subseteq FlushedBlobs
        /\ pc[p] \in {"fsyncMap", "mark"} =>
             batch[p] \cap use.prismatic \subseteq First(tier1, flushed.tier1)
        /\ pc[p] = "mark" => batch[p] \ use.content \subseteq First(map, flushed.map)

\* The device holds what the marker says, and the prisms that go with it; so with
\* the lengths of which a process is about to make the marker.
PrismsFlushed(n) == First(map, n) \cap use.prismatic \subseteq First(tier1, flushed.tier1)
MarkerInv ==
    Marked => /\ marker.pack <= flushed.packs[1] /\ marker.map <= flushed.map
              /\ PrismsFlushed(marker.map)
EofInv ==
    Marked => \A p \in Proc : p \notin use.daemons =>
        /\ pc[p] \in {"fsyncPack", "fsyncTier1", "fsyncMap", "mark"} =>
             eofs[p].pack <= Len(packs[1]) /\ eofs[p].map <= Len(map)
        /\ pc[p] \in {"fsyncTier1", "fsyncMap", "mark"} => eofs[p].pack <= flushed.packs[1]
        /\ pc[p] \in {"fsyncMap", "mark"} => PrismsFlushed(eofs[p].map)
        /\ pc[p] = "mark" => eofs[p].map <= flushed.map

\* A batch that waits for the marker lies within its target.
TargetInv ==
    Marked => \A p \in Proc : pc[p] \in {"flush", "waitSync", "inSync"} =>
        /\ target[p].pack <= Len(packs[1]) /\ target[p].map <= Len(map)
        /\ batch[p] \subseteq First(packs[1], target[p].pack)
        /\ batch[p] \ use.content \subseteq First(map, target[p].map)

DurableInv == OnePack /\ SyncInv /\ MarkerInv /\ EofInv /\ TargetInv /\ AckedDurable

-----------------------------------------------------------------------------
(* Files that grow.                                                        *)

Longer(s, t) ==
    /\ Len(s) \in Nat /\ Len(t) \in Nat /\ Len(s) <= Len(t)
    /\ \A j \in 1 .. Len(s) : t[j] = s[j]
PacksLonger(some, more) ==
    /\ Len(some) \in Nat /\ Len(more) \in Nat /\ Len(some) <= Len(more)
    /\ \A i \in 1 .. Len(some) : /\ Longer(some[i], more[i])
                                 /\ i < Len(some) => more[i] = some[i]
All(some) == UNION {Elements(some[i]) : i \in DOMAIN some}

\* An append keeps what is there (append_record, ObjectMap::append).
LEMMA AppendLengthens ==
    ASSUME NEW S, NEW s \in Seq(S), NEW e
    PROVE  /\ SubSeq(s, 1, Len(s)) = s
           /\ Longer(s, s) /\ Longer(s, Append(s, e))
           /\ Len(Append(s, e)) = Len(s) + 1
           /\ Elements(Append(s, e)) = Elements(s) \cup {e}
<1>1. Len(s) \in Nat /\ SubSeq(s, 1, Len(s)) = s
  OBVIOUS
<1>2. /\ Len(Append(s, e)) = Len(s) + 1 /\ Append(s, e)[Len(s) + 1] = e
      /\ \A j \in 1 .. Len(s) : Append(s, e)[j] = s[j]
  <2>1. s \in Seq(S \cup {e})
    BY SeqMonotonic
  <2> QED
    BY <2>1, AppendProperties
<1>3. \A j \in 1 .. Len(s) + 1 : j = Len(s) + 1 \/ j \in 1 .. Len(s)
  BY <1>1
<1>4. 1 .. Len(s) \subseteq 1 .. Len(s) + 1 /\ Len(s) + 1 \in 1 .. Len(s) + 1
  BY <1>1
<1>5. Elements(Append(s, e)) = Elements(s) \cup {e}
  BY <1>2, <1>3, <1>4 DEF Elements, First
<1> QED
  BY <1>1, <1>2, <1>5 DEF Longer

\* What was read of a file is still what is there.
LEMMA FirstIsKept ==
    ASSUME NEW s, NEW t, Longer(s, t), NEW n \in Nat, n <= Len(s)
    PROVE  /\ First(t, n) = First(s, n) /\ First(s, n) \subseteq Elements(s)
           /\ \A m \in Nat : n <= m => First(s, n) \subseteq First(s, m)
<1>1. 1 .. n \subseteq 1 .. Len(s) /\ 1 .. Len(s) \subseteq 1 .. Len(t)
  BY DEF Longer
<1>2. \A m \in Nat : n <= m => 1 .. n \subseteq 1 .. m
  OBVIOUS
<1> QED
  BY <1>1, <1>2 DEF Longer, First, Elements

\* ... at every length.
StillFirst(s, t) ==
    \A n \in 0 .. Len(s) : First(t, n) = First(s, n) /\ First(s, n) \subseteq Elements(s)

\* Nothing that was read of a file changes, wherever the reading stopped.
LEMMA AllIsKept ==
    ASSUME NEW s, NEW t, Longer(s, t)
    PROVE  StillFirst(s, t)
<1>1. ASSUME NEW n \in 0 .. Len(s) PROVE n \in Nat /\ n <= Len(s)
  BY <1>1 DEF Longer
<1> QED
  BY <1>1, FirstIsKept DEF StillFirst

LEMMA ElementsAreKept ==
    ASSUME NEW s, NEW t, Longer(s, t)
    PROVE  Elements(s) \subseteq Elements(t)
<1>1. 1 .. Len(s) \subseteq 1 .. Len(t)
  BY DEF Longer
<1> QED
  BY <1>1 DEF Longer, First, Elements

\* The last pack, and those before it.
LEMMA LastOrBefore ==
    ASSUME NEW n \in Nat, n > 0
    PROVE  /\ n \in 1 .. n /\ 1 .. n - 1 \subseteq 1 .. n /\ n # 0
           /\ \A i \in 1 .. n : i = n \/ (i \in 1 .. n - 1 /\ i < n)
  OBVIOUS

\* ... and so with the packs.
LEMMA SeenIsKept ==
    ASSUME NEW some \in Seq(Seq(Obj)), NEW more \in Seq(Seq(Obj)), PacksLonger(some, more),
           NEW v, v.active \in 1 .. Len(some), v.pack \in 0 .. Len(some[v.active])
    PROVE  /\ Seen(more, v) = Seen(some, v)
           /\ Seen(some, v) \subseteq All(some)
           /\ All(some) \subseteq All(more)
<1>1. Len(some) \in Nat /\ Len(more) \in Nat /\ DOMAIN some = 1 .. Len(some)
      /\ DOMAIN more = 1 .. Len(more) /\ v.active \in Nat /\ v.active # 0
  BY LenProperties
<1>2. ASSUME NEW i \in 1 .. Len(some)
      PROVE  Elements(some[i]) \subseteq Elements(more[i]) /\ Len(some[i]) \in Nat
  <2>1. Longer(some[i], more[i])
    BY DEF PacksLonger
  <2> QED
    BY <2>1, ElementsAreKept DEF Longer
<1>3. All(some) \subseteq All(more)
  <2>1. \A i \in 1 .. Len(some) : i \in 1 .. Len(more)
    BY <1>1 DEF PacksLonger
  <2> QED
    BY <1>1, <1>2, <2>1 DEF All
<1>4. \A n \in 0 .. Len(some[v.active]) :
        First(more[v.active], n) = First(some[v.active], n)
        /\ First(some[v.active], n) \subseteq Elements(some[v.active])
  <2>1. Longer(some[v.active], more[v.active])
    BY DEF PacksLonger
  <2>2. StillFirst(some[v.active], more[v.active])
    BY <2>1, AllIsKept
  <2> QED
    BY <2>2 DEF StillFirst
<1>5. ASSUME NEW i \in 1 .. v.active - 1
      PROVE  i \in 1 .. Len(some) /\ more[i] = some[i]
  <2>1. i \in 1 .. Len(some) /\ i < Len(some)
    BY <1>1
  <2> QED
    BY <2>1 DEF PacksLonger
<1>6. Seen(more, v) = Seen(some, v)
  BY <1>1, <1>4, <1>5, SMTT(30) DEF Seen
<1>7. Seen(some, v) \subseteq All(some)
  <2>1. \A i \in 1 .. Len(some) : Elements(some[i]) \subseteq All(some)
    BY <1>1 DEF All
  <2>2. First(some[v.active], v.pack) \subseteq All(some)
    BY <1>4, <2>1
  <2>3. (UNION {Elements(some[i]) : i \in 1 .. v.active - 1}) \subseteq All(some)
    BY <1>5, <2>1
  <2> QED
    BY <1>1, <2>2, <2>3 DEF Seen
<1> QED
  BY <1>3, <1>6, <1>7

\* A view that has read everything has seen everything (sync_from_disk).
LEMMA CurrentSeesAll ==
    ASSUME NEW some \in Seq(Seq(Obj)), Len(some) > 0,
           NEW v, v.active = Len(some), v.pack = Len(some[Len(some)])
    PROVE  Seen(some, v) = All(some)
<1>1. Len(some) \in Nat /\ DOMAIN some = 1 .. Len(some)
  BY LenProperties
<1> DEFINE n == Len(some)
<1>2. /\ n \in 1 .. n /\ 1 .. n - 1 \subseteq 1 .. n /\ n # 0
      /\ \A i \in 1 .. n : i = n \/ i \in 1 .. n - 1
  BY <1>1, LastOrBefore
<1>3. Seen(some, v) = (UNION {Elements(some[i]) : i \in 1 .. n - 1}) \cup Elements(some[n])
  BY <1>2 DEF Seen, Elements
<1>4. All(some) = UNION {Elements(some[i]) : i \in 1 .. n}
  BY <1>1 DEF All
<1> HIDE DEF n
<1>5. (UNION {Elements(some[i]) : i \in 1 .. n - 1}) \cup Elements(some[n])
        = UNION {Elements(some[i]) : i \in 1 .. n}
  BY <1>2
<1> QED
  BY <1>3, <1>4, <1>5

\* A blob goes to the end of the active pack, and when that fills it a new pack is
\* begun and the full one flushed (append_record, seal_and_roll).
LEMMA AppendBlobProperties ==
    ASSUME OdbAssumption, TypeOK, LockInv, FlushInv,
           NEW p \in Proc, Current(view[p]), NEW o \in Obj, AppendBlob(p, o)
    PROVE  /\ packs' \in Seq(Seq(Obj)) /\ Len(packs') > 0 /\ PacksLonger(packs, packs')
           /\ All(packs') = All(packs) \cup {o}
           /\ flushed' \in [packs : Seq(Nat), tier1 : Nat, map : Nat]
           /\ flushed'.tier1 = flushed.tier1 /\ flushed'.map = flushed.map
           /\ Len(flushed'.packs) = Len(packs')
           /\ \A i \in 1 .. Len(packs') :
                /\ flushed'.packs[i] <= Len(packs'[i])
                /\ i < Len(packs') => flushed'.packs[i] = Len(packs'[i])
           /\ \A i \in 1 .. Len(packs) : flushed.packs[i] <= flushed'.packs[i]
           /\ view' \in [Proc -> [active : Nat, pack : Nat, tier1 : Nat, map : Nat,
                                  prisms : SUBSET Obj]]
           /\ view' = [view EXCEPT ![p] = view'[p]]
           /\ view'[p].active = Len(packs') /\ view'[p].pack = Len(packs'[Len(packs')])
           /\ view'[p].map = view[p].map /\ view'[p].tier1 = view[p].tier1
           /\ view'[p].prisms = view[p].prisms
<1> DEFINE k       == Len(packs)
           written == Append(packs[k], o)
           seal    == Len(written) >= use.sealAt
           lens    == [flushed.packs EXCEPT ![k] = IF seal THEN Len(written) ELSE @]
           active  == IF seal THEN k + 1 ELSE k
           pack    == IF seal THEN 0 ELSE Len(written)
           filled  == [packs EXCEPT ![k] = written]
<1>1. /\ packs \in Seq(Seq(Obj)) /\ k \in Nat /\ k \in 1 .. k /\ packs[k] \in Seq(Obj)
      /\ flushed.packs \in Seq(Nat) /\ Len(flushed.packs) = k
      /\ flushed \in [packs : Seq(Nat), tier1 : Nat, map : Nat]
      /\ DOMAIN packs = 1 .. k /\ DOMAIN flushed.packs = 1 .. k /\ k = Len(packs)
  <2>1. packs \in Seq(Seq(Obj)) /\ Len(packs) \in Nat /\ Len(packs) > 0
    BY LenProperties DEF TypeOK, LockInv
  <2>2. k \in 1 .. k
    BY <2>1
  <2> QED
    BY <2>1, <2>2, ElementOfSeq, LenProperties DEF TypeOK, FlushInv
<1>2. /\ SubSeq(packs[k], 1, Len(packs[k])) = packs[k] /\ written \in Seq(Obj)
      /\ Len(written) = Len(packs[k]) + 1 /\ Len(packs[k]) \in Nat
      /\ Longer(packs[k], written) /\ Elements(written) = Elements(packs[k]) \cup {o}
  BY <1>1, AppendLengthens, AppendProperties, LenProperties
<1>3. /\ packs' = IF seal THEN Append(filled, <<>>) ELSE filled
      /\ flushed' = [flushed EXCEPT !.packs = IF seal THEN Append(lens, 0) ELSE lens]
      /\ view' = [view EXCEPT ![p].active = active, ![p].pack = pack]
  BY <1>2 DEF AppendBlob, Current
<1> HIDE DEF k
<1>k. k \in Nat /\ Len(packs) = k
  BY <1>1
<1>l. k <= k /\ ~(k < k) /\ \A i \in 1 .. k : i = k \/ (i # k /\ i < k)
  BY <1>k
<1> HIDE DEF written, seal, lens, active, pack
<1>4. filled \in Seq(Seq(Obj)) /\ Len(filled) = k /\ filled[k] = written
      /\ \A i \in 1 .. k : i # k => filled[i] = packs[i]
  <2> DEFINE S == Seq(Obj)
  <2>1. packs \in Seq(S) /\ k \in 1 .. Len(packs) /\ written \in S
    BY <1>1, <1>2
  <2> HIDE DEF S
  <2>2. filled \in Seq(S) /\ Len(filled) = Len(packs) /\ filled[k] = written
        /\ \A i \in 1 .. Len(packs) : i # k => filled[i] = packs[i]
    BY <2>1, ExceptSeq, SMTT(30)
  <2> QED
    BY <1>1, <2>2 DEF S
<1>5. /\ lens \in Seq(Nat) /\ Len(lens) = k
      /\ lens[k] = IF seal THEN Len(written) ELSE flushed.packs[k]
      /\ \A i \in 1 .. k : i # k => lens[i] = flushed.packs[i]
  <2> DEFINE e == IF seal THEN Len(written) ELSE flushed.packs[k]
  <2>1. e \in Nat /\ k \in 1 .. Len(flushed.packs)
    BY <1>1, <1>2, ElementOfSeq
  <2>2. lens = [flushed.packs EXCEPT ![k] = e]
    BY DEF lens
  <2> DEFINE S == Nat
  <2>4. flushed.packs \in Seq(S) /\ e \in S
    BY <1>1, <2>1
  <2> HIDE DEF e, S
  <2>3. lens \in Seq(S) /\ Len(lens) = Len(flushed.packs) /\ lens[k] = e
        /\ \A i \in 1 .. Len(flushed.packs) : i # k => lens[i] = flushed.packs[i]
    BY <2>1, <2>2, <2>4, ExceptSeq
  <2> QED
    BY <1>1, <2>3 DEF e, S
<1> HIDE DEF filled
<1>6. PacksLonger(packs, filled) /\ All(filled) = All(packs) \cup {o}
  <2>1. \A i \in 1 .. k : Longer(packs[i], packs[i])
    <3>1. \A i \in 1 .. k : packs[i] \in Seq(Obj)
      BY <1>1, ElementOfSeq
    <3>2. \A i \in 1 .. k : Len(packs[i]) \in Nat
      BY <3>1, LenProperties
    <3> QED
      BY <3>2 DEF Longer
  <2>2. \A i \in 1 .. k : Longer(packs[i], filled[i]) /\ (i < k => filled[i] = packs[i])
    <3>1. \A i \in 1 .. k : i = k \/ (i # k /\ filled[i] = packs[i])
      BY <1>4
    <3> QED
      BY <1>2, <1>4, <1>l, <2>1, <3>1
  <2>3. DOMAIN filled = 1 .. k
    BY <1>4, LenProperties
  <2>4. All(filled) \subseteq All(packs) \cup {o}
    <3>1. \A i \in 1 .. k : Elements(packs[i]) \subseteq All(packs)
      BY <1>1, SMTT(30) DEF All
    <3>2. \A i \in 1 .. k : Elements(filled[i]) \subseteq All(packs) \cup {o}
      BY <1>1, <1>2, <1>4, <3>1
    <3> QED
      BY <2>3, <3>2 DEF All
  <2>5. All(packs) \cup {o} \subseteq All(filled)
    <3>1. \A i \in 1 .. k : Elements(filled[i]) \subseteq All(filled)
      BY <2>3 DEF All
    <3>2. \A i \in 1 .. k : Elements(packs[i]) \subseteq All(filled)
      BY <2>2, <3>1, ElementsAreKept, SMTT(30)
    <3>3. o \in All(filled)
      BY <1>1, <1>2, <1>4, <3>1
    <3> QED
      BY <1>1, <3>2, <3>3 DEF All
  <2>6. PacksLonger(packs, filled)
    <3>1. Len(packs) = k /\ Len(filled) = k /\ k \in Nat /\ k <= k
      BY <1>k, <1>l, <1>4
    <3> QED
      BY <2>2, <3>1 DEF PacksLonger
  <2> QED
    BY <2>4, <2>5, <2>6
<1>7. /\ view' \in [Proc -> [active : Nat, pack : Nat, tier1 : Nat, map : Nat,
                             prisms : SUBSET Obj]]
      /\ view' = [view EXCEPT ![p] = view'[p]]
      /\ view'[p].active = active /\ view'[p].pack = pack
      /\ view'[p].map = view[p].map /\ view'[p].tier1 = view[p].tier1
      /\ view'[p].prisms = view[p].prisms
  <2>1. view \in [Proc -> [active : Nat, pack : Nat, tier1 : Nat, map : Nat,
                           prisms : SUBSET Obj]]
    BY DEF TypeOK
  <2>2. active \in Nat /\ pack \in Nat
    BY <1>1, <1>2 DEF active, pack
  <2> QED
    BY <1>3, <2>1, <2>2
<1>9. \A i \in 1 .. k : /\ flushed.packs[i] <= Len(packs[i])
                        /\ i < k => flushed.packs[i] = Len(packs[i])
                        /\ flushed.packs[i] \in Nat
  BY <1>1, ElementOfSeq DEF FlushInv
<1>10. CASE seal
  <2>1. /\ packs' = Append(filled, <<>>) /\ active = k + 1 /\ pack = 0
        /\ flushed' = [flushed EXCEPT !.packs = Append(lens, 0)]
    BY <1>3, <1>10 DEF active, pack
  <2>2. \A i \in 1 .. k : lens[i] = Len(filled[i]) /\ flushed.packs[i] <= lens[i]
    <3>1. lens[k] = Len(filled[k]) /\ flushed.packs[k] <= lens[k]
      <4>1. flushed.packs[k] <= Len(packs[k]) /\ flushed.packs[k] \in Nat
        BY <1>1, <1>9
      <4> QED
        BY <1>2, <1>4, <1>5, <1>10, <4>1
    <3>2. \A i \in 1 .. k : i # k => lens[i] = Len(filled[i]) /\ flushed.packs[i] = lens[i]
                                     /\ lens[i] \in Nat
      BY <1>4, <1>5, <1>9, <1>l
    <3> QED
      BY <1>l, <3>1, <3>2
  <2>3. /\ packs' \in Seq(Seq(Obj)) /\ Len(packs') = k + 1 /\ packs'[k + 1] = <<>>
        /\ \A i \in 1 .. k : packs'[i] = filled[i]
    <3> DEFINE S == Seq(Obj)
    <3>1. filled \in Seq(S) /\ <<>> \in S
      BY <1>4, EmptySeq
    <3> HIDE DEF S
    <3>2. /\ packs' \in Seq(S) /\ Len(packs') = Len(filled) + 1 /\ packs'[Len(filled) + 1] = <<>>
          /\ \A i \in 1 .. Len(filled) : packs'[i] = filled[i]
      BY <2>1, <3>1, AppendProperties
    <3> QED
      BY <1>4, <3>2 DEF S
  <2>4. Append(lens, 0) \in Seq(Nat) /\ Len(Append(lens, 0)) = k + 1
        /\ Append(lens, 0)[k + 1] = 0
        /\ \A i \in 1 .. k : Append(lens, 0)[i] = lens[i]
    BY <1>5, AppendProperties
  <2>5. \A i \in 1 .. k + 1 : i = k + 1 \/ (i \in 1 .. k /\ i < k + 1)
    BY <1>k
  <2>6. 1 .. k \subseteq 1 .. k + 1 /\ k + 1 \in 1 .. k + 1 /\ k <= k + 1 /\ k + 1 \in Nat
        /\ k + 1 > 0 /\ ~(k + 1 < k + 1)
    BY <1>k
  <2>7. DOMAIN packs' = 1 .. k + 1 /\ DOMAIN filled = 1 .. k
    BY <1>4, <2>3, LenProperties
  <2>8. All(packs') = All(packs) \cup {o}
    <3>1. Elements(<<>>) = {} /\ Len(<<>>) = 0
      BY EmptySeq DEF Elements, First
    <3>2. All(packs') = All(filled)
      BY <2>3, <2>5, <2>6, <2>7, <3>1 DEF All
    <3> QED
      BY <1>6, <3>2
  <2>9. PacksLonger(packs, packs')
    BY <1>k, <1>4, <1>6, <2>3, <2>6 DEF PacksLonger
  <2>10. /\ flushed' \in [packs : Seq(Nat), tier1 : Nat, map : Nat]
         /\ flushed'.tier1 = flushed.tier1 /\ flushed'.map = flushed.map
         /\ flushed'.packs = Append(lens, 0)
    BY <1>1, <2>1, <2>4
  <2>11. \A i \in 1 .. k + 1 : /\ flushed'.packs[i] <= Len(packs'[i])
                               /\ i < k + 1 => flushed'.packs[i] = Len(packs'[i])
    <3>1. Len(<<>>) = 0
      BY EmptySeq
    <3>2. \A i \in 1 .. k : flushed'.packs[i] = Len(packs'[i]) /\ Len(packs'[i]) \in Nat
      <4>1. \A i \in 1 .. k : packs'[i] \in Seq(Obj)
        BY <1>4, <2>3, ElementOfSeq
      <4> QED
        BY <2>2, <2>3, <2>4, <2>10, <4>1, LenProperties
    <3>3. flushed'.packs[k + 1] = 0 /\ Len(packs'[k + 1]) = 0
      BY <2>3, <2>4, <2>10, <3>1
    <3> QED
      BY <2>5, <2>6, <3>2, <3>3
  <2>12. \A i \in 1 .. k : flushed.packs[i] <= flushed'.packs[i]
    BY <2>2, <2>4, <2>10
  <2>13. view'[p].active = Len(packs') /\ view'[p].pack = Len(packs'[Len(packs')])
    <3>1. Len(<<>>) = 0
      BY EmptySeq
    <3> QED
      BY <1>7, <2>1, <2>3, <3>1
  <2> QED
    BY <1>7, <1>k, <2>3, <2>4, <2>6, <2>8, <2>9, <2>10, <2>11, <2>12, <2>13
<1>11. CASE ~seal
  <2>1. /\ packs' = filled /\ active = k /\ pack = Len(written)
        /\ flushed' = [flushed EXCEPT !.packs = lens]
    BY <1>3, <1>11 DEF active, pack
  <2>2. /\ flushed' \in [packs : Seq(Nat), tier1 : Nat, map : Nat]
        /\ flushed'.tier1 = flushed.tier1 /\ flushed'.map = flushed.map
        /\ flushed'.packs = lens
    BY <1>1, <1>5, <2>1
  <2>3. \A i \in 1 .. k : lens[i] = flushed.packs[i]
    BY <1>5, <1>11
  <2>4. \A i \in 1 .. k : /\ flushed'.packs[i] <= Len(packs'[i])
                          /\ i < k => flushed'.packs[i] = Len(packs'[i])
                          /\ flushed.packs[i] <= flushed'.packs[i]
    <3>1. /\ flushed'.packs[k] <= Len(packs'[k]) /\ flushed.packs[k] <= flushed'.packs[k]
      <4>1. flushed.packs[k] <= Len(packs[k]) /\ flushed.packs[k] \in Nat
        BY <1>1, <1>9
      <4>2. flushed'.packs[k] = flushed.packs[k]
        BY <1>1, <2>2, <2>3
      <4>3. Len(packs'[k]) = Len(packs[k]) + 1 /\ Len(packs[k]) \in Nat
        BY <1>2, <1>4, <2>1
      <4> QED
        BY <4>1, <4>2, <4>3
    <3>2. \A i \in 1 .. k : i # k /\ i < k => /\ flushed'.packs[i] = Len(packs'[i])
                                              /\ flushed'.packs[i] \in Nat
                                              /\ flushed.packs[i] = flushed'.packs[i]
      BY <1>4, <1>9, <2>1, <2>2, <2>3
    <3> QED
      BY <1>l, <3>1, <3>2
  <2>5. Len(packs') = k /\ k > 0 /\ packs' \in Seq(Seq(Obj)) /\ Len(flushed'.packs) = k
    BY <1>1, <1>4, <1>5, <2>1, <2>2
  <2>6. view'[p].active = Len(packs') /\ view'[p].pack = Len(packs'[Len(packs')])
    BY <1>4, <1>7, <2>1
  <2>7. PacksLonger(packs, packs') /\ All(packs') = All(packs) \cup {o}
    BY <1>6, <2>1
  <2> QED
    BY <1>7, <1>k, <2>2, <2>4, <2>5, <2>6, <2>7
<1> QED
  BY <1>10, <1>11

-----------------------------------------------------------------------------
(* The files only grow, and each process changes only what is its own.     *)

Views == [active : Nat, pack : Nat, tier1 : Nat, map : Nat, prisms : SUBSET Obj]

\* What a process does leaves the others where they are.
Alone(p) ==
    /\ use' = use
    /\ \A q \in Proc \ {p} : /\ pc'[q] = pc[q] /\ view'[q] = view[q] /\ cur'[q] = cur[q]
                             /\ batch'[q] = batch[q] /\ target'[q] = target[q]
                             /\ eofs'[q] = eofs[q]
    /\ lock' = lock \/ (lock \in {None, p} /\ lock' \in {None, p})

LEMMA StepIsAlone ==
    ASSUME OdbAssumption, TypeOK, LockInv, FlushInv, NEW p \in Proc, Step(p)
    PROVE  Alone(p)
<1> USE DEF TypeOK, Goto, files, device, locks, durable, Alone
<1>1. CASE Open(p)
  BY <1>1 DEF Open
<1>2. CASE Acquire(p)
  BY <1>2 DEF Acquire
<1>3. CASE Release(p)
  BY <1>3 DEF Release, LockInv, Writing
<1>4. CASE \E o \in use.objects : PutKnown(p, o)
  BY <1>4 DEF PutKnown
<1>5. CASE \E o \in use.objects : PutStored(p, o)
  BY <1>5 DEF PutStored
<1>6. CASE \E o \in use.objects : PutBlob(p, o)
  <2>1. PICK o \in use.objects : PutBlob(p, o)
    BY <1>6
  <2>2. \A q \in Proc \ {p} : view'[q] = view[q]
    BY <2>1 DEF PutBlob, AppendBlob
  <2> QED
    BY <2>1, <2>2 DEF PutBlob
<1>7. CASE AppendTier1(p)
  BY <1>7 DEF AppendTier1
<1>8. CASE AppendMap(p)
  BY <1>8 DEF AppendMap
<1>9. CASE Flush(p)
  BY <1>9 DEF Flush, LockInv, Writing
<1>10. CASE Abandon(p)
  BY <1>10 DEF Abandon
<1>11. CASE SyncCovered(p) \/ SyncLock(p) \/ SyncLocked(p) \/ SyncSkip(p) \/ SyncEofs(p)
  BY <1>11 DEF SyncCovered, SyncLock, SyncLocked, SyncSkip, SyncEofs, Ack
<1>12. CASE FsyncPack(p) \/ FsyncTier1(p) \/ FsyncMap(p) \/ SyncMark(p)
  BY <1>12 DEF FsyncPack, FsyncTier1, FsyncMap, SyncMark, Ack
<1>13. CASE Crash(p)
  BY <1>13 DEF Crash
<1> QED
  BY <1>1, <1>2, <1>3, <1>4, <1>5, <1>6, <1>7, <1>8, <1>9, <1>10, <1>11, <1>12, <1>13 DEF Step

\* Where there are prisms, nobody else has the store open.
LEMMA PrismsAreLonely ==
    ASSUME OdbAssumption, OneWriterOfPrisms, TypeOK, LockInv, use.prismatic # {},
           NEW p \in Proc, NEW q \in Proc, pc[p] # "closed", pc[q] # "closed"
    PROVE  p = q
BY DEF OneWriterOfPrisms, TypeOK, LockInv

\* A record of tier1 is written behind the last one (Tier1Map::append).
LEMMA Tier1Appends ==
    ASSUME OdbAssumption, TypeOK, LockInv, PrismInv, ContentInv, NEW p \in Proc, AppendTier1(p)
    PROVE  /\ use.prismatic # {} /\ cur[p] \in use.prismatic /\ cur[p] \in Obj
           /\ view[p].tier1 = Len(tier1) /\ tier1' = Append(tier1, cur[p])
<1>1. pc[p] = "tier1" /\ cur[p] \in use.prismatic
  BY DEF AppendTier1, ContentInv
<1>2. use \in Use /\ cur[p] \in Obj
  BY <1>1 DEF TypeOK, OdbAssumption, Use
<1>3. view[p].tier1 = Len(tier1)
  BY <1>1 DEF PrismInv
<1>4. tier1 \in Seq(Obj) /\ Len(tier1) \in Nat /\ DOMAIN tier1 = 1 .. Len(tier1)
  BY LenProperties DEF TypeOK
<1> DEFINE n == Len(tier1)
           o == cur[p]
           t == [i \in 1 .. n \cup {n + 1} |-> IF i = n + 1 THEN o ELSE tier1[i]]
<1>5. tier1' = t
  BY <1>3, <1>4 DEF AppendTier1
<1>6. Append(tier1, o) \in Seq(Obj) /\ Len(Append(tier1, o)) = n + 1
      /\ Append(tier1, o)[n + 1] = o /\ \A i \in 1 .. n : Append(tier1, o)[i] = tier1[i]
  BY <1>2, <1>4, AppendProperties
<1>7. 1 .. n \cup {n + 1} = 1 .. n + 1 /\ \A i \in 1 .. n + 1 : i = n + 1 \/ (i \in 1 .. n /\ i # n + 1)
  BY <1>4
<1>8. t \in Seq(Obj) /\ Len(t) = n + 1 /\ \A i \in 1 .. n + 1 : t[i] = Append(tier1, o)[i]
  <2>1. \A i \in 1 .. n : tier1[i] \in Obj
    BY <1>4, ElementOfSeq
  <2>2. t \in [1 .. n + 1 -> Obj]
    BY <1>2, <1>7, <2>1
  <2>3. n + 1 \in Nat
    BY <1>4
  <2>4. t \in Seq(Obj) /\ Len(t) = n + 1
    BY <2>2, <2>3, SeqDef, LenProperties, SMTT(30)
  <2> QED
    BY <1>6, <1>7, <2>4
<1> HIDE DEF t, o
<1>9. t = Append(tier1, o)
  BY <1>6, <1>8, SeqEqual
<1> QED
  BY <1>1, <1>2, <1>3, <1>5, <1>9 DEF o

\* What may be written is the object in hand, at the end of each file.
LEMMA MapAppends ==
    ASSUME OdbAssumption, TypeOK, LockInv, ContentInv, NEW p \in Proc, AppendMap(p)
    PROVE  /\ map' = Append(map, cur[p]) /\ cur[p] \in Obj
           /\ lock = p /\ Current(view[p])
<1>1. lock = p /\ Current(view[p]) /\ p \in use.procs
  BY DEF AppendMap, LockInv, Writing
<1>2. cur[p] \in Obj
  <2>1. Held(cur[p], Blobs, Elements(tier1))
    BY DEF AppendMap, ContentInv
  <2>2. PICK i \in DOMAIN packs : cur[p] \in Elements(packs[i])
    BY <2>1 DEF Held, Blobs
  <2>3. packs[i] \in Seq(Obj)
    BY <2>2, ElementOfSeq, LenProperties DEF TypeOK
  <2> QED
    BY <2>2, <2>3, ElementOfSeq DEF Elements, First
<1>3. map' = Append(map, cur[p])
  <2>1. map \in Seq(Obj)
    BY DEF TypeOK
  <2>2. SubSeq(map, 1, Len(map)) = map
    BY <2>1, <1>2, AppendLengthens
  <2> QED
    BY <1>1, <2>2 DEF AppendMap, Current
<1> QED
  BY <1>1, <1>2, <1>3

LEMMA StepTypes ==
    ASSUME OdbAssumption, FileInv, NEW p \in Proc, Step(p)
    PROVE  TypeOK'
<1>0. /\ TypeOK /\ LockInv /\ PrismInv /\ ContentInv /\ FlushInv
      /\ use \in Use /\ use.objects \subseteq Obj
      /\ packs \in Seq(Seq(Obj)) /\ packs[Len(packs)] \in Seq(Obj)
      /\ Len(packs) \in Nat /\ Len(packs[Len(packs)]) \in Nat
      /\ Len(tier1) \in Nat /\ Len(map) \in Nat
  <2>1. Len(packs) \in Nat /\ Len(packs) > 0 /\ packs \in Seq(Seq(Obj))
    BY LenProperties DEF FileInv, TypeOK, LockInv
  <2>2. Len(packs) \in 1 .. Len(packs)
    BY <2>1
  <2>3. packs[Len(packs)] \in Seq(Obj)
    BY <2>1, <2>2, ElementOfSeq
  <2> QED
    BY <2>1, <2>3, LenProperties DEF FileInv, TypeOK, OdbAssumption, Use
<1> DEFINE Places == {"closed", "idle"} \cup Writing \cup Ending
<1>t. /\ view \in [Proc -> Views] /\ view[p] \in Views /\ batch \in [Proc -> SUBSET Obj]
      /\ cur \in [Proc -> Obj \cup {None}] /\ pc \in [Proc -> Places]
  BY <1>0 DEF TypeOK, Views
<1> USE DEF Goto, files, device, locks, durable, Writing, Ending
<1>1. CASE Open(p)
  <2>1. Elements(tier1) \subseteq Obj
    <3>1. tier1 \in Seq(Obj)
      BY <1>0 DEF TypeOK
    <3>2. \A i \in 1 .. Len(tier1) : tier1[i] \in Obj
      BY <3>1, ElementOfSeq
    <3> QED
      BY <3>2 DEF Elements, First
  <2>2. view' \in [Proc -> Views]
    BY <1>0, <1>t, <1>1, <2>1 DEF Open, Views, ActiveSeq
  <2> QED
    BY <1>0, <1>1, <2>2 DEF Open, TypeOK, Views
<1>2. CASE Acquire(p)
  <2>1. view' \in [Proc -> Views]
    <3> DEFINE w == [view[p] EXCEPT !.active = Len(packs), !.pack = Len(packs[Len(packs)]),
                                    !.map = Len(map)]
    <3>1. w \in Views
      BY <1>0, <1>t DEF Views
    <3>2. view' = view \/ view' = [view EXCEPT ![p] = w]
      BY <1>t, <1>2 DEF Acquire, ActiveSeq, Views
    <3> QED
      BY <1>t, <3>1, <3>2
  <2>2. pc' \in [Proc -> Places] /\ batch' \in [Proc -> SUBSET Obj]
    BY <1>t, <1>2 DEF Acquire
  <2> QED
    BY <1>0, <1>2, <2>1, <2>2 DEF Acquire, TypeOK, Views
<1>3. CASE Release(p)
  <2>1. pc' \in [Proc -> Places]
    BY <1>t, <1>3 DEF Release
  <2> QED
    BY <1>0, <1>3, <2>1 DEF Release, TypeOK
<1>4. CASE \E o \in use.objects : PutKnown(p, o)
  <2>1. batch' \in [Proc -> SUBSET Obj]
    BY <1>0, <1>t, <1>4 DEF PutKnown
  <2> QED
    BY <1>0, <1>4, <2>1 DEF PutKnown, TypeOK
<1>5. CASE \E o \in use.objects : PutStored(p, o)
  <2>1. PICK o \in use.objects : PutStored(p, o)
    BY <1>5
  <2>2. cur' \in [Proc -> Obj \cup {None}]
    BY <1>0, <1>t, <2>1 DEF PutStored
  <2>3. pc' \in [Proc -> Places]
    BY <1>t, <2>1 DEF PutStored
  <2> QED
    BY <1>0, <2>1, <2>2, <2>3 DEF PutStored, TypeOK
<1>6. CASE \E o \in use.objects : PutBlob(p, o)
  <2>1. PICK o \in use.objects : PutBlob(p, o)
    BY <1>6
  <2>2. /\ packs' \in Seq(Seq(Obj)) /\ view' \in [Proc -> Views]
        /\ flushed' \in [packs : Seq(Nat), tier1 : Nat, map : Nat]
    <3>1. CASE AppendBlob(p, o)
      <4>1. o \in Obj /\ Current(view[p])
        BY <1>0, <2>1 DEF PutBlob, LockInv
      <4> QED
        BY <1>0, <3>1, <4>1, AppendBlobProperties DEF Views
    <3>2. CASE UNCHANGED <<packs, flushed, view>>
      BY <1>0, <3>2 DEF TypeOK, Views
    <3> QED
      BY <2>1, <3>1, <3>2 DEF PutBlob
  <2>3. pc' \in [Proc -> {"closed", "idle"} \cup Writing \cup Ending]
    <3>1. \E where \in Places : pc' = [pc EXCEPT ![p] = where]
      BY <2>1 DEF PutBlob, AfterBlob
    <3> QED
      BY <1>t, <3>1
  <2>4. batch' \in [Proc -> SUBSET Obj] /\ cur' \in [Proc -> Obj \cup {None}]
    <3>1. \E b \in SUBSET Obj : batch' = [batch EXCEPT ![p] = b]
      <4>1. batch' = [batch EXCEPT ![p] = batch[p]] \/ batch' = [batch EXCEPT ![p] = batch[p] \cup {o}]
        BY <1>t, <2>1 DEF PutBlob
      <4> QED
        BY <1>0, <1>t, <4>1
    <3>2. cur' = [cur EXCEPT ![p] = o] /\ o \in Obj
      BY <1>0, <2>1 DEF PutBlob
    <3> QED
      BY <1>t, <3>1, <3>2
  <2> QED
    BY <1>0, <2>1, <2>2, <2>3, <2>4 DEF PutBlob, TypeOK, Views
<1>7. CASE AppendTier1(p)
  <2>1. /\ cur[p] \in Obj /\ tier1' = Append(tier1, cur[p]) /\ view[p].tier1 = Len(tier1)
    BY <1>0, <1>7, Tier1Appends
  <2>2. tier1' \in Seq(Obj)
    BY <1>0, <2>1, AppendProperties DEF TypeOK
  <2>3. view' \in [Proc -> Views]
    <3> DEFINE w == [view[p] EXCEPT !.tier1 = Len(tier1) + 1, !.prisms = @ \cup {cur[p]}]
    <3>1. w \in Views
      <4>1. Len(tier1) + 1 \in Nat /\ view[p].prisms \cup {cur[p]} \in SUBSET Obj
        BY <1>0, <1>t, <2>1 DEF Views
      <4> QED
        BY <1>t, <4>1 DEF Views
    <3>2. view' = [view EXCEPT ![p] = w]
      BY <1>t, <1>7, <2>1 DEF AppendTier1, Views
    <3> QED
      BY <1>t, <3>1, <3>2
  <2>4. pc' \in [Proc -> {"closed", "idle"} \cup Writing \cup Ending]
    BY <1>0, <1>7 DEF AppendTier1, TypeOK, AfterBlob
  <2>5. batch' \in [Proc -> SUBSET Obj]
    BY <1>0, <1>7, <2>1 DEF AppendTier1, TypeOK
  <2> QED
    BY <1>0, <1>7, <2>2, <2>3, <2>4, <2>5 DEF AppendTier1, TypeOK, Views
<1>8. CASE AppendMap(p)
  <2>1. cur[p] \in Obj /\ map' = Append(map, cur[p])
    BY <1>0, <1>8, MapAppends
  <2>2. map' \in Seq(Obj) /\ Len(map') \in Nat
    BY <1>0, <2>1, AppendProperties, LenProperties DEF TypeOK
  <2>3. view' \in [Proc -> Views]
    <3> DEFINE w == [view[p] EXCEPT !.map = Len(map')]
    <3>1. w \in Views
      BY <1>t, <2>2 DEF Views
    <3>2. view' = [view EXCEPT ![p] = w]
      BY <1>t, <1>8 DEF AppendMap, Views
    <3> QED
      BY <1>t, <3>1, <3>2
  <2>4. batch' \in [Proc -> SUBSET Obj]
    BY <1>0, <1>8, <2>1 DEF AppendMap, TypeOK
  <2>5. pc' \in [Proc -> {"closed", "idle"} \cup Writing \cup Ending]
    BY <1>0, <1>8 DEF AppendMap, TypeOK
  <2> QED
    BY <1>0, <1>8, <2>2, <2>3, <2>4, <2>5 DEF AppendMap, TypeOK, Views
<1>9. CASE Flush(p)
  BY <1>0, <1>9 DEF Flush, TypeOK, Lens
<1>10. CASE Abandon(p)
  BY <1>0, <1>10 DEF Abandon, TypeOK
<1>11. CASE SyncCovered(p)
  BY <1>0, <1>11 DEF SyncCovered, Ack, TypeOK
<1>12. CASE SyncLock(p)
  BY <1>0, <1>12 DEF SyncLock, TypeOK
<1>13. CASE SyncLocked(p)
  BY <1>0, <1>13 DEF SyncLocked, TypeOK
<1>14. CASE SyncSkip(p)
  BY <1>0, <1>14 DEF SyncSkip, Ack, TypeOK
<1>15. CASE SyncEofs(p)
  <2>1. view[p].active \in 1 .. Len(packs)
    BY <1>0, <1>15 DEF SyncEofs, LockInv, Within
  <2>2. packs[view[p].active] \in Seq(Obj)
    BY <1>0, <2>1, ElementOfSeq
  <2>3. Len(packs[view[p].active]) \in Nat
    BY <2>2, LenProperties
  <2> QED
    BY <1>0, <1>15, <2>3 DEF SyncEofs, TypeOK, Lens
<1>16. CASE FsyncPack(p)
  <2> DEFINE k == IF p \in use.daemons THEN ActiveSeq ELSE view[p].active
  <2>1. k \in 1 .. Len(packs)
    BY <1>0, <1>16 DEF FsyncPack, LockInv, Within, ActiveSeq
  <2>2. Len(packs[k]) \in Nat
    <3>1. packs[k] \in Seq(Obj)
      BY <1>0, <2>1, ElementOfSeq
    <3> QED
      BY <3>1, LenProperties
  <2>3. flushed' = [flushed EXCEPT !.packs[k] = Len(packs[k])]
    BY <1>16 DEF FsyncPack
  <2> HIDE DEF k
  <2>4. [flushed.packs EXCEPT ![k] = Len(packs[k])] \in Seq(Nat)
    <3> DEFINE S == Nat
               e == Len(packs[k])
    <3>1. flushed.packs \in Seq(S) /\ e \in S /\ k \in 1 .. Len(flushed.packs)
      BY <1>0, <2>1, <2>2 DEF TypeOK, FlushInv
    <3> HIDE DEF S, e
    <3>2. [flushed.packs EXCEPT ![k] = e] \in Seq(S)
      BY <3>1, ExceptSeq
    <3> QED
      BY <3>2 DEF S, e
  <2>5. flushed' \in [packs : Seq(Nat), tier1 : Nat, map : Nat]
    BY <1>0, <2>3, <2>4 DEF TypeOK
  <2> QED
    BY <1>0, <1>16, <2>5 DEF FsyncPack, TypeOK
<1>17. CASE FsyncTier1(p)
  <2>1. flushed' \in [packs : Seq(Nat), tier1 : Nat, map : Nat]
    BY <1>0, <1>17 DEF FsyncTier1, TypeOK
  <2> QED
    BY <1>0, <1>17, <2>1 DEF FsyncTier1, TypeOK
<1>18. CASE FsyncMap(p)
  <2>1. flushed' \in [packs : Seq(Nat), tier1 : Nat, map : Nat]
    BY <1>0, <1>18 DEF FsyncMap, TypeOK
  <2> QED
    BY <1>0, <1>18, <2>1 DEF FsyncMap, Ack, TypeOK
<1>19. CASE SyncMark(p)
  BY <1>0, <1>19 DEF SyncMark, Ack, TypeOK
<1>20. CASE Crash(p)
  BY <1>0, <1>20 DEF Crash, TypeOK, NoView
<1> QED
  BY <1>1, <1>2, <1>3, <1>4, <1>5, <1>6, <1>7, <1>8, <1>9, <1>10, <1>11, <1>12, <1>13,
     <1>14, <1>15, <1>16, <1>17, <1>18, <1>19, <1>20 DEF Step

\* Only a writer that holds the lock writes; what is there stays.
LEMMA StepGrows ==
    ASSUME OdbAssumption, FileInv, NEW p \in Proc, Step(p)
    PROVE  /\ PacksLonger(packs, packs') /\ Longer(tier1, tier1') /\ Longer(map, map')
           /\ UNCHANGED files \/ pc[p] \in Writing
<1>0. /\ TypeOK /\ LockInv /\ PrismInv /\ ContentInv /\ FlushInv
      /\ use \in Use /\ use.objects \subseteq Obj
      /\ packs \in Seq(Seq(Obj)) /\ tier1 \in Seq(Obj) /\ map \in Seq(Obj)
  BY DEF FileInv, TypeOK, OdbAssumption, Use
<1>1. Longer(tier1, tier1) /\ Longer(map, map) /\ PacksLonger(packs, packs)
  <2>1. \A i \in 1 .. Len(packs) : packs[i] \in Seq(Obj)
    BY <1>0, ElementOfSeq
  <2>2. Len(packs) \in Nat /\ Len(tier1) \in Nat /\ Len(map) \in Nat
        /\ \A i \in 1 .. Len(packs) : Len(packs[i]) \in Nat
    BY <1>0, <2>1, LenProperties
  <2> QED
    BY <2>2 DEF Longer, PacksLonger
<1>2. CASE UNCHANGED files
  BY <1>1, <1>2 DEF files
<1>3. CASE \E o \in use.objects : PutBlob(p, o)
  <2>1. PICK o \in use.objects : PutBlob(p, o)
    BY <1>3
  <2>2. o \in Obj /\ Current(view[p]) /\ pc[p] \in Writing
    BY <1>0, <2>1 DEF PutBlob, LockInv, Writing
  <2>3. PacksLonger(packs, packs')
    <3>1. CASE AppendBlob(p, o)
      BY <1>0, <2>2, <3>1, AppendBlobProperties
    <3>2. CASE UNCHANGED <<packs, flushed, view>>
      BY <1>1, <3>2
    <3> QED
      BY <2>1, <3>1, <3>2 DEF PutBlob
  <2> QED
    BY <1>1, <2>1, <2>2, <2>3 DEF PutBlob
<1>4. CASE AppendTier1(p)
  <2>1. tier1' = Append(tier1, cur[p])
    BY <1>0, <1>4, Tier1Appends
  <2>2. Longer(tier1, tier1')
    BY <1>0, <2>1, AppendLengthens, SMTT(30)
  <2> QED
    BY <1>1, <1>4, <2>2 DEF AppendTier1, Writing
<1>5. CASE AppendMap(p)
  BY <1>0, <1>1, <1>5, MapAppends, AppendLengthens DEF AppendMap, Writing
<1>6. CASE ~(\E o \in use.objects : PutBlob(p, o)) /\ ~AppendTier1(p) /\ ~AppendMap(p)
  BY <1>2, <1>6 DEF Step, Open, Acquire, Release, Abandon, PutKnown, PutStored, Flush, SyncCovered,
     SyncLock, SyncLocked, SyncSkip, SyncEofs, FsyncPack, FsyncTier1, FsyncMap, SyncMark, Crash
<1> QED
  BY <1>3, <1>4, <1>5, <1>6

\* What a view has read is in it still.
LEMMA ViewIsKept ==
    ASSUME OdbAssumption, FileInv, NEW p \in Proc, Step(p),
           NEW q \in Proc, pc[q] # "closed", view'[q] = view[q]
    PROVE  /\ Within(view[q])'
           /\ Seen(packs', view[q]) = Seen(packs, view[q])
           /\ First(map', view[q].map) = First(map, view[q].map)
<1>1. PacksLonger(packs, packs') /\ Longer(map, map')
  BY StepGrows
<1>2. Within(view[q]) /\ packs \in Seq(Seq(Obj)) /\ view[q] \in Views
  BY DEF FileInv, LockInv, TypeOK, Views
<1>3. view[q].active \in 1 .. Len(packs)
      /\ view[q].pack \in 0 .. Len(packs[view[q].active]) /\ view[q].map \in 0 .. Len(map)
      /\ view[q].map \in Nat /\ view[q].pack \in Nat /\ view[q].active \in Nat
  BY <1>2 DEF Within, Views
<1>4. First(map', view[q].map) = First(map, view[q].map)
  <2>1. view[q].map <= Len(map)
    BY <1>1, <1>3 DEF Longer
  <2> QED
    BY <1>1, <1>3, <2>1, FirstIsKept
<1>5. Seen(packs', view[q]) = Seen(packs, view[q])
  <2>1. packs' \in Seq(Seq(Obj))
    BY StepTypes DEF TypeOK
  <2> QED
    BY <1>1, <1>2, <1>3, <2>1, SeenIsKept
<1>6. Within(view[q])'
  <2>1. Longer(packs[view[q].active], packs'[view[q].active])
    BY <1>1, <1>3 DEF PacksLonger
  <2>2. view[q].active \in 1 .. Len(packs')
    BY <1>1, <1>3 DEF PacksLonger
  <2>3. view[q].pack \in 0 .. Len(packs'[view[q].active])
    BY <1>3, <2>1, SMTT(30) DEF Longer
  <2>4. view[q].map \in 0 .. Len(map')
    BY <1>1, <1>3 DEF Longer
  <2> QED
    BY <2>2, <2>3, <2>4 DEF Within
<1> QED
  BY <1>4, <1>5, <1>6

-----------------------------------------------------------------------------
(* Each part of the invariant is kept by every step.                       *)

\* What the step does to the process's own place, view and lock.
LEMMA OwnLock ==
    ASSUME OdbAssumption, FileInv, NEW p \in Proc, Step(p)
    PROVE  /\ Len(packs') > 0
           /\ pc'[p] \in Writing => lock' = p
           /\ lock' = p => pc'[p] \in Writing \cup {"idle"} /\ Current(view[p])'
           /\ pc'[p] = "closed" => view'[p] = NoView
           /\ pc'[p] # "closed" => p \in use'.procs /\ Within(view[p])'
<1>0. /\ TypeOK /\ LockInv /\ PrismInv /\ ContentInv /\ FlushInv
      /\ packs \in Seq(Seq(Obj)) /\ Len(packs) \in Nat /\ Len(packs) > 0
      /\ Len(packs) \in 1 .. Len(packs) /\ packs[Len(packs)] \in Seq(Obj)
      /\ tier1 \in Seq(Obj) /\ map \in Seq(Obj) /\ Len(map) \in Nat
      /\ Len(packs[Len(packs)]) \in Nat
  <2>1. packs \in Seq(Seq(Obj)) /\ Len(packs) \in Nat /\ Len(packs) > 0
    BY LenProperties DEF FileInv, TypeOK, LockInv
  <2>2. Len(packs) \in 1 .. Len(packs)
    BY <2>1
  <2>3. packs[Len(packs)] \in Seq(Obj)
    BY <2>1, <2>2, ElementOfSeq
  <2> QED
    BY <2>1, <2>2, <2>3, LenProperties DEF FileInv, TypeOK
<1>t. /\ view \in [Proc -> Views] /\ view[p] \in Views
      /\ pc \in [Proc -> {"closed", "idle"} \cup Writing \cup Ending]
  BY <1>0 DEF TypeOK, Views
<1>v. /\ pc[p] \in Writing => lock = p
      /\ lock = p => pc[p] \in Writing \cup {"idle"} /\ Current(view[p])
      /\ pc[p] = "closed" => view[p] = NoView
      /\ pc[p] # "closed" => p \in use.procs /\ Within(view[p])
  BY <1>0 DEF LockInv
<1>n. p # None
  BY DEF OdbAssumption
<1>s. ASSUME UNCHANGED <<packs, tier1, map, use>>, view'[p] = view[p]
      PROVE  /\ Current(view[p])' <=> Current(view[p])
             /\ Within(view[p])' <=> Within(view[p])
  BY <1>s DEF Current, Within
<1> USE DEF Goto, files, device, locks, durable, Writing, Ending
<1>1. CASE Open(p)
  <2>1. view'[p].active = Len(packs) /\ view'[p].pack = Len(packs[Len(packs)])
        /\ view'[p].map = Len(map)
    BY <1>t, <1>1 DEF Open, ActiveSeq
  <2>2. Within(view[p])'
    BY <1>0, <1>1, <2>1 DEF Open, Within
  <2>3. lock' # p /\ pc'[p] = "idle" /\ use' = use /\ p \in use.procs /\ packs' = packs
    BY <1>t, <1>n, <1>1 DEF Open
  <2> QED
    BY <1>0, <2>2, <2>3
<1>2. CASE Acquire(p)
  <2>1. view'[p].active = Len(packs) /\ view'[p].pack = Len(packs[Len(packs)])
        /\ view'[p].map = Len(map)
    <3>1. CASE lock = p
      BY <1>t, <1>v, <1>2, <3>1 DEF Acquire, Current
    <3>2. CASE lock # p
      BY <1>t, <1>2, <3>2 DEF Acquire, ActiveSeq, Views
    <3> QED
      BY <3>1, <3>2
  <2>2. Within(view[p])' /\ Current(view[p])'
    BY <1>0, <1>2, <2>1, SMTT(30) DEF Acquire, Within, Current
  <2>3. lock' = p /\ pc'[p] = "batch" /\ use' = use /\ p \in use.procs /\ packs' = packs
    BY <1>t, <1>v, <1>2 DEF Acquire
  <2> QED
    BY <1>0, <2>2, <2>3
<1>3. CASE Release(p)
  <2>1. lock' # p /\ pc'[p] = "idle" /\ pc[p] # "closed"
    BY <1>t, <1>n, <1>3 DEF Release
  <2> QED
    BY <1>0, <1>v, <1>s, <1>3, <2>1 DEF Release
<1>4. CASE \E o \in use.objects : PutKnown(p, o) \/ PutStored(p, o)
  <2>1. lock' = p /\ pc'[p] \in Writing /\ pc[p] = "batch"
    BY <1>t, <1>v, <1>4 DEF PutKnown, PutStored
  <2>2. UNCHANGED <<packs, tier1, map, use>> /\ view' = view
    BY <1>4 DEF PutKnown, PutStored
  <2> QED
    BY <1>0, <1>v, <1>s, <2>1, <2>2
<1>5. CASE \E o \in use.objects : PutBlob(p, o)
  <2>1. PICK o \in use.objects : PutBlob(p, o)
    BY <1>5
  <2>2. lock' = p /\ pc'[p] \in Writing /\ pc[p] = "batch" /\ map' = map /\ use' = use /\ tier1' = tier1
    BY <1>t, <1>v, <2>1 DEF PutBlob, AfterBlob
  <2>3. Current(view[p])' /\ Within(view[p])' /\ Len(packs') > 0
    <3>1. CASE AppendBlob(p, o)
      <4>1. o \in Obj
        BY <1>0 DEF TypeOK, OdbAssumption, Use
      <4>2. /\ packs' \in Seq(Seq(Obj)) /\ Len(packs') > 0
            /\ view'[p].active = Len(packs') /\ view'[p].pack = Len(packs'[Len(packs')])
            /\ view'[p].map = view[p].map
        BY <1>0, <1>v, <2>2, <3>1, <4>1, AppendBlobProperties
      <4>3. view'[p].map = Len(map')
        BY <1>v, <2>2, <4>2 DEF Current
      <4>4. Len(packs') \in Nat /\ Len(packs') \in 1 .. Len(packs')
        BY <4>2, LenProperties
      <4>5. packs'[Len(packs')] \in Seq(Obj)
        BY <4>2, <4>4, ElementOfSeq
      <4>6. Len(packs'[Len(packs')]) \in Nat /\ Len(map') \in Nat
        BY <1>0, <2>2, <4>5, LenProperties
      <4> QED
        BY <4>2, <4>3, <4>4, <4>6 DEF Current, Within
    <3>2. CASE UNCHANGED <<packs, flushed, view>>
      BY <1>0, <1>v, <1>s, <2>2, <3>2
    <3> QED
      BY <2>1, <3>1, <3>2 DEF PutBlob
  <2> QED
    BY <1>0, <1>v, <2>2, <2>3
<1>6. CASE AppendTier1(p)
  <2>1. lock' = p /\ pc'[p] \in Writing /\ pc[p] = "tier1"
        /\ packs' = packs /\ map' = map /\ use' = use
    BY <1>t, <1>v, <1>6 DEF AppendTier1, AfterBlob
  <2>2. view'[p].active = view[p].active /\ view'[p].pack = view[p].pack /\ view'[p].map = view[p].map
    BY <1>t, <1>6 DEF AppendTier1, Views
  <2>3. Current(view[p])' /\ Within(view[p])'
    BY <1>v, <2>1, <2>2 DEF Current, Within
  <2> QED
    BY <1>0, <1>v, <2>1, <2>3
<1>7. CASE AppendMap(p)
  <2>1. lock' = p /\ pc'[p] = "batch" /\ pc[p] = "map" /\ packs' = packs /\ use' = use
    BY <1>t, <1>v, <1>7 DEF AppendMap
  <2>2. view'[p].active = view[p].active /\ view'[p].pack = view[p].pack /\ view'[p].map = Len(map')
    BY <1>t, <1>7 DEF AppendMap, Views
  <2>3. Len(map') \in Nat
    BY StepTypes, LenProperties DEF TypeOK
  <2>4. Current(view[p])' /\ Within(view[p])'
    BY <1>v, <2>1, <2>2, <2>3 DEF Current, Within
  <2> QED
    BY <1>0, <1>v, <2>1, <2>4
<1>8. CASE Flush(p)
  <2>1. lock' # p /\ pc'[p] \in Ending /\ pc[p] = "batch"
    BY <1>t, <1>n, <1>8 DEF Flush
  <2> QED
    BY <1>0, <1>v, <1>s, <1>8, <2>1 DEF Flush
<1>9. CASE Abandon(p)
  <2>1. pc'[p] = "idle" /\ pc[p] \in Writing
    BY <1>t, <1>9 DEF Abandon
  <2> QED
    BY <1>0, <1>v, <1>s, <1>9, <2>1 DEF Abandon
<1>10. CASE SyncCovered(p) \/ SyncLock(p) \/ SyncLocked(p) \/ SyncSkip(p) \/ SyncEofs(p)
            \/ FsyncPack(p) \/ FsyncTier1(p) \/ FsyncMap(p) \/ SyncMark(p)
  <2>1. pc[p] \in Ending /\ pc'[p] \in Ending \cup {"idle"} /\ lock' = lock
    BY <1>t, <1>10 DEF SyncCovered, SyncLock, SyncLocked, SyncSkip, SyncEofs, FsyncPack,
       FsyncTier1, FsyncMap, SyncMark, Ack
  <2>2. UNCHANGED <<packs, tier1, map, use>> /\ view' = view
    BY <1>10 DEF SyncCovered, SyncLock, SyncLocked, SyncSkip, SyncEofs, FsyncPack,
       FsyncTier1, FsyncMap, SyncMark, Ack
  <2>3. lock # p
    BY <1>v, <2>1
  <2> QED
    BY <1>0, <1>v, <1>s, <2>1, <2>2, <2>3
<1>11. CASE Crash(p)
  BY <1>0, <1>t, <1>n, <1>11 DEF Crash
<1> QED
  BY <1>1, <1>2, <1>3, <1>4, <1>5, <1>6, <1>7, <1>8, <1>9, <1>10, <1>11 DEF Step

LEMMA StepLocks ==
    ASSUME OdbAssumption, FileInv, NEW p \in Proc, Step(p)
    PROVE  LockInv'
<1>1. TypeOK /\ LockInv /\ FlushInv /\ Alone(p)
  BY StepIsAlone DEF FileInv
<1>2. ASSUME NEW q \in Proc, q # p
      PROVE  /\ pc'[q] \in Writing => lock' = q
             /\ lock' = q => pc'[q] \in Writing \cup {"idle"} /\ Current(view[q])'
             /\ pc'[q] = "closed" => view'[q] = NoView
             /\ pc'[q] # "closed" => q \in use'.procs /\ Within(view[q])'
  <2>1. /\ pc'[q] = pc[q] /\ view'[q] = view[q] /\ use' = use
        /\ lock' = q <=> lock = q
    <3>1. q # None
      BY DEF OdbAssumption
    <3> QED
      BY <1>1, <1>2, <3>1 DEF Alone
  <2>2. lock = q => Current(view[q])'
    <3>1. lock = q => UNCHANGED files
      BY <1>1, <1>2, StepGrows DEF LockInv
    <3> QED
      BY <1>1, <2>1, <3>1 DEF LockInv, Current, files
  <2>3. pc[q] # "closed" => Within(view[q])'
    BY <2>1, ViewIsKept
  <2> QED
    BY <1>1, <2>1, <2>2, <2>3 DEF LockInv
<1> QED
  BY <1>2, OwnLock DEF LockInv

LEMMA StepPrisms ==
    ASSUME OdbAssumption, OneWriterOfPrisms, FileInv, NEW p \in Proc, Step(p)
    PROVE  PrismInv'
<1>0. /\ TypeOK /\ LockInv /\ PrismInv /\ ContentInv /\ FlushInv /\ Alone(p)
      /\ LockInv' /\ TypeOK' /\ use' = use
      /\ view \in [Proc -> Views] /\ view[p] \in Views
      /\ pc \in [Proc -> {"closed", "idle"} \cup Writing \cup Ending]
  BY StepIsAlone, StepLocks, StepTypes DEF FileInv, Alone, TypeOK, Views
<1>1. CASE use.prismatic = {}
  BY <1>0, <1>1 DEF PrismInv
<1>2. CASE use.prismatic # {}
  <2>1. ASSUME NEW q \in Proc, pc'[q] # "closed"
        PROVE  q = p
    <3>1. q \in use.procs /\ p \in use.procs
      BY <1>0, <2>1 DEF LockInv, Step, Open, Acquire, Release, Abandon, PutKnown, PutStored,
         PutBlob, AppendTier1, AppendMap, Flush, SyncCovered, SyncLock, SyncLocked, SyncSkip,
         SyncEofs, FsyncPack, FsyncTier1, FsyncMap, SyncMark, Crash, Writing
    <3> QED
      BY <1>0, <1>2, <3>1 DEF OneWriterOfPrisms, TypeOK
  <2>2. ASSUME pc'[p] # "closed"
        PROVE  /\ Current(view[p])' /\ view'[p].tier1 = Len(tier1')
               /\ view'[p].prisms = Elements(tier1')
    <3>v. pc[p] # "closed" => /\ Current(view[p]) /\ view[p].tier1 = Len(tier1)
                              /\ view[p].prisms = Elements(tier1)
      BY <1>0, <1>2 DEF PrismInv
    <3>1. CASE Open(p)
      BY <1>0, <3>1 DEF Open, Current, ActiveSeq, Views, files
    <3>2. CASE Acquire(p)
      <4>1. UNCHANGED files /\ pc[p] # "closed"
        BY <3>2 DEF Acquire
      <4>2. Current(view[p])'
        BY <1>0, <3>2, OwnLock DEF Acquire
      <4>3. view'[p].tier1 = view[p].tier1 /\ view'[p].prisms = view[p].prisms
        BY <1>0, <3>2 DEF Acquire, Views
      <4> QED
        BY <3>v, <4>1, <4>2, <4>3 DEF files
    <3>3. CASE \E o \in use.objects : PutBlob(p, o)
      <4>1. PICK o \in use.objects : PutBlob(p, o)
        BY <3>3
      <4>2. o \in Obj /\ pc[p] = "batch" /\ lock' = p /\ tier1' = tier1
        BY <1>0, <4>1 DEF TypeOK, OdbAssumption, Use, PutBlob, LockInv, locks, Writing
      <4>3. Current(view[p])'
        BY <1>0, <4>2, OwnLock
      <4>4. view'[p].tier1 = view[p].tier1 /\ view'[p].prisms = view[p].prisms
        <5>1. CASE AppendBlob(p, o)
          BY <1>0, <3>v, <4>2, <5>1, AppendBlobProperties
        <5>2. CASE UNCHANGED <<packs, flushed, view>>
          BY <5>2
        <5> QED
          BY <4>1, <5>1, <5>2 DEF PutBlob
      <4> QED
        BY <3>v, <4>2, <4>3, <4>4
    <3>4. CASE AppendTier1(p)
      <4>1. /\ view[p].tier1 = Len(tier1) /\ tier1' = Append(tier1, cur[p])
            /\ pc[p] = "tier1" /\ lock' = p /\ tier1 \in Seq(Obj)
        BY <1>0, <3>4, Tier1Appends DEF AppendTier1, LockInv, locks, Writing, TypeOK
      <4>2. Current(view[p])'
        BY <1>0, <4>1, OwnLock
      <4>3. view'[p].tier1 = Len(tier1) + 1 /\ view'[p].prisms = view[p].prisms \cup {cur[p]}
        BY <1>0, <3>4, <4>1 DEF AppendTier1, Views
      <4>4. Len(tier1') = Len(tier1) + 1 /\ Elements(tier1') = Elements(tier1) \cup {cur[p]}
        BY <4>1, AppendLengthens
      <4> QED
        BY <3>v, <4>1, <4>2, <4>3, <4>4
    <3>5. CASE AppendMap(p)
      <4>1. pc[p] = "map" /\ lock' = p /\ tier1' = tier1
        BY <1>0, <3>5 DEF AppendMap, LockInv, locks, Writing
      <4>2. Current(view[p])'
        BY <1>0, <4>1, OwnLock
      <4>3. view'[p].tier1 = view[p].tier1 /\ view'[p].prisms = view[p].prisms
        BY <1>0, <3>5 DEF AppendMap, Views
      <4> QED
        BY <3>v, <4>1, <4>2, <4>3
    <3>6. CASE /\ ~Open(p) /\ ~Acquire(p) /\ ~AppendTier1(p) /\ ~AppendMap(p)
               /\ ~(\E o \in use.objects : PutBlob(p, o))
      <4>1. UNCHANGED files /\ view'[p] = view[p] /\ pc[p] # "closed"
        BY <1>0, <2>2, <3>6 DEF Step, Release, Abandon, PutKnown, PutStored, Flush, SyncCovered,
           SyncLock, SyncLocked, SyncSkip, SyncEofs, FsyncPack, FsyncTier1, FsyncMap, SyncMark,
           Crash, Goto, Writing, Ack
      <4> QED
        BY <3>v, <4>1 DEF Current, files
    <3> QED
      BY <3>1, <3>2, <3>3, <3>4, <3>5, <3>6
  <2> QED
    BY <1>0, <2>1, <2>2 DEF PrismInv
<1> QED
  BY <1>1, <1>2

LEMMA StepFlushes ==
    ASSUME OdbAssumption, FileInv, NEW p \in Proc, Step(p)
    PROVE  /\ FlushInv'
           /\ \A i \in 1 .. Len(packs) : flushed.packs[i] <= flushed'.packs[i]
           /\ flushed.tier1 <= flushed'.tier1 /\ flushed.map <= flushed'.map
<1>0. /\ TypeOK /\ LockInv /\ PrismInv /\ ContentInv /\ FlushInv
      /\ packs \in Seq(Seq(Obj)) /\ flushed.packs \in Seq(Nat)
      /\ Len(flushed.packs) = Len(packs) /\ Len(packs) \in Nat
      /\ flushed.tier1 \in Nat /\ flushed.map \in Nat
      /\ flushed \in [packs : Seq(Nat), tier1 : Nat, map : Nat]
  BY LenProperties DEF FileInv, TypeOK, FlushInv
<1>1. \A i \in 1 .. Len(packs) : flushed.packs[i] \in Nat /\ Len(packs[i]) \in Nat
  <2>1. \A i \in 1 .. Len(packs) : packs[i] \in Seq(Obj) /\ flushed.packs[i] \in Nat
    BY <1>0, ElementOfSeq
  <2> QED
    BY <2>1, LenProperties
<1>2. /\ Len(tier1) \in Nat /\ Len(tier1') \in Nat /\ Len(tier1) <= Len(tier1')
      /\ Len(map) \in Nat /\ Len(map') \in Nat /\ Len(map) <= Len(map')
  BY StepGrows DEF Longer
<1>f. flushed.tier1 <= Len(tier1) /\ flushed.map <= Len(map)
  BY <1>0 DEF FlushInv
<1>3. CASE \E o \in use.objects : PutBlob(p, o)
  <2>1. PICK o \in use.objects : PutBlob(p, o)
    BY <1>3
  <2>2. o \in Obj /\ Current(view[p])
    BY <1>0, <2>1 DEF TypeOK, OdbAssumption, Use, PutBlob, LockInv, Writing
  <2>3. CASE AppendBlob(p, o)
    <3>1. /\ flushed'.tier1 = flushed.tier1 /\ flushed'.map = flushed.map
          /\ Len(flushed'.packs) = Len(packs')
          /\ \A i \in 1 .. Len(packs') :
               /\ flushed'.packs[i] <= Len(packs'[i])
               /\ i < Len(packs') => flushed'.packs[i] = Len(packs'[i])
          /\ \A i \in 1 .. Len(packs) : flushed.packs[i] <= flushed'.packs[i]
      BY <1>0, <2>2, <2>3, AppendBlobProperties
    <3>2. tier1' = tier1 /\ map' = map
      BY <2>1 DEF PutBlob
    <3>3. flushed'.tier1 <= Len(tier1') /\ flushed'.map <= Len(map')
      BY <1>f, <3>1, <3>2
    <3>4. flushed.tier1 <= flushed'.tier1 /\ flushed.map <= flushed'.map
      BY <1>0, <3>1
    <3> QED
      BY <3>1, <3>3, <3>4 DEF FlushInv
  <2>4. CASE UNCHANGED <<packs, flushed, view>>
    BY <1>0, <1>1, <1>f, <2>1, <2>4 DEF FlushInv, PutBlob
  <2> QED
    BY <2>1, <2>3, <2>4 DEF PutBlob
<1>4. CASE UNCHANGED <<packs, flushed>>
  <2>1. flushed'.tier1 <= Len(tier1') /\ flushed'.map <= Len(map')
    BY <1>0, <1>2, <1>4, <1>f
  <2> QED
    BY <1>0, <1>1, <1>4, <2>1, SMTT(30) DEF FlushInv
<1>5. CASE FsyncPack(p)
  <2> DEFINE k == IF p \in use.daemons THEN ActiveSeq ELSE view[p].active
             n == Len(packs[k])
             lens == [flushed.packs EXCEPT ![k] = n]
  <2>1. k \in 1 .. Len(packs)
    BY <1>0, <1>5 DEF FsyncPack, LockInv, Within, ActiveSeq
  <2>2. UNCHANGED files /\ flushed' = [flushed EXCEPT !.packs[k] = n]
    BY <1>5 DEF FsyncPack
  <2>3. n \in Nat /\ k \in 1 .. Len(flushed.packs)
    BY <1>0, <1>1, <2>1
  <2> HIDE DEF k
  <2>4. Len(lens) = Len(packs) /\ lens[k] = n
        /\ \A i \in 1 .. Len(packs) : i # k => lens[i] = flushed.packs[i]
    <3> DEFINE S == Nat
    <3>1. flushed.packs \in Seq(S) /\ n \in S
      BY <1>0, <2>3
    <3> HIDE DEF S, n
    <3>2. Len(lens) = Len(flushed.packs) /\ lens[k] = n
          /\ \A i \in 1 .. Len(flushed.packs) : i # k => lens[i] = flushed.packs[i]
      BY <2>3, <3>1, ExceptSeq
    <3> QED
      BY <1>0, <3>2
  <2>5. flushed'.packs = lens /\ flushed'.tier1 = flushed.tier1 /\ flushed'.map = flushed.map
    BY <1>0, <2>2
  <2> HIDE DEF lens
  <2>6. \A i \in 1 .. Len(packs) : /\ lens[i] <= Len(packs[i])
                                   /\ i < Len(packs) => lens[i] = Len(packs[i])
                                   /\ flushed.packs[i] <= lens[i]
    <3>1. \A i \in 1 .. Len(packs) : /\ flushed.packs[i] <= Len(packs[i])
                                     /\ i < Len(packs) => flushed.packs[i] = Len(packs[i])
      BY <1>0 DEF FlushInv
    <3>2. lens[k] = Len(packs[k])
      BY <2>4
    <3> HIDE DEF n
    <3> QED
      BY <1>1, <2>1, <2>4, <3>1, <3>2
  <2>7. /\ flushed.tier1 <= flushed'.tier1 /\ flushed.map <= flushed'.map
        /\ flushed'.tier1 <= Len(tier1') /\ flushed'.map <= Len(map')
    BY <1>0, <1>f, <2>2, <2>5 DEF files
  <2>8. packs' = packs
    BY <2>2 DEF files
  <2>9. FlushInv'
    BY <2>4, <2>5, <2>6, <2>7, <2>8 DEF FlushInv
  <2> QED
    BY <2>5, <2>6, <2>7, <2>9
<1>6. CASE FsyncTier1(p)
  <2>1. UNCHANGED files /\ flushed'.packs = flushed.packs /\ flushed'.map = flushed.map
        /\ flushed'.tier1 = Len(tier1)
    BY <1>0, <1>6 DEF FsyncTier1
  <2> QED
    BY <1>0, <1>1, <1>2, <1>f, <2>1, SMTT(30) DEF FlushInv, files
<1>7. CASE FsyncMap(p)
  <2>1. UNCHANGED files /\ flushed'.packs = flushed.packs /\ flushed'.tier1 = flushed.tier1
        /\ flushed'.map = Len(map)
    BY <1>0, <1>7 DEF FsyncMap
  <2> QED
    BY <1>0, <1>1, <1>2, <1>f, <2>1, SMTT(30) DEF FlushInv, files
<1>8. CASE ~FsyncPack(p) /\ ~FsyncTier1(p) /\ ~FsyncMap(p) /\ ~(\E o \in use.objects : PutBlob(p, o))
  BY <1>4, <1>8 DEF Step, Open, Acquire, Release, Abandon, PutKnown, PutStored, AppendTier1,
     AppendMap, Flush, SyncCovered, SyncLock, SyncLocked, SyncSkip, SyncEofs, SyncMark, Crash,
     files, device, Ack
<1> QED
  BY <1>3, <1>5, <1>6, <1>7, <1>8

\* An object that put() finds there can be read (Mapped, Stored).
LEMMA FoundIsHeld ==
    ASSUME OdbAssumption, FileInv, NEW p \in Proc, pc[p] # "closed"
    PROVE  /\ BlobsSeen(p) \subseteq Blobs /\ ObjectsSeen(p) \subseteq Elements(map)
           /\ \A o : Mapped(p, o) => /\ o \in Elements(map)
                                     /\ Held(o, Blobs, Elements(tier1))
           /\ \A o : Stored(p, o) => Held(o, Blobs, Elements(tier1))
<1>1. /\ TypeOK /\ LockInv /\ PrismInv /\ ContentInv /\ Within(view[p])
      /\ packs \in Seq(Seq(Obj)) /\ map \in Seq(Obj) /\ Len(map) \in Nat /\ view[p] \in Views
  BY LenProperties DEF FileInv, LockInv, TypeOK, Views
<1>2. BlobsSeen(p) \subseteq Blobs
  <2>1. PacksLonger(packs, packs)
    <3>1. \A i \in 1 .. Len(packs) : packs[i] \in Seq(Obj)
      BY <1>1, ElementOfSeq
    <3>2. Len(packs) \in Nat /\ \A i \in 1 .. Len(packs) : Len(packs[i]) \in Nat
      BY <1>1, <3>1, LenProperties
    <3> QED
      BY <3>2 DEF PacksLonger, Longer
  <2>2. Seen(packs, view[p]) \subseteq All(packs)
    BY <1>1, <2>1, SeenIsKept DEF Within
  <2> QED
    BY <2>2 DEF BlobsSeen, Blobs, All
<1>3. ObjectsSeen(p) \subseteq Elements(map)
  <2>1. view[p].map \in 0 .. Len(map)
    BY <1>1 DEF Within
  <2>2. 1 .. view[p].map \subseteq 1 .. Len(map)
    BY <1>1, <2>1
  <2> QED
    BY <2>2 DEF ObjectsSeen, Elements, First
<1>4. use.prismatic = {} \/ view[p].prisms = Elements(tier1)
  BY <1>1 DEF PrismInv
<1>5. ASSUME NEW o, Mapped(p, o)
      PROVE  o \in Elements(map) /\ Held(o, Blobs, Elements(tier1))
  BY <1>1, <1>3, <1>5 DEF Mapped, ContentInv, MappedHasContent
<1>6. ASSUME NEW o, Stored(p, o)
      PROVE  Held(o, Blobs, Elements(tier1))
  <2>1. CASE o \in use.prismatic
    BY <1>1, <1>4, <1>6, <2>1 DEF Stored, Held, ContentInv
  <2>2. CASE o \notin use.prismatic
    BY <1>2, <1>6, <2>2 DEF Stored, Held
  <2> QED
    BY <2>1, <2>2
<1> QED
  BY <1>2, <1>3, <1>5, <1>6

\* Content that is there stays there.
LEMMA ContentStays ==
    ASSUME OdbAssumption, FileInv, NEW p \in Proc, Step(p)
    PROVE  /\ Blobs \subseteq Blobs' /\ Elements(tier1) \subseteq Elements(tier1')
           /\ Elements(map) \subseteq Elements(map')
           /\ \A o : Held(o, Blobs, Elements(tier1)) => Held(o, Blobs, Elements(tier1))'
<1>1. PacksLonger(packs, packs') /\ Longer(tier1, tier1') /\ Longer(map, map') /\ use' = use
  BY StepGrows, StepIsAlone DEF FileInv, Alone
<1>2. Elements(tier1) \subseteq Elements(tier1') /\ Elements(map) \subseteq Elements(map')
  BY <1>1, ElementsAreKept
<1>3. All(packs) \subseteq All(packs')
  <2>1. packs \in Seq(Seq(Obj)) /\ packs' \in Seq(Seq(Obj))
    BY StepTypes DEF FileInv, TypeOK
  <2>2. DOMAIN packs = 1 .. Len(packs) /\ DOMAIN packs' = 1 .. Len(packs')
    BY <2>1, LenProperties
  <2>3. \A i \in 1 .. Len(packs) : i \in 1 .. Len(packs')
                                   /\ Elements(packs[i]) \subseteq Elements(packs'[i])
    BY <1>1, ElementsAreKept DEF PacksLonger
  <2> QED
    BY <2>2, <2>3 DEF All
<1>4. Blobs = All(packs) /\ Blobs' = All(packs')
  BY DEF Blobs, All
<1> QED
  BY <1>1, <1>2, <1>3, <1>4 DEF Held

\* What the process has in hand, and what its batch names, can be read.
LEMMA OwnContent ==
    ASSUME OdbAssumption, FileInv, NEW p \in Proc, Step(p)
    PROVE  /\ Elements(tier1') \subseteq Blobs' /\ MappedHasContent'
           /\ pc'[p] = "tier1" => cur'[p] \in use'.prismatic \cap Blobs'
           /\ pc'[p] = "map" => /\ cur'[p] \notin use'.content
                                /\ Held(cur[p], Blobs, Elements(tier1))'
           /\ \A o \in batch'[p] : /\ Held(o, Blobs, Elements(tier1))'
                                   /\ o \notin use'.content => o \in Elements(map')
<1>0. /\ TypeOK /\ LockInv /\ ContentInv /\ FlushInv /\ PrismInv /\ use' = use
      /\ pc \in [Proc -> {"closed", "idle"} \cup Writing \cup Ending]
      /\ batch \in [Proc -> SUBSET Obj] /\ cur \in [Proc -> Obj \cup {None}]
      /\ tier1 \in Seq(Obj) /\ map \in Seq(Obj)
  BY StepIsAlone DEF FileInv, Alone, TypeOK
<1>1. /\ Blobs \subseteq Blobs' /\ Elements(tier1) \subseteq Elements(tier1')
      /\ Elements(map) \subseteq Elements(map')
      /\ \A o : Held(o, Blobs, Elements(tier1)) => Held(o, Blobs, Elements(tier1))'
  BY ContentStays
<1>2. /\ Elements(tier1) \subseteq Blobs
      /\ \A o \in Elements(map) : Held(o, Blobs, Elements(tier1))
      /\ pc[p] = "tier1" => cur[p] \in use.prismatic \cap Blobs
      /\ pc[p] = "map" => cur[p] \notin use.content /\ Held(cur[p], Blobs, Elements(tier1))
      /\ \A o \in batch[p] : /\ Held(o, Blobs, Elements(tier1))
                             /\ o \notin use.content => o \in Elements(map)
  BY <1>0 DEF ContentInv, MappedHasContent
<1> USE DEF Goto, files, device, locks, durable, Writing, Ending
<1>3. CASE \E o \in use.objects : PutKnown(p, o)
  <2>1. PICK o \in use.objects : PutKnown(p, o)
    BY <1>3
  <2>2. UNCHANGED files /\ batch'[p] = batch[p] \cup {o} /\ pc'[p] = "batch"
    BY <1>0, <2>1 DEF PutKnown
  <2>3. Held(o, Blobs, Elements(tier1)) /\ (o \notin use.content => o \in Elements(map))
    <3>1. pc[p] # "closed" /\ (Mapped(p, o) \/ (o \in use.content /\ Stored(p, o)))
      BY <2>1 DEF PutKnown
    <3> QED
      BY <3>1, FoundIsHeld
  <2> QED
    BY <1>0, <1>1, <1>2, <2>2, <2>3 DEF MappedHasContent
<1>4. CASE \E o \in use.objects : PutStored(p, o)
  <2>1. PICK o \in use.objects : PutStored(p, o)
    BY <1>4
  <2>2. UNCHANGED files /\ batch' = batch /\ pc'[p] = "map" /\ cur'[p] = o /\ o \notin use.content
    BY <1>0, <2>1 DEF PutStored
  <2>3. Held(o, Blobs, Elements(tier1))
    <3>1. pc[p] # "closed" /\ Stored(p, o)
      BY <2>1 DEF PutStored
    <3> QED
      BY <3>1, FoundIsHeld
  <2>4. Held(o, Blobs, Elements(tier1))'
    BY <1>1, <2>3
  <2>5. Held(cur[p], Blobs, Elements(tier1))'
    BY <2>2, <2>4
  <2> QED
    BY <1>0, <1>1, <1>2, <2>2, <2>5 DEF MappedHasContent
<1>5. CASE \E o \in use.objects : PutBlob(p, o)
  <2>1. PICK o \in use.objects : PutBlob(p, o)
    BY <1>5
  <2>2. tier1' = tier1 /\ map' = map /\ cur'[p] = o /\ pc[p] = "batch" /\ o \in Obj
    BY <1>0, <2>1 DEF PutBlob, TypeOK, OdbAssumption, Use
  <2>3. o \in Blobs'
    <3>1. CASE o \in BlobsSeen(p)
      BY <1>1, <2>2, <3>1, FoundIsHeld
    <3>2. CASE AppendBlob(p, o)
      <4>1. Current(view[p])
        BY <1>0, <2>2 DEF LockInv
      <4>2. All(packs') = All(packs) \cup {o}
        BY <1>0, <2>2, <3>2, <4>1, AppendBlobProperties
      <4> QED
        BY <4>2 DEF All, Blobs
    <3> QED
      BY <2>1, <3>1, <3>2 DEF PutBlob
  <2>4. CASE o \in use.prismatic
    <3>1. pc'[p] = "tier1" /\ batch' = batch
      BY <1>0, <2>1, <2>4 DEF PutBlob
    <3> QED
      BY <1>0, <1>1, <1>2, <2>2, <2>3, <2>4, <3>1 DEF MappedHasContent
  <2>5. CASE o \notin use.prismatic
    <3>1. /\ pc'[p] = AfterBlob(o)
          /\ batch'[p] = IF o \in use.content THEN batch[p] \cup {o} ELSE batch[p]
      BY <1>0, <2>1, <2>5 DEF PutBlob
    <3>2. Held(o, Blobs, Elements(tier1))'
      BY <1>0, <2>3, <2>5 DEF Held
    <3>3. pc'[p] # "tier1" /\ (pc'[p] = "map" => o \notin use.content)
      BY <3>1 DEF AfterBlob
    <3>4. Held(cur[p], Blobs, Elements(tier1))'
      BY <2>2, <3>2
    <3> QED
      BY <1>0, <1>1, <1>2, <2>2, <3>1, <3>2, <3>3, <3>4 DEF MappedHasContent
  <2> QED
    BY <2>4, <2>5
<1>6. CASE AppendTier1(p)
  <2>1. cur[p] \in use.prismatic \cap Blobs /\ tier1' = Append(tier1, cur[p]) /\ cur[p] \in Obj
    BY <1>0, <1>2, <1>6, Tier1Appends DEF AppendTier1
  <2>2. Elements(tier1') = Elements(tier1) \cup {cur[p]}
    BY <1>0, <2>1, AppendLengthens
  <2>3. /\ packs' = packs /\ map' = map /\ cur' = cur /\ pc'[p] = AfterBlob(cur[p])
        /\ batch'[p] = IF cur[p] \in use.content THEN batch[p] \cup {cur[p]} ELSE batch[p]
    BY <1>0, <1>6 DEF AppendTier1
  <2>4. Blobs' = Blobs
    BY <2>3 DEF Blobs
  <2>5. Held(cur[p], Blobs, Elements(tier1))'
    BY <2>1, <2>2, <2>3, <2>4 DEF Held
  <2>6. pc'[p] # "tier1" /\ (pc'[p] = "map" => cur[p] \notin use.content)
    BY <2>3 DEF AfterBlob
  <2>7. \A o \in batch'[p] : (o = cur[p] /\ o \in use.content) \/ o \in batch[p]
    BY <2>3
  <2>8. \A o \in batch'[p] : Held(o, Blobs, Elements(tier1))'
    BY <1>1, <1>2, <2>3, <2>5, <2>7
  <2>9. MappedHasContent'
    BY <1>1, <1>2, <2>3 DEF MappedHasContent
  <2> QED
    BY <1>0, <1>2, <2>1, <2>2, <2>3, <2>4, <2>5, <2>6, <2>7, <2>8, <2>9
<1>7. CASE AppendMap(p)
  <2>1. map' = Append(map, cur[p]) /\ cur[p] \in Obj
    BY <1>0, <1>7, MapAppends
  <2>2. Elements(map') = Elements(map) \cup {cur[p]}
    BY <1>0, <2>1, AppendLengthens
  <2>3. /\ packs' = packs /\ tier1' = tier1 /\ pc[p] = "map" /\ pc'[p] = "batch"
        /\ batch'[p] = batch[p] \cup {cur[p]}
    BY <1>0, <1>7 DEF AppendMap
  <2>4. Held(cur[p], Blobs, Elements(tier1))
    BY <1>2, <2>3
  <2>5. \A o \in Elements(map') : Held(o, Blobs, Elements(tier1))'
    BY <1>1, <1>2, <2>2, <2>4
  <2>6. \A o \in batch'[p] : Held(o, Blobs, Elements(tier1))'
    BY <1>1, <1>2, <2>3, <2>4
  <2> QED
    BY <1>0, <1>1, <1>2, <2>2, <2>3, <2>5, <2>6 DEF MappedHasContent
<1>8. CASE /\ ~AppendTier1(p) /\ ~AppendMap(p)
           /\ ~(\E o \in use.objects : PutBlob(p, o) \/ PutStored(p, o) \/ PutKnown(p, o))
  <2>1. UNCHANGED files /\ batch'[p] \subseteq batch[p] /\ pc'[p] \notin {"tier1", "map"}
    BY <1>0, <1>8 DEF Step, Open, Acquire, Release, Abandon, Flush, SyncCovered,
       SyncLock, SyncLocked, SyncSkip, SyncEofs, FsyncPack, FsyncTier1, FsyncMap, SyncMark,
       Crash, Ack
  <2> QED
    BY <1>0, <1>1, <1>2, <2>1 DEF MappedHasContent
<1> QED
  BY <1>3, <1>4, <1>5, <1>6, <1>7, <1>8

LEMMA StepContent ==
    ASSUME OdbAssumption, OneWriterOfPrisms, FileInv, NEW p \in Proc, Step(p)
    PROVE  ContentInv'
<1>0. /\ TypeOK /\ LockInv /\ ContentInv /\ Alone(p) /\ LockInv' /\ PrismInv' /\ TypeOK'
      /\ MappedHasContent'
  BY StepIsAlone, StepLocks, StepPrisms, StepTypes, OwnContent DEF FileInv
<1>1. ASSUME NEW q \in Proc, q # p
      PROVE  /\ pc'[q] = "tier1" => cur'[q] \in use'.prismatic \cap Blobs'
             /\ pc'[q] = "map" => /\ cur'[q] \notin use'.content
                                  /\ Held(cur[q], Blobs, Elements(tier1))'
             /\ \A o \in batch'[q] : /\ Held(o, Blobs, Elements(tier1))'
                                     /\ o \notin use'.content => o \in Elements(map')
  <2>1. use' = use /\ pc'[q] = pc[q] /\ cur'[q] = cur[q] /\ batch'[q] = batch[q]
    BY <1>0, <1>1 DEF Alone
  <2>2. /\ pc[q] = "tier1" => cur[q] \in use.prismatic \cap Blobs
        /\ pc[q] = "map" => cur[q] \notin use.content /\ Held(cur[q], Blobs, Elements(tier1))
        /\ \A o \in batch[q] : /\ Held(o, Blobs, Elements(tier1))
                               /\ o \notin use.content => o \in Elements(map)
    BY <1>0 DEF ContentInv
  <2>3. /\ Blobs \subseteq Blobs' /\ Elements(map) \subseteq Elements(map')
        /\ \A o : Held(o, Blobs, Elements(tier1)) => Held(o, Blobs, Elements(tier1))'
    BY ContentStays
  <2>4. pc[q] = "map" => Held(cur[q], Blobs, Elements(tier1))'
    <3>1. pc[q] = "map" => LET o == cur[q] IN Held(o, Blobs, Elements(tier1))
      BY <2>2
    <3> QED
      BY <2>1, <2>2, <2>3 DEF Held
  <2> QED
    BY <2>1, <2>2, <2>3, <2>4
<1>2. ASSUME NEW q \in Proc
      PROVE  \A o \in ObjectsSeen(q)' : Held(o, BlobsSeen(q), view[q].prisms)'
  <2>1. CASE pc'[q] = "closed"
    <3>1. view'[q].map = 0
      BY <1>0, <2>1 DEF LockInv, NoView
    <3>2. ObjectsSeen(q)' = {}
      BY <3>1 DEF ObjectsSeen, First
    <3> QED
      BY <3>2
  <2>2. CASE pc[q] # "closed" /\ view'[q] = view[q]
    <3>1. BlobsSeen(q)' = BlobsSeen(q) /\ ObjectsSeen(q)' = ObjectsSeen(q) /\ use' = use
      BY <1>0, <2>2, ViewIsKept DEF BlobsSeen, ObjectsSeen, Alone
    <3>2. \A o \in ObjectsSeen(q) : Held(o, BlobsSeen(q), view[q].prisms)
      BY <1>0 DEF ContentInv, ViewHasContent
    <3> QED
      BY <2>2, <3>1, <3>2 DEF Held
  <2>3. CASE pc'[q] # "closed" /\ Current(view[q])'
    <3>1. /\ view'[q].active = Len(packs') /\ view'[q].pack = Len(packs'[Len(packs')])
          /\ view'[q].map = Len(map') /\ packs' \in Seq(Seq(Obj)) /\ Len(packs') > 0
      BY <1>0, <2>3 DEF Current, TypeOK, LockInv
    <3>2. Seen(packs', view'[q]) = All(packs')
      BY <3>1, CurrentSeesAll
    <3>3. BlobsSeen(q)' = Blobs' /\ ObjectsSeen(q)' = Elements(map')
      BY <3>1, <3>2 DEF BlobsSeen, ObjectsSeen, Elements, Blobs, All
    <3>4. use'.prismatic = {} \/ view'[q].prisms = Elements(tier1')
      BY <1>0, <2>3 DEF PrismInv
    <3>5. \A o \in Elements(map') : Held(o, Blobs, Elements(tier1))'
      BY <1>0 DEF MappedHasContent
    <3> QED
      BY <3>3, <3>4, <3>5 DEF Held
  <2>4. CASE q # p
    <3>1. pc'[q] = pc[q] /\ view'[q] = view[q]
      BY <1>0, <2>4 DEF Alone
    <3> QED
      BY <2>1, <2>2, <3>1
  <2>5. CASE q = p
    <3>1. view \in [Proc -> Views] /\ pc \in [Proc -> {"closed", "idle"} \cup Writing \cup Ending]
      BY <1>0 DEF TypeOK, Views
    <3>2. CASE Open(p)
      <4>1. pc'[p] = "idle" /\ Current(view[p])'
        BY <3>1, <3>2 DEF Open, Goto, Current, ActiveSeq, Views, files
      <4> QED
        BY <2>3, <2>5, <4>1
    <3>3. CASE lock' = p
      <4>1. pc'[p] # "closed" /\ Current(view[p])'
        BY <3>3, OwnLock DEF Writing
      <4> QED
        BY <2>3, <2>5, <4>1
    <3>4. CASE Crash(p)
      <4>1. pc'[p] = "closed"
        BY <3>1, <3>4 DEF Crash, Goto
      <4> QED
        BY <2>1, <2>5, <4>1
    <3>5. CASE ~Open(p) /\ lock' # p /\ ~Crash(p)
      <4>1. pc[p] # "closed" /\ view'[p] = view[p]
        BY <1>0, <3>1, <3>5 DEF Step, Acquire, Release, Abandon, PutKnown, PutStored, PutBlob,
           AppendTier1, AppendMap, Flush, SyncCovered, SyncLock, SyncLocked, SyncSkip, SyncEofs,
           FsyncPack, FsyncTier1, FsyncMap, SyncMark, Ack, LockInv, Writing, locks
      <4> QED
        BY <2>2, <2>5, <4>1
    <3> QED
      BY <3>2, <3>3, <3>4, <3>5
  <2> QED
    BY <2>4, <2>5
<1>3. ViewHasContent'
  BY <1>2 DEF ViewHasContent
<1> QED
  BY <1>0, <1>1, <1>3, OwnContent DEF ContentInv

-----------------------------------------------------------------------------
(* The invariant holds of every use that keeps to OneWriterOfPrisms.       *)

LEMMA InitFiles ==
    ASSUME OdbAssumption, Init
    PROVE  FileInv
<1> DEFINE S == Seq(Obj)
<1>1. /\ use \in Uses /\ packs = << <<>> >> /\ tier1 = <<>> /\ map = <<>>
      /\ flushed = [packs |-> <<0>>, tier1 |-> 0, map |-> 0]
      /\ \A p \in Proc : pc[p] = "closed" /\ view[p] = NoView /\ batch[p] = {}
      /\ lock = None
  BY DEF Init
<1>2. /\ <<>> \in Seq(Obj) /\ Len(<<>>) = 0 /\ Elements(<<>>) = {}
  BY EmptySeq DEF Elements, First
<1>3. /\ packs \in Seq(S) /\ Len(packs) = 1 /\ packs[1] = <<>>
      /\ flushed.packs \in Seq(Nat) /\ Len(flushed.packs) = 1 /\ flushed.packs[1] = 0
  <2>1. <<>> \in S
    BY <1>2
  <2> HIDE DEF S
  <2> QED
    BY <1>1, <2>1
<1>4. TypeOK
  <2>1. /\ view \in [Proc -> Views] /\ cur \in [Proc -> Obj \cup {None}]
        /\ batch \in [Proc -> SUBSET Obj] /\ target \in [Proc -> Lens] /\ eofs \in [Proc -> Lens]
        /\ pc \in [Proc -> {"closed", "idle"} \cup Writing \cup Ending]
    BY DEF Init, Views, NoView, Lens
  <2> QED
    BY <1>1, <1>2, <1>3, <2>1 DEF Init, TypeOK, Views, Lens
<1>5. LockInv
  BY <1>1, <1>3 DEF LockInv, OdbAssumption, Writing
<1>6. PrismInv
  BY <1>1 DEF PrismInv
<1>7. ContentInv
  <2>1. \A p \in Proc : ObjectsSeen(p) = {}
    BY <1>1 DEF ObjectsSeen, First, NoView
  <2>2. Elements(tier1) = {} /\ Elements(map) = {}
    BY <1>1, <1>2
  <2> QED
    BY <1>1, <2>1, <2>2 DEF ContentInv, MappedHasContent, ViewHasContent
<1>8. FlushInv
  <2>1. \A i \in 1 .. 1 : i = 1
    OBVIOUS
  <2> QED
    BY <1>1, <1>2, <1>3, <2>1 DEF FlushInv
<1> QED
  BY <1>4, <1>5, <1>6, <1>7, <1>8 DEF FileInv

LEMMA StutterKeepsFiles ==
    ASSUME FileInv, UNCHANGED vars
    PROVE  FileInv'
<1> USE DEF vars, files, device, locks, durable
<1>1. TypeOK' /\ LockInv' /\ PrismInv'
  BY DEF FileInv, TypeOK, LockInv, PrismInv, Current, Within
<1>2. FlushInv'
  BY DEF FileInv, FlushInv
<1>3. Blobs' = Blobs /\ \A q \in Proc : /\ ObjectsSeen(q)' = ObjectsSeen(q)
                                        /\ BlobsSeen(q)' = BlobsSeen(q)
  BY DEF Blobs, ObjectsSeen, BlobsSeen
<1>4. ContentInv'
  BY <1>3 DEF FileInv, ContentInv, MappedHasContent, ViewHasContent, Held
<1> QED
  BY <1>1, <1>2, <1>4 DEF FileInv

LEMMA StepKeepsFiles ==
    ASSUME OdbAssumption, OneWriterOfPrisms, FileInv, [Next]_vars
    PROVE  FileInv'
<1>1. CASE Next
  <2>1. PICK p \in Proc : Step(p)
    BY <1>1 DEF Next
  <2> QED
    BY <2>1, StepTypes, StepLocks, StepPrisms, StepContent, StepFlushes DEF FileInv
<1>2. CASE UNCHANGED vars
  BY <1>2, StutterKeepsFiles
<1> QED
  BY <1>1, <1>2

\* Who holds odb.lock has read all there is, what is named can be read, and the
\* device holds a part of every file, whatever the processes do and wherever they
\* crash (acquire, put, append_record, seal_and_roll, Tier1Map and ObjectMap).
THEOREM FilesInvariant ==
    ASSUME OneWriterOfPrisms
    PROVE  Spec => []FileInv
<1>1. Init => FileInv
  BY InitFiles, OdbAssumption
<1>2. FileInv /\ [Next]_vars => FileInv'
  BY StepKeepsFiles, OdbAssumption
<1> QED
  BY <1>1, <1>2, PTL DEF Spec

\* The variables of Odb keep their types.
THEOREM OdbTypes ==
    ASSUME OneWriterOfPrisms
    PROVE  Spec => []TypeOK
<1>1. FileInv => TypeOK
  BY DEF FileInv
<1> QED
  BY <1>1, FilesInvariant, PTL

\* An object that map.alt names can be read back: put() stores the blob, and the
\* record of a prism, before the identity, and no later step takes either away.
THEOREM MappedObjectsHaveContent ==
    ASSUME OneWriterOfPrisms
    PROVE  Spec => []MappedHasContent
<1>1. FileInv => MappedHasContent
  BY DEF FileInv, ContentInv
<1> QED
  BY <1>1, FilesInvariant, PTL

\* The same in the memory of a process that keeps the store open, whoever appends
\* meanwhile (sync_from_disk catches up on the blobs with the map).
THEOREM ViewsHaveContent ==
    ASSUME OneWriterOfPrisms
    PROVE  Spec => []ViewHasContent
<1>1. FileInv => ViewHasContent
  BY DEF FileInv, ContentInv
<1> QED
  BY <1>1, FilesInvariant, PTL

\* Files that are longer in the sense above grow in the sense of the property.
LEMMA LongerGrows ==
    ASSUME NEW S, NEW s \in Seq(S), NEW t \in Seq(S), Longer(s, t)
    PROVE  Grows(s, t)
<1>1. Len(s) \in Nat /\ Len(t) \in Nat /\ Len(s) <= Len(t) /\ \A j \in 1 .. Len(s) : t[j] = s[j]
  BY DEF Longer
<1> DEFINE n == Len(s)
<1>2. SubSeq(t, 1, n) \in Seq(S) /\ Len(SubSeq(t, 1, n)) = n
      /\ \A j \in 1 .. n : SubSeq(t, 1, n)[j] = t[j]
  <2>1. n = 0 \/ (1 \in 1 .. Len(t) + 1 /\ n \in 0 .. Len(t))
    BY <1>1
  <2>2. \A i \in 1 .. n : i \in 1 .. Len(t)
    BY <1>1
  <2> QED
    BY <1>1, <2>1, <2>2
<1>3. SubSeq(t, 1, n) = s
  BY <1>1, <1>2, SeqEqual
<1> QED
  BY <1>1, <1>3 DEF Grows

\* No record of the packs, tier1 or map.alt is ever overwritten or cut: who appends
\* has read up to the end of the file (ObjectMap::append, Tier1Map::append, acquire).
THEOREM FilesGrow ==
    ASSUME OneWriterOfPrisms
    PROVE  Spec => FilesOnlyGrow
<1>1. ASSUME FileInv, [Next]_vars
      PROVE  [Grows(map, map') /\ Grows(tier1, tier1')
              /\ \A i \in DOMAIN packs : Grows(packs[i], packs'[i])]_vars
  <2>1. CASE UNCHANGED vars
    BY <2>1
  <2>2. CASE Next
    <3>1. PICK p \in Proc : Step(p)
      BY <2>2 DEF Next
    <3>2. PacksLonger(packs, packs') /\ Longer(tier1, tier1') /\ Longer(map, map')
      BY <1>1, <3>1, OdbAssumption, StepGrows
    <3>3. TypeOK /\ TypeOK'
      BY <1>1, <3>1, OdbAssumption, StepTypes DEF FileInv
    <3>4. Grows(map, map') /\ Grows(tier1, tier1')
      BY <3>2, <3>3, LongerGrows DEF TypeOK
    <3>5. ASSUME NEW i \in DOMAIN packs
          PROVE  Grows(packs[i], packs'[i])
      <4>1. i \in 1 .. Len(packs) /\ packs \in Seq(Seq(Obj)) /\ packs' \in Seq(Seq(Obj))
        BY <3>3, LenProperties DEF TypeOK
      <4>2. i \in 1 .. Len(packs') /\ Longer(packs[i], packs'[i])
        BY <3>2, <4>1 DEF PacksLonger
      <4>3. packs[i] \in Seq(Obj) /\ packs'[i] \in Seq(Obj)
        BY <4>1, <4>2, ElementOfSeq
      <4> QED
        BY <4>2, <4>3, LongerGrows
    <3> QED
      BY <3>4, <3>5
  <2> QED
    BY <1>1, <2>1, <2>2
<1> QED
  BY <1>1, FilesInvariant, PTL DEF Spec, FilesOnlyGrow

-----------------------------------------------------------------------------
(* Durability, where the marker suffices.                                  *)

LEMMA FirstGrows ==
    ASSUME NEW s, NEW t, Longer(s, t), NEW n \in Nat, NEW m \in Nat, n <= m, n <= Len(s)
    PROVE  First(s, n) \subseteq First(t, m)
<1>1. 1 .. n \subseteq 1 .. Len(s) /\ 1 .. n \subseteq 1 .. m
  BY DEF Longer
<1> QED
  BY <1>1 DEF Longer, First

\* What is on the device stays there.
LEMMA FlushedStays ==
    ASSUME OdbAssumption, FileInv, NEW p \in Proc, Step(p)
    PROVE  /\ FlushedBlobs \subseteq FlushedBlobs'
           /\ First(tier1, flushed.tier1) \subseteq First(tier1', flushed'.tier1)
           /\ First(map, flushed.map) \subseteq First(map', flushed'.map)
<1>1. /\ PacksLonger(packs, packs') /\ Longer(tier1, tier1') /\ Longer(map, map')
      /\ FlushInv /\ TypeOK /\ TypeOK' /\ FlushInv'
      /\ \A i \in 1 .. Len(packs) : flushed.packs[i] <= flushed'.packs[i]
      /\ flushed.tier1 <= flushed'.tier1 /\ flushed.map <= flushed'.map
  BY StepGrows, StepFlushes, StepTypes DEF FileInv
<1>2. /\ flushed.tier1 \in Nat /\ flushed.map \in Nat
      /\ flushed'.tier1 \in Nat /\ flushed'.map \in Nat
      /\ flushed.tier1 <= Len(tier1) /\ flushed.map <= Len(map)
  BY <1>1 DEF TypeOK, FlushInv
<1>3. DOMAIN packs = 1 .. Len(packs) /\ DOMAIN packs' = 1 .. Len(packs')
  BY <1>1, LenProperties DEF TypeOK
<1>4. ASSUME NEW i \in 1 .. Len(packs)
      PROVE  i \in 1 .. Len(packs')
             /\ First(packs[i], flushed.packs[i]) \subseteq First(packs'[i], flushed'.packs[i])
  <2>1. i \in 1 .. Len(packs') /\ Longer(packs[i], packs'[i])
    BY <1>1 DEF PacksLonger
  <2>2. /\ flushed.packs \in Seq(Nat) /\ flushed'.packs \in Seq(Nat)
        /\ Len(flushed.packs) = Len(packs) /\ Len(flushed'.packs) = Len(packs')
        /\ flushed.packs[i] <= Len(packs[i])
    BY <1>1 DEF TypeOK, FlushInv
  <2>3. flushed.packs[i] \in Nat /\ flushed'.packs[i] \in Nat
    BY <2>1, <2>2, ElementOfSeq
  <2> QED
    BY <1>1, <2>1, <2>2, <2>3, FirstGrows, SMTT(30)
<1>5. FlushedBlobs \subseteq FlushedBlobs'
  BY <1>3, <1>4 DEF FlushedBlobs
<1> QED
  BY <1>1, <1>2, <1>5, FirstGrows

\* With fewer objects than fill a pack, none fills up (seal_and_roll).
LEMMA NeverFull ==
    ASSUME OdbAssumption, MarkerSuffices, FileInv, OnePack, Marked,
           NEW p \in Proc, NEW o \in use.objects, PutBlob(p, o), o \notin BlobsSeen(p)
    PROVE  /\ packs' = [packs EXCEPT ![1] = Append(packs[1], o)]
           /\ o \notin Elements(packs[1])
<1>1. /\ use \in Use /\ use.objects \subseteq Obj /\ IsFiniteSet(use.objects)
      /\ Cardinality(use.objects) < use.sealAt /\ use.sealAt \in Nat
  BY DEF FileInv, TypeOK, OdbAssumption, Use, Marked, MarkerSuffices
<1>2. /\ Len(packs) = 1 /\ Elements(packs[1]) \subseteq use.objects
      /\ \A i, j \in 1 .. Len(packs[1]) : packs[1][i] = packs[1][j] => i = j
      /\ packs \in Seq(Seq(Obj)) /\ Len(packs) > 0 /\ 1 \in 1 .. Len(packs)
      /\ packs[Len(packs)] = packs[1]
  <2>1. Len(packs) = 1 /\ packs \in Seq(Seq(Obj))
    BY DEF OnePack, FileInv, TypeOK
  <2>2. 1 \in 1 .. 1
    OBVIOUS
  <2> QED
    BY <2>1, <2>2 DEF OnePack
<1>3. view[p].active = 1 /\ view[p].pack = Len(packs[1])
  <2>1. Current(view[p])
    BY DEF PutBlob, FileInv, LockInv, Writing
  <2> QED
    BY <1>2, <2>1 DEF Current
<1>4. packs[1] \in Seq(Obj) /\ o \in Obj
  BY <1>1, <1>2, ElementOfSeq
<1> DEFINE n       == Len(packs[1])
           written == Append(packs[1], o)
           f       == [i \in 1 .. n + 1 |-> IF i = n + 1 THEN o ELSE packs[1][i]]
<1>5. n \in Nat /\ Len(written) = n + 1 /\ SubSeq(packs[1], 1, n) = packs[1]
  BY <1>4, LenProperties, AppendLengthens
<1>6. \A i \in 1 .. n + 1 : i = n + 1 \/ (i \in 1 .. n /\ i # n + 1)
  BY <1>5
<1>7. o \notin Elements(packs[1])
  <2>1. Seen(packs, view[p]) = All(packs)
    BY <1>2, <1>3, CurrentSeesAll
  <2>2. Elements(packs[1]) \subseteq All(packs)
    <3>1. DOMAIN packs = 1 .. 1
      BY <1>2, LenProperties
    <3>2. 1 \in 1 .. 1
      OBVIOUS
    <3> QED
      BY <3>1, <3>2 DEF All
  <2> QED
    BY <2>1, <2>2 DEF BlobsSeen
<1>8. f \in Injection(1 .. n + 1, use.objects)
  <2>1. \A i \in 1 .. n : packs[1][i] \in use.objects /\ packs[1][i] # o
    BY <1>2, <1>7 DEF Elements, First
  <2>2. f \in [1 .. n + 1 -> use.objects]
    BY <1>6, <2>1
  <2>3. \A i, j \in 1 .. n + 1 : f[i] = f[j] => i = j
    BY <1>2, <1>6, <2>1
  <2> QED
    BY <2>2, <2>3 DEF Injection, IsInjective
<1>9. Cardinality(1 .. n + 1) = n + 1
  <2>1. n + 1 \in Int /\ 1 \in Int /\ 1 <= n + 1 /\ n + 1 - 1 + 1 = n + 1
    BY <1>5
  <2> HIDE DEF n
  <2> QED
    BY <2>1, FS_Interval
<1>10. n + 1 <= Cardinality(use.objects)
  <2> HIDE DEF n, f
  <2> QED
    BY <1>1, <1>8, <1>9, FS_Injection
<1>11. ~(n + 1 >= use.sealAt)
  <2>1. Cardinality(use.objects) \in Nat
    BY <1>1, FS_CardinalityType
  <2> QED
    BY <1>1, <1>5, <1>10, <2>1
<1>12. AppendBlob(p, o)
  BY DEF PutBlob
<1> QED
  BY <1>3, <1>5, <1>7, <1>11, <1>12 DEF AppendBlob

LEMMA StepKeepsOnePack ==
    ASSUME OdbAssumption, MarkerSuffices, FileInv, OnePack, NEW p \in Proc, Step(p)
    PROVE  OnePack'
<1>1. use' = use /\ (Marked' <=> Marked)
  BY StepIsAlone DEF FileInv, Alone, Marked
<1>2. CASE UNCHANGED packs
  BY <1>1, <1>2 DEF OnePack
<1>3. CASE Marked /\ \E o \in use.objects : PutBlob(p, o) /\ o \notin BlobsSeen(p)
  <2>1. PICK o \in use.objects : PutBlob(p, o) /\ o \notin BlobsSeen(p)
    BY <1>3
  <2>2. packs' = [packs EXCEPT ![1] = Append(packs[1], o)] /\ o \notin Elements(packs[1])
    BY <1>3, <2>1, NeverFull
  <2>3. /\ Len(packs) = 1 /\ Elements(packs[1]) \subseteq use.objects
        /\ \A i, j \in 1 .. Len(packs[1]) : packs[1][i] = packs[1][j] => i = j
        /\ packs \in Seq(Seq(Obj)) /\ o \in Obj
    BY <1>3 DEF OnePack, FileInv, TypeOK, OdbAssumption, Use
  <2>4. 1 \in 1 .. Len(packs)
    <3>1. 1 \in 1 .. 1
      OBVIOUS
    <3> QED
      BY <2>3, <3>1
  <2>5. packs[1] \in Seq(Obj)
    BY <2>3, <2>4, ElementOfSeq
  <2>6. Len(packs') = 1 /\ packs'[1] = Append(packs[1], o)
    <3> DEFINE S == Seq(Obj)
               written == Append(packs[1], o)
    <3>1. packs \in Seq(S) /\ written \in S
      BY <2>3, <2>5, AppendProperties
    <3> HIDE DEF S, written
    <3>2. Len([packs EXCEPT ![1] = written]) = Len(packs) /\ [packs EXCEPT ![1] = written][1] = written
      BY <2>4, <3>1, ExceptSeq
    <3> QED
      BY <2>2, <2>3, <3>2 DEF written
  <2> DEFINE n == Len(packs[1])
  <2>7. /\ n \in Nat /\ Len(packs'[1]) = n + 1 /\ packs'[1][n + 1] = o
        /\ \A i \in 1 .. n : packs'[1][i] = packs[1][i]
        /\ Elements(packs'[1]) = Elements(packs[1]) \cup {o}
    BY <2>3, <2>5, <2>6, LenProperties, AppendProperties, AppendLengthens
  <2>8. \A i \in 1 .. n : packs[1][i] # o
    BY <2>2 DEF Elements, First
  <2>9. \A i \in 1 .. n + 1 : i = n + 1 \/ i \in 1 .. n
    BY <2>7
  <2>10. \A i, j \in 1 .. n + 1 : packs'[1][i] = packs'[1][j] => i = j
    BY <2>3, <2>7, <2>8, <2>9
  <2>11. Elements(packs'[1]) \subseteq use.objects
    BY <2>3, <2>7
  <2> QED
    BY <1>1, <2>6, <2>7, <2>10, <2>11 DEF OnePack
<1>4. CASE ~Marked
  BY <1>1, <1>4 DEF OnePack
<1> QED
  BY <1>2, <1>3, <1>4 DEF Step, Open, Acquire, Release, Abandon, PutKnown, PutStored, PutBlob,
     AppendTier1, AppendMap, Flush, SyncCovered, SyncLock, SyncLocked, SyncSkip, SyncEofs,
     FsyncPack, FsyncTier1, FsyncMap, SyncMark, Crash, files

\* What a flush promises of an object.
Safe(o) ==
    /\ Held(o, FlushedBlobs, First(tier1, flushed.tier1))
    /\ o \notin use.content => o \in First(map, flushed.map)

LEMMA SafeStays ==
    ASSUME OdbAssumption, FileInv, NEW p \in Proc, Step(p), NEW o, Safe(o)
    PROVE  Safe(o)'
<1>1. use' = use
  BY StepIsAlone DEF FileInv, Alone
<1> QED
  BY <1>1, FlushedStays DEF Safe, Held

\* The packs the device holds are all there are, once the last one is flushed:
\* the others were when they were sealed (seal_and_roll).
LEMMA FsyncPackFlushes ==
    ASSUME OdbAssumption, FileInv, OnePack, NEW p \in Proc, FsyncPack(p)
    PROVE  /\ FlushedBlobs' = Blobs
           /\ Marked => flushed'.packs[1] = Len(packs[1])
           /\ flushed'.tier1 = flushed.tier1 /\ flushed'.map = flushed.map
<1> DEFINE k == Len(packs)
           n == Len(packs[k])
<1>1. /\ packs \in Seq(Seq(Obj)) /\ flushed.packs \in Seq(Nat) /\ Len(flushed.packs) = k
      /\ flushed \in [packs : Seq(Nat), tier1 : Nat, map : Nat]
      /\ k \in Nat /\ k > 0 /\ DOMAIN packs = 1 .. k /\ p \in use.procs
      /\ view[p].active \in 1 .. k
      /\ \A i \in 1 .. k : i < k => flushed.packs[i] = Len(packs[i])
  <2>1. /\ packs \in Seq(Seq(Obj)) /\ flushed.packs \in Seq(Nat) /\ Len(flushed.packs) = k
        /\ flushed \in [packs : Seq(Nat), tier1 : Nat, map : Nat]
        /\ k > 0 /\ \A i \in 1 .. k : i < k => flushed.packs[i] = Len(packs[i])
    BY DEF FileInv, TypeOK, LockInv, FlushInv
  <2>2. p \in use.procs /\ view[p].active \in 1 .. k
    BY DEF FsyncPack, FileInv, LockInv, Within
  <2> QED
    BY <2>1, <2>2, LenProperties
<1>2. k \in 1 .. k /\ k # 0
  BY <1>1
<1>3. flushed' = [flushed EXCEPT !.packs[k] = n] /\ UNCHANGED files
  <2>1. p \in use.daemons \/ view[p].active = k
    <3>1. Marked => k = 1
      BY DEF OnePack
    <3>2. p \notin use.daemons => Marked
      BY <1>1 DEF Marked
    <3> HIDE DEF k
    <3> QED
      BY <1>1, <3>1, <3>2
  <2> QED
    BY <2>1 DEF FsyncPack, ActiveSeq
<1>4. packs[k] \in Seq(Obj) /\ n \in Nat
  BY <1>1, <1>2, ElementOfSeq, LenProperties
<1>5. /\ flushed'.packs = [flushed.packs EXCEPT ![k] = n]
      /\ flushed'.tier1 = flushed.tier1 /\ flushed'.map = flushed.map
  BY <1>1, <1>3
<1>6. flushed'.packs[k] = n /\ \A i \in 1 .. k : i # k => flushed'.packs[i] = flushed.packs[i]
  <2> DEFINE S == Nat
  <2>1. flushed.packs \in Seq(S) /\ n \in S /\ k \in 1 .. Len(flushed.packs)
    BY <1>1, <1>2, <1>4
  <2> HIDE DEF S, n
  <2>2. /\ [flushed.packs EXCEPT ![k] = n][k] = n
        /\ \A i \in 1 .. Len(flushed.packs) : i # k => [flushed.packs EXCEPT ![k] = n][i] = flushed.packs[i]
    BY <2>1, ExceptSeq
  <2> HIDE DEF k
  <2> QED
    BY <1>1, <1>5, <2>2
<1>7. \A i \in 1 .. k : flushed'.packs[i] = Len(packs[i])
  <2>1. k \in Nat
    BY <1>1
  <2> HIDE DEF k
  <2>2. \A i \in 1 .. k : i = k \/ (i # k /\ i < k)
    BY <2>1
  <2> QED
    BY <1>1, <1>6, <2>2
<1>8. FlushedBlobs' = Blobs
  <2>1. packs' = packs
    BY <1>3 DEF files
  <2>2. \A i \in DOMAIN packs : First(packs[i], flushed'.packs[i]) = Elements(packs[i])
    BY <1>1, <1>7 DEF Elements
  <2> QED
    BY <2>1, <2>2 DEF FlushedBlobs, Blobs
<1>9. Marked => flushed'.packs[1] = Len(packs[1])
  BY <1>6 DEF OnePack
<1> QED
  BY <1>5, <1>8, <1>9

\* Along the fsyncs of a process the device comes to hold its batch.
LEMMA StepKeepsSync ==
    ASSUME OdbAssumption, FileInv, OnePack, SyncInv, NEW p \in Proc, Step(p)
    PROVE  SyncInv'
<1>0. /\ TypeOK /\ ContentInv /\ Alone(p) /\ use' = use
      /\ pc \in [Proc -> {"closed", "idle"} \cup Writing \cup Ending]
      /\ flushed \in [packs : Seq(Nat), tier1 : Nat, map : Nat]
  BY StepIsAlone DEF FileInv, Alone, TypeOK
<1>1. /\ FlushedBlobs \subseteq FlushedBlobs'
      /\ First(tier1, flushed.tier1) \subseteq First(tier1', flushed'.tier1)
      /\ First(map, flushed.map) \subseteq First(map', flushed'.map)
  BY FlushedStays
<1> DEFINE Own(q) ==
        /\ pc'[q] \in {"flush", "waitSync", "inSync", "mark"} => q \notin use'.daemons
        /\ pc'[q] \in {"fsyncTier1", "fsyncMap", "mark"} => batch'[q] \subseteq FlushedBlobs'
        /\ pc'[q] \in {"fsyncMap", "mark"} =>
             batch'[q] \cap use'.prismatic \subseteq First(tier1', flushed'.tier1)
        /\ pc'[q] = "mark" => batch'[q] \ use'.content \subseteq First(map', flushed'.map)
<1>2. ASSUME NEW q \in Proc, q # p
      PROVE  Own(q)
  BY <1>0, <1>1, <1>2 DEF Alone, SyncInv
<1>3. \A o \in batch[p] : /\ o \in Blobs /\ (o \in use.prismatic => o \in Elements(tier1))
                          /\ o \notin use.content => o \in Elements(map)
  BY <1>0 DEF ContentInv, Held
<1>4. Own(p)
  <2> USE DEF Goto, files, device, locks, durable, Writing, Ending
  <2>1. CASE Flush(p)
    <3>1. pc'[p] = IF p \in use.daemons THEN "fsyncPack" ELSE "flush"
      BY <1>0, <2>1 DEF Flush
    <3> QED
      BY <1>0, <3>1
  <2>2. CASE SyncLock(p) \/ SyncLocked(p)
    <3>1. pc'[p] \in {"waitSync", "inSync"} /\ pc[p] \in {"flush", "waitSync"}
      BY <1>0, <2>2 DEF SyncLock, SyncLocked
    <3> QED
      BY <1>0, <3>1 DEF SyncInv
  <2>3. CASE FsyncPack(p)
    <3>1. pc'[p] = "fsyncTier1" /\ batch' = batch
      BY <1>0, <2>3 DEF FsyncPack
    <3> QED
      BY <1>3, <2>3, <3>1, FsyncPackFlushes
  <2>4. CASE FsyncTier1(p)
    <3>1. /\ pc[p] = "fsyncTier1" /\ pc'[p] = "fsyncMap" /\ batch' = batch /\ tier1' = tier1
          /\ flushed'.tier1 = Len(tier1)
      BY <1>0, <2>4 DEF FsyncTier1
    <3>2. batch[p] \subseteq FlushedBlobs'
      BY <1>1, <3>1 DEF SyncInv
    <3>3. batch[p] \cap use.prismatic \subseteq First(tier1', flushed'.tier1)
      BY <1>3, <3>1 DEF Elements
    <3> QED
      BY <1>0, <3>1, <3>2, <3>3
  <2>5. CASE FsyncMap(p)
    <3>1. /\ pc[p] = "fsyncMap" /\ batch' = batch /\ map' = map /\ flushed'.map = Len(map)
          /\ pc'[p] = IF p \in use.daemons THEN "idle" ELSE "mark"
      BY <1>0, <2>5 DEF FsyncMap, Ack
    <3>2. /\ batch[p] \subseteq FlushedBlobs'
          /\ batch[p] \cap use.prismatic \subseteq First(tier1', flushed'.tier1)
      BY <1>1, <3>1 DEF SyncInv
    <3>3. batch[p] \ use.content \subseteq First(map', flushed'.map)
      BY <1>3, <3>1 DEF Elements
    <3> QED
      BY <1>0, <3>1, <3>2, <3>3
  <2>6. CASE /\ ~Flush(p) /\ ~SyncLock(p) /\ ~SyncLocked(p) /\ ~FsyncPack(p)
             /\ ~FsyncTier1(p) /\ ~FsyncMap(p)
    <3>1. pc'[p] \in {"closed", "idle", "fsyncPack"} \cup Writing
      <4>1. CASE \E o \in use.objects : PutKnown(p, o) \/ PutStored(p, o) \/ PutBlob(p, o)
        BY <1>0, <4>1 DEF PutKnown, PutStored, PutBlob, AfterBlob
      <4>2. CASE AppendTier1(p) \/ AppendMap(p)
        BY <1>0, <4>2 DEF AppendTier1, AppendMap, AfterBlob
      <4>3. CASE Open(p) \/ Acquire(p) \/ Release(p) \/ Abandon(p) \/ Crash(p)
        BY <1>0, <4>3 DEF Open, Acquire, Release, Abandon, Crash
      <4>4. CASE SyncCovered(p) \/ SyncSkip(p) \/ SyncEofs(p) \/ SyncMark(p)
        BY <1>0, <4>4 DEF SyncCovered, SyncSkip, SyncEofs, SyncMark, Ack
      <4> QED
        BY <2>6, <4>1, <4>2, <4>3, <4>4 DEF Step
    <3> QED
      BY <3>1
  <2> QED
    BY <2>1, <2>2, <2>3, <2>4, <2>5, <2>6
<1> QED
  BY <1>2, <1>4 DEF SyncInv

\* The prisms that were on the device with a part of the map stay there.
LEMMA PrismsStay ==
    ASSUME OdbAssumption, FileInv, NEW p \in Proc, Step(p),
           NEW n \in Nat, n <= Len(map), PrismsFlushed(n)
    PROVE  First(map', n) \cap use'.prismatic \subseteq First(tier1', flushed'.tier1)
<1>1. Longer(map, map') /\ use' = use
      /\ First(tier1, flushed.tier1) \subseteq First(tier1', flushed'.tier1)
  BY StepGrows, FlushedStays, StepIsAlone DEF FileInv, Alone
<1>2. First(map', n) = First(map, n)
  BY <1>1, FirstIsKept
<1> QED
  BY <1>1, <1>2 DEF PrismsFlushed

\* Where there is one pack, it only grows, on disk and on the device.
LEMMA OnePackGrows ==
    ASSUME OdbAssumption, FileInv, OnePack, Marked, NEW p \in Proc, Step(p)
    PROVE  /\ Longer(packs[1], packs'[1]) /\ Longer(map, map')
           /\ flushed.packs[1] <= flushed'.packs[1] /\ flushed.map <= flushed'.map
           /\ flushed.packs[1] \in Nat /\ flushed'.packs[1] \in Nat
           /\ flushed.map \in Nat /\ flushed'.map \in Nat
           /\ flushed.map <= Len(map) /\ flushed.packs[1] <= Len(packs[1])
           /\ Blobs = Elements(packs[1])
           /\ use' = use /\ Marked'
<1>1. Len(packs) = 1 /\ 1 \in 1 .. 1
  BY DEF OnePack
<1>2. PacksLonger(packs, packs') /\ Longer(map, map') /\ use' = use /\ Marked'
      /\ \A i \in 1 .. Len(packs) : flushed.packs[i] <= flushed'.packs[i]
      /\ flushed.map <= flushed'.map /\ FlushInv' /\ FlushInv /\ TypeOK /\ TypeOK'
  BY StepGrows, StepFlushes, StepTypes, StepIsAlone DEF FileInv, Alone, Marked
<1>3. 1 \in 1 .. Len(packs')
  BY <1>1, <1>2 DEF PacksLonger
<1>4. /\ flushed.packs \in Seq(Nat) /\ flushed'.packs \in Seq(Nat)
      /\ Len(flushed.packs) = Len(packs) /\ Len(flushed'.packs) = Len(packs')
      /\ flushed.map \in Nat /\ flushed'.map \in Nat
      /\ flushed.map <= Len(map) /\ flushed.packs[1] <= Len(packs[1])
  BY <1>1, <1>2 DEF TypeOK, FlushInv
<1>5. flushed.packs[1] \in Nat /\ flushed'.packs[1] \in Nat
  BY <1>1, <1>3, <1>4, ElementOfSeq
<1>6. Longer(packs[1], packs'[1])
  BY <1>1, <1>2 DEF PacksLonger
<1>7. Blobs = Elements(packs[1])
  <2>1. DOMAIN packs = 1 .. 1 /\ \A i \in 1 .. 1 : i = 1
    BY <1>1, <1>2, LenProperties DEF TypeOK
  <2> QED
    BY <1>1, <2>1 DEF Blobs
<1> QED
  BY <1>1, <1>2, <1>4, <1>5, <1>6, <1>7

\* The marker never says more than the device holds (sync_to writes it last).
LEMMA StepKeepsMarker ==
    ASSUME OdbAssumption, FileInv, OnePack, SyncInv, MarkerInv, EofInv, NEW p \in Proc, Step(p)
    PROVE  MarkerInv'
<1>1. ASSUME Marked
      PROVE  /\ marker'.pack <= flushed'.packs[1] /\ marker'.map <= flushed'.map
             /\ First(map', marker'.map) \cap use'.prismatic \subseteq First(tier1', flushed'.tier1)
  <2>1. /\ flushed.packs[1] <= flushed'.packs[1] /\ flushed.map <= flushed'.map
        /\ flushed.packs[1] \in Nat /\ flushed'.packs[1] \in Nat
        /\ flushed.map \in Nat /\ flushed'.map \in Nat /\ flushed.map <= Len(map)
        /\ Len(map) \in Nat
    BY <1>1, OnePackGrows DEF Longer
  <2>2. CASE SyncMark(p)
    <3>1. pc[p] = "mark" /\ p \notin use.daemons /\ marker' = eofs[p] /\ UNCHANGED <<map, tier1, flushed, use>>
      BY <2>2 DEF SyncMark, SyncInv, files
    <3>2. eofs[p].pack <= flushed.packs[1] /\ eofs[p].map <= flushed.map /\ PrismsFlushed(eofs[p].map)
      BY <1>1, <3>1 DEF EofInv
    <3> QED
      BY <3>1, <3>2 DEF PrismsFlushed
  <2>3. CASE ~SyncMark(p)
    <3>1. marker' = marker
      BY <2>3 DEF Step, Open, Acquire, Release, Abandon, PutKnown, PutStored, PutBlob,
         AppendTier1, AppendMap, Flush, SyncCovered, SyncLock, SyncLocked, SyncSkip, SyncEofs,
         FsyncPack, FsyncTier1, FsyncMap, Crash, device
    <3>2. marker.pack <= flushed.packs[1] /\ marker.map <= flushed.map /\ PrismsFlushed(marker.map)
      BY <1>1 DEF MarkerInv
    <3>3. marker.pack \in Nat /\ marker.map \in Nat
      BY DEF FileInv, TypeOK, Lens
    <3>4. marker.map <= Len(map)
      BY <2>1, <3>2, <3>3
    <3>5. First(map', marker.map) \cap use'.prismatic \subseteq First(tier1', flushed'.tier1)
      BY <3>2, <3>3, <3>4, PrismsStay
    <3> QED
      BY <2>1, <3>1, <3>2, <3>3, <3>5
  <2> QED
    BY <2>2, <2>3
<1>2. Marked' => Marked
  BY StepIsAlone DEF FileInv, Alone, Marked
<1> QED
  BY <1>1, <1>2 DEF MarkerInv, PrismsFlushed

\* The lengths read before the fsyncs are the least that the fsyncs cover (sync_to).
LEMMA StepKeepsEofs ==
    ASSUME OdbAssumption, FileInv, OnePack, EofInv, NEW p \in Proc, Step(p)
    PROVE  EofInv'
<1>0. /\ TypeOK /\ ContentInv /\ LockInv /\ Alone(p) /\ use' = use
      /\ pc \in [Proc -> {"closed", "idle"} \cup Writing \cup Ending]
      /\ eofs \in [Proc -> Lens] /\ flushed \in [packs : Seq(Nat), tier1 : Nat, map : Nat]
  BY StepIsAlone DEF FileInv, Alone, TypeOK
<1> DEFINE Prisms(n) == First(map', n) \cap use'.prismatic \subseteq First(tier1', flushed'.tier1)
           Own(q) ==
             /\ pc'[q] \in {"fsyncPack", "fsyncTier1", "fsyncMap", "mark"} =>
                  eofs'[q].pack <= Len(packs'[1]) /\ eofs'[q].map <= Len(map')
             /\ pc'[q] \in {"fsyncTier1", "fsyncMap", "mark"} => eofs'[q].pack <= flushed'.packs[1]
             /\ pc'[q] \in {"fsyncMap", "mark"} => Prisms(eofs'[q].map)
             /\ pc'[q] = "mark" => eofs'[q].map <= flushed'.map
<1>1. ASSUME Marked, NEW q \in Proc, q \notin use.daemons
      PROVE  Own(q)
  <2>1. /\ Longer(packs[1], packs'[1]) /\ Longer(map, map')
        /\ flushed.packs[1] <= flushed'.packs[1] /\ flushed.map <= flushed'.map
        /\ flushed.packs[1] \in Nat /\ flushed'.packs[1] \in Nat
        /\ flushed.map \in Nat /\ flushed'.map \in Nat
    BY <1>1, OnePackGrows
  <2>2. /\ Len(packs[1]) \in Nat /\ Len(packs'[1]) \in Nat /\ Len(packs[1]) <= Len(packs'[1])
        /\ Len(map) \in Nat /\ Len(map') \in Nat /\ Len(map) <= Len(map')
    BY <2>1 DEF Longer
  <2>3. eofs[q].pack \in Nat /\ eofs[q].map \in Nat
    BY <1>0 DEF Lens
  <2>4. /\ pc[q] \in {"fsyncPack", "fsyncTier1", "fsyncMap", "mark"} =>
             eofs[q].pack <= Len(packs[1]) /\ eofs[q].map <= Len(map)
        /\ pc[q] \in {"fsyncTier1", "fsyncMap", "mark"} => eofs[q].pack <= flushed.packs[1]
        /\ pc[q] \in {"fsyncMap", "mark"} => PrismsFlushed(eofs[q].map)
        /\ pc[q] = "mark" => eofs[q].map <= flushed.map
    BY <1>1 DEF EofInv
  <2>5. pc[q] \in {"fsyncMap", "mark"} => Prisms(eofs[q].map)
    BY <2>3, <2>4, PrismsStay
  <2>6. CASE eofs'[q] = eofs[q] /\ (pc'[q] = pc[q] \/ pc'[q] \notin Ending
                                    \/ pc'[q] \in {"flush", "waitSync", "inSync"})
    <3>1. /\ pc[q] \in {"fsyncPack", "fsyncTier1", "fsyncMap", "mark"} =>
               eofs[q].pack <= Len(packs'[1]) /\ eofs[q].map <= Len(map')
          /\ pc[q] \in {"fsyncTier1", "fsyncMap", "mark"} => eofs[q].pack <= flushed'.packs[1]
          /\ pc[q] = "mark" => eofs[q].map <= flushed'.map
      BY <2>1, <2>2, <2>3, <2>4, SMTT(30)
    <3> HIDE DEF Prisms
    <3> QED
      BY <2>5, <2>6, <3>1 DEF Ending
  <2>7. CASE q # p
    BY <1>0, <2>6, <2>7 DEF Alone
  <2>8. CASE q = p
    <3> USE DEF Goto, files, device, locks, Writing, Ending
    <3>1. CASE SyncEofs(p)
      <4>1. /\ pc'[p] = "fsyncPack" /\ eofs'[p].map = Len(map)
            /\ eofs'[p].pack = Len(packs[view[p].active]) /\ packs' = packs /\ map' = map
        BY <1>0, <3>1 DEF SyncEofs
      <4>2. view[p].active = 1
        <5>1. view[p].active \in 1 .. Len(packs) /\ Len(packs) = 1
          BY <1>0, <1>1, <3>1 DEF SyncEofs, LockInv, Within, OnePack
        <5> QED
          BY <5>1
      <4> QED
        BY <2>2, <2>8, <4>1, <4>2
    <3>2. CASE FsyncPack(p)
      <4>1. pc[p] = "fsyncPack" /\ pc'[p] = "fsyncTier1" /\ eofs' = eofs /\ packs' = packs /\ map' = map
        BY <1>0, <3>2 DEF FsyncPack, durable
      <4>2. flushed'.packs[1] = Len(packs[1])
        BY <1>1, <3>2, FsyncPackFlushes
      <4> QED
        BY <2>4, <2>8, <4>1, <4>2
    <3>3. CASE FsyncTier1(p)
      <4>1. /\ pc[p] = "fsyncTier1" /\ pc'[p] = "fsyncMap" /\ eofs' = eofs /\ packs' = packs
            /\ map' = map /\ tier1' = tier1 /\ flushed'.tier1 = Len(tier1)
        BY <1>0, <3>3 DEF FsyncTier1, durable
      <4>2. /\ eofs[p].pack <= Len(packs[1]) /\ eofs[p].map <= Len(map)
            /\ eofs[p].pack <= flushed'.packs[1]
        BY <2>1, <2>3, <2>4, <2>8, <4>1
      <4>3. First(map, eofs[p].map) \subseteq Elements(map)
        <5>1. 1 .. eofs[p].map \subseteq 1 .. Len(map)
          BY <2>2, <2>3, <2>8, <4>2
        <5> QED
          BY <5>1 DEF First, Elements
      <4>4. \A o \in Elements(map) : o \in use.prismatic => o \in Elements(tier1)
        BY <1>0 DEF ContentInv, MappedHasContent, Held
      <4>5. Prisms(eofs[p].map)
        BY <1>0, <4>1, <4>3, <4>4 DEF Elements
      <4> HIDE DEF Prisms
      <4> QED
        BY <2>8, <4>1, <4>2, <4>5
    <3>4. CASE FsyncMap(p)
      <4>1. /\ pc[p] = "fsyncMap" /\ pc'[p] = "mark" /\ eofs' = eofs /\ packs' = packs
            /\ map' = map /\ flushed'.map = Len(map)
        BY <1>0, <1>1, <2>8, <3>4 DEF FsyncMap, durable
      <4>2. /\ eofs[p].pack <= Len(packs[1]) /\ eofs[p].map <= Len(map)
            /\ eofs[p].pack <= flushed'.packs[1]
        BY <2>1, <2>3, <2>4, <2>8, <4>1
      <4> HIDE DEF Prisms
      <4> QED
        BY <2>5, <2>8, <4>1, <4>2
    <3>5. CASE ~SyncEofs(p) /\ ~FsyncPack(p) /\ ~FsyncTier1(p) /\ ~FsyncMap(p)
      <4>1. eofs' = eofs
        BY <3>5 DEF Step, Open, Acquire, Release, Abandon, PutKnown, PutStored, PutBlob,
           AppendTier1, AppendMap, Flush, SyncCovered, SyncLock, SyncLocked, SyncSkip,
           SyncMark, Crash, durable
      <4>2. pc'[p] = pc[p] \/ pc'[p] \notin Ending \/ pc'[p] \in {"flush", "waitSync", "inSync"}
        <5>1. CASE \E o \in use.objects : PutKnown(p, o) \/ PutStored(p, o) \/ PutBlob(p, o)
          BY <1>0, <5>1 DEF PutKnown, PutStored, PutBlob, AfterBlob
        <5>2. CASE AppendTier1(p) \/ AppendMap(p)
          BY <1>0, <5>2 DEF AppendTier1, AppendMap, AfterBlob
        <5>3. CASE Open(p) \/ Acquire(p) \/ Release(p) \/ Abandon(p) \/ Crash(p)
          BY <1>0, <5>3 DEF Open, Acquire, Release, Abandon, Crash
        <5>4. CASE SyncCovered(p) \/ SyncSkip(p) \/ SyncMark(p) \/ SyncLock(p) \/ SyncLocked(p)
          BY <1>0, <5>4 DEF SyncCovered, SyncSkip, SyncMark, SyncLock, SyncLocked, Ack
        <5>5. CASE Flush(p)
          BY <1>0, <1>1, <2>8, <5>5 DEF Flush
        <5> QED
          BY <3>5, <5>1, <5>2, <5>3, <5>4, <5>5 DEF Step
      <4> QED
        BY <2>6, <2>8, <4>1, <4>2
    <3> QED
      BY <3>1, <3>2, <3>3, <3>4, <3>5
  <2> QED
    BY <2>7, <2>8
<1>2. Marked' => Marked
  BY <1>0 DEF Marked
<1> QED
  BY <1>0, <1>1, <1>2 DEF EofInv, PrismsFlushed

\* A batch lies within the lengths that flush() noted of it.
LEMMA StepKeepsTargets ==
    ASSUME OdbAssumption, FileInv, OnePack, TargetInv, NEW p \in Proc, Step(p)
    PROVE  TargetInv'
<1>0. /\ TypeOK /\ ContentInv /\ LockInv /\ Alone(p) /\ use' = use
      /\ pc \in [Proc -> {"closed", "idle"} \cup Writing \cup Ending]
      /\ target \in [Proc -> Lens] /\ target' \in [Proc -> Lens]
  BY StepIsAlone, StepTypes DEF FileInv, Alone, TypeOK
<1>1. ASSUME Marked, NEW q \in Proc, pc'[q] \in {"flush", "waitSync", "inSync"}
      PROVE  /\ target'[q].pack <= Len(packs'[1]) /\ target'[q].map <= Len(map')
             /\ batch'[q] \subseteq First(packs'[1], target'[q].pack)
             /\ batch'[q] \ use'.content \subseteq First(map', target'[q].map)
  <2>1. Longer(packs[1], packs'[1]) /\ Longer(map, map') /\ Blobs = Elements(packs[1])
    BY <1>1, OnePackGrows
  <2>2. /\ Len(packs[1]) \in Nat /\ Len(packs'[1]) \in Nat /\ Len(packs[1]) <= Len(packs'[1])
        /\ Len(map) \in Nat /\ Len(map') \in Nat /\ Len(map) <= Len(map')
    BY <2>1 DEF Longer
  <2>3. CASE /\ pc[q] \in {"flush", "waitSync", "inSync"}
             /\ batch'[q] = batch[q] /\ target'[q] = target[q]
    <3>1. /\ target[q].pack <= Len(packs[1]) /\ target[q].map <= Len(map)
          /\ batch[q] \subseteq First(packs[1], target[q].pack)
          /\ batch[q] \ use.content \subseteq First(map, target[q].map)
          /\ target[q].pack \in Nat /\ target[q].map \in Nat
      BY <1>0, <1>1, <2>3 DEF TargetInv, Lens
    <3>2. First(packs'[1], target[q].pack) = First(packs[1], target[q].pack)
          /\ First(map', target[q].map) = First(map, target[q].map)
      BY <2>1, <3>1, FirstIsKept
    <3> QED
      BY <1>0, <2>2, <2>3, <3>1, <3>2
  <2>4. CASE q # p
    BY <1>0, <1>1, <2>3, <2>4 DEF Alone
  <2>5. CASE q = p
    <3> USE DEF Goto, files, device, locks, Writing, Ending
    <3>1. CASE Flush(p)
      <4>1. /\ target'[p].pack = view[p].pack /\ target'[p].map = view[p].map
            /\ packs' = packs /\ map' = map /\ batch' = batch /\ pc[p] = "batch"
        BY <1>0, <3>1 DEF Flush, Lens
      <4>2. view[p].pack = Len(packs[1]) /\ view[p].map = Len(map)
        BY <1>0, <1>1, <4>1 DEF LockInv, Current, OnePack
      <4>3. \A o \in batch[p] : o \in Blobs /\ (o \notin use.content => o \in Elements(map))
        BY <1>0 DEF ContentInv, Held
      <4> QED
        BY <1>0, <2>1, <2>2, <2>5, <4>1, <4>2, <4>3 DEF Elements
    <3>2. CASE SyncLock(p) \/ SyncLocked(p)
      <4>1. pc[p] \in {"flush", "waitSync", "inSync"} /\ batch' = batch /\ target' = target
        BY <3>2 DEF SyncLock, SyncLocked, durable
      <4> QED
        BY <2>3, <2>5, <4>1
    <3>3. CASE ~Flush(p) /\ ~SyncLock(p) /\ ~SyncLocked(p)
      <4>1. pc'[p] \notin {"flush", "waitSync", "inSync"}
        <5>1. CASE \E o \in use.objects : PutKnown(p, o) \/ PutStored(p, o) \/ PutBlob(p, o)
          BY <1>0, <5>1 DEF PutKnown, PutStored, PutBlob, AfterBlob
        <5>2. CASE AppendTier1(p) \/ AppendMap(p)
          BY <1>0, <5>2 DEF AppendTier1, AppendMap, AfterBlob
        <5>3. CASE Open(p) \/ Acquire(p) \/ Release(p) \/ Abandon(p) \/ Crash(p)
          BY <1>0, <5>3 DEF Open, Acquire, Release, Abandon, Crash
        <5>4. CASE SyncCovered(p) \/ SyncSkip(p) \/ SyncMark(p) \/ SyncEofs(p)
          BY <1>0, <5>4 DEF SyncCovered, SyncSkip, SyncMark, SyncEofs, Ack
        <5>5. CASE FsyncPack(p) \/ FsyncTier1(p) \/ FsyncMap(p)
          BY <1>0, <5>5 DEF FsyncPack, FsyncTier1, FsyncMap, Ack
        <5> QED
          BY <3>3, <5>1, <5>2, <5>3, <5>4, <5>5 DEF Step
      <4> QED
        BY <1>1, <2>5, <4>1
    <3> QED
      BY <3>1, <3>2, <3>3
  <2> QED
    BY <2>4, <2>5
<1>2. Marked' => Marked
  BY <1>0 DEF Marked
<1> QED
  BY <1>1, <1>2 DEF TargetInv

\* A batch that the marker covers is on the device (Covers).
LEMMA CoveredIsSafe ==
    ASSUME OdbAssumption, MarkerSuffices, FileInv, OnePack, MarkerInv, TargetInv, SyncInv,
           NEW p \in Proc, pc[p] \in {"flush", "inSync"}, Covers(p), NEW o \in batch[p]
    PROVE  Safe(o)
<1>1. /\ Marked /\ use.prismatic \cap use.content = {}
  <2>1. p \in use.procs /\ p \notin use.daemons
    BY DEF FileInv, LockInv, SyncInv
  <2> QED
    BY <2>1 DEF Marked, MarkerSuffices, FileInv, TypeOK
<1>2. /\ marker.pack <= flushed.packs[1] /\ marker.map <= flushed.map
      /\ PrismsFlushed(marker.map)
  BY <1>1 DEF MarkerInv
<1>3. /\ o \in First(packs[1], target[p].pack)
      /\ o \notin use.content => o \in First(map, target[p].map)
  BY <1>1 DEF TargetInv
<1>4. /\ target[p].pack <= marker.pack /\ target[p].map <= marker.map
      /\ target[p].pack \in Nat /\ target[p].map \in Nat
      /\ marker.pack \in Nat /\ marker.map \in Nat /\ flushed.map \in Nat
  BY DEF Covers, FileInv, TypeOK, Lens
<1>5. flushed.packs[1] \in Nat /\ 1 \in DOMAIN packs
  <2>1. /\ flushed.packs \in Seq(Nat) /\ Len(flushed.packs) = 1 /\ Len(packs) = 1
        /\ packs \in Seq(Seq(Obj)) /\ 1 \in 1 .. 1
    BY <1>1 DEF OnePack, FileInv, FlushInv, TypeOK
  <2> QED
    BY <2>1, ElementOfSeq, LenProperties
<1>6. 1 .. target[p].pack \subseteq 1 .. flushed.packs[1]
  BY <1>2, <1>4, <1>5
<1>7. 1 .. target[p].map \subseteq 1 .. marker.map /\ 1 .. marker.map \subseteq 1 .. flushed.map
  BY <1>2, <1>4
<1>8. o \in FlushedBlobs
  <2>1. o \in First(packs[1], flushed.packs[1])
    BY <1>3, <1>6 DEF First
  <2> QED
    BY <1>5, <2>1 DEF FlushedBlobs
<1>9. o \notin use.content => o \in First(map, marker.map) /\ o \in First(map, flushed.map)
  BY <1>3, <1>7 DEF First
<1>10. o \in use.prismatic => o \in First(tier1, flushed.tier1)
  BY <1>1, <1>2, <1>9 DEF PrismsFlushed
<1> QED
  BY <1>8, <1>9, <1>10 DEF Safe, Held

\* What is acknowledged is on the device.
LEMMA StepKeepsAcked ==
    ASSUME OdbAssumption, MarkerSuffices, FileInv, DurableInv, NEW p \in Proc, Step(p)
    PROVE  AckedDurable'
<1>0. /\ TypeOK /\ ContentInv /\ Alone(p) /\ use' = use /\ OnePack /\ SyncInv /\ MarkerInv
      /\ TargetInv /\ \A o \in acked : Safe(o)
      /\ flushed \in [packs : Seq(Nat), tier1 : Nat, map : Nat]
  BY StepIsAlone DEF FileInv, DurableInv, Alone, AckedDurable, Safe, TypeOK
<1>1. ASSUME NEW o \in acked'
      PROVE  Safe(o)'
  <2> USE DEF files, device
  <2>1. CASE o \in acked
    BY <1>0, <2>1, SafeStays
  <2>2. CASE SyncCovered(p) \/ SyncSkip(p)
    <3>1. acked' = acked \cup batch[p] /\ pc[p] \in {"flush", "inSync"} /\ Covers(p)
      BY <2>2 DEF SyncCovered, SyncSkip, Ack
    <3>2. o \in batch[p] => Safe(o)
      BY <1>0, <3>1, CoveredIsSafe
    <3> QED
      BY <1>1, <2>1, <3>1, <3>2, SafeStays
  <2>3. CASE FsyncMap(p)
    <3>1. /\ pc[p] = "fsyncMap" /\ acked' \subseteq acked \cup batch[p] /\ UNCHANGED files
          /\ flushed'.map = Len(map)
      BY <1>0, <2>3 DEF FsyncMap, Ack
    <3>2. ASSUME o \in batch[p]
          PROVE  Safe(o)'
      <4>1. o \in FlushedBlobs /\ (o \in use.prismatic => o \in First(tier1, flushed.tier1))
        BY <1>0, <3>1, <3>2 DEF SyncInv
      <4>2. o \in FlushedBlobs' /\ (o \in use.prismatic => o \in First(tier1', flushed'.tier1))
        BY <4>1, FlushedStays
      <4>3. o \notin use.content => o \in First(map', flushed'.map)
        BY <1>0, <3>1, <3>2 DEF ContentInv, Elements
      <4> QED
        BY <1>0, <4>2, <4>3 DEF Safe, Held
    <3> QED
      BY <1>1, <2>1, <3>1, <3>2
  <2>4. CASE SyncMark(p)
    <3>1. pc[p] = "mark" /\ acked' = acked \cup batch[p]
      BY <2>4 DEF SyncMark, Ack
    <3>2. o \in batch[p] => Safe(o)
      BY <1>0, <3>1 DEF SyncInv, Safe, Held
    <3> QED
      BY <1>1, <2>1, <3>1, <3>2, SafeStays
  <2>5. CASE ~SyncCovered(p) /\ ~SyncSkip(p) /\ ~FsyncMap(p) /\ ~SyncMark(p)
    <3>1. acked' = acked
      BY <2>5 DEF Step, Open, Acquire, Release, Abandon, PutKnown, PutStored, PutBlob,
         AppendTier1, AppendMap, Flush, SyncLock, SyncLocked, SyncEofs, FsyncPack, FsyncTier1,
         Crash
    <3> QED
      BY <1>1, <2>1, <3>1
  <2> QED
    BY <2>2, <2>3, <2>4, <2>5
<1> QED
  BY <1>1 DEF AckedDurable, Safe

LEMMA InitDurable ==
    ASSUME OdbAssumption, Init
    PROVE  DurableInv
<1>1. /\ packs = << <<>> >> /\ tier1 = <<>> /\ map = <<>> /\ acked = {}
      /\ flushed = [packs |-> <<0>>, tier1 |-> 0, map |-> 0]
      /\ marker = [pack |-> 0, map |-> 0] /\ \A p \in Proc : pc[p] = "closed"
  BY DEF Init
<1>2. Len(<<>>) = 0 /\ Elements(<<>>) = {} /\ \A n \in {0} : First(map, n) = {}
  BY EmptySeq DEF Elements, First
<1>3. /\ Len(packs) = 1 /\ packs[1] = <<>> /\ flushed.packs[1] = 0
  BY <1>1
<1>4. OnePack
  <2>1. 1 .. 0 = {}
    OBVIOUS
  <2> QED
    BY <1>2, <1>3, <2>1 DEF OnePack
<1> QED
  BY <1>1, <1>2, <1>3, <1>4 DEF DurableInv, SyncInv, MarkerInv, EofInv, TargetInv,
     AckedDurable, PrismsFlushed

LEMMA StutterKeepsDurable ==
    ASSUME DurableInv, UNCHANGED vars
    PROVE  DurableInv'
<1> USE DEF vars, files, device, locks, durable
<1>1. FlushedBlobs' = FlushedBlobs /\ (Marked' <=> Marked)
  BY DEF FlushedBlobs, Marked
<1> QED
  BY <1>1 DEF DurableInv, OnePack, SyncInv, MarkerInv, EofInv, TargetInv, AckedDurable,
     PrismsFlushed, Held

\* What a flush reports durable is on the device, content, prism and identity, and
\* stays there: by the fsyncs of its own process, or of another that the marker says
\* reached as far (flush, sync_to, OdbSink).
THEOREM AcknowledgedIsDurable ==
    ASSUME OneWriterOfPrisms, MarkerSuffices
    PROVE  Spec => []AckedDurable
<1>1. Init => FileInv /\ DurableInv
  BY InitFiles, InitDurable, OdbAssumption
<1>2. FileInv /\ DurableInv /\ [Next]_vars => FileInv' /\ DurableInv'
  <2>1. ASSUME FileInv, DurableInv, [Next]_vars
        PROVE  DurableInv'
    <3>1. CASE Next
      <4>1. PICK p \in Proc : Step(p)
        BY <3>1 DEF Next
      <4>2. OnePack /\ SyncInv /\ MarkerInv /\ EofInv /\ TargetInv
        BY <2>1 DEF DurableInv
      <4>3. OnePack' /\ SyncInv' /\ MarkerInv' /\ EofInv' /\ TargetInv' /\ AckedDurable'
        BY <2>1, <4>1, <4>2, OdbAssumption, StepKeepsOnePack, StepKeepsSync, StepKeepsMarker,
           StepKeepsEofs, StepKeepsTargets, StepKeepsAcked
      <4> QED
        BY <4>3 DEF DurableInv
    <3>2. CASE UNCHANGED vars
      BY <2>1, <3>2, StutterKeepsDurable
    <3> QED
      BY <2>1, <3>1, <3>2
  <2> QED
    BY <2>1, StepKeepsFiles, OdbAssumption
<1>3. DurableInv => AckedDurable
  BY DEF DurableInv
<1> QED
  BY <1>1, <1>2, <1>3, PTL DEF Spec

=============================================================================
