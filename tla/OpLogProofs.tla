---------------------------- MODULE OpLogProofs ----------------------------
(***************************************************************************)
(* Proofs about OpLog, for any set of processes, record sizes and bounds.  *)
(* ChainInv needs no assumption on torn writes; DurableInv is about runs   *)
(* in which only a power loss leaves a fragment behind (MaxTorn = 0).      *)
(***************************************************************************)
EXTENDS OpLog, SequenceTheorems, TLAPS

-----------------------------------------------------------------------------
(* The inductive invariant behind the chain properties.                    *)

HeaderInv ==
    ~header => disk = <<>> /\ \A p \in Proc : pc[p] \in Closed

EndsInv ==
    /\ \A i \in 1 .. Len(disk) : disk[i].end > HeaderLen
    /\ \A i, j \in 1 .. Len(disk) : i < j => disk[i].end < disk[j].end

ParentInv ==
    \A i \in 1 .. Len(disk) :
        disk[i].parent = (IF i = 1 THEN ROOT ELSE disk[i - 1].id)

\* Ids are handed out in the order of the file.
IdsInv ==
    /\ \A i \in 1 .. Len(disk) : disk[i].id <= nextId
    /\ \A i, j \in 1 .. Len(disk) : i < j => disk[i].id < disk[j].id

LockInv ==
    \A p \in Proc :
        /\ pc[p] \in {"locked", "caughtUp"} => logLock = p
        /\ pc[p] = "caughtUp" => torn = 0 /\ Len(mem[p]) = Len(disk)

ChainInv == /\ TypeOK /\ HeaderInv /\ EndsInv /\ ParentInv /\ IdsInv
            /\ ViewIsPrefix /\ LockInv

\* An operation as write_record() frames it has a parent, an id and a positive size.
LEMMA OpFields ==
    ASSUME NEW s \in Seq(Op)
    PROVE  /\ Len(s) \in Nat
           /\ \A i \in 1 .. Len(s) :
                s[i].id \in Ids /\ s[i].parent \in Ids \cup {ROOT} /\ s[i].end \in Nat
<1>1. \A i \in 1 .. Len(s) : s[i] \in Op
  OBVIOUS
<1>2. \A r \in Op : r.id \in Ids /\ r.parent \in Ids \cup {ROOT} /\ r.end \in Nat
  BY DEF Op
<1> QED
  BY <1>1, <1>2

\* Records end where the next begin, so a longer prefix ends later in the file.
LEMMA EndsOrdered ==
    ASSUME TypeOK, EndsInv
    PROVE  /\ \A k \in 0 .. Len(disk) : EndOf(disk, k) \in Nat /\ EndOf(disk, k) >= HeaderLen
           /\ \A j, k \in 0 .. Len(disk) : j < k => EndOf(disk, j) < EndOf(disk, k)
<1>1. Len(disk) \in Nat /\ \A i \in 1 .. Len(disk) : disk[i].end \in Nat
  BY OpFields DEF TypeOK
<1>2. \A k \in 0 .. Len(disk) : EndOf(disk, k) \in Nat /\ EndOf(disk, k) >= HeaderLen
  BY <1>1, SizeAssumption DEF EndsInv, EndOf
<1>3. \A j, k \in 0 .. Len(disk) : j < k => EndOf(disk, j) < EndOf(disk, k)
  BY <1>1, SizeAssumption DEF EndsInv, EndOf
<1> QED
  BY <1>2, <1>3

-----------------------------------------------------------------------------
(* Type correctness.                                                       *)

\* The types hold before any process has opened the log (OpLog::open).
LEMMA TypeInit == Init => TypeOK
<1> SUFFICES ASSUME Init PROVE TypeOK
  OBVIOUS
<1>1. disk \in Seq(Op) /\ mem \in [Proc -> Seq(Op)]
  BY EmptySeq DEF Init
<1>2. header \in BOOLEAN /\ torn \in Nat /\ flushed \in Nat /\ marker \in Nat
  BY DEF Init
<1>3. logLock \in Proc \cup {None} /\ syncLock \in Proc \cup {None}
  BY DEF Init
<1>4. pc \in [Proc -> Closed \cup Open]
  BY DEF Init, Closed
<1>5. lenBytes \in [Proc -> Nat] /\ eof \in [Proc -> Nat]
  BY DEF Init
<1>6. nextId \in 0 .. MaxOps /\ acked \subseteq Ids
  BY SizeAssumption DEF Init
<1> QED
  BY <1>1, <1>2, <1>3, <1>4, <1>5, <1>6 DEF TypeOK

\* The lengths that catch_up() compares are numbers.
LEMMA LengthsAreNat ==
    ASSUME TypeOK
    PROVE  /\ EndOf(disk, Len(disk)) \in Nat /\ FileLen \in Nat
           /\ \A k \in 0 .. Len(disk) : EndOf(disk, k) \in Nat
  BY OpFields, SizeAssumption DEF TypeOK, EndOf, FileLen

\* So is the length of the file after a cut of its torn tail.
LEMMA CutLengthIsNat ==
    ASSUME TypeOK, disk' = disk, torn' \in Nat, header' \in BOOLEAN
    PROVE  FileLen' \in Nat
<1>1. EndOf(disk', Len(disk')) \in Nat
  BY LengthsAreNat
<1>2. FileLen' = torn' + (IF header' THEN EndOf(disk', Len(disk')) ELSE 0)
  BY DEF FileLen
<1>3. FileLen' = torn' + EndOf(disk', Len(disk')) \/ FileLen' = torn' + 0
  BY <1>2, Zenon
<1> QED
  BY <1>1, <1>3

\* The ids of the operations in a view (ops()) are ids.
LEMMA MemIdsTyped ==
    ASSUME TypeOK, NEW p \in Proc
    PROVE  IdsIn(mem[p]) \subseteq Ids
<1>1. mem[p] \in Seq(Op)
  BY DEF TypeOK
<1> QED
  BY <1>1, OpFields DEF IdsIn

\* The head of a view is an id, or none for an empty log (OpLog::head).
LEMMA HeadTyped ==
    ASSUME NEW s \in Seq(Op)
    PROVE  HeadOf(s) \in Ids \cup {ROOT}
<1>1. s # <<>> => Len(s) \in 1 .. Len(s)
  OBVIOUS
<1> QED
  BY <1>1, OpFields DEF HeadOf

\* What replay_records() adds to a view are operations.
LEMMA TakeInTyped ==
    ASSUME TypeOK, NEW p \in Proc, TakeIn(p)
    PROVE  mem' \in [Proc -> Seq(Op)]
<1>1. PICK k \in 0 .. Len(disk) :
         mem' = [mem EXCEPT ![p] = @ \o SubSeq(disk, k + 1, Len(disk))]
  BY DEF TakeIn
<1>2. SubSeq(disk, k + 1, Len(disk)) \in Seq(Op)
  BY SubSeqProperties, SMTT(30) DEF TypeOK
<1> QED
  BY <1>1, <1>2, ConcatProperties DEF TypeOK

\* Every step of open(), catch_up(), write_record() and sync() keeps the types.
LEMMA TypeStep == ASSUME TypeOK, ViewIsPrefix, [Next]_vars PROVE TypeOK'
<1>1. CASE UNCHANGED vars
  BY <1>1 DEF TypeOK, vars, file, device, locks, local
<1>2. CASE PowerLoss
  <2>1. PICK cut \in flushed .. FileLen, k \in 0 .. Len(disk) :
           /\ header' = (header /\ cut >= HeaderLen)
           /\ k > 0 => disk[k].end <= cut
           /\ disk' = SubSeq(disk, 1, k)
           /\ torn' = IF header' THEN cut - EndOf(disk, k) ELSE cut
           /\ flushed' = cut
    BY <1>2 DEF PowerLoss
  <2>2. cut \in Nat
    BY LengthsAreNat DEF TypeOK
  <2>3. disk' \in Seq(Op)
    BY <2>1, SubSeqProperties DEF TypeOK
  <2>4. EndOf(disk, k) \in Nat
    BY LengthsAreNat
  <2>5. header' => EndOf(disk, k) <= cut
    <3> SUFFICES ASSUME header' PROVE EndOf(disk, k) <= cut
      OBVIOUS
    <3>1. HeaderLen <= cut
      BY <2>1
    <3> QED
      BY <2>1, <3>1 DEF EndOf
  <2>6. torn' \in Nat /\ flushed' \in Nat
    BY <2>1, <2>2, <2>4, <2>5
  <2>7. header' \in BOOLEAN
    BY <2>1
  <2>8. mem' \in [Proc -> Seq(Op)]
    BY <1>2, EmptySeq DEF PowerLoss
  <2>9. marker' \in Nat
    BY <1>2 DEF PowerLoss, TypeOK
  <2>10. pc' \in [Proc -> Closed \cup Open] /\ lenBytes' \in [Proc -> Nat]
    BY <1>2 DEF PowerLoss, Closed
  <2> QED
    BY <1>2, <2>3, <2>6, <2>7, <2>8, <2>9, <2>10 DEF PowerLoss, TypeOK
<1>3. CASE \E p \in Proc : Step(p)
  <2> SUFFICES ASSUME NEW p \in Proc, Step(p) PROVE TypeOK'
    BY <1>3
  <2> USE DEF Goto, Closed, Open, file, device, locks
  <2>1. CASE OpenRead(p)
    BY <2>1, LengthsAreNat DEF OpenRead, Load, TypeOK
  <2>2. CASE OpenRepair(p)
    <3>1. disk' \in Seq(Op)
      BY <2>2, EmptySeq DEF OpenRepair, TypeOK
    <3>2. EndOf(disk', Len(disk')) \in Nat
      BY <3>1, OpFields, SizeAssumption DEF EndOf
    <3>3. header' \in BOOLEAN /\ flushed' \in Nat /\ torn' \in Nat
      BY <2>2, <3>2 DEF OpenRepair, TypeOK
    <3>4. mem' \in [Proc -> Seq(Op)] /\ lenBytes' \in [Proc -> Nat]
      BY <2>2, <3>1, <3>2 DEF OpenRepair, TypeOK
    <3> QED
      BY <2>2, <3>1, <3>3, <3>4 DEF OpenRepair, TypeOK
  <2>19. CASE OpenRepairFails(p)
    <3>0. torn \in Nat /\ header \in BOOLEAN /\ HeaderLen \in Nat
      BY SizeAssumption DEF TypeOK
    <3>1. torn' \in Nat /\ header' \in BOOLEAN /\ disk' = disk
      <4>1. CASE header
        BY <2>19, <3>0, <4>1 DEF OpenRepairFails
      <4>2. CASE ~header
        <5>1. \A n \in 0 .. HeaderLen - 1 : n \in Nat
          BY <3>0
        <5>2. disk' = disk /\ (header' = TRUE \/ header' = FALSE)
              /\ (torn' = 0 \/ torn' \in 0 .. HeaderLen - 1)
          BY <2>19, <4>2, Zenon DEF OpenRepairFails
        <5>3. header' \in BOOLEAN
          BY <5>2, Zenon
        <5>4. torn' \in Nat
          BY <5>1, <5>2
        <5> QED
          BY <5>2, <5>3, <5>4, Zenon
      <4> QED
        BY <4>1, <4>2
    <3>2. FileLen' \in Nat
      BY <3>1, CutLengthIsNat
    <3>3. flushed' \in Nat
      BY <2>19, <3>2 DEF OpenRepairFails, KeptOf, TypeOK
    <3> QED
      BY <2>19, <3>1, <3>3 DEF OpenRepairFails, TypeOK
  <2>20. CASE CatchUpFails(p)
    BY <2>20 DEF CatchUpFails, TypeOK
  <2>21. CASE CutFails(p)
    <3>1. mem' \in [Proc -> Seq(Op)]
      BY <2>21, TakeInTyped DEF CutFails
    <3>2. torn' \in Nat /\ disk' = disk /\ header' = header /\ header' \in BOOLEAN
      BY <2>21 DEF CutFails, TypeOK
    <3>3. FileLen' \in Nat
      BY <3>2, CutLengthIsNat
    <3>4. flushed' \in Nat
      BY <2>21, <3>3 DEF CutFails, KeptOf, TypeOK
    <3> QED
      BY <2>21, <3>1, <3>2, <3>4 DEF CutFails, TypeOK
  <2>3. CASE Lock(p)
    BY <2>3 DEF Lock, TypeOK
  <2>4. CASE CatchUpNothing(p)
    BY <2>4 DEF CatchUpNothing, TypeOK
  <2>5. CASE CatchUpTail(p)
    <3>3. mem' \in [Proc -> Seq(Op)]
      BY <2>5, TakeInTyped DEF CatchUpTail
    <3>4. lenBytes' \in [Proc -> Nat] /\ flushed' \in Nat
      BY <2>5, LengthsAreNat DEF CatchUpTail, TypeOK
    <3> QED
      BY <2>5, <3>3, <3>4 DEF CatchUpTail, TypeOK
  <2>6. CASE Release(p)
    BY <2>6 DEF Release, TypeOK
  <2>7. CASE \E size \in Sizes : WriteRecord(p, size)
    <3>1. PICK size \in Sizes : WriteRecord(p, size)
      BY <2>7
    <3> DEFINE rec == [id     |-> nextId + 1,
                       parent |-> HeadOf(mem[p]),
                       end    |-> lenBytes[p] + size]
    <3>2. rec \in Op
      <4>1. nextId + 1 \in Ids
        BY <3>1, SizeAssumption DEF WriteRecord, TypeOK, Ids
      <4>2. HeadOf(mem[p]) \in Ids \cup {ROOT}
        BY HeadTyped DEF TypeOK
      <4>3. lenBytes[p] + size \in Nat
        BY SizeAssumption DEF TypeOK
      <4> QED
        BY <4>1, <4>2, <4>3 DEF Op
    <3>3. rec.end \in Nat
      BY SizeAssumption, SMTT(30) DEF TypeOK
    <3> HIDE DEF rec
    <3>4. PICK k \in 0 .. Len(disk) :
             /\ disk' = Append(SubSeq(disk, 1, k), rec)
             /\ mem' = [mem EXCEPT ![p] = Append(@, rec)]
             /\ lenBytes' = [lenBytes EXCEPT ![p] = rec.end]
             /\ nextId' = nextId + 1 /\ pc[p] = "caughtUp"
      BY <3>1 DEF WriteRecord, rec
    <3>5. disk' \in Seq(Op) /\ mem' \in [Proc -> Seq(Op)]
      <4>1. k \in Nat /\ k <= Len(disk)
        BY DEF TypeOK
      <4>2. SubSeq(disk, 1, k) \in Seq(Op)
        BY <4>1, SubSeqProperties DEF TypeOK
      <4> QED
        BY <3>2, <3>4, <4>2, AppendProperties DEF TypeOK
    <3>6. nextId' \in 0 .. MaxOps
      BY <3>1, SizeAssumption DEF WriteRecord, TypeOK
    <3>7. lenBytes' \in [Proc -> Nat]
      BY <3>3, <3>4 DEF TypeOK
    <3> QED
      BY <3>1, <3>5, <3>6, <3>7 DEF WriteRecord, TypeOK
  <2>8. CASE \E bytes \in 1 .. MaxTorn : WriteTorn(p, bytes)
    BY <2>8, SizeAssumption DEF WriteTorn, TypeOK
  <2>9. CASE SyncDeferred(p)
    BY <2>9, LengthsAreNat, MemIdsTyped DEF SyncDeferred, Ack, TypeOK
  <2>10. CASE SyncCovered(p)
    BY <2>10, MemIdsTyped DEF SyncCovered, Ack, TypeOK
  <2>11. CASE SyncNotCovered(p)
    BY <2>11 DEF SyncNotCovered, TypeOK
  <2>12. CASE SyncLock(p)
    BY <2>12 DEF SyncLock, TypeOK
  <2>13. CASE SyncSkip(p)
    BY <2>13, MemIdsTyped DEF SyncSkip, Ack, TypeOK
  <2>14. CASE SyncEof(p)
    BY <2>14, LengthsAreNat DEF SyncEof, TypeOK
  <2>15. CASE SyncFsync(p)
    BY <2>15, LengthsAreNat DEF SyncFsync, TypeOK
  <2>16. CASE SyncMark(p)
    BY <2>16, MemIdsTyped DEF SyncMark, Ack, TypeOK
  <2>17. CASE SyncFails(p)
    BY <2>17 DEF SyncFails, TypeOK
  <2>18. CASE Stop(p)
    <3>1. mem' \in [Proc -> Seq(Op)]
      BY <2>18, EmptySeq DEF Stop, TypeOK
    <3> QED
      BY <2>18, <3>1, LengthsAreNat DEF Stop, Freed, TypeOK
  <2> QED
    BY <2>1, <2>2, <2>3, <2>4, <2>5, <2>6, <2>7, <2>8, <2>9, <2>10, <2>11, <2>12,
       <2>13, <2>14, <2>15, <2>16, <2>17, <2>18, <2>19, <2>20, <2>21 DEF Step
<1> QED
  BY <1>1, <1>2, <1>3 DEF Next

-----------------------------------------------------------------------------
(* The chain.                                                              *)

\* Two prefixes of the file end at the same byte only if they are the same, so the
\* replayed length catch_up() starts from tells which records have been read.
LEMMA EndsDistinct ==
    ASSUME TypeOK, EndsInv, NEW j \in 0 .. Len(disk), NEW k \in 0 .. Len(disk),
           EndOf(disk, j) = EndOf(disk, k)
    PROVE  j = k
<1>1. j \in Int /\ k \in Int
  BY DEF TypeOK
<1>2. EndOf(disk, j) \in Int
  BY EndsOrdered
<1>3. ~(j < k)
  BY <1>2, EndsOrdered
<1>4. ~(k < j)
  BY <1>2, EndsOrdered
<1> QED
  BY <1>1, <1>3, <1>4

\* What ViewIsPrefix asks of an open process at `where` that holds m of a file d.
ViewOf(d, m, len, where) ==
    /\ Prefix(m, d)
    /\ \E k \in 0 .. Len(m) :
         /\ len = EndOf(d, k)
         /\ where \notin {"idle", "locked"} => k = Len(m)

\* Only p's view may have changed, and p's is still one.
LEMMA ViewStep ==
    ASSUME ViewIsPrefix, NEW p \in Proc, disk' = disk,
           \A q \in Proc : q # p => /\ pc'[q] = pc[q] /\ mem'[q] = mem[q]
                                   /\ lenBytes'[q] = lenBytes[q],
           pc'[p] \in Open => ViewOf(disk, mem'[p], lenBytes'[p], pc'[p])
    PROVE  ViewIsPrefix'
<1> SUFFICES ASSUME NEW q \in Proc, pc'[q] \in Open
             PROVE  ViewOf(disk', mem'[q], lenBytes'[q], pc'[q])
  BY DEF ViewIsPrefix, ViewOf, Prefix, EndOf
<1>1. CASE q = p
  BY <1>1
<1>2. CASE q # p
  BY <1>2 DEF ViewIsPrefix, ViewOf
<1> QED
  BY <1>1, <1>2

\* A view that ends where its length says is one, wherever the process is.
LEMMA WholeView ==
    ASSUME NEW d, NEW m, NEW len, NEW where, Len(m) \in Nat,
           Prefix(m, d), len = EndOf(d, Len(m))
    PROVE  ViewOf(d, m, len, where)
  BY DEF ViewOf

\* Past the catch-up a process has replayed all that it holds.
LEMMA ViewWhole ==
    ASSUME ViewIsPrefix, NEW p \in Proc, pc[p] \in Open \ {"idle", "locked"}
    PROVE  Prefix(mem[p], disk) /\ lenBytes[p] = EndOf(disk, Len(mem[p]))
  BY DEF ViewIsPrefix

\* The chain invariant holds of a log no process has opened.
LEMMA ChainInvInit == Init => ChainInv
<1> SUFFICES ASSUME Init PROVE ChainInv
  OBVIOUS
<1>1. HeaderInv /\ EndsInv /\ ParentInv /\ IdsInv /\ ViewIsPrefix /\ LockInv
  BY DEF Init, HeaderInv, EndsInv, ParentInv, IdsInv, ViewIsPrefix, LockInv, Closed, Open
<1> QED
  BY <1>1, TypeInit DEF ChainInv

\* What a process that has caught up under the lock knows.
LEMMA CaughtUpView ==
    ASSUME ChainInv, NEW p \in Proc, pc[p] = "caughtUp"
    PROVE  /\ header /\ torn = 0 /\ logLock = p
           /\ Len(mem[p]) = Len(disk) /\ Prefix(mem[p], disk)
           /\ lenBytes[p] = EndOf(disk, Len(disk))
<1>1. Prefix(mem[p], disk) /\ lenBytes[p] = EndOf(disk, Len(mem[p]))
  BY ViewWhole DEF ChainInv, Open
<1> QED
  BY <1>1 DEF ChainInv, HeaderInv, LockInv, Closed

\* Having caught up under the lock, write_record() writes at the end of the file.
LEMMA WriteAppends ==
    ASSUME ChainInv, NEW p \in Proc, NEW size \in Sizes, WriteRecord(p, size)
    PROVE  disk' = Append(disk, [id     |-> nextId + 1,
                                 parent |-> HeadOf(mem[p]),
                                 end    |-> lenBytes[p] + size])
<1>1. lenBytes[p] = EndOf(disk, Len(disk)) /\ disk \in Seq(Op)
  BY CaughtUpView DEF WriteRecord, ChainInv, TypeOK
<1>2. SubSeq(disk, 1, Len(disk)) = disk
  BY <1>1
<1>3. Len(disk) \in 0 .. Len(disk)
  BY <1>1
<1>4. \A k \in 0 .. Len(disk) : EndOf(disk, k) = lenBytes[p] => k = Len(disk)
  BY <1>1, <1>3, EndsDistinct DEF ChainInv
<1> QED
  BY <1>2, <1>4 DEF WriteRecord

\* Ids are handed out once and in order: write_record() never appends one that
\* is in the file.
LEMMA IdsInvStep == ASSUME ChainInv, [Next]_vars PROVE IdsInv'
<1>0. disk \in Seq(Op) /\ Len(disk) \in Nat /\ nextId \in Nat /\ IdsInv
      /\ \A i \in 1 .. Len(disk) : disk[i].id \in Nat
  <2>1. disk \in Seq(Op) /\ nextId \in Nat
    BY DEF ChainInv, TypeOK
  <2>2. \A i \in 1 .. Len(disk) : disk[i].id \in Ids
    BY <2>1, OpFields
  <2> QED
    BY <2>1, <2>2 DEF Ids, ChainInv
<1>1. CASE disk' = disk /\ nextId' = nextId
  BY <1>0, <1>1 DEF IdsInv
<1>2. CASE PowerLoss
  <2>1. PICK k \in 0 .. Len(disk) : disk' = SubSeq(disk, 1, k)
    BY <1>2 DEF PowerLoss
  <2>2. Len(disk') = k /\ \A i \in 1 .. k : disk'[i] = disk[i]
    BY <1>0, <2>1, SubSeqProperties
  <2>3. nextId' = nextId
    BY <1>2 DEF PowerLoss
  <2>4. \A i \in 1 .. Len(disk') : i \in 1 .. Len(disk) /\ disk'[i] = disk[i]
    BY <1>0, <2>2
  <2> QED
    BY <1>0, <2>3, <2>4 DEF IdsInv
<1>3. CASE \E p \in Proc, size \in Sizes : WriteRecord(p, size)
  <2>1. PICK r : disk' = Append(disk, r) /\ r.id = nextId + 1 /\ nextId' = nextId + 1
    BY <1>3, WriteAppends DEF WriteRecord
  <2>2. Len(disk') = Len(disk) + 1 /\ disk'[Len(disk) + 1] = r
        /\ \A i \in 1 .. Len(disk) : disk'[i] = disk[i]
    BY <1>0, <2>1
  <2>3. \A i \in 1 .. Len(disk') : i \in 1 .. Len(disk) \/ i = Len(disk) + 1
    BY <1>0, <2>2
  <2>4. \A i \in 1 .. Len(disk') : disk'[i].id <= nextId'
    BY <1>0, <2>1, <2>2, <2>3 DEF IdsInv
  <2>5. \A i, j \in 1 .. Len(disk') : i < j => disk'[i].id < disk'[j].id
    <3> SUFFICES ASSUME NEW i \in 1 .. Len(disk'), NEW j \in 1 .. Len(disk'), i < j
                 PROVE  disk'[i].id < disk'[j].id
      OBVIOUS
    <3>1. i \in 1 .. Len(disk) /\ disk'[i] = disk[i]
      BY <1>0, <2>2, <2>3
    <3>2. CASE j \in 1 .. Len(disk)
      BY <1>0, <2>2, <3>1, <3>2 DEF IdsInv
    <3>3. CASE j = Len(disk) + 1
      BY <1>0, <2>1, <2>2, <3>1, <3>3 DEF IdsInv
    <3> QED
      BY <2>3, <3>2, <3>3
  <2> QED
    BY <2>4, <2>5 DEF IdsInv
<1>4. CASE \E p \in Proc : OpenRepair(p)
  BY <1>0, <1>4 DEF OpenRepair, IdsInv
<1> QED
  BY <1>1, <1>2, <1>3, <1>4 DEF Next, Step, vars, file, OpenRead, OpenRepairFails, Lock,
     CatchUpNothing, CatchUpTail, CatchUpFails, CutFails, Release, WriteTorn, SyncDeferred,
     SyncCovered, SyncNotCovered, SyncLock, SyncSkip, SyncEof, SyncFsync, SyncMark,
     SyncFails, Stop

\* replay_records() accepts the bytes beyond the replayed length only when that
\* length is where the view ends: of one behind its view the next record names
\* an earlier parent than the head.
LEMMA CatchUpTailView ==
    ASSUME ChainInv, NEW p \in Proc, NEW k \in 0 .. Len(disk), pc[p] \in Open,
           Continues(p, k)
    PROVE  k = Len(mem[p])
<1>1. mem[p] \in Seq(Op) /\ disk \in Seq(Op)
  BY DEF ChainInv, TypeOK
<1>2. Prefix(mem[p], disk) /\ Len(mem[p]) \in 0 .. Len(disk) /\ Len(disk) \in Nat
  BY <1>1 DEF ChainInv, ViewIsPrefix, Prefix
<1>3. k <= Len(mem[p])
  <2>1. PICK j \in 0 .. Len(mem[p]) : lenBytes[p] = EndOf(disk, j)
    BY DEF ChainInv, ViewIsPrefix
  <2>2. j \in 0 .. Len(disk) /\ EndOf(disk, j) = EndOf(disk, k)
    BY <1>2, <2>1 DEF Continues
  <2>3. j = k
    BY <2>2, EndsDistinct DEF ChainInv
  <2> QED
    BY <2>1, <2>3
<1>4. ASSUME k < Len(mem[p]) PROVE FALSE
  <2>1. k + 1 \in 1 .. Len(disk) /\ Len(mem[p]) \in 1 .. Len(disk) /\ mem[p] # <<>>
        /\ k < Len(disk)
    BY <1>1, <1>2, <1>4
  <2>2. disk[k + 1].parent = disk[Len(mem[p])].id
    <3>1. mem[p][Len(mem[p])] = disk[Len(mem[p])]
      BY <1>2, <2>1 DEF Prefix
    <3> QED
      BY <2>1, <3>1 DEF Continues, HeadOf
  <2>3. \A i \in 1 .. Len(disk) : disk[i].id \in Nat /\ disk[i].id # ROOT
    BY <1>1, OpFields DEF Ids, ROOT
  <2>4. CASE k = 0
    BY <2>1, <2>2, <2>3, <2>4 DEF ChainInv, ParentInv
  <2>5. CASE k # 0
    <3>1. k \in 1 .. Len(disk) /\ disk[k + 1].parent = disk[k].id
      BY <1>2, <2>1, <2>5 DEF ChainInv, ParentInv
    <3>2. disk[k].id < disk[Len(mem[p])].id
      BY <1>4, <2>1, <3>1 DEF ChainInv, IdsInv
    <3> QED
      BY <2>1, <2>2, <2>3, <3>1, <3>2
  <2> QED
    BY <2>4, <2>5
<1> QED
  BY <1>2, <1>3, <1>4

\* After replay_records() the view is the whole file, and the old length was
\* where the old view ended.
LEMMA TakeInView ==
    ASSUME ChainInv, NEW p \in Proc, pc[p] \in Open, TakeIn(p)
    PROVE  /\ lenBytes[p] = EndOf(disk, Len(mem[p])) /\ Len(mem[p]) \in 0 .. Len(disk)
           /\ Len(mem'[p]) = Len(disk)
           /\ \A i \in 1 .. Len(disk) : mem'[p][i] = disk[i]
           /\ \A q \in Proc : q # p => mem'[q] = mem[q]
<1>0. TypeOK
  BY DEF ChainInv
<1>1. PICK k \in 0 .. Len(disk) :
         /\ Continues(p, k)
         /\ mem' = [mem EXCEPT ![p] = @ \o SubSeq(disk, k + 1, Len(disk))]
  BY DEF TakeIn
<1>2. k = Len(mem[p]) /\ lenBytes[p] = EndOf(disk, k)
  BY <1>1, CatchUpTailView DEF Continues
<1>3. Prefix(mem[p], disk)
  BY DEF ChainInv, ViewIsPrefix
<1> DEFINE tail == SubSeq(disk, k + 1, Len(disk))
<1>4. /\ tail \in Seq(Op) /\ Len(tail) = Len(disk) - k
      /\ \A i \in 1 .. Len(disk) - k : tail[i] = disk[k + i]
  <2>0. disk \in Seq(Op)
    BY <1>0 DEF TypeOK
  <2>1. Len(disk) \in Nat /\ k \in Nat /\ \A i \in 1 .. Len(disk) : disk[i] \in Op
    BY <2>0
  <2>2. \A i \in k + 1 .. Len(disk) : disk[i] \in Op
    BY <2>1
  <2>3. k + 1 \in Int /\ Len(disk) \in Int
    BY <2>1
  <2>4. tail \in Seq(Op)
    BY <2>2, <2>3, SubSeqProperties
  <2>5. Len(tail) = IF k + 1 <= Len(disk) THEN Len(disk) - (k + 1) + 1 ELSE 0
    BY <2>2, <2>3, SubSeqProperties
  <2>6. \A i \in 1 .. Len(disk) - (k + 1) + 1 : tail[i] = disk[(k + 1) + i - 1]
    BY <2>2, <2>3, SubSeqProperties
  <2> QED
    BY <2>1, <2>4, <2>5, <2>6
<1> HIDE DEF tail
<1>5. mem'[p] = mem[p] \o tail /\ \A q \in Proc : q # p => mem'[q] = mem[q]
  BY <1>0, <1>1 DEF TypeOK, tail
<1>6. /\ Len(mem'[p]) = Len(disk)
      /\ \A i \in 1 .. Len(disk) : mem'[p][i] = disk[i]
  <2>1. mem[p] \in Seq(Op) /\ Len(disk) \in Nat
    BY <1>0 DEF TypeOK
  <2>2. /\ Len(mem[p] \o tail) = k + Len(tail)
        /\ \A i \in 1 .. k + Len(tail) :
             (mem[p] \o tail)[i] = IF i <= k THEN mem[p][i] ELSE tail[i - k]
    BY <1>2, <1>4, <2>1, ConcatProperties
  <2>3. \A i \in 1 .. k : mem[p][i] = disk[i]
    BY <1>2, <1>3 DEF Prefix
  <2>4. k \in Nat /\ k + Len(tail) = Len(disk)
    BY <1>1, <1>4, <2>1
  <2>5. ASSUME NEW i \in 1 .. Len(disk) PROVE mem'[p][i] = disk[i]
    <3>1. mem'[p][i] = IF i <= k THEN mem[p][i] ELSE tail[i - k]
      BY <1>5, <2>2, <2>4
    <3>2. CASE i <= k
      BY <2>3, <2>4, <3>1, <3>2
    <3>3. CASE ~(i <= k)
      <4>1. i - k \in 1 .. Len(disk) - k /\ k + (i - k) = i
        BY <2>1, <2>4, <3>3
      <4> QED
        BY <1>4, <3>1, <3>3, <4>1
    <3> QED
      BY <3>2, <3>3
  <2> QED
    BY <1>5, <2>2, <2>4, <2>5
<1> QED
  BY <1>1, <1>2, <1>5, <1>6

\* Steps that leave the records of the file alone and move one process
\* without giving it the lock or another view.
LEMMA QuietStep ==
    ASSUME ChainInv, NEW p \in Proc, TypeOK', IdsInv',
           header' = header, disk' = disk, torn' = torn, mem' = mem,
           lenBytes' = lenBytes, pc[p] \in Open,
           \E where \in Open \ {"locked", "caughtUp"} :
              /\ Goto(p, where)
              /\ where = "idle" \/ pc[p] \notin {"idle", "locked"},
           logLock' = logLock \/ (logLock = p /\ logLock' = None)
    PROVE  ChainInv'
<1>1. \A q \in Proc : q # p => pc'[q] = pc[q]
  BY DEF Goto, ChainInv, TypeOK
<1>2. /\ pc'[p] \in Open \ {"locked", "caughtUp"}
      /\ pc'[p] = "idle" \/ pc[p] \notin {"idle", "locked"}
  BY DEF Goto, ChainInv, TypeOK
<1>3. HeaderInv' /\ EndsInv' /\ ParentInv'
  BY <1>1, <1>2 DEF ChainInv, HeaderInv, EndsInv, ParentInv, EndOf, Closed, Open
<1>4. ViewIsPrefix'
  <2>1. ViewIsPrefix /\ ViewOf(disk, mem'[p], lenBytes'[p], pc'[p])
    BY <1>2 DEF ChainInv, ViewIsPrefix, ViewOf
  <2> QED
    BY <1>1, <2>1, ViewStep
<1>5. LockInv'
  <2> SUFFICES ASSUME NEW q \in Proc, pc'[q] \in {"locked", "caughtUp"}
               PROVE  /\ logLock' = q
                      /\ pc'[q] = "caughtUp" => torn = 0 /\ Len(mem[q]) = Len(disk)
    BY DEF LockInv
  <2>1. q # p /\ pc[q] = pc'[q]
    BY <1>1, <1>2
  <2> QED
    BY <2>1 DEF ChainInv, LockInv
<1> QED
  BY <1>3, <1>4, <1>5 DEF ChainInv

\* Every step of every process, and a power loss, keeps the chain invariant: only
\* write_record(), under the lock and caught up, adds to the chain.
LEMMA ChainInvStep == ASSUME ChainInv, [Next]_vars PROVE ChainInv'
<1>0. TypeOK /\ TypeOK' /\ IdsInv'
  BY TypeStep, IdsInvStep DEF ChainInv
<1>1. CASE UNCHANGED vars
  BY <1>0, <1>1 DEF ChainInv, HeaderInv, EndsInv, ParentInv, ViewIsPrefix, Prefix,
     EndOf, LockInv, vars, file, device, locks, local
<1>2. CASE PowerLoss
  <2>1. PICK cut \in flushed .. FileLen, k \in 0 .. Len(disk) :
           /\ header' = (header /\ cut >= HeaderLen)
           /\ k > 0 => disk[k].end <= cut
           /\ disk' = SubSeq(disk, 1, k)
    BY <1>2 DEF PowerLoss
  <2>2. /\ Len(disk') = k
        /\ \A i \in 1 .. k : disk'[i] = disk[i]
    <3>1. disk \in Seq(Op)
      BY <1>0 DEF TypeOK
    <3> QED
      BY <2>1, <3>1, SubSeqProperties
  <2>3. \A p \in Proc : pc'[p] = "closed"
    BY <1>2 DEF PowerLoss
  <2>4. ASSUME ~header' PROVE disk' = <<>>
    <3>1. CASE ~header
      BY <1>0, <2>1, <2>2, <3>1, EmptySeq DEF ChainInv, HeaderInv, TypeOK
    <3>2. CASE ~(cut >= HeaderLen)
      <4>1. cut \in Int
        BY <1>0, LengthsAreNat DEF TypeOK
      <4>2. k = 0
        BY <1>0, <2>1, <3>2, <4>1, SizeAssumption, OpFields, SMTT(30) DEF ChainInv, EndsInv, TypeOK
      <4> QED
        BY <1>0, <2>2, <4>2, EmptySeq DEF TypeOK
    <3>3. header \in BOOLEAN /\ ~(header /\ cut >= HeaderLen)
      BY <1>0, <2>1, <2>4 DEF TypeOK
    <3>4. ~header \/ ~(cut >= HeaderLen)
      BY <3>3
    <3> QED
      BY <3>1, <3>2, <3>4
  <2>5. EndsInv' /\ ParentInv'
    <3>1. Len(disk) \in Nat
      BY <1>0 DEF TypeOK
    <3>2. \A i \in 1 .. k : i \in 1 .. Len(disk) /\ (i # 1 => i - 1 \in 1 .. k)
      BY <3>1
    <3>3. EndsInv'
      BY <2>2, <3>1, <3>2 DEF ChainInv, EndsInv
    <3>4. ParentInv'
      BY <2>2, <3>1, <3>2 DEF ChainInv, ParentInv
    <3> QED
      BY <3>3, <3>4
  <2>6. HeaderInv' /\ ViewIsPrefix' /\ LockInv'
    BY <2>3, <2>4 DEF HeaderInv, ViewIsPrefix, LockInv, Closed, Open
  <2> QED
    BY <1>0, <2>5, <2>6 DEF ChainInv
<1>3. CASE \E p \in Proc : Step(p)
  <2> SUFFICES ASSUME NEW p \in Proc, Step(p) PROVE ChainInv'
    BY <1>3
  <2>1. CASE OpenRead(p)
    <3>1. ~NeedsRepair => Load(p) /\ pc' = [pc EXCEPT ![p] = "idle"]
      BY <2>1 DEF OpenRead, Goto
    <3>2. NeedsRepair => /\ mem' = mem /\ lenBytes' = lenBytes
                         /\ pc' = [pc EXCEPT ![p] = "repair"]
      BY <2>1 DEF OpenRead, Goto
    <3>3. UNCHANGED <<file, locks>>
      BY <2>1 DEF OpenRead
    <3>4. HeaderInv' /\ EndsInv' /\ ParentInv' /\ LockInv'
      BY <1>0, <3>1, <3>2, <3>3, ZenonT(60) DEF ChainInv, HeaderInv, EndsInv, ParentInv, LockInv,
         NeedsRepair, Load, TypeOK, file, locks, Closed, Open
    <3>5. ViewIsPrefix'
      <4>1. CASE NeedsRepair
        <5>1. pc'[p] = "repair"
          BY <1>0, <3>2, <4>1 DEF TypeOK
        <5>2. \A q \in Proc : q # p => /\ pc'[q] = pc[q] /\ mem'[q] = mem[q]
                                       /\ lenBytes'[q] = lenBytes[q]
          BY <1>0, <3>2, <4>1 DEF TypeOK
        <5> QED
          BY <3>3, <5>1, <5>2, ViewStep DEF ChainInv, Open, file
      <4>2. CASE ~NeedsRepair
        <5>1. mem'[p] = disk /\ lenBytes'[p] = EndOf(disk, Len(disk))
          BY <1>0, <3>1, <4>2 DEF TypeOK, Load
        <5>2. \A q \in Proc : q # p => /\ pc'[q] = pc[q] /\ mem'[q] = mem[q]
                                       /\ lenBytes'[q] = lenBytes[q]
          BY <1>0, <3>1, <4>2 DEF TypeOK, Load
        <5>3. Prefix(disk, disk) /\ Len(disk) \in Nat
          BY <1>0 DEF Prefix, TypeOK
        <5>4. ViewOf(disk, mem'[p], lenBytes'[p], pc'[p])
          BY <5>1, <5>3, WholeView
        <5> QED
          BY <3>3, <5>2, <5>4, ViewStep DEF ChainInv, file
      <4> QED
        BY <4>1, <4>2
    <3> QED
      BY <1>0, <3>4, <3>5 DEF ChainInv
  <2>2. CASE OpenRepair(p)
    <3>1. disk' = disk
      BY <2>2 DEF OpenRepair, ChainInv, HeaderInv
    <3>2. header' /\ torn' = 0 /\ pc' = [pc EXCEPT ![p] = "idle"]
          /\ UNCHANGED locks /\ logLock = None
          /\ mem' = [mem EXCEPT ![p] = disk]
          /\ lenBytes' = [lenBytes EXCEPT ![p] = EndOf(disk, Len(disk))]
      BY <2>2, <3>1 DEF OpenRepair, Goto
    <3>3. HeaderInv' /\ EndsInv' /\ ParentInv'
      BY <3>1, <3>2 DEF ChainInv, HeaderInv, EndsInv, ParentInv
    <3>4. ViewIsPrefix'
      <4>1. mem'[p] = disk /\ lenBytes'[p] = EndOf(disk, Len(disk))
        BY <1>0, <3>2 DEF TypeOK
      <4>2. \A q \in Proc : q # p => /\ pc'[q] = pc[q] /\ mem'[q] = mem[q]
                                     /\ lenBytes'[q] = lenBytes[q]
        BY <1>0, <3>2 DEF TypeOK
      <4>3. Prefix(disk, disk) /\ Len(disk) \in Nat
        BY <1>0 DEF Prefix, TypeOK
      <4>4. ViewOf(disk, mem'[p], lenBytes'[p], pc'[p])
        BY <4>1, <4>3, WholeView
      <4> QED
        BY <3>1, <4>2, <4>4, ViewStep DEF ChainInv
    <3>5. LockInv'
      BY <1>0, <3>1, <3>2, ProcAssumption DEF ChainInv, LockInv, TypeOK, locks
    <3> QED
      BY <1>0, <3>3, <3>4, <3>5 DEF ChainInv
  <2>3. CASE Lock(p)
    <3>1. logLock = None /\ logLock' = p /\ pc' = [pc EXCEPT ![p] = "locked"]
          /\ pc[p] = "idle" /\ UNCHANGED <<file, mem, lenBytes>>
      BY <2>3 DEF Lock, Goto
    <3>2. HeaderInv' /\ EndsInv' /\ ParentInv'
      BY <1>0, <3>1 DEF ChainInv, HeaderInv, EndsInv, ParentInv, TypeOK, file, Closed
    <3>3. ViewIsPrefix'
      <4>1. ViewIsPrefix /\ ViewOf(disk, mem'[p], lenBytes'[p], pc'[p])
        BY <1>0, <3>1 DEF ChainInv, ViewIsPrefix, ViewOf, TypeOK, Open
      <4>2. \A q \in Proc : q # p => /\ pc'[q] = pc[q] /\ mem'[q] = mem[q]
                                     /\ lenBytes'[q] = lenBytes[q]
        BY <1>0, <3>1 DEF TypeOK
      <4> QED
        BY <3>1, <4>1, <4>2, ViewStep DEF file
    <3>4. LockInv'
      BY <1>0, <3>1, ProcAssumption DEF ChainInv, LockInv, TypeOK, file
    <3> QED
      BY <1>0, <3>2, <3>3, <3>4 DEF ChainInv
  <2>4. CASE CatchUpNothing(p)
    <3>1. pc[p] = "locked" /\ pc' = [pc EXCEPT ![p] = "caughtUp"]
          /\ UNCHANGED <<file, locks, mem, lenBytes>> /\ FileLen <= lenBytes[p]
      BY <2>4 DEF CatchUpNothing, Goto, UpToDate
    <3>2. header /\ Len(mem[p]) <= Len(disk) /\ Prefix(mem[p], disk)
          /\ \E k \in 0 .. Len(mem[p]) : lenBytes[p] = EndOf(disk, k)
      BY <3>1 DEF ChainInv, HeaderInv, ViewIsPrefix, Prefix, Closed, Open
    <3>3. torn = 0 /\ Len(mem[p]) = Len(disk) /\ lenBytes[p] = EndOf(disk, Len(disk))
      <4>1. Len(mem[p]) \in Nat /\ Len(disk) \in Nat /\ torn \in Nat
        <5>1. mem[p] \in Seq(Op) /\ disk \in Seq(Op) /\ torn \in Nat
          BY <1>0 DEF TypeOK
        <5> QED
          BY <5>1
      <4>0. PICK k \in 0 .. Len(mem[p]) : lenBytes[p] = EndOf(disk, k)
        BY <3>2
      <4>2. k \in 0 .. Len(disk) /\ Len(disk) \in 0 .. Len(disk)
        BY <3>2, <4>0, <4>1
      <4>3. EndOf(disk, k) \in Nat /\ EndOf(disk, Len(disk)) \in Nat
        BY <4>2, EndsOrdered DEF ChainInv
      <4>4. torn + EndOf(disk, Len(disk)) <= EndOf(disk, k)
        BY <3>1, <3>2, <4>0 DEF FileLen
      <4>5. ~(k < Len(disk))
        BY <4>1, <4>2, <4>3, <4>4, EndsOrdered DEF ChainInv
      <4>6. k = Len(disk) /\ Len(mem[p]) = Len(disk)
        BY <3>2, <4>0, <4>1, <4>2, <4>5
      <4> QED
        BY <4>0, <4>1, <4>3, <4>4, <4>6
    <3>4. HeaderInv' /\ EndsInv' /\ ParentInv'
      BY <1>0, <3>1, <3>2 DEF ChainInv, HeaderInv, EndsInv, ParentInv, TypeOK, file
    <3>5. ViewIsPrefix'
      <4>1. mem'[p] = mem[p] /\ lenBytes'[p] = lenBytes[p] /\ Len(mem[p]) \in Nat
        BY <1>0, <3>1 DEF TypeOK
      <4>2. ViewOf(disk, mem'[p], lenBytes'[p], pc'[p])
        BY <3>2, <3>3, <4>1, WholeView
      <4>3. \A q \in Proc : q # p => /\ pc'[q] = pc[q] /\ mem'[q] = mem[q]
                                     /\ lenBytes'[q] = lenBytes[q]
        BY <1>0, <3>1 DEF TypeOK
      <4> QED
        BY <3>1, <4>2, <4>3, ViewStep DEF ChainInv, file
    <3>6. LockInv'
      BY <1>0, <3>1, <3>3 DEF ChainInv, LockInv, TypeOK, file, locks
    <3> QED
      BY <1>0, <3>4, <3>5, <3>6 DEF ChainInv
  <2>5. CASE CatchUpTail(p)
    <3>2. pc[p] = "locked" /\ pc' = [pc EXCEPT ![p] = "caughtUp"] /\ torn' = 0
          /\ lenBytes' = [lenBytes EXCEPT ![p] = EndOf(disk, Len(disk))]
          /\ UNCHANGED <<header, disk, locks>>
      BY <2>5 DEF CatchUpTail, Goto
    <3>3. header /\ logLock = p
      BY <3>2 DEF ChainInv, HeaderInv, LockInv, Closed
    <3>6. /\ Len(mem'[p]) = Len(disk)
          /\ \A i \in 1 .. Len(disk) : mem'[p][i] = disk[i]
          /\ \A q \in Proc : q # p => mem'[q] = mem[q]
      BY <2>5, <3>2, TakeInView DEF CatchUpTail, Open
    <3>7. HeaderInv' /\ EndsInv' /\ ParentInv'
      BY <1>0, <3>2, <3>3 DEF ChainInv, HeaderInv, EndsInv, ParentInv, TypeOK
    <3>8. ViewIsPrefix'
      <4>1. Len(disk) \in Nat /\ lenBytes'[p] = EndOf(disk, Len(disk))
        BY <1>0, <3>2 DEF TypeOK
      <4>2. ViewOf(disk, mem'[p], lenBytes'[p], pc'[p])
        BY <3>6, <4>1, WholeView DEF Prefix
      <4>3. \A q \in Proc : q # p => /\ pc'[q] = pc[q] /\ mem'[q] = mem[q]
                                     /\ lenBytes'[q] = lenBytes[q]
        BY <1>0, <3>2, <3>6 DEF TypeOK
      <4> QED
        BY <3>2, <4>2, <4>3, ViewStep DEF ChainInv
    <3>9. LockInv'
      <4> SUFFICES ASSUME NEW q \in Proc
                   PROVE  /\ pc'[q] \in {"locked", "caughtUp"} => logLock' = q
                          /\ pc'[q] = "caughtUp" => torn' = 0 /\ Len(mem'[q]) = Len(disk)
        BY <3>2 DEF LockInv
      <4>1. CASE q = p
        BY <1>0, <3>2, <3>3, <3>6, <4>1 DEF locks
      <4>2. CASE q # p
        BY <1>0, <3>2, <3>3, <3>6, <4>2 DEF ChainInv, LockInv, TypeOK
      <4> QED
        BY <4>1, <4>2
    <3> QED
      BY <1>0, <3>7, <3>8, <3>9 DEF ChainInv
  <2>19. CASE OpenRepairFails(p)
    <3>1. disk' = disk /\ pc' = [pc EXCEPT ![p] = "closed"] /\ UNCHANGED <<mem, lenBytes, locks>>
          /\ (~header' => ~header) /\ logLock = None
      BY <2>19 DEF OpenRepairFails, Goto
    <3>2. \A q \in Proc : q # p => /\ pc'[q] = pc[q] /\ mem'[q] = mem[q]
                                   /\ lenBytes'[q] = lenBytes[q]
      BY <1>0, <3>1 DEF TypeOK
    <3>3. pc'[p] = "closed"
      BY <1>0, <3>1 DEF TypeOK
    <3>4. HeaderInv' /\ EndsInv' /\ ParentInv'
      BY <3>1, <3>2, <3>3 DEF ChainInv, HeaderInv, EndsInv, ParentInv, Closed
    <3>5. ViewIsPrefix'
      BY <3>1, <3>2, <3>3, ViewStep DEF ChainInv, Open
    <3>6. LockInv'
      BY <3>1, <3>2, <3>3, ProcAssumption DEF ChainInv, LockInv, locks
    <3> QED
      BY <1>0, <3>4, <3>5, <3>6 DEF ChainInv
  <2>20. CASE CatchUpFails(p)
    <3>1. logLock = p
      BY <2>20 DEF CatchUpFails, ChainInv, LockInv
    <3> QED
      BY <1>0, <2>20, <3>1, QuietStep DEF CatchUpFails, file, Open
  <2>21. CASE CutFails(p)
    <3>1. pc[p] = "locked" /\ pc' = [pc EXCEPT ![p] = "idle"]
          /\ UNCHANGED <<header, disk, lenBytes>> /\ logLock' = None
      BY <2>21 DEF CutFails, Goto
    <3>2. /\ Len(mem'[p]) = Len(disk)
          /\ \A i \in 1 .. Len(disk) : mem'[p][i] = disk[i]
          /\ \A q \in Proc : q # p => mem'[q] = mem[q]
          /\ lenBytes[p] = EndOf(disk, Len(mem[p])) /\ Len(mem[p]) \in 0 .. Len(disk)
      BY <2>21, <3>1, TakeInView DEF CutFails, Open
    <3>3. /\ pc'[p] = "idle" /\ logLock = p
          /\ \A q \in Proc : q # p => pc'[q] = pc[q] /\ mem'[q] = mem[q]
                                       /\ lenBytes'[q] = lenBytes[q]
      BY <1>0, <3>1, <3>2 DEF TypeOK, ChainInv, LockInv
    <3>4. HeaderInv' /\ EndsInv' /\ ParentInv'
      BY <1>0, <3>1, <3>3 DEF ChainInv, HeaderInv, EndsInv, ParentInv, TypeOK, Closed
    <3>5. ViewIsPrefix'
      <4>1. ViewOf(disk, mem'[p], lenBytes'[p], pc'[p])
        <5>1. Prefix(mem'[p], disk) /\ Len(mem[p]) \in 0 .. Len(mem'[p])
          BY <1>0, <3>2 DEF Prefix, TypeOK
        <5> QED
          BY <3>1, <3>2, <3>3, <5>1 DEF ViewOf
      <4> QED
        BY <3>1, <3>3, <4>1, ViewStep DEF ChainInv
    <3>6. LockInv'
      <4> SUFFICES ASSUME NEW q \in Proc, pc'[q] \in {"locked", "caughtUp"} PROVE FALSE
        BY DEF LockInv
      <4> QED
        BY <3>3 DEF ChainInv, LockInv
    <3> QED
      BY <1>0, <3>4, <3>5, <3>6 DEF ChainInv
  <2>6. CASE Release(p)
    BY <1>0, <2>6, CaughtUpView, QuietStep DEF Release, file, device, Open
  <2>7. CASE \E size \in Sizes : WriteRecord(p, size)
    <3>1. PICK size \in Sizes : WriteRecord(p, size)
      BY <2>7
    <3> DEFINE rec == [id     |-> nextId + 1,
                       parent |-> HeadOf(mem[p]),
                       end    |-> lenBytes[p] + size]
    <3>2. /\ rec.parent = HeadOf(mem[p]) /\ rec.end = EndOf(disk, Len(disk)) + size
          /\ rec.end = lenBytes[p] + size
      BY <3>1, CaughtUpView DEF WriteRecord
    <3> HIDE DEF rec
    <3>3. /\ disk' = Append(disk, rec) /\ mem' = [mem EXCEPT ![p] = Append(@, rec)]
          /\ lenBytes' = [lenBytes EXCEPT ![p] = rec.end]
          /\ logLock' = None /\ pc' = [pc EXCEPT ![p] = "appended"]
          /\ header' = header /\ torn' = torn /\ pc[p] = "caughtUp"
      BY <3>1, WriteAppends DEF WriteRecord, rec, Goto
    <3>4. header /\ logLock = p /\ Len(mem[p]) = Len(disk) /\ Prefix(mem[p], disk)
      BY <3>3, CaughtUpView
    <3>5. /\ Len(disk') = Len(disk) + 1
          /\ \A i \in 1 .. Len(disk) : disk'[i] = disk[i]
          /\ disk'[Len(disk) + 1] = rec
      BY <1>0, <3>3 DEF TypeOK
    <3>6. /\ Len(mem'[p]) = Len(disk) + 1
          /\ \A i \in 1 .. Len(disk) : mem'[p][i] = disk[i]
          /\ mem'[p][Len(disk) + 1] = rec
      <4>1. mem[p] \in Seq(Op) /\ mem'[p] = Append(mem[p], rec)
        BY <1>0, <3>3 DEF TypeOK
      <4> QED
        BY <3>4, <4>1 DEF Prefix
    <3>7. HeaderInv'
      BY <3>3, <3>4 DEF HeaderInv
    <3>8. EndsInv'
      <4>1. size \in Nat \ {0} /\ EndOf(disk, Len(disk)) \in Nat
        BY <1>0, SizeAssumption, LengthsAreNat
      <4>2. Len(disk) \in Nat /\ \A i \in 1 .. Len(disk) : disk[i].end \in Nat
        BY <1>0, OpFields DEF TypeOK
      <4>3. \A i \in 1 .. Len(disk) : disk[i].end < rec.end
        BY <3>2, <4>1, <4>2 DEF ChainInv, EndsInv, EndOf
      <4>4. rec.end > HeaderLen
        BY <3>2, <4>1, <4>2, SizeAssumption DEF ChainInv, EndsInv, EndOf
      <4> QED
        BY <3>5, <4>2, <4>3, <4>4, SMTT(30) DEF ChainInv, EndsInv
    <3>9. ParentInv'
      <4>0. mem[p] \in Seq(Op) /\ Len(disk) \in Nat
        BY <1>0 DEF TypeOK
      <4>1. Len(disk) \in Nat /\ (mem[p] = <<>> <=> Len(disk) = 0)
        BY <3>4, <4>0, EmptySeq
      <4>2. rec.parent = (IF Len(disk) = 0 THEN ROOT ELSE disk[Len(disk)].id)
        BY <3>2, <3>4, <4>1 DEF HeadOf, Prefix
      <4> QED
        BY <3>5, <4>1, <4>2 DEF ChainInv, ParentInv
    <3>10. ViewIsPrefix'
      <4>1. Len(disk) \in Nat /\ lenBytes'[p] = rec.end
        BY <1>0, <3>3, OpFields DEF TypeOK
      <4> SUFFICES ASSUME NEW q \in Proc, pc'[q] \in Open
                   PROVE  ViewOf(disk', mem'[q], lenBytes'[q], pc'[q])
        BY DEF ViewIsPrefix, ViewOf, EndOf, Prefix
      <4>2. CASE q = p
        <5>1. Prefix(mem'[p], disk') /\ lenBytes'[p] = EndOf(disk', Len(mem'[p]))
              /\ Len(mem'[p]) \in Nat
          BY <3>5, <3>6, <4>1 DEF Prefix, EndOf
        <5> QED
          BY <4>2, <5>1, WholeView
      <4>3. CASE q # p
        <5>1. pc[q] \in Open /\ pc'[q] = pc[q] /\ mem'[q] = mem[q] /\ lenBytes'[q] = lenBytes[q]
          BY <1>0, <3>3, <4>3 DEF TypeOK
        <5>2. PICK k \in 0 .. Len(mem[q]) :
                 /\ lenBytes[q] = EndOf(disk, k)
                 /\ pc[q] \notin {"idle", "locked"} => k = Len(mem[q])
          BY <5>1 DEF ChainInv, ViewIsPrefix
        <5>3. Len(mem[q]) \in Nat /\ Prefix(mem[q], disk)
          <6>1. mem[q] \in Seq(Op)
            BY <1>0 DEF TypeOK
          <6> QED
            BY <5>1, <6>1 DEF ChainInv, ViewIsPrefix
        <5>4. EndOf(disk', k) = EndOf(disk, k)
          BY <3>5, <4>1, <5>3 DEF EndOf, Prefix
        <5>5. Prefix(mem[q], disk')
          BY <3>5, <4>1, <5>3 DEF Prefix
        <5> QED
          BY <5>1, <5>2, <5>4, <5>5 DEF ViewOf
      <4> QED
        BY <4>2, <4>3
    <3>11. LockInv'
      BY <1>0, <3>3, <3>4 DEF ChainInv, LockInv, TypeOK
    <3> QED
      BY <1>0, <3>7, <3>8, <3>9, <3>10, <3>11 DEF ChainInv
  <2>8. CASE \E bytes \in 1 .. MaxTorn : WriteTorn(p, bytes)
    <3>1. logLock = p /\ logLock' = None /\ pc[p] = "caughtUp"
          /\ pc' = [pc EXCEPT ![p] = "idle"] /\ UNCHANGED <<header, disk, mem, lenBytes>>
      BY <2>8, CaughtUpView DEF WriteTorn, Goto
    <3>2. HeaderInv' /\ EndsInv' /\ ParentInv'
      BY <1>0, <3>1 DEF ChainInv, HeaderInv, EndsInv, ParentInv, TypeOK, Closed
    <3>3. ViewIsPrefix'
      <4>1. ViewIsPrefix /\ ViewOf(disk, mem'[p], lenBytes'[p], pc'[p])
        BY <1>0, <3>1 DEF ChainInv, ViewIsPrefix, ViewOf, TypeOK, Open
      <4>2. \A q \in Proc : q # p => /\ pc'[q] = pc[q] /\ mem'[q] = mem[q]
                                     /\ lenBytes'[q] = lenBytes[q]
        BY <1>0, <3>1 DEF TypeOK
      <4> QED
        BY <3>1, <4>1, <4>2, ViewStep
    <3>4. LockInv'
      BY <1>0, <3>1 DEF ChainInv, LockInv, TypeOK
    <3> QED
      BY <1>0, <3>2, <3>3, <3>4 DEF ChainInv
  <2>9. CASE SyncDeferred(p)
    BY <1>0, <2>9, QuietStep DEF SyncDeferred, file, locks, Open
  <2>10. CASE SyncCovered(p)
    BY <1>0, <2>10, QuietStep DEF SyncCovered, file, locks, Open
  <2>11. CASE SyncNotCovered(p)
    BY <1>0, <2>11, QuietStep DEF SyncNotCovered, file, locks, Open
  <2>12. CASE SyncLock(p)
    BY <1>0, <2>12, QuietStep DEF SyncLock, file, Open
  <2>13. CASE SyncSkip(p)
    BY <1>0, <2>13, QuietStep DEF SyncSkip, file, Open
  <2>14. CASE SyncEof(p)
    BY <1>0, <2>14, QuietStep DEF SyncEof, file, locks, Open
  <2>15. CASE SyncFsync(p)
    BY <1>0, <2>15, QuietStep DEF SyncFsync, file, locks, Open
  <2>16. CASE SyncMark(p)
    BY <1>0, <2>16, QuietStep DEF SyncMark, file, Open
  <2>17. CASE SyncFails(p)
    BY <1>0, <2>17, QuietStep DEF SyncFails, file, Open
  <2>18. CASE Stop(p)
    <3>1. /\ logLock' = Freed(logLock, p) /\ pc' = [pc EXCEPT ![p] = "closed"]
          /\ mem' = [mem EXCEPT ![p] = <<>>] /\ lenBytes' = [lenBytes EXCEPT ![p] = 0]
          /\ UNCHANGED file
      BY <2>18 DEF Stop, Goto
    <3>2. HeaderInv' /\ EndsInv' /\ ParentInv'
      BY <1>0, <3>1 DEF ChainInv, HeaderInv, EndsInv, ParentInv, TypeOK, Closed, file
    <3>3. \A q \in Proc : q # p => /\ pc'[q] = pc[q] /\ mem'[q] = mem[q]
                                   /\ lenBytes'[q] = lenBytes[q]
      BY <1>0, <3>1 DEF TypeOK
    <3>4. pc'[p] = "closed"
      BY <1>0, <3>1 DEF TypeOK
    <3>5. ViewIsPrefix'
      BY <3>1, <3>3, <3>4, ViewStep DEF ChainInv, Open, file
    <3>6. LockInv'
      BY <3>1, <3>3, <3>4 DEF ChainInv, LockInv, Freed, file
    <3> QED
      BY <1>0, <3>2, <3>5, <3>6 DEF ChainInv
  <2> QED
    BY <2>1, <2>2, <2>3, <2>4, <2>5, <2>6, <2>7, <2>8, <2>9, <2>10, <2>11, <2>12,
       <2>13, <2>14, <2>15, <2>16, <2>17, <2>18, <2>19, <2>20, <2>21 DEF Step
<1> QED
  BY <1>1, <1>2, <1>3 DEF Next

-----------------------------------------------------------------------------
\* Every variable keeps its type in every reachable state: whatever open(),
\* catch_up(), write_record() and sync() do, ids stay ids and lengths lengths.
THEOREM TypeCorrect == Spec => []TypeOK
<1>1. ChainInv => TypeOK
  BY DEF ChainInv
<1> QED
  BY <1>1, ChainInvInit, ChainInvStep, PTL DEF Spec

\* The file is one hash chain in every reachable state.
THEOREM ChainIsLinear == Spec => []ChainLinear
<1>1. ChainInv => ChainLinear
  <2> SUFFICES ASSUME ChainInv PROVE ChainLinear
    OBVIOUS
  <2>1. Len(disk) \in Nat /\ DOMAIN disk = 1 .. Len(disk)
    BY DEF ChainInv, TypeOK
  <2>2. \A i \in 1 .. Len(disk) : EndOf(disk, i - 1) < disk[i].end
    BY <2>1 DEF ChainInv, EndsInv, EndOf
  <2>3. \A i \in 1 .. Len(disk) : disk[i].end \in Nat
    BY OpFields DEF ChainInv, TypeOK
  <2> QED
    BY <2>1, <2>2, <2>3, LengthsAreNat DEF ChainInv, ParentInv, ChainLinear
<1> QED
  BY <1>1, ChainInvInit, ChainInvStep, PTL DEF Spec

\* No process ever holds an operation that is not in the file.
THEOREM ViewsArePrefixes == Spec => []ViewIsPrefix
<1>1. ChainInv => ViewIsPrefix
  BY DEF ChainInv
<1> QED
  BY <1>1, ChainInvInit, ChainInvStep, PTL DEF Spec

\* catch_up() is refused exactly where an earlier one of the same process failed
\* between taking the records in and moving its length.
THEOREM RefusedOnlyBehind == Spec => []OnlyTheBehindAreRefused
<1>1. ChainInv => OnlyTheBehindAreRefused
  <2> SUFFICES ASSUME ChainInv, NEW p \in Proc, pc[p] = "locked"
               PROVE  Behind(p) <=> ~\E k \in 0 .. Len(disk) : Continues(p, k)
    BY DEF OnlyTheBehindAreRefused
  <2>1. mem[p] \in Seq(Op) /\ disk \in Seq(Op)
    BY DEF ChainInv, TypeOK
  <2>2. Prefix(mem[p], disk)
    BY DEF ChainInv, ViewIsPrefix, Open
  <2>3. Len(mem[p]) \in 0 .. Len(disk) /\ Len(disk) \in Nat /\ Len(mem[p]) \in Nat
    BY <2>1, <2>2 DEF Prefix
  <2>4. EndOf(mem[p], Len(mem[p])) = EndOf(disk, Len(mem[p]))
    BY <2>2, <2>3 DEF EndOf, Prefix
  <2>5. PICK j \in 0 .. Len(mem[p]) : lenBytes[p] = EndOf(disk, j)
    BY DEF ChainInv, ViewIsPrefix, Open
  <2>6. /\ \A i \in 0 .. Len(disk) : EndOf(disk, i) \in Nat
        /\ \A i, l \in 0 .. Len(disk) : i < l => EndOf(disk, i) < EndOf(disk, l)
    BY EndsOrdered DEF ChainInv
  <2>7. j \in 0 .. Len(disk) /\ (j < Len(mem[p]) \/ j = Len(mem[p]))
    BY <2>3, <2>5
  <2>8. Behind(p) <=> lenBytes[p] # EndOf(disk, Len(mem[p]))
    BY <2>3, <2>4, <2>5, <2>6, <2>7 DEF Behind
  <2>9. ASSUME NEW k \in 0 .. Len(disk), Continues(p, k) PROVE ~Behind(p)
    <3>1. k = Len(mem[p])
      BY <2>9, CatchUpTailView DEF Open
    <3> QED
      BY <2>8, <2>9, <3>1 DEF Continues
  <2>10. ASSUME ~Behind(p) PROVE Continues(p, Len(mem[p]))
    <3>1. lenBytes[p] = EndOf(disk, Len(mem[p]))
      BY <2>8, <2>10
    <3>2. ASSUME Len(mem[p]) < Len(disk)
          PROVE  disk[Len(mem[p]) + 1].parent = HeadOf(mem[p])
      <4>1. mem[p] = <<>> <=> Len(mem[p]) = 0
        BY <2>1, EmptySeq
      <4>2. Len(mem[p]) + 1 \in 1 .. Len(disk)
        BY <2>3, <3>2
      <4>3. CASE Len(mem[p]) = 0
        BY <4>1, <4>2, <4>3 DEF ChainInv, ParentInv, HeadOf
      <4>4. CASE Len(mem[p]) # 0
        <5>1. disk[Len(mem[p]) + 1].parent = disk[Len(mem[p])].id
          BY <2>3, <4>2, <4>4 DEF ChainInv, ParentInv
        <5>2. mem[p][Len(mem[p])] = disk[Len(mem[p])]
          BY <2>2, <2>3, <4>4 DEF Prefix
        <5> QED
          BY <4>1, <4>4, <5>1, <5>2 DEF HeadOf
      <4> QED
        BY <4>3, <4>4
    <3> QED
      BY <3>1, <3>2 DEF Continues
  <2> QED
    BY <2>3, <2>9, <2>10
<1> QED
  BY <1>1, ChainInvInit, ChainInvStep, PTL DEF Spec

\* A step that leaves a process alive only appends.
LEMMA StepOnlyAppends == ASSUME ChainInv, [Next]_vars PROVE OnlyAppends
<1>0. disk \in Seq(Op)
  BY DEF ChainInv, TypeOK
<1>1. disk' = disk => Prefix(disk, disk')
  BY <1>0 DEF Prefix
<1>2. CASE PowerLoss
  BY <1>2 DEF PowerLoss, OnlyAppends
<1>3. CASE \E p \in Proc, size \in Sizes : WriteRecord(p, size)
  <2>1. PICK r : disk' = Append(disk, r)
    BY <1>3, WriteAppends
  <2> QED
    BY <1>0, <2>1 DEF Prefix, OnlyAppends
<1>4. CASE \E p \in Proc : OpenRepair(p)
  BY <1>1, <1>4 DEF OpenRepair, OnlyAppends, ChainInv, HeaderInv
<1>5. ASSUME ~PowerLoss, ~(\E p \in Proc, size \in Sizes : WriteRecord(p, size)),
             ~(\E p \in Proc : OpenRepair(p))
      PROVE  disk' = disk
  <2>1. CASE UNCHANGED vars
    BY <2>1 DEF vars, file
  <2>2. CASE \E p \in Proc : Step(p)
    BY <1>5, <2>2 DEF Step, OpenRead, OpenRepairFails, Lock, CatchUpNothing, CatchUpTail,
       CatchUpFails, CutFails, Release,
       WriteTorn, SyncDeferred, SyncCovered, SyncNotCovered, SyncLock, SyncSkip,
       SyncEof, SyncFsync, SyncMark, SyncFails, Stop, file
  <2> QED
    BY <1>5, <2>1, <2>2 DEF Next
<1> QED
  BY <1>1, <1>2, <1>3, <1>4, <1>5 DEF OnlyAppends

\* Nothing but a power loss ever takes a record out of the file.
THEOREM LogOnlyGrows == Spec => AppendOnly
  BY ChainInvInit, ChainInvStep, StepOnlyAppends, PTL DEF Spec, AppendOnly

-----------------------------------------------------------------------------
(* Durability, when only a power loss leaves a fragment.                   *)

\* The first b bytes lie within whole records, of a file d with a header if
\* h, and the device holds them: its first f bytes.
Holds(h, d, f, b) ==
    b = 0 \/ (h /\ \E j \in 0 .. Len(d) : b <= EndOf(d, j) /\ EndOf(d, j) <= f)
DurableUpTo(b) == Holds(header, disk, flushed, b)

\* Every open() cuts the fragment before any process is past it.
TornQuiet == torn > 0 => \A p \in Proc : pc[p] \in Closed

SyncInv ==
    \A p \in Proc :
        /\ pc[p] = "fsync" => eof[p] <= EndOf(disk, Len(disk))
        /\ pc[p] = "mark" => DurableUpTo(eof[p]) /\ lenBytes[p] <= flushed

DurableInv ==
    /\ ChainInv
    /\ TornQuiet
    /\ flushed <= FileLen
    /\ DurableUpTo(marker)
    /\ SyncInv
    /\ AckedDurable

\* The durability invariant holds of a log no process has opened.
LEMMA DurableInvInit == Init => DurableInv
<1> SUFFICES ASSUME Init PROVE DurableInv
  OBVIOUS
<1>1. TornQuiet /\ SyncInv
  BY DEF Init, TornQuiet, SyncInv, Closed
<1>2. flushed <= FileLen /\ DurableUpTo(marker)
  BY DEF Init, FileLen, DurableUpTo, Holds
<1>3. AckedDurable
  BY DEF Init, AckedDurable
<1> QED
  BY <1>1, <1>2, <1>3, ChainInvInit DEF DurableInv

\* A live process is looking at a file of whole records.
LEMMA OpenFile ==
    ASSUME DurableInv, NEW p \in Proc, pc[p] \in Open
    PROVE  header /\ torn = 0 /\ FileLen = EndOf(disk, Len(disk))
<1>1. header
  BY DEF DurableInv, ChainInv, HeaderInv, Open, Closed
<1>2. torn = 0
  <2>1. torn \in Nat
    BY DEF DurableInv, ChainInv, TypeOK
  <2>2. pc[p] \notin Closed
    BY DEF Open, Closed
  <2> QED
    BY <2>1, <2>2 DEF DurableInv, TornQuiet
<1> QED
  BY <1>1, <1>2, LengthsAreNat DEF FileLen, DurableInv, ChainInv

\* Durability survives any step that appends and flushes more.
LEMMA StaysDurable ==
    ASSUME DurableInv, TypeOK', Prefix(disk, disk'), header => header', flushed' >= flushed
    PROVE  /\ \A b \in Nat : DurableUpTo(b) => Holds(header', disk', flushed', b)
           /\ \A a \in acked : \E i \in DOMAIN disk' :
                disk'[i].id = a /\ disk'[i].end <= flushed'
<1>1. /\ disk \in Seq(Op) /\ disk' \in Seq(Op) /\ flushed \in Nat /\ flushed' \in Nat
      /\ TypeOK /\ EndsInv
  BY DEF DurableInv, ChainInv, TypeOK
<1>2. Len(disk) \in Nat /\ Len(disk') \in Nat /\ Len(disk) <= Len(disk')
  BY <1>1 DEF Prefix
<1>3. \A j \in 0 .. Len(disk) : j \in 0 .. Len(disk') /\ EndOf(disk', j) = EndOf(disk, j)
                               /\ EndOf(disk, j) \in Nat
  BY <1>1, <1>2, EndsOrdered DEF EndOf, Prefix
<1>4. ASSUME NEW b \in Nat, DurableUpTo(b) PROVE Holds(header', disk', flushed', b)
  <2>1. CASE b = 0
    BY <2>1 DEF Holds
  <2>2. CASE b # 0
    <3>1. header /\ \E j \in 0 .. Len(disk) :
                     b <= EndOf(disk, j) /\ EndOf(disk, j) <= flushed
      BY <1>4, <2>2 DEF DurableUpTo, Holds
    <3>2. PICK j \in 0 .. Len(disk) : b <= EndOf(disk, j) /\ EndOf(disk, j) <= flushed
      BY <3>1
    <3>3. b <= EndOf(disk', j) /\ EndOf(disk', j) <= flushed' /\ j \in 0 .. Len(disk')
      BY <1>1, <1>3, <3>2
    <3> QED
      BY <3>1, <3>3 DEF Holds
  <2> QED
    BY <2>1, <2>2
<1>5. ASSUME NEW a \in acked
      PROVE  \E i \in DOMAIN disk' : disk'[i].id = a /\ disk'[i].end <= flushed'
  <2>1. PICK i \in DOMAIN disk : disk[i].id = a /\ disk[i].end <= flushed
    BY DEF DurableInv, AckedDurable
  <2>2. i \in DOMAIN disk' /\ disk'[i] = disk[i]
    BY <1>1, <1>2, <2>1 DEF Prefix
  <2>3. disk[i].end \in Nat
    BY <1>1, <2>1, OpFields
  <2> QED
    BY <1>1, <2>1, <2>2, <2>3
<1> QED
  BY <1>4, <1>5

\* A process may acknowledge its view once the device holds its bytes.
LEMMA AckIsDurable ==
    ASSUME DurableInv, NEW p \in Proc, pc[p] \in Open \ {"idle", "locked"},
           NEW held \in Nat, lenBytes[p] <= held
    PROVE  \A a \in IdsIn(mem[p]) : \E i \in DOMAIN disk :
              disk[i].id = a /\ disk[i].end <= held
<1>1. mem[p] \in Seq(Op) /\ disk \in Seq(Op) /\ TypeOK /\ EndsInv
  BY DEF DurableInv, ChainInv, TypeOK
<1>2. Prefix(mem[p], disk) /\ lenBytes[p] = EndOf(disk, Len(mem[p]))
  BY ViewWhole DEF DurableInv, ChainInv
<1>3. Len(mem[p]) \in 0 .. Len(disk)
  BY <1>1, <1>2 DEF Prefix
<1> SUFFICES ASSUME NEW i \in 1 .. Len(mem[p])
             PROVE  i \in DOMAIN disk /\ disk[i].id = mem[p][i].id /\ disk[i].end <= held
  BY <1>1 DEF IdsIn
<1>4. i \in DOMAIN disk /\ disk[i] = mem[p][i] /\ i \in 0 .. Len(disk) /\ i # 0
  BY <1>1, <1>2, <1>3 DEF Prefix
<1>5. EndOf(disk, i) = disk[i].end /\ disk[i].end \in Nat
  BY <1>1, <1>4, OpFields DEF EndOf
<1>6. EndOf(disk, Len(mem[p])) \in Nat
  BY <1>1, <1>3, EndsOrdered
<1>7. i < Len(mem[p]) \/ i = Len(mem[p])
  BY <1>1
<1>8. EndOf(disk, i) <= EndOf(disk, Len(mem[p]))
  BY <1>1, <1>3, <1>4, <1>5, <1>6, <1>7, EndsOrdered
<1> QED
  BY <1>2, <1>4, <1>5, <1>6, <1>8

\* The marker covers a process only when the device holds its bytes.
LEMMA CoveredIsDurable ==
    ASSUME DurableInv, NEW p \in Proc, pc[p] \in Open, Covered(p)
    PROVE  lenBytes[p] <= flushed
<1>1. marker \in Nat /\ flushed \in Nat /\ lenBytes[p] \in Nat /\ TypeOK /\ EndsInv
  BY DEF DurableInv, ChainInv, TypeOK
<1>2. CASE marker = 0
  BY <1>1, <1>2 DEF Covered
<1>3. CASE marker # 0
  <2>1. PICK j \in 0 .. Len(disk) : marker <= EndOf(disk, j) /\ EndOf(disk, j) <= flushed
    BY <1>3 DEF DurableInv, DurableUpTo, Holds
  <2>2. EndOf(disk, j) \in Nat
    BY <1>1, EndsOrdered
  <2> QED
    BY <1>1, <2>1, <2>2 DEF Covered
<1> QED
  BY <1>2, <1>3

\* Steps of a live process: the file only grows by whole records, the device
\* only gains bytes, and the marker and the acknowledgements stay within them.
LEMMA LiveStep ==
    ASSUME DurableInv, ChainInv', NEW p \in Proc, pc[p] \in Open,
           Prefix(disk, disk'), header' = header, torn' = 0,
           flushed' \in Nat, flushed' >= flushed,
           flushed' <= EndOf(disk', Len(disk')),
           marker' = marker \/ (marker' = eof[p] /\ pc[p] = "mark"),
           acked' = acked \/ /\ acked' = acked \cup IdsIn(mem[p]) /\ lenBytes[p] <= flushed'
                             /\ pc[p] \notin {"idle", "locked"},
           \A q \in Proc : q # p => /\ pc'[q] = pc[q] /\ eof'[q] = eof[q]
                                   /\ lenBytes'[q] = lenBytes[q],
           pc'[p] = "fsync" => eof'[p] <= EndOf(disk', Len(disk')),
           pc'[p] = "mark" => /\ eof'[p] = eof[p] /\ lenBytes'[p] <= flushed'
                              /\ Holds(header', disk', flushed', eof[p])
    PROVE  DurableInv'
<1>1. TypeOK /\ TypeOK' /\ header /\ header' /\ marker \in Nat /\ eof[p] \in Nat
      /\ flushed \in Nat
  BY OpenFile DEF DurableInv, ChainInv, TypeOK
<1>2. /\ \A b \in Nat : DurableUpTo(b) => Holds(header', disk', flushed', b)
      /\ \A a \in acked : \E i \in DOMAIN disk' : disk'[i].id = a /\ disk'[i].end <= flushed'
  BY <1>1, StaysDurable
<1>3. TornQuiet'
  BY DEF TornQuiet
<1>4. EndOf(disk', Len(disk')) \in Nat /\ EndOf(disk, Len(disk)) \in Nat
      /\ EndOf(disk, Len(disk)) <= EndOf(disk', Len(disk'))
  <2>1. disk \in Seq(Op) /\ disk' \in Seq(Op) /\ EndsInv'
    BY <1>1 DEF TypeOK, ChainInv
  <2>2. Len(disk) \in Nat /\ Len(disk') \in Nat /\ Len(disk) <= Len(disk')
    BY <2>1 DEF Prefix
  <2>3. \A i \in 1 .. Len(disk') : disk'[i].end \in Nat
    BY <2>1, OpFields
  <2>4. EndOf(disk', Len(disk')) \in Nat /\ EndOf(disk', Len(disk)) = EndOf(disk, Len(disk))
    BY <2>1, <2>2, <2>3, SizeAssumption DEF EndOf, Prefix
  <2>5. EndOf(disk', Len(disk)) \in Nat
    BY <2>2, <2>3, SizeAssumption DEF EndOf
  <2>6. EndOf(disk', Len(disk)) <= EndOf(disk', Len(disk'))
    BY <2>1, <2>2, <2>3, SizeAssumption DEF EndOf, EndsInv
  <2> QED
    BY <2>4, <2>5, <2>6
<1>5. FileLen' = EndOf(disk', Len(disk'))
  BY <1>1, <1>4 DEF FileLen
<1>6. Holds(header', disk', flushed', marker')
  <2>1. DurableUpTo(marker) /\ (pc[p] = "mark" => DurableUpTo(eof[p]))
    BY DEF DurableInv, SyncInv
  <2> QED
    BY <1>1, <1>2, <2>1
<1>7. DurableUpTo(marker)'
  BY <1>6 DEF DurableUpTo
<1>8. AckedDurable'
  <2> SUFFICES ASSUME NEW a \in acked'
               PROVE  \E i \in DOMAIN disk' : disk'[i].id = a /\ disk'[i].end <= flushed'
    BY DEF AckedDurable
  <2>1. CASE a \in acked
    BY <1>2, <2>1
  <2>2. CASE a \notin acked
    <3>1. a \in IdsIn(mem[p]) /\ lenBytes[p] <= flushed' /\ pc[p] \notin {"idle", "locked"}
      BY <2>2
    <3>2. PICK i \in DOMAIN disk : disk[i].id = a /\ disk[i].end <= flushed'
      BY <3>1, AckIsDurable
    <3>3. disk \in Seq(Op) /\ disk' \in Seq(Op)
      BY <1>1 DEF TypeOK
    <3>4. i \in DOMAIN disk' /\ disk'[i] = disk[i]
      BY <3>2, <3>3 DEF Prefix
    <3> QED
      BY <3>2, <3>4
  <2> QED
    BY <2>1, <2>2
<1>9. SyncInv'
  <2> SUFFICES ASSUME NEW q \in Proc
               PROVE  /\ pc'[q] = "fsync" => eof'[q] <= EndOf(disk', Len(disk'))
                      /\ pc'[q] = "mark" => /\ Holds(header', disk', flushed', eof'[q])
                                             /\ lenBytes'[q] <= flushed'
    BY DEF SyncInv, DurableUpTo
  <2>1. CASE q = p
    BY <2>1
  <2>2. CASE q # p
    <3>1. pc'[q] = pc[q] /\ eof'[q] = eof[q] /\ lenBytes'[q] = lenBytes[q]
      BY <2>2
    <3>2. eof[q] \in Nat /\ lenBytes[q] \in Nat
      BY <1>1 DEF TypeOK
    <3>3. pc'[q] = "fsync" => eof'[q] <= EndOf(disk', Len(disk'))
      BY <1>4, <3>1, <3>2 DEF DurableInv, SyncInv
    <3>4. ASSUME pc'[q] = "mark" PROVE Holds(header', disk', flushed', eof'[q]) /\ lenBytes'[q] <= flushed'
      <4>1. DurableUpTo(eof[q]) /\ lenBytes[q] <= flushed
        BY <3>1, <3>4 DEF DurableInv, SyncInv
      <4>2. Holds(header', disk', flushed', eof'[q])
        BY <1>2, <3>1, <3>2, <4>1
      <4> QED
        <5>1. lenBytes'[q] <= flushed'
          BY <1>1, <3>1, <3>2, <4>1
        <5> QED
          BY <4>2, <5>1
    <3> QED
      BY <3>3, <3>4
  <2> QED
    BY <2>1, <2>2
<1> QED
  BY <1>3, <1>5, <1>7, <1>8, <1>9 DEF DurableInv

\* Where no writer dies inside write_record(), every step, the marker's of
\* sync_to() included, keeps the durability invariant.
LEMMA DurableInvStep == ASSUME MaxTorn = 0, DurableInv, [Next]_vars PROVE DurableInv'
<1>0. ChainInv /\ ChainInv' /\ TypeOK /\ TypeOK'
  <2>1. ChainInv
    BY DEF DurableInv
  <2> QED
    BY <2>1, ChainInvStep DEF ChainInv
<1>1. CASE UNCHANGED vars
  BY <1>0, <1>1 DEF DurableInv, TornQuiet, SyncInv, AckedDurable, DurableUpTo, Holds,
     EndOf, FileLen, vars, file, device, locks, local
<1>2. CASE PowerLoss
  <2>1. PICK cut \in flushed .. FileLen, k \in 0 .. Len(disk) :
           /\ header' = (header /\ cut >= HeaderLen)
           /\ k < Len(disk) => cut < disk[k + 1].end
           /\ disk' = SubSeq(disk, 1, k)
           /\ torn' = (IF header' THEN cut - EndOf(disk, k) ELSE cut)
           /\ flushed' = cut
    BY <1>2 DEF PowerLoss
  <2>2. \A p \in Proc : pc'[p] = "closed"
    BY <1>2 DEF PowerLoss
  <2>3. marker' \in 0 .. marker /\ acked' = acked
    BY <1>2 DEF PowerLoss
  <2>4. cut \in Nat /\ flushed \in Nat /\ flushed <= cut /\ Len(disk) \in Nat /\ k \in Nat
        /\ marker \in Nat
    BY <1>0, LengthsAreNat DEF TypeOK
  <2>5. Len(disk') = k /\ \A i \in 1 .. k : disk'[i] = disk[i]
    BY <1>0, <2>1, SubSeqProperties DEF TypeOK
  <2>6. \A i \in 1 .. Len(disk) : disk[i].end \in Nat
    BY <1>0, OpFields DEF TypeOK
  \* the cut spares every record the device holds
  <2>7. ASSUME NEW i \in 1 .. Len(disk), disk[i].end <= flushed PROVE i \in 1 .. k
    <3> SUFFICES ASSUME k < i PROVE FALSE
      BY <2>4
    <3>1. k + 1 \in 1 .. Len(disk) /\ cut < disk[k + 1].end
      BY <2>1, <2>4
    <3>2. k + 1 < i \/ k + 1 = i
      BY <2>4
    <3>3. disk[k + 1].end <= disk[i].end
      BY <1>0, <2>6, <3>1, <3>2 DEF ChainInv, EndsInv
    <3> QED
      BY <2>4, <2>6, <2>7, <3>1, <3>3
  <2>8. TornQuiet' /\ SyncInv'
    BY <2>2 DEF TornQuiet, SyncInv, Closed
  <2>9. flushed' <= FileLen'
    <3>1. EndOf(disk', Len(disk')) = EndOf(disk, k) /\ EndOf(disk, k) \in Nat
      BY <1>0, <2>4, <2>5, LengthsAreNat DEF EndOf
    <3> QED
      BY <2>1, <2>4, <3>1 DEF FileLen
  <2>10. AckedDurable'
    <3> SUFFICES ASSUME NEW a \in acked
                 PROVE  \E i \in DOMAIN disk' : disk'[i].id = a /\ disk'[i].end <= flushed'
      BY <2>3 DEF AckedDurable
    <3>1. PICK i \in DOMAIN disk : disk[i].id = a /\ disk[i].end <= flushed
      BY DEF DurableInv, AckedDurable
    <3>2. i \in 1 .. Len(disk) /\ i \in 1 .. k
      <4>1. disk \in Seq(Op)
        BY <1>0 DEF TypeOK
      <4>2. i \in 1 .. Len(disk)
        BY <3>1, <4>1
      <4> QED
        BY <2>7, <3>1, <4>2
    <3>3. i \in DOMAIN disk' /\ disk'[i] = disk[i] /\ disk[i].end \in Nat
      <4>1. disk' \in Seq(Op)
        BY <1>0 DEF TypeOK
      <4> QED
        BY <2>5, <2>6, <3>2, <4>1
    <3> QED
      BY <2>1, <2>4, <3>1, <3>3
  <2>11. DurableUpTo(marker)'
    <3> SUFFICES Holds(header', disk', flushed', marker')
      BY DEF DurableUpTo
    <3>1. CASE marker' = 0
      BY <3>1 DEF Holds
    <3>2. CASE marker' # 0
      <4>1. marker # 0
        BY <2>3, <2>4, <3>2
      <4>2. header
        BY <4>1 DEF DurableInv, DurableUpTo, Holds
      <4>3. PICK j \in 0 .. Len(disk) : marker <= EndOf(disk, j) /\ EndOf(disk, j) <= flushed
        BY <4>1 DEF DurableInv, DurableUpTo, Holds
      <4>4. j \in 0 .. k
        <5>1. CASE j = 0
          BY <2>4, <5>1
        <5>2. CASE j # 0
          BY <2>4, <2>7, <4>3, <5>2 DEF EndOf
        <5> QED
          BY <5>1, <5>2
      <4>5. EndOf(disk', j) = EndOf(disk, j) /\ EndOf(disk, j) \in Nat
            /\ EndOf(disk, j) >= HeaderLen
        BY <1>0, <2>5, <4>3, <4>4, EndsOrdered DEF EndOf, ChainInv
      <4>6. header' = TRUE
        <5>1. cut >= HeaderLen
          BY <2>4, <4>3, <4>5, SizeAssumption
        <5> QED
          BY <2>1, <4>2, <5>1
      <4>7. marker' <= EndOf(disk', j) /\ EndOf(disk', j) <= flushed' /\ j \in 0 .. Len(disk')
        BY <2>1, <2>3, <2>4, <2>5, <4>3, <4>4, <4>5
      <4> QED
        BY <4>6, <4>7 DEF Holds
    <3> QED
      BY <3>1, <3>2
  <2> QED
    BY <1>0, <2>8, <2>9, <2>10, <2>11 DEF DurableInv
<1>3. CASE \E p \in Proc : Step(p)
  <2> SUFFICES ASSUME NEW p \in Proc, Step(p) PROVE DurableInv'
    BY <1>3
  <2>0. /\ disk \in Seq(Op) /\ Prefix(disk, disk)
        /\ flushed \in Nat /\ EndOf(disk, Len(disk)) \in Nat /\ FileLen \in Nat
        /\ flushed <= FileLen /\ lenBytes[p] \in Nat
    <3>1. disk \in Seq(Op)
      BY <1>0 DEF TypeOK
    <3>2. flushed \in Nat /\ lenBytes[p] \in Nat /\ flushed <= FileLen
      BY <1>0 DEF TypeOK, DurableInv
    <3> QED
      BY <1>0, <3>1, <3>2, LengthsAreNat DEF Prefix
  \* open(): before it nobody is alive to be hurt by the repair
  <2>1. CASE OpenRead(p)
    <3>1. UNCHANGED <<file, device, acked, eof>> /\ pc[p] = "closed"
          /\ pc' = [pc EXCEPT ![p] = IF NeedsRepair THEN "repair" ELSE "idle"]
          /\ (NeedsRepair => lenBytes' = lenBytes)
          /\ (~NeedsRepair => lenBytes' = [lenBytes EXCEPT ![p] = EndOf(disk, Len(disk))])
      BY <2>1 DEF OpenRead, Goto, Load
    <3>2. \A q \in Proc : q # p => pc'[q] = pc[q] /\ lenBytes'[q] = lenBytes[q]
      BY <1>0, <3>1 DEF TypeOK
    <3>3. pc'[p] = IF NeedsRepair THEN "repair" ELSE "idle"
      BY <1>0, <3>1 DEF TypeOK
    <3>4. TornQuiet'
      BY <3>1, <3>2, <3>3 DEF DurableInv, TornQuiet, NeedsRepair, file, Closed
    <3>5. SyncInv'
      BY <3>1, <3>2, <3>3 DEF DurableInv, SyncInv, DurableUpTo, Holds, EndOf, file, device
    <3>6. flushed' <= FileLen' /\ DurableUpTo(marker)' /\ AckedDurable'
      BY <2>0, <3>1 DEF DurableInv, FileLen, DurableUpTo, Holds, EndOf, AckedDurable, file, device
    <3> QED
      BY <1>0, <3>4, <3>5, <3>6 DEF DurableInv
  <2>18. CASE Stop(p)
    <3>1. UNCHANGED <<file, marker, acked, eof>> /\ flushed' \in {flushed, FileLen}
          /\ pc' = [pc EXCEPT ![p] = "closed"]
          /\ lenBytes' = [lenBytes EXCEPT ![p] = 0]
      BY <2>18 DEF Stop, Goto
    <3>2. \A q \in Proc : q # p => pc'[q] = pc[q] /\ lenBytes'[q] = lenBytes[q]
      BY <1>0, <3>1 DEF TypeOK
    <3>3. pc'[p] = "closed"
      BY <1>0, <3>1 DEF TypeOK
    <3>4. flushed' \in Nat /\ flushed' >= flushed /\ flushed' <= FileLen
      BY <2>0, <3>1
    <3>5. /\ \A b \in Nat : DurableUpTo(b) => Holds(header', disk', flushed', b)
          /\ \A a \in acked : \E i \in DOMAIN disk' : disk'[i].id = a /\ disk'[i].end <= flushed'
      BY <1>0, <2>0, <3>1, <3>4, StaysDurable DEF file
    <3>6. TornQuiet'
      BY <3>1, <3>2, <3>3 DEF DurableInv, TornQuiet, file, Closed
    <3>7. SyncInv'
      <4> SUFFICES ASSUME NEW q \in Proc
                   PROVE  /\ pc'[q] = "fsync" => eof'[q] <= EndOf(disk', Len(disk'))
                          /\ pc'[q] = "mark" => /\ Holds(header', disk', flushed', eof'[q])
                                               /\ lenBytes'[q] <= flushed'
        BY DEF SyncInv, DurableUpTo
      <4>1. CASE q = p
        BY <3>3, <4>1
      <4>2. CASE q # p
        <5>1. pc'[q] = pc[q] /\ eof'[q] = eof[q] /\ lenBytes'[q] = lenBytes[q] /\ disk' = disk
              /\ eof[q] \in Nat /\ lenBytes[q] \in Nat
          BY <1>0, <3>1, <3>2, <4>2 DEF file, TypeOK
        <5>2. pc'[q] = "fsync" => eof'[q] <= EndOf(disk', Len(disk'))
          BY <5>1 DEF DurableInv, SyncInv
        <5>3. pc'[q] = "mark" => Holds(header', disk', flushed', eof'[q])
          BY <3>5, <5>1 DEF DurableInv, SyncInv
        <5>4. pc'[q] = "mark" => lenBytes'[q] <= flushed'
          <6>1. pc[q] = "mark" => lenBytes[q] <= flushed
            BY DEF DurableInv, SyncInv
          <6> QED
            BY <2>0, <3>4, <5>1, <6>1
        <5> QED
          BY <5>2, <5>3, <5>4
      <4> QED
        BY <4>1, <4>2
    <3>8. flushed' <= FileLen'
      BY <3>1, <3>4 DEF FileLen, EndOf, file
    <3>9. DurableUpTo(marker)'
      BY <1>0, <3>1, <3>5 DEF DurableInv, DurableUpTo, TypeOK
    <3>10. AckedDurable'
      BY <3>1, <3>5 DEF AckedDurable
    <3> QED
      BY <1>0, <3>6, <3>7, <3>8, <3>9, <3>10 DEF DurableInv
  <2>2. CASE OpenRepair(p)
    <3>1. /\ header' = TRUE /\ torn' = 0 /\ disk' = disk
          /\ pc' = [pc EXCEPT ![p] = "idle"] /\ UNCHANGED <<marker, acked, eof>>
          /\ lenBytes' = [lenBytes EXCEPT ![p] = EndOf(disk, Len(disk))]
          /\ flushed' = IF NeedsRepair THEN EndOf(disk, Len(disk)) ELSE flushed
      BY <2>2 DEF OpenRepair, Goto, DurableInv, ChainInv, HeaderInv
    <3>2. /\ \A q \in Proc : q # p => pc'[q] = pc[q] /\ lenBytes'[q] = lenBytes[q]
          /\ pc'[p] = "idle"
      BY <1>0, <3>1 DEF TypeOK
    <3>3. FileLen' = EndOf(disk, Len(disk))
      BY <2>0, <3>1 DEF FileLen, EndOf
    <3>4. \A j \in 0 .. Len(disk) : EndOf(disk, j) \in Nat /\ EndOf(disk, j) <= EndOf(disk, Len(disk))
      <4> SUFFICES ASSUME NEW j \in 0 .. Len(disk)
                   PROVE  EndOf(disk, j) \in Nat /\ EndOf(disk, j) <= EndOf(disk, Len(disk))
        OBVIOUS
      <4>1. EndOf(disk, j) \in Nat /\ Len(disk) \in Nat /\ (j < Len(disk) \/ j = Len(disk))
        BY <1>0, <2>0, EndsOrdered DEF ChainInv
      <4> QED
        BY <1>0, <2>0, <4>1, EndsOrdered DEF ChainInv
    <3>5. CASE NeedsRepair
      \* nobody is past open(), so only the file and the device matter
      <4>1. \A q \in Proc : pc'[q] \in Closed \cup {"idle"}
        <5>1. torn \in Nat /\ header \in BOOLEAN
          BY <1>0 DEF TypeOK
        <5>2. \A q \in Proc : pc[q] \in Closed
          BY <1>0, <3>5, <5>1 DEF DurableInv, ChainInv, HeaderInv, TornQuiet, NeedsRepair
        <5> QED
          BY <3>2, <5>2
      <4>2. TornQuiet' /\ SyncInv'
        BY <3>1, <4>1 DEF TornQuiet, SyncInv, Closed
      <4>3. flushed' = EndOf(disk, Len(disk)) /\ flushed' <= FileLen'
        BY <2>0, <3>1, <3>3, <3>5
      <4>4. DurableUpTo(marker)'
        <5>1. Holds(header', disk', flushed', marker)
          BY <2>0, <3>1, <3>4, <4>3 DEF DurableInv, DurableUpTo, Holds
        <5> QED
          BY <3>1, <5>1 DEF DurableUpTo
      <4>5. AckedDurable'
        <5> SUFFICES ASSUME NEW a \in acked
                     PROVE  \E i \in DOMAIN disk : disk[i].id = a /\ disk[i].end <= EndOf(disk, Len(disk))
          BY <3>1, <4>3 DEF AckedDurable
        <5>1. PICK i \in DOMAIN disk : disk[i].id = a
          BY DEF DurableInv, AckedDurable
        <5>2. i \in 0 .. Len(disk) /\ EndOf(disk, i) = disk[i].end
          BY <2>0, <5>1 DEF EndOf
        <5>3. disk[i].end <= EndOf(disk, Len(disk))
          BY <3>4, <5>2
        <5> QED
          BY <5>1, <5>3
      <4> QED
        BY <1>0, <4>2, <4>3, <4>4, <4>5 DEF DurableInv
    <3>6. CASE ~NeedsRepair
      <4>1. header /\ torn = 0 /\ flushed' = flushed
        BY <1>0, <3>1, <3>6 DEF NeedsRepair, TypeOK
      <4>2. TornQuiet' /\ flushed' <= FileLen'
        BY <2>0, <3>1, <3>3, <4>1 DEF TornQuiet, FileLen
      <4>3. SyncInv'
        BY <3>1, <3>2, <4>1 DEF DurableInv, SyncInv, DurableUpTo, Holds, EndOf
      <4>4. DurableUpTo(marker)' /\ AckedDurable'
        BY <3>1, <4>1 DEF DurableInv, DurableUpTo, Holds, EndOf, AckedDurable
      <4> QED
        BY <1>0, <4>2, <4>3, <4>4 DEF DurableInv
    <3> QED
      BY <3>5, <3>6
  <2>19. CASE OpenRepairFails(p)
    <3>1. /\ disk' = disk /\ UNCHANGED <<marker, acked, eof, lenBytes>>
          /\ pc' = [pc EXCEPT ![p] = "closed"] /\ pc[p] = "repair"
          /\ flushed' = (IF header THEN KeptOf(FileLen') ELSE 0)
          /\ header => header' = header /\ torn' \in {torn, 0}
          /\ ~header => torn' \in Nat
      BY <1>0, <2>19, SizeAssumption DEF OpenRepairFails, Goto, TypeOK
    <3>2. /\ \A q \in Proc : q # p => pc'[q] = pc[q]
          /\ pc'[p] = "closed"
      BY <1>0, <3>1 DEF TypeOK
    <3>3. torn \in Nat /\ torn' \in Nat /\ header \in BOOLEAN /\ header' \in BOOLEAN
      BY <1>0 DEF TypeOK
    <3>4. CASE ~header
      <4>1. disk = <<>> /\ (\A q \in Proc : pc[q] \in Closed) /\ flushed' = 0
        BY <1>0, <3>1, <3>4 DEF ChainInv, HeaderInv
      <4>2. acked = {} /\ marker = 0
        BY <3>4, <4>1 DEF DurableInv, AckedDurable, DurableUpTo, Holds
      <4>3. TornQuiet' /\ SyncInv'
        BY <3>1, <3>2, <4>1 DEF TornQuiet, SyncInv, Closed
      <4>4. flushed' <= FileLen'
        <5>1. FileLen' \in Nat
          BY <1>0, <3>1, <3>3, CutLengthIsNat
        <5> QED
          BY <4>1, <5>1
      <4>5. DurableUpTo(marker)' /\ AckedDurable'
        BY <3>1, <4>2 DEF DurableUpTo, Holds, AckedDurable
      <4> QED
        BY <1>0, <4>3, <4>4, <4>5 DEF DurableInv
    <3>5. CASE header
      <4>1. header' = header /\ torn' \in {torn, 0} /\ flushed' = KeptOf(FileLen')
        BY <3>1, <3>5
      <4>2. FileLen' = torn' + EndOf(disk, Len(disk)) /\ FileLen = torn + EndOf(disk, Len(disk))
        BY <3>1, <3>5, <4>1 DEF FileLen, EndOf
      <4>3. flushed' \in Nat /\ flushed' <= FileLen' /\ flushed' <= flushed
            /\ \A b \in Nat : b <= EndOf(disk, Len(disk)) /\ b <= flushed => b <= flushed'
        BY <2>0, <3>3, <4>1, <4>2 DEF KeptOf
      <4>4. \A j \in 0 .. Len(disk) : EndOf(disk, j) \in Nat /\ EndOf(disk, j) <= EndOf(disk, Len(disk))
        <5> SUFFICES ASSUME NEW j \in 0 .. Len(disk)
                     PROVE  EndOf(disk, j) \in Nat /\ EndOf(disk, j) <= EndOf(disk, Len(disk))
          OBVIOUS
        <5>1. EndOf(disk, j) \in Nat /\ Len(disk) \in Nat /\ (j < Len(disk) \/ j = Len(disk))
          BY <1>0, <2>0, EndsOrdered DEF ChainInv
        <5> QED
          BY <1>0, <2>0, <5>1, EndsOrdered DEF ChainInv
      <4>5. \A b \in Nat : DurableUpTo(b) => Holds(header', disk', flushed', b)
        <5> SUFFICES ASSUME NEW b \in Nat, DurableUpTo(b), b # 0
                     PROVE  Holds(header', disk', flushed', b)
          BY DEF Holds
        <5>1. PICK j \in 0 .. Len(disk) : b <= EndOf(disk, j) /\ EndOf(disk, j) <= flushed
          BY DEF DurableUpTo, Holds
        <5>2. EndOf(disk, j) <= flushed'
          BY <4>3, <4>4, <5>1
        <5> QED
          BY <3>1, <3>5, <4>1, <5>1, <5>2 DEF Holds
      <4>6. \A a \in acked : \E i \in DOMAIN disk : disk[i].id = a /\ disk[i].end <= flushed'
        <5> SUFFICES ASSUME NEW a \in acked
                     PROVE  \E i \in DOMAIN disk : disk[i].id = a /\ disk[i].end <= flushed'
          OBVIOUS
        <5>1. PICK i \in DOMAIN disk : disk[i].id = a /\ disk[i].end <= flushed
          BY DEF DurableInv, AckedDurable
        <5>2. i \in 0 .. Len(disk) /\ EndOf(disk, i) = disk[i].end
          BY <2>0, <5>1 DEF EndOf
        <5>3. disk[i].end <= flushed'
          BY <4>3, <4>4, <5>1, <5>2
        <5> QED
          BY <5>1, <5>3
      <4>7. TornQuiet'
        BY <3>1, <3>2, <3>3, <4>1 DEF DurableInv, TornQuiet, Closed
      <4>8. SyncInv'
        <5> SUFFICES ASSUME NEW q \in Proc
                     PROVE  /\ pc'[q] = "fsync" => eof'[q] <= EndOf(disk', Len(disk'))
                            /\ pc'[q] = "mark" => /\ Holds(header', disk', flushed', eof'[q])
                                                 /\ lenBytes'[q] <= flushed'
          BY DEF SyncInv, DurableUpTo
        <5>1. CASE q = p
          BY <3>2, <5>1
        <5>2. CASE q # p
          <6>1. pc'[q] = pc[q] /\ eof'[q] = eof[q] /\ lenBytes'[q] = lenBytes[q]
                /\ eof[q] \in Nat /\ lenBytes[q] \in Nat
            BY <1>0, <3>1, <3>2, <5>2 DEF TypeOK
          <6>2. pc'[q] = "fsync" => eof'[q] <= EndOf(disk', Len(disk'))
            BY <3>1, <6>1 DEF DurableInv, SyncInv, EndOf
          <6>3. ASSUME pc[q] = "mark"
                PROVE  Holds(header', disk', flushed', eof[q]) /\ lenBytes[q] <= flushed'
            <7>1. DurableUpTo(eof[q]) /\ lenBytes[q] <= flushed
              BY <6>3 DEF DurableInv, SyncInv
            <7>2. Len(mem[q]) \in 0 .. Len(disk) /\ lenBytes[q] = EndOf(disk, Len(mem[q]))
              <8>1. Prefix(mem[q], disk) /\ lenBytes[q] = EndOf(disk, Len(mem[q]))
                BY <1>0, <6>3, ViewWhole DEF ChainInv, Open
              <8>2. mem[q] \in Seq(Op)
                BY <1>0 DEF TypeOK
              <8> QED
                BY <2>0, <8>1, <8>2 DEF Prefix
            <7>3. lenBytes[q] <= EndOf(disk, Len(disk))
              BY <4>4, <7>2
            <7> QED
              BY <4>3, <4>5, <6>1, <7>1, <7>3
          <6> QED
            BY <6>1, <6>2, <6>3
        <5> QED
          BY <5>1, <5>2
      <4>9. flushed' <= FileLen' /\ DurableUpTo(marker)' /\ AckedDurable'
        BY <1>0, <3>1, <4>3, <4>5, <4>6 DEF DurableInv, DurableUpTo, AckedDurable, TypeOK
      <4> QED
        BY <1>0, <4>7, <4>8, <4>9 DEF DurableInv
    <3> QED
      BY <3>3, <3>4, <3>5
  \* a live process
  <2>3. CASE pc[p] \in Open /\ ~Stop(p)
    <3>0. /\ pc[p] \in Open /\ header /\ torn = 0 /\ FileLen = EndOf(disk, Len(disk))
          /\ flushed <= EndOf(disk, Len(disk)) /\ lenBytes[p] <= EndOf(disk, Len(disk))
      <4>1. header /\ torn = 0 /\ FileLen = EndOf(disk, Len(disk))
        BY <2>3, OpenFile
      <4>2. PICK k \in 0 .. Len(mem[p]) : lenBytes[p] = EndOf(disk, k)
        BY <1>0, <2>3 DEF ChainInv, ViewIsPrefix
      <4>3. k \in 0 .. Len(disk) /\ (k < Len(disk) \/ k = Len(disk)) /\ Len(disk) \in 0 .. Len(disk)
        <5>1. Len(mem[p]) \in Nat /\ Len(disk) \in Nat
          <6>1. mem[p] \in Seq(Op)
            BY <1>0 DEF TypeOK
          <6> QED
            BY <2>0, <6>1
        <5>2. Len(mem[p]) <= Len(disk)
          BY <1>0, <2>3 DEF ChainInv, ViewIsPrefix, Prefix
        <5> QED
          BY <4>2, <5>1, <5>2
      <4>4. lenBytes[p] <= EndOf(disk, Len(disk))
        BY <1>0, <2>0, <4>2, <4>3, EndsOrdered DEF ChainInv
      <4> QED
        BY <2>0, <2>3, <4>1, <4>4
    <3> DEFINE Others == \A q \in Proc : q # p => /\ pc'[q] = pc[q] /\ eof'[q] = eof[q]
                                                 /\ lenBytes'[q] = lenBytes[q]
    <3>1. ASSUME NEW where \in Open \ {"fsync", "mark"}, Goto(p, where),
                 UNCHANGED <<file, device, lenBytes, eof>>,
                 acked' = acked \/ /\ acked' = acked \cup IdsIn(mem[p]) /\ Covered(p)
                                   /\ pc[p] \notin {"idle", "locked"}
          PROVE  DurableInv'
      <4>1. Others /\ pc'[p] = where
        BY <1>0, <3>1 DEF Goto, TypeOK
      <4>2. Covered(p) => lenBytes[p] <= flushed'
        BY <3>0, <3>1, CoveredIsDurable DEF device
      <4>9. /\ header' = header /\ torn' = 0 /\ Prefix(disk, disk') /\ flushed' \in Nat
            /\ flushed' >= flushed /\ flushed' <= EndOf(disk', Len(disk'))
        BY <2>0, <3>0, <3>1 DEF file, device
      <4>3. marker' = marker /\ pc'[p] # "fsync" /\ pc'[p] # "mark"
        BY <3>1, <4>1 DEF device
      <4>4. acked' = acked \/ /\ acked' = acked \cup IdsIn(mem[p]) /\ lenBytes[p] <= flushed'
                              /\ pc[p] \notin {"idle", "locked"}
        BY <3>1, <4>2
      <4> QED
        BY <1>0, <3>0, <4>1, <4>3, <4>4, <4>9, LiveStep
    <3>2. CASE Lock(p)
      BY <3>1, <3>2 DEF Lock, Open
    <3>3. CASE CatchUpNothing(p)
      BY <3>1, <3>3 DEF CatchUpNothing, locks, Open
    <3>4. CASE CatchUpTail(p)
      <4>1. pc' = [pc EXCEPT ![p] = "caughtUp"] /\ UNCHANGED <<header, disk, marker, eof, acked>>
            /\ torn' = 0 /\ flushed' = flushed
            /\ lenBytes' = [lenBytes EXCEPT ![p] = EndOf(disk, Len(disk))]
        BY <3>0, <3>4 DEF CatchUpTail, Goto
      <4>2. Others /\ pc'[p] = "caughtUp"
        BY <1>0, <4>1 DEF TypeOK
      <4>9. /\ header' = header /\ torn' = 0 /\ Prefix(disk, disk') /\ flushed' \in Nat
            /\ flushed' >= flushed /\ flushed' <= EndOf(disk', Len(disk'))
        BY <2>0, <3>0, <4>1
      <4> QED
        BY <1>0, <3>0, <4>1, <4>2, <4>9, LiveStep
    <3>18. CASE CatchUpFails(p)
      BY <3>1, <3>18 DEF CatchUpFails, Open
    <3>19. CASE CutFails(p)
      BY <3>0, <3>19 DEF CutFails
    <3>5. CASE Release(p)
      BY <3>1, <3>5 DEF Release, Open
    <3>6. CASE \E size \in Sizes : WriteRecord(p, size)
      <4>1. PICK size \in Sizes : WriteRecord(p, size)
        BY <3>6
      <4> DEFINE rec == [id     |-> nextId + 1,
                         parent |-> HeadOf(mem[p]),
                         end    |-> lenBytes[p] + size]
      <4>2. pc' = [pc EXCEPT ![p] = "appended"] /\ UNCHANGED <<header, torn, device, eof, acked>>
            /\ disk' = Append(disk, rec) /\ lenBytes' = [lenBytes EXCEPT ![p] = rec.end]
            /\ pc[p] = "caughtUp"
        BY <1>0, <4>1, WriteAppends DEF WriteRecord, Goto
      <4>3. rec.end = lenBytes[p] + size /\ lenBytes[p] = EndOf(disk, Len(disk))
        BY <1>0, <4>2, CaughtUpView
      <4> HIDE DEF rec
      <4>4. Others /\ pc'[p] = "appended"
        BY <1>0, <4>2 DEF TypeOK
      <4>5. Prefix(disk, disk') /\ Len(disk') # 0 /\ disk'[Len(disk')] = rec
        BY <2>0, <4>2 DEF Prefix
      <4>6. flushed' <= EndOf(disk', Len(disk'))
        BY <2>0, <3>0, <4>2, <4>3, <4>5, SizeAssumption DEF EndOf, device
      <4>9. /\ header' = header /\ torn' = 0 /\ Prefix(disk, disk') /\ flushed' \in Nat
            /\ flushed' >= flushed /\ flushed' <= EndOf(disk', Len(disk'))
        BY <2>0, <3>0, <4>2, <4>5, <4>6 DEF device
      <4>7. marker' = marker /\ acked' = acked /\ eof' = eof
        BY <4>2 DEF device
      <4> QED
        BY <1>0, <3>0, <4>4, <4>7, <4>9, LiveStep
    <3>7. CASE \E bytes \in 1 .. MaxTorn : WriteTorn(p, bytes)
      BY <3>7
    <3>8. CASE SyncDeferred(p)
      <4>1. pc' = [pc EXCEPT ![p] = "idle"] /\ UNCHANGED <<file, marker, eof, lenBytes>>
            /\ flushed' = FileLen /\ acked' = acked \cup IdsIn(mem[p])
        BY <3>8 DEF SyncDeferred, Goto, Ack
      <4>5. pc[p] \notin {"idle", "locked"}
        BY <3>8 DEF SyncDeferred
      <4>2. Others /\ pc'[p] = "idle"
        BY <1>0, <4>1 DEF TypeOK
      <4>9. /\ header' = header /\ torn' = 0 /\ Prefix(disk, disk') /\ flushed' \in Nat
            /\ flushed' >= flushed /\ flushed' <= EndOf(disk', Len(disk'))
        BY <2>0, <3>0, <4>1 DEF file
      <4>3. lenBytes[p] <= flushed'
        BY <3>0, <4>1
      <4> QED
        BY <1>0, <3>0, <4>1, <4>2, <4>3, <4>5, <4>9, LiveStep
    <3>9. CASE SyncCovered(p)
      BY <3>1, <3>9 DEF SyncCovered, Ack, locks, Open
    <3>10. CASE SyncNotCovered(p)
      BY <3>1, <3>10 DEF SyncNotCovered, locks, Open
    <3>11. CASE SyncLock(p)
      BY <3>1, <3>11 DEF SyncLock, Open
    <3>12. CASE SyncSkip(p)
      BY <3>1, <3>12 DEF SyncSkip, Ack, Open
    <3>13. CASE SyncEof(p)
      <4>1. pc' = [pc EXCEPT ![p] = "fsync"] /\ UNCHANGED <<file, device, lenBytes, acked>>
            /\ eof' = [eof EXCEPT ![p] = FileLen]
        BY <3>13 DEF SyncEof, Goto
      <4>2. Others /\ pc'[p] = "fsync" /\ eof'[p] = FileLen
        BY <1>0, <4>1 DEF TypeOK
      <4>9. /\ header' = header /\ torn' = 0 /\ Prefix(disk, disk') /\ flushed' \in Nat
            /\ flushed' >= flushed /\ flushed' <= EndOf(disk', Len(disk'))
        BY <2>0, <3>0, <4>1 DEF file, device
      <4>3. marker' = marker /\ eof'[p] <= EndOf(disk', Len(disk'))
        BY <2>0, <3>0, <4>1, <4>2 DEF file, device
      <4> QED
        BY <1>0, <3>0, <4>1, <4>2, <4>3, <4>9, LiveStep
    <3>14. CASE SyncFsync(p)
      <4>1. pc' = [pc EXCEPT ![p] = "mark"] /\ UNCHANGED <<file, marker, lenBytes, eof, acked>>
            /\ flushed' = FileLen /\ pc[p] = "fsync"
        BY <3>14 DEF SyncFsync, Goto
      <4>2. Others /\ pc'[p] = "mark"
        BY <1>0, <4>1 DEF TypeOK
      <4>3. Holds(header', disk', flushed', eof[p])
        <5>1. eof[p] <= EndOf(disk, Len(disk)) /\ Len(disk) \in 0 .. Len(disk)
          BY <2>0, <4>1 DEF DurableInv, SyncInv
        <5>2. header' /\ disk' = disk /\ flushed' = EndOf(disk, Len(disk))
          BY <3>0, <4>1 DEF file
        <5> QED
          BY <2>0, <5>1, <5>2 DEF Holds
      <4>9. /\ header' = header /\ torn' = 0 /\ Prefix(disk, disk') /\ flushed' \in Nat
            /\ flushed' >= flushed /\ flushed' <= EndOf(disk', Len(disk'))
        BY <2>0, <3>0, <4>1 DEF file
      <4>4. eof'[p] = eof[p] /\ lenBytes'[p] <= flushed'
        BY <3>0, <4>1
      <4> QED
        BY <1>0, <3>0, <4>1, <4>2, <4>3, <4>4, <4>9, LiveStep
    <3>15. CASE SyncMark(p)
      <4>1. pc' = [pc EXCEPT ![p] = "idle"] /\ UNCHANGED <<file, flushed, lenBytes, eof>>
            /\ marker' = eof[p] /\ acked' = acked \cup IdsIn(mem[p]) /\ pc[p] = "mark"
        BY <3>15 DEF SyncMark, Goto, Ack
      <4>2. Others /\ pc'[p] = "idle"
        BY <1>0, <4>1 DEF TypeOK
      <4>3. lenBytes[p] <= flushed'
        BY <4>1 DEF DurableInv, SyncInv
      <4>9. /\ header' = header /\ torn' = 0 /\ Prefix(disk, disk') /\ flushed' \in Nat
            /\ flushed' >= flushed /\ flushed' <= EndOf(disk', Len(disk'))
        BY <2>0, <3>0, <4>1 DEF file
      <4> QED
        BY <1>0, <3>0, <4>1, <4>2, <4>3, <4>9, LiveStep
    <3>16. CASE SyncFails(p)
      BY <3>1, <3>16 DEF SyncFails, Open
    <3>17. ~OpenRead(p) /\ ~OpenRepair(p) /\ ~OpenRepairFails(p)
      BY <3>0 DEF OpenRead, OpenRepair, OpenRepairFails, Open
    <3> QED
      BY <2>3, <3>2, <3>3, <3>4, <3>5, <3>6, <3>7, <3>8, <3>9, <3>10, <3>11, <3>12,
         <3>13, <3>14, <3>15, <3>16, <3>17, <3>18, <3>19 DEF Step
  <2>4. \/ OpenRead(p) \/ OpenRepair(p) \/ OpenRepairFails(p) \/ Stop(p)
        \/ pc[p] \in Open /\ ~Stop(p)
    BY DEF Step, Lock, CatchUpNothing, CatchUpTail, CatchUpFails, CutFails, Release, WriteRecord, WriteTorn,
       SyncDeferred, SyncCovered, SyncNotCovered, SyncLock, SyncSkip, SyncEof, SyncFsync,
       SyncMark, SyncFails, Open
  <2> QED
    BY <2>1, <2>2, <2>3, <2>4, <2>18, <2>19
<1> QED
  BY <1>1, <1>2, <1>3 DEF Next

\* No acknowledged operation is ever lost, provided that no process leaves an
\* unfinished record behind while others go on (MaxTorn = 0); power losses may
\* tear the file anywhere past what the device holds.
THEOREM AckedOpsAreDurable ==
    ASSUME MaxTorn = 0
    PROVE  Spec => []AckedDurable
<1>1. DurableInv => AckedDurable
  BY DEF DurableInv
<1>2. Init => DurableInv
  BY DurableInvInit
<1>3. DurableInv /\ [Next]_vars => DurableInv'
  BY DurableInvStep
<1> QED
  BY <1>1, <1>2, <1>3, PTL DEF Spec

-----------------------------------------------------------------------------
(* The log implements the chain it promises.                               *)

IdsOf(d) == [i \in DOMAIN d |-> d[i].id]

\* The ids of the file, and of each view, are what OpChain is told of.
LEMMA ChainMap ==
    ASSUME NEW d \in Seq(Op)
    PROVE  /\ IdsOf(d) \in Seq(Ids) /\ Len(IdsOf(d)) = Len(d)
           /\ \A i \in 1 .. Len(d) : IdsOf(d)[i] = d[i].id
           /\ Chain!InChain(IdsOf(d)) = IdsIn(d)
<1>1. \A i \in 1 .. Len(d) : d[i].id \in Ids
  BY OpFields
<1>2. IdsOf(d) \in Seq(Ids) /\ Len(IdsOf(d)) = Len(d)
  <2>1. IdsOf(d) = [i \in 1 .. Len(d) |-> d[i].id] /\ Len(d) \in Nat
    BY DEF IdsOf
  <2> QED
    BY <1>1, <2>1, IsASeq, LenProperties
<1>3. \A i \in 1 .. Len(d) : IdsOf(d)[i] = d[i].id
  BY DEF IdsOf
<1> QED
  BY <1>2, <1>3 DEF Chain!InChain, IdsIn, IdsOf

\* Every step of the log is a step of OpChain or none: an append, an
\* acknowledgement, a read or a loss.
LEMMA ChainStep ==
    ASSUME MaxTorn = 0, DurableInv, DurableInv', [Next]_vars
    PROVE  [Chain!Next]_<<IdsOf(disk), acked>>
<1>0. disk \in Seq(Op) /\ disk' \in Seq(Op) /\ nextId \in 0 .. MaxOps
  BY SMTT(30) DEF DurableInv, ChainInv, TypeOK
<1>1. CASE PowerLoss
  <2>1. PICK k \in 0 .. Len(disk) : disk' = SubSeq(disk, 1, k)
    BY <1>1 DEF PowerLoss
  <2>2. Len(disk') = k /\ \A i \in 1 .. k : disk'[i] = disk[i]
    BY <1>0, <2>1, SubSeqProperties
  <2>3. IdsOf(disk') = SubSeq(IdsOf(disk), 1, k)
    <3>1. /\ SubSeq(IdsOf(disk), 1, k) \in Seq(Ids) /\ Len(SubSeq(IdsOf(disk), 1, k)) = k
          /\ \A i \in 1 .. k : SubSeq(IdsOf(disk), 1, k)[i] = IdsOf(disk)[i]
      BY <1>0, ChainMap, SubSeqProperties
    <3>2. /\ IdsOf(disk') \in Seq(Ids) /\ Len(IdsOf(disk')) = k
          /\ \A i \in 1 .. k : IdsOf(disk')[i] = disk'[i].id
      BY <1>0, <2>2, ChainMap
    <3>3. \A i \in 1 .. k : IdsOf(disk)[i] = disk[i].id
      BY <1>0, ChainMap
    <3> QED
      BY <2>2, <3>1, <3>2, <3>3, SeqEqual
  <2>4. acked' = acked /\ acked \subseteq Chain!InChain(IdsOf(disk'))
    <3>1. acked' = acked
      BY <1>1 DEF PowerLoss
    <3>2. acked \subseteq IdsIn(disk')
      BY <3>1 DEF DurableInv, AckedDurable, IdsIn
    <3> QED
      BY <1>0, <3>1, <3>2, ChainMap
  <2>5. Len(IdsOf(disk)) = Len(disk)
    BY <1>0, ChainMap
  <2> QED
    BY <2>3, <2>4, <2>5 DEF Chain!Next, Chain!Lose, IdsOf
<1>2. CASE \E p \in Proc, size \in Sizes : WriteRecord(p, size)
  <2>1. PICK r : disk' = Append(disk, r) /\ r.id = nextId + 1
                 /\ nextId < MaxOps /\ acked' = acked
    BY <1>2, WriteAppends DEF WriteRecord, DurableInv
  <2>2. Len(disk') = Len(disk) + 1 /\ disk'[Len(disk) + 1] = r
        /\ \A i \in 1 .. Len(disk) : disk'[i] = disk[i]
    BY <1>0, <2>1
  <2>3. IdsOf(disk') = Append(IdsOf(disk), r.id)
    <3>1. r.id \in Ids
      BY <1>0, <2>1, SizeAssumption DEF Ids
    <3>2. /\ IdsOf(disk) \in Seq(Ids) /\ IdsOf(disk') \in Seq(Ids)
          /\ Len(IdsOf(disk)) = Len(disk) /\ Len(IdsOf(disk')) = Len(disk) + 1
          /\ \A i \in 1 .. Len(disk) : IdsOf(disk)[i] = disk[i].id
          /\ \A i \in 1 .. Len(disk) + 1 : IdsOf(disk')[i] = disk'[i].id
      BY <1>0, <2>2, ChainMap
    <3>3. /\ Append(IdsOf(disk), r.id) \in Seq(Ids)
          /\ Len(Append(IdsOf(disk), r.id)) = Len(disk) + 1
          /\ \A i \in 1 .. Len(disk) : Append(IdsOf(disk), r.id)[i] = disk[i].id
          /\ Append(IdsOf(disk), r.id)[Len(disk) + 1] = r.id
      BY <3>1, <3>2, AppendProperties
    <3>4. \A i \in 1 .. Len(disk) + 1 : IdsOf(disk')[i] = Append(IdsOf(disk), r.id)[i]
      <4>1. \A i \in 1 .. Len(disk) + 1 : i \in 1 .. Len(disk) \/ i = Len(disk) + 1
        BY <1>0
      <4> QED
        BY <2>2, <3>2, <3>3, <4>1
    <3> QED
      BY <3>2, <3>3, <3>4, SeqEqual
  <2>4. r.id \in Ids /\ r.id \notin Chain!InChain(IdsOf(disk))
    <3>1. \A i \in 1 .. Len(disk) : disk[i].id <= nextId /\ disk[i].id \in Nat
      BY <1>0, OpFields DEF DurableInv, ChainInv, IdsInv, Ids
    <3>2. r.id \notin IdsIn(disk)
      BY <1>0, <2>1, <3>1 DEF IdsIn
    <3> QED
      BY <1>0, <2>1, <3>2, ChainMap, SizeAssumption DEF Ids
  <2> QED
    BY <2>1, <2>3, <2>4 DEF Chain!Next, Chain!AppendOp, IdsOf
<1>3. CASE disk' = disk /\ \E p \in Proc : pc[p] \in Open /\ Ack(p)
  <2>1. PICK p \in Proc : pc[p] \in Open /\ acked' = acked \cup IdsIn(mem[p])
    BY <1>3 DEF Ack
  <2>2. acked' \subseteq IdsIn(disk)
    <3>1. acked' \subseteq IdsIn(disk')
      BY DEF DurableInv, AckedDurable, IdsIn
    <3> QED
      BY <1>3, <3>1
  <2>3. acked' \in SUBSET Chain!InChain(IdsOf(disk)) /\ acked \subseteq acked'
    BY <1>0, <2>1, <2>2, ChainMap
  <2>4. IdsOf(disk') = IdsOf(disk)
    BY <1>3
  <2> QED
    BY <2>3, <2>4 DEF Chain!Next, Chain!Promise, IdsOf
<1>4. CASE disk' = disk /\ acked' = acked
  BY <1>4
<1>5. \/ PowerLoss
      \/ \E p \in Proc, size \in Sizes : WriteRecord(p, size)
      \/ disk' = disk /\ \E p \in Proc : pc[p] \in Open /\ Ack(p)
      \/ disk' = disk /\ acked' = acked
  <2>1. CASE UNCHANGED vars
    BY <2>1 DEF vars, file
  <2>2. CASE \E p \in Proc : OpenRepair(p)
    BY <2>2 DEF OpenRepair, DurableInv, ChainInv, HeaderInv
  <2>3. CASE \E p \in Proc : Step(p) /\ ~OpenRepair(p)
    BY <2>3, ZenonT(60) DEF Step, OpenRead, OpenRepairFails, Lock, CatchUpNothing, CatchUpTail,
       CatchUpFails, CutFails, Release, WriteTorn,
       SyncDeferred, SyncCovered, SyncNotCovered, SyncLock, SyncSkip, SyncEof, SyncFsync,
       SyncMark, SyncFails, Stop, file, Open
  <2> QED
    BY <2>1, <2>2, <2>3 DEF Next
<1> QED
  BY <1>1, <1>2, <1>3, <1>4, <1>5

\* Under the same assumption the whole module, with its locks, markers, repairs
\* and power losses, implements OpChain.
THEOREM LogImplementsChain ==
    ASSUME MaxTorn = 0
    PROVE  Spec => ImplementsOpChain
<1>1. Init => Chain!Init
  BY DEF Init, Chain!Init
<1>2. Init => DurableInv
  BY DurableInvInit
<1>3. DurableInv /\ [Next]_vars => DurableInv'
  BY DurableInvStep
<1>4. DurableInv /\ DurableInv' /\ [Next]_vars
         => [Chain!Next]_<<[i \in DOMAIN disk |-> disk[i].id], acked>>
  BY ChainStep DEF IdsOf
<1> QED
  BY <1>1, <1>2, <1>3, <1>4, PTL DEF Spec, ImplementsOpChain, Chain!Spec
=============================================================================
