-------------------------------- MODULE Packs --------------------------------
(***************************************************************************)
(* Packs of git objects: the numbers in an entry's header, the deltas, the *)
(* order in which deltas are resolved, the index and what is read through  *)
(* it (crates/alt-git-pack).  An object is its id; a delta entry makes the  *)
(* object "to" of the object "from" and of no other.                       *)
(***************************************************************************)
EXTENDS Integers, Sequences, FiniteSets
LOCAL INSTANCE SequencesExt
LOCAL INSTANCE FiniteSetsExt

Nibble == 2             \* values of the size bits of a header's first byte, 16 in the code
Septet == 3             \* values of seven bits, 128 in the code
Byte == 2               \* values of a byte of a copy's operands, 256 in the code
LargeOffset == 2        \* offsets from here on are in the table of large ones, 2^31 in the code
Fail == <<"fail">>      \* PackError for a delta,
Refused == <<>>         \* for a pack,
NoObject == -1          \* for an object; and what is not resolved yet
Endless == -2           \* no answer at all
FirstByte(id) == id \div 2

-----------------------------------------------------------------------------
(***************************************************************************)
(* Numbers: bytes <<more, value>>, the low digits first in a size, the high *)
(* ones first in the distance to an ofs-delta's base.                      *)
(***************************************************************************)
RECURSIVE SizeTail(_)
SizeTail(n) == IF n = 0 THEN <<>> ELSE <<n % Septet>> \o SizeTail(n \div Septet)
EncodeSize(n) ==
    LET digits == <<n % Nibble>> \o SizeTail(n \div Nibble)
    IN  [i \in DOMAIN digits |-> <<i < Len(digits), digits[i]>>]

DecodeSize(bytes) ==
    LET Weight(i) == IF i = 1 THEN 1 ELSE Nibble * Septet ^ (i - 2)
    IN  FoldFunctionOnSet(+, 0, [i \in DOMAIN bytes |-> bytes[i][2] * Weight(i)], DOMAIN bytes)

DecodeDistance(bytes) ==
    FoldLeft(LAMBDA distance, byte : (distance + 1) * Septet + byte[2], Head(bytes)[2], Tail(bytes))

-----------------------------------------------------------------------------
(***************************************************************************)
(* delta::apply().  A copy carries operand bytes 1 and 2 for its offset and *)
(* 3 to 5 for its length, those that are not there being zero.             *)
(***************************************************************************)
Operand(op, low, high) ==
    FoldFunctionOnSet(+, 0, [k \in DOMAIN op.operands |-> op.operands[k] * Byte ^ (k - low)],
                      DOMAIN op.operands \cap (low .. high))
CopyOffset(op) == Operand(op, 1, 2)
CopyLength(op) == IF Operand(op, 3, 5) = 0 THEN Byte ^ 2 ELSE Operand(op, 3, 5)

ApplyOp(base, op, out) ==
    CASE out = Fail -> Fail
      [] out # Fail /\ op.copy ->
           IF CopyOffset(op) + CopyLength(op) > Len(base) THEN Fail
           ELSE out \o SubSeq(base, CopyOffset(op) + 1, CopyOffset(op) + CopyLength(op))
      [] OTHER -> IF op.text = <<>> THEN Fail ELSE out \o op.text

Apply(base, delta) ==
    LET out == FoldLeft(LAMBDA o, op : ApplyOp(base, op, o), <<>>, delta.ops)
    IN  IF delta.source # Len(base) \/ out = Fail THEN Fail
        ELSE IF Len(out) = delta.target THEN out ELSE Fail

-----------------------------------------------------------------------------
(***************************************************************************)
(* resolve_all(): round after round over the entries, each round using what *)
(* it has itself resolved; of two entries of an object a ref-delta takes   *)
(* the first resolved.                                                     *)
(***************************************************************************)
EntriesAt(pack, offset) == {i \in DOMAIN pack : pack[i].at = offset}

BaseOf(pack, done, e) ==
    IF e.kind = "ofs" THEN EntriesAt(pack, e.base)
    ELSE {i \in DOMAIN done : done[i] = e.base /\ \A j \in 1 .. i - 1 : done[j] # e.base}

ResolveEntry(pack, done, i) ==
    LET e == pack[i]
        bases == BaseOf(pack, done, e)
        b == CHOOSE j \in bases : TRUE
    IN  CASE done = Refused -> Refused
          [] done # Refused /\ done[i] # NoObject -> done
          [] done # Refused /\ done[i] = NoObject /\ bases = {} -> IF e.kind = "ofs" THEN Refused ELSE done
          [] OTHER -> CASE done[b] = NoObject -> done
                        [] done[b] = e.from -> [done EXCEPT ![i] = e.to]
                        [] OTHER -> Refused

RECURSIVE Rounds(_, _)
Rounds(pack, done) ==
    LET next == FoldLeft(LAMBDA d, i : ResolveEntry(pack, d, i), done, [i \in DOMAIN pack |-> i])
    IN  IF next = Refused THEN Refused
        ELSE IF NoObject \notin ToSet(next) THEN next
        ELSE IF next = done THEN Refused ELSE Rounds(pack, next)

ResolveAll(pack) == Rounds(pack, [i \in DOMAIN pack |-> IF pack[i].kind = "plain" THEN pack[i].to ELSE NoObject])

-----------------------------------------------------------------------------
(***************************************************************************)
(* build_idx(): the entries sorted by id, those of one id in any order.    *)
(***************************************************************************)
Orders(ids) ==
    {p \in [DOMAIN ids -> DOMAIN ids] :
        /\ \A i, j \in DOMAIN ids : p[i] = p[j] => i = j
        /\ \A i, j \in DOMAIN ids : i < j => ids[p[i]] <= ids[p[j]]}

BuildIdx(pack, ids, order) ==
    LET Offset(i) == pack[order[i]].at
        larger(i) == {j \in 1 .. i - 1 : Offset(j) >= LargeOffset}
    IN  [ids     |-> [i \in DOMAIN ids |-> ids[order[i]]],
         fanout  |-> [b \in 0 .. 1 |-> Cardinality({i \in DOMAIN ids : FirstByte(ids[i]) <= b})],
         offsets |-> [i \in DOMAIN ids |-> IF Offset(i) < LargeOffset THEN <<FALSE, Offset(i)>>
                                           ELSE <<TRUE, Cardinality(larger(i)) + 1>>],
         large   |-> SelectSeq([i \in DOMAIN ids |-> Offset(i)], LAMBDA a : a >= LargeOffset)]

\* PackIndex::offset_at() and lookup(), a binary search among the ids of a first byte.
OffsetAt(idx, i) == IF idx.offsets[i][1] THEN idx.large[idx.offsets[i][2]] ELSE idx.offsets[i][2]

RECURSIVE Search(_, _, _, _)
Search(idx, id, lo, hi) ==
    LET mid == lo + (hi - lo) \div 2
    IN  IF lo >= hi THEN {}
        ELSE CASE idx.ids[mid + 1] < id -> Search(idx, id, mid + 1, hi)
               [] id < idx.ids[mid + 1] -> Search(idx, id, lo, mid)
               [] OTHER -> {mid + 1}
Lookup(idx, id) == Search(idx, id, IF FirstByte(id) = 0 THEN 0 ELSE idx.fanout[FirstByte(id) - 1], idx.fanout[FirstByte(id)])

(***************************************************************************)
(* IndexedPack::read_at(), which goes from a delta to its base until it    *)
(* meets a whole object; Endless where it comes to an entry again.       *)
(***************************************************************************)
RECURSIVE ReadAt(_, _, _, _)
ReadAt(pack, idx, offset, seen) ==
    LET e     == pack[CHOOSE i \in EntriesAt(pack, offset) : TRUE]
        found == Lookup(idx, e.base)
        next  == IF e.kind = "ofs" THEN e.base ELSE OffsetAt(idx, CHOOSE i \in found : TRUE)
        base  == ReadAt(pack, idx, next, seen \cup {offset})
    IN  CASE offset \in seen -> Endless
          [] offset \notin seen /\ EntriesAt(pack, offset) = {} -> NoObject
          [] offset \notin seen /\ EntriesAt(pack, offset) # {} /\ e.kind = "plain" -> e.to
          [] offset \notin seen /\ EntriesAt(pack, offset) # {} /\ e.kind = "ref" /\ found = {} -> NoObject
          [] OTHER -> IF base \in {Endless, NoObject} THEN base ELSE IF base = e.from THEN e.to ELSE NoObject

Read(pack, idx, id) ==
    IF Lookup(idx, id) = {} THEN NoObject
    ELSE ReadAt(pack, idx, OffsetAt(idx, CHOOSE i \in Lookup(idx, id) : TRUE), {})

-----------------------------------------------------------------------------
\* add() writes the sizes that entry_info() and read_entry() read.
ASSUME SizesReadBack == \A n \in 0 .. 60 : DecodeSize(EncodeSize(n)) = n

LOCAL Digits(n) ==
    {[i \in 1 .. n |-> <<i < n, d[i]>>] : d \in [1 .. n -> 0 .. Septet - 1]}
\* Each distance is written in one way, so that a longer form is never a shorter
\* one again: the + 1 of each continuation.
ASSUME DistancesAreUnique ==
    LET all == UNION {Digits(n) : n \in 1 .. 3}
    IN  /\ {DecodeDistance(b) : b \in all} = 0 .. Cardinality(all) - 1

LOCAL Digit(n, k) == (n \div Byte ^ k) % Byte
\* What git writes for a copy: no byte that is zero, and none for a length of Byte^2.
LOCAL Copy(offset, length) ==
    LET digit == [k \in 1 .. 5 |-> IF k <= 2 THEN Digit(offset, k - 1)
                                   ELSE IF length = Byte ^ 2 THEN 0 ELSE Digit(length, k - 3)]
    IN  [copy |-> TRUE, operands |-> [k \in {j \in 1 .. 5 : digit[j] # 0} |-> digit[k]], text |-> <<>>]
LOCAL Insert(text) == [copy |-> FALSE, operands |-> [k \in {} |-> 0], text |-> text]

\* A delta gives back the pieces it was made of, whatever their lengths, and is
\* refused for a base or a result of another length or a copy past the base.
ASSUME DeltasReadBack ==
    \A size \in 0 .. 6, offset \in 0 .. 3, length \in 1 .. 7, text \in {<<>>, <<"x">>, <<"x", "y">>} :
      LET base   == SubSeq(<<"a", "b", "c", "d", "e", "f">>, 1, size)
          within == offset + length <= size
          pieces == SubSeq(base, offset + 1, offset + length) \o text
          delta  == [source |-> size, target |-> length + Len(text),
                     ops |-> <<Copy(offset, length)>> \o (IF text = <<>> THEN <<>> ELSE <<Insert(text)>>)]
      IN  /\ Apply(base, delta) = IF within THEN pieces ELSE Fail
          /\ Apply(base \o <<"z">>, delta) = Fail
          /\ Apply(base, [delta EXCEPT !.target = @ + 1]) = Fail
          /\ Apply(base, [delta EXCEPT !.ops = Append(@, Insert(<<>>))]) = Fail

LOCAL Ids == 0 .. 2
LOCAL Entries(at) ==
    {[at |-> at, kind |-> "plain", base |-> 0, from |-> 0, to |-> to] : to \in Ids}
      \cup {[at |-> at, kind |-> "ofs", base |-> base, from |-> from, to |-> to] :
               base \in {b \in {1, 3} : b < at}, from \in {0, 2}, to \in Ids}
      \cup {[at |-> at, kind |-> "ref", base |-> from, from |-> from, to |-> to] : from, to \in Ids}
LOCAL PacksOf3 == {<<x, y, z>> : x \in Entries(1), y \in Entries(2), z \in Entries(3)}

\* A pack is indexed just when its deltas stand on whole objects: a base that is
\* missing, a circle or a delta of something else is an error, and no order of
\* the entries makes one.
LOCAL Closed(p, S) ==
    \A i \in DOMAIN p :
        (\/ p[i].kind = "plain"
         \/ \E j \in S : p[j].to = p[i].from /\ (p[i].kind = "ofs" => p[j].at = p[i].base)) => i \in S
ASSUME ResolvedAreGrounded ==
    \A p \in PacksOf3 :
        /\ (ResolveAll(p) # Refused) <=> \A S \in SUBSET DOMAIN p : Closed(p, S) => S = DOMAIN p
        /\ ResolveAll(p) # Refused => ResolveAll(p) = [i \in DOMAIN p |-> p[i].to]

LOCAL Indexed(p) == {BuildIdx(p, ResolveAll(p), order) : order \in Orders(ResolveAll(p))}

\* Whatever is indexed is read back, through both offset tables and from both
\* fan-out buckets, and nothing else is found; but for objects that come twice.
ASSUME IndexedAreReadable ==
    \A p \in PacksOf3 : ResolveAll(p) # Refused =>
        \E ids \in {ToSet(ResolveAll(p))} :
            Cardinality(ids) = 3 \/ {e.kind : e \in ToSet(p)} \subseteq {"plain", "ofs"} =>
                \A idx \in Indexed(p), id \in 0 .. 3 : Read(p, idx, id) = IF id \in ids THEN id ELSE NoObject

\* Where an object comes twice, whole and as a delta of one made of it, a pack is
\* resolved and indexed, and read_at() may go round the two deltas for ever:
\* lookup() finds either entry, though resolve_all() took the whole one.
ASSUME TwiceMayBeEndless ==
    LET p == <<[at |-> 1, kind |-> "plain", base |-> 0, from |-> 0, to |-> 1],
               [at |-> 2, kind |-> "ref", base |-> 1, from |-> 1, to |-> 0],
               [at |-> 3, kind |-> "ref", base |-> 0, from |-> 0, to |-> 1]>>
    IN  /\ ResolveAll(p) = <<1, 0, 1>>
        /\ {Read(p, idx, 1) : idx \in Indexed(p)} = {1, Endless}
        /\ \A q \in PacksOf3 : ResolveAll(q) # Refused =>
               \A idx \in Indexed(q), id \in ToSet(ResolveAll(q)) : Read(q, idx, id) \in {id, Endless}
=============================================================================
