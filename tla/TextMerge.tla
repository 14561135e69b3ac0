------------------------------ MODULE TextMerge ------------------------------
(***************************************************************************)
(* The histogram diff of two texts, its unified hunks, and the three-way   *)
(* merge that walks two diffs (crates/alt-diff/src/histogram.rs and        *)
(* lib.rs, crates/alt-merge/src/lib.rs).  A text is a sequence of lines, a *)
(* line a token; positions are the code's, from 0 and half open, so line   *)
(* number i is text[i + 1].  An edit replaces the lines os .. oe of the    *)
(* old text by the lines ns .. ne of the new one.                          *)
(***************************************************************************)
EXTENDS Integers, Sequences, FiniteSets
LOCAL INSTANCE SequencesExt
LOCAL INSTANCE FiniteSetsExt

\* MAX_CHAIN: a line found more often than this is no anchor (64 in the code;
\* small here, so that short texts reach it).
MaxChain == 2

Lines(text, from, to) == SubSeq(text, from + 1, to)
EditOf(os, oe, ns, ne) == [os |-> os, oe |-> oe, ns |-> ns, ne |-> ne]
Before(n, m) == IF n > m THEN n - m ELSE 0      \* saturating_sub

-----------------------------------------------------------------------------
(***************************************************************************)
(* find_lcs(): the runs common to both regions, one around each pair of    *)
(* equal lines; the best has the rarest line, then is the longest, then    *)
(* the one met first.                                                      *)
(***************************************************************************)
Count(a, alo, ahi, line) == Cardinality({i \in alo .. ahi - 1 : a[i + 1] = line})

Run(a, alo, ahi, b, blo, bhi, i, j) ==
    LET back  == Max({n \in 0 .. Min({i - alo, j - blo}) :
                        \A k \in 1 .. n : a[i - k + 1] = b[j - k + 1]})
        ahead == Max({n \in 1 .. Min({ahi - i, bhi - j}) :
                        \A k \in 0 .. n - 1 : a[i + k + 1] = b[j + k + 1]})
    IN  EditOf(i - back, i + ahead, j - back, j + ahead)

Rarity(a, alo, ahi, run) == Min({Count(a, alo, ahi, a[k + 1]) : k \in run.os .. run.oe - 1})

Anchors(a, alo, ahi, b, blo, bhi) ==
    {<<j, i>> \in (blo .. bhi - 1) \X (alo .. ahi - 1) :
        a[i + 1] = b[j + 1] /\ Count(a, alo, ahi, a[i + 1]) <= MaxChain}

Prefers(x, y) ==      \* ranks <<rarity, length, anchor>>
    \/ x[1] < y[1]
    \/ x[1] = y[1] /\ x[2] > y[2]
    \/ x[1] = y[1] /\ x[2] = y[2] /\ (x[3][1] < y[3][1] \/ (x[3][1] = y[3][1] /\ x[3][2] <= y[3][2]))

FindLcs(a, alo, ahi, b, blo, bhi) ==
    LET RunAt(p) == Run(a, alo, ahi, b, blo, bhi, p[2], p[1])
        ranked   == {LET r == RunAt(p) IN <<Rarity(a, alo, ahi, r), r.oe - r.os, p>> :
                        p \in Anchors(a, alo, ahi, b, blo, bhi)}
    IN  {RunAt(x[3]) : x \in {y \in ranked : \A z \in ranked : Prefers(y, z)}}

(***************************************************************************)
(* diff() of the two regions: what they begin and end with alike is        *)
(* stripped, the rest cut at the best run.                                 *)
(***************************************************************************)
RECURSIVE DiffRegion(_, _, _, _, _, _)
DiffRegion(a, alo, ahi, b, blo, bhi) ==
    LET most == Min({ahi - alo, bhi - blo})
        pre  == Max({n \in 0 .. most : \A k \in 1 .. n : a[alo + k] = b[blo + k]})
        post == Max({n \in 0 .. most - pre : \A k \in 0 .. n - 1 : a[ahi - k] = b[bhi - k]})
        whole == EditOf(alo + pre, ahi - post, blo + pre, bhi - post)
        runs == FindLcs(a, whole.os, whole.oe, b, whole.ns, whole.ne)
    IN  IF whole.os = whole.oe /\ whole.ns = whole.ne THEN <<>>
        ELSE IF whole.os = whole.oe \/ whole.ns = whole.ne \/ runs = {} THEN <<whole>>
        ELSE LET run == CHOOSE r \in runs : TRUE
             IN  DiffRegion(a, whole.os, run.os, b, whole.ns, run.ns)
                   \o DiffRegion(a, run.oe, whole.oe, b, run.ne, whole.ne)

\* coalesce(): edits that touch on both sides become one.
Coalesced(edits) ==
    FoldLeft(LAMBDA out, e :
               IF out # <<>> /\ Last(out).oe >= e.os /\ Last(out).ne >= e.ns
               THEN Append(Front(out), EditOf(Last(out).os, Max({e.oe, Last(out).oe}),
                                              Last(out).ns, Max({e.ne, Last(out).ne})))
               ELSE Append(out, e),
             <<>>, edits)

DiffLines(a, b) == Coalesced(DiffRegion(a, 0, Len(a), b, 0, Len(b)))

(***************************************************************************)
(* What an edit script promises: in order and apart, the same between two  *)
(* edits, and the new text when applied to the old.                        *)
(***************************************************************************)
RECURSIVE Applied(_, _, _, _)
Applied(a, b, edits, from) ==
    IF edits = <<>> THEN Lines(a, from, Len(a))
    ELSE Lines(a, from, Head(edits).os) \o Lines(b, Head(edits).ns, Head(edits).ne)
           \o Applied(a, b, Tail(edits), Head(edits).oe)

Apart(edits) ==
    \A i \in 1 .. Len(edits) - 1 :
      /\ edits[i].oe <= edits[i + 1].os /\ edits[i].ne <= edits[i + 1].ns
      /\ edits[i + 1].os - edits[i].oe = edits[i + 1].ns - edits[i].ne

-----------------------------------------------------------------------------
(***************************************************************************)
(* hunks(): edits whose contexts touch share a hunk.                       *)
(***************************************************************************)
Groups(edits, context) ==
    FoldLeft(LAMBDA groups, e :
               IF groups # <<>> /\ e.os <= Last(Last(groups)).oe + 2 * context
               THEN Append(Front(groups), Append(Last(groups), e))
               ELSE Append(groups, <<e>>),
             <<>>, edits)

Tagged(tag, lines) == [i \in 1 .. Len(lines) |-> <<tag, lines[i]>>]

RECURSIVE HunkLines(_, _, _, _, _)
HunkLines(a, b, group, from, to) ==
    IF group = <<>> THEN Tagged(" ", Lines(a, from, to))
    ELSE LET e == Head(group)
         IN  Tagged(" ", Lines(a, from, e.os)) \o Tagged("-", Lines(a, e.os, e.oe))
               \o Tagged("+", Lines(b, e.ns, e.ne)) \o HunkLines(a, b, Tail(group), e.oe, to)

Hunk(a, b, group, context) ==
    LET oldFrom == Before(Head(group).os, context)
        newFrom == Before(Head(group).ns, context)
        oldTo   == Min({Last(group).oe + context, Len(a)})
        newTo   == Min({Last(group).ne + context, Len(b)})
    IN  [oldStart |-> oldFrom + 1, oldLen |-> oldTo - oldFrom,
         newStart |-> newFrom + 1, newLen |-> newTo - newFrom,
         lines |-> HunkLines(a, b, group, oldFrom, oldTo)]

Hunks(a, b, context) ==
    LET groups == Groups(DiffLines(a, b), context)
    IN  [i \in 1 .. Len(groups) |-> Hunk(a, b, groups[i], context)]

-----------------------------------------------------------------------------
(***************************************************************************)
(* slide_down(): a pure insertion or deletion goes as far down as its      *)
(* lines repeat, up to where the next edit stood.                          *)
(***************************************************************************)
RECURSIVE Slid(_, _, _, _, _)
Slid(e, base, side, oldLimit, newLimit) ==
    IF \/ e.os = e.oe /\ e.os < oldLimit /\ e.ne < newLimit /\ base[e.os + 1] = side[e.ns + 1]
       \/ e.os # e.oe /\ e.ns = e.ne /\ e.oe < oldLimit /\ e.ns < newLimit
                      /\ base[e.os + 1] = base[e.oe + 1]
    THEN Slid(EditOf(e.os + 1, e.oe + 1, e.ns + 1, e.ne + 1), base, side, oldLimit, newLimit)
    ELSE e

SlideDown(edits, base, side) ==
    [i \in DOMAIN edits |->
        IF i = Len(edits) THEN Slid(edits[i], base, side, Len(base), Len(side))
        ELSE Slid(edits[i], base, side, edits[i + 1].os, edits[i + 1].ns)]

(***************************************************************************)
(* merge_edits(): lines all three have are kept; a region that an edit of  *)
(* either side touches is grown until no edit reaches into it, and taken   *)
(* from the side that changed it.  A conflict keeps both.                  *)
(***************************************************************************)
RECURSIVE Grown(_, _, _)
Grown(end, ea, eb) ==
    LET reach == {e.oe : e \in {x \in ToSet(ea) \cup ToSet(eb) : x.os <= end}} \cup {end}
    IN  IF Max(reach) = end THEN end ELSE Grown(Max(reach), ea, eb)

Within(edits, end) == SelectSeq(edits, LAMBDA e : e.os <= end)
Beyond(edits, end) == SelectSeq(edits, LAMBDA e : e.os > end)
Delta(edits) == FoldLeft(LAMBDA n, e : n + (e.ne - e.ns) - (e.oe - e.os), 0, edits)

Resolved(base, ours, theirs) ==
    IF ours = base THEN [content |-> theirs, conflicts |-> 0]
    ELSE IF theirs = base \/ ours = theirs THEN [content |-> ours, conflicts |-> 0]
    ELSE [content |-> <<"<<<">> \o ours \o <<"===">> \o theirs \o <<">>>">>,
          conflicts |-> 1]

RECURSIVE MergeFrom(_, _, _, _, _, _, _, _)
MergeFrom(o, a, b, ea, eb, oi, ai, bi) ==
    LET starts == {e.os : e \in ToSet(ea) \cup ToSet(eb)}
        next   == IF starts = {} THEN Len(o) ELSE Min(starts)
        end    == Grown(next, ea, eb)
        aEnd   == ai + (end - oi) + Delta(Within(ea, end))
        bEnd   == bi + (end - oi) + Delta(Within(eb, end))
        here   == Resolved(Lines(o, next, end), Lines(a, ai + next - oi, aEnd),
                           Lines(b, bi + next - oi, bEnd))
    IN  IF starts = {} THEN [content |-> Lines(o, oi, Len(o)), conflicts |-> 0]
        ELSE LET rest == MergeFrom(o, a, b, Beyond(ea, end), Beyond(eb, end), end, aEnd, bEnd)
             IN  [content |-> Lines(o, oi, next) \o here.content \o rest.content,
                  conflicts |-> here.conflicts + rest.conflicts]

MergeTexts(o, a, b) ==
    MergeFrom(o, a, b, SlideDown(DiffLines(o, a), o, a), SlideDown(DiffLines(o, b), o, b), 0, 0, 0)

-----------------------------------------------------------------------------
Texts(n) == UNION {[1 .. k -> {"a", "b"}] : k \in 0 .. n}

\* An edit script of any two texts is in order, skips only lines both have, and
\* turns the old text into the new one, also when every line is too common to be
\* an anchor (diff, find_lcs and coalesce; MAX_CHAIN).
ASSUME EditsRebuildTheText ==
    \A a, b \in Texts(4) :
      \E edits \in {DiffLines(a, b)} : Apart(edits) /\ Applied(a, b, edits, 0) = b

\* Hunks never share a line, count the lines they hold and are what the header
\* says, on both sides (hunks, build_hunk).
ASSUME HunksStandApart ==
    \A a, b \in Texts(4), context \in {0, 1} :
      \E hunks \in {Hunks(a, b, context)} : \A i \in DOMAIN hunks :
        LET h == hunks[i]
            Side(mark) == SelectSeq(h.lines, LAMBDA l : l[1] \in {" ", mark})
            Texted(lines) == [k \in DOMAIN lines |-> lines[k][2]]
        IN  /\ Texted(Side("-")) = SubSeq(a, h.oldStart, h.oldStart + h.oldLen - 1)
            /\ Texted(Side("+")) = SubSeq(b, h.newStart, h.newStart + h.newLen - 1)
            /\ i < Len(hunks) => /\ h.oldStart + h.oldLen <= hunks[i + 1].oldStart
                                 /\ h.newStart + h.newLen <= hunks[i + 1].newStart

\* A change one side made is taken, the same change of both is taken once, and
\* nothing depends on which side is ours (merge, slide_down, merge_edits).
ASSUME OneSideIsTaken ==
    \A o, a \in Texts(4) :
      /\ MergeTexts(o, a, o) = [content |-> a, conflicts |-> 0]
      /\ MergeTexts(o, o, a) = [content |-> a, conflicts |-> 0]
      /\ MergeTexts(o, a, a) = [content |-> a, conflicts |-> 0]

ASSUME SidesAreEqual ==
    \A o, a, b \in Texts(3) :
      \E ours \in {MergeTexts(o, a, b)}, theirs \in {MergeTexts(o, b, a)} :
        /\ ours.conflicts = theirs.conflicts
        /\ ours.conflicts = 0 => ours.content = theirs.content

\* A change both sides made is never applied twice when one of them changed more
\* below it, however its lines repeat those around it (slide_down: "the same
\* change made on both sides would ... be applied twice").  A change further up
\* may still pull it away: of a, with aa and caa, the merge is caaa.
Changed(o, from, to, new) == SubSeq(o, 1, from) \o new \o SubSeq(o, to + 1, Len(o))

ASSUME AppliedOnce ==
    \A o \in Texts(3), new \in Texts(2) :
      \A from \in 0 .. Len(o) : \A to \in from .. Len(o) :
        \E a \in {Changed(o, from, to, new)} :
          \E b \in {Append(a, "c")} : \E merge \in {MergeTexts(o, a, b)} :
            merge.conflicts > 0 \/ merge.content = b
=============================================================================
