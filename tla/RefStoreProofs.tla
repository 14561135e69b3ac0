--------------------------- MODULE RefStoreProofs ---------------------------
(***************************************************************************)
(* Proofs about RefStore, for any processes, refs, targets, policy and     *)
(* number of operations.                                                   *)
(***************************************************************************)
EXTENDS RefStore, FiniteSetTheorems, SequenceTheorems, TLAPS

-----------------------------------------------------------------------------
(* The inductive invariant.                                                *)

\* Every operation of the log has an id of its own and was checked against all
\* that is before it (append_checked, apply_changes).
LogInv ==
    /\ \A i \in DOMAIN log : log[i].id <= nextId
    /\ \A i, j \in DOMAIN log : log[i].id = log[j].id => i = j
    /\ \A i \in DOMAIN log : \A r \in DOMAIN log[i].changes :
          log[i].changes[r].old = StateAt(i - 1)[r]

\* The snapshot is right about its operation, whether or not that is still there.
SnapshotInv ==
    snapshot # None =>
        /\ snapshot.at <= nextId
        /\ \A i \in DOMAIN log : log[i].id = snapshot.at => snapshot.refs = StateAt(i)

\* The map of a store is the state at the place up to which it has folded.
MapOf(p) ==
    /\ pc[p] \in Alive => \A k \in 0 .. Len(log) : applied[p] = k => refs[p] = StateAt(k)
    /\ pc[p] = "appended" => /\ known[p] = applied[p] + 1
                             /\ log[known[p]].changes = tx[p]
    /\ pc[p] = "snapshot" => known[p] = applied[p] /\ applied[p] > 0
    /\ pc[p] \in {"closed", "opening"} => refs[p] = NoRefs /\ applied[p] = 0
MapInv == \A p \in Proc : MapOf(p)

RefInv == TypeOK /\ LogInv /\ SnapshotInv /\ MapInv

-----------------------------------------------------------------------------
(* Transactions.                                                           *)

Changings == UNION {Changing(rs) : rs \in SUBSET Ref}
Slot == Target \cup {Absent}

\* A transaction says of some refs what they are and what they become (RefChange).
LEMMA ChangingIs ==
    /\ <<>> \in Changings /\ DOMAIN <<>> = {}
    /\ \A c \in Changings : /\ DOMAIN c \subseteq Ref
                            /\ \A r \in DOMAIN c : c[r].old \in Slot /\ c[r].new \in Slot
    /\ \A c \in Changings : InverseOf(c) \in Changings /\ DOMAIN InverseOf(c) = DOMAIN c
<1> DEFINE Edge == [old : Slot, new : Slot]
<1>1. \A c : c \in Changings <=> \E rs \in SUBSET Ref : c \in [rs -> Edge]
  BY DEF Changings, Changing, Slot
<1>2. <<>> \in [{} -> Edge] /\ DOMAIN <<>> = {}
  OBVIOUS
<1>3. <<>> \in Changings
  BY <1>1, <1>2
<1>4. ASSUME NEW c \in Changings
      PROVE  /\ DOMAIN c \subseteq Ref /\ c \in [DOMAIN c -> Edge]
             /\ \A r \in DOMAIN c : c[r].old \in Slot /\ c[r].new \in Slot
  <2>1. PICK rs \in SUBSET Ref : c \in [rs -> Edge]
    BY <1>1
  <2> QED
    BY <2>1
<1>5. ASSUME NEW c \in Changings
      PROVE  InverseOf(c) \in Changings /\ DOMAIN InverseOf(c) = DOMAIN c
  <2>1. \A r \in DOMAIN c : [old |-> c[r].new, new |-> c[r].old] \in Edge
    BY <1>4
  <2>2. InverseOf(c) \in [DOMAIN c -> Edge]
    BY <2>1 DEF InverseOf
  <2> HIDE DEF Edge
  <2> QED
    BY <1>1, <1>4, <2>2
<1> QED
  BY <1>2, <1>3, <1>4, <1>5

\* What the type says of the operations in the log.
LEMMA LogIs ==
    ASSUME TypeOK
    PROVE  /\ log \in Seq(Op) /\ Len(log) \in Nat /\ DOMAIN log = 1 .. Len(log)
           /\ \A i \in DOMAIN log : /\ log[i].id \in 1 .. MaxOps /\ log[i].changes \in Changings
                                    /\ DOMAIN log[i].changes \subseteq Ref
                                    /\ \A r \in DOMAIN log[i].changes :
                                          log[i].changes[r].old \in Slot /\ log[i].changes[r].new \in Slot
<1>1. log \in Seq(Op) /\ Len(log) \in Nat /\ DOMAIN log = 1 .. Len(log)
  BY LenProperties DEF TypeOK
<1>2. \A i \in DOMAIN log : log[i] \in Op
  BY <1>1, ElementOfSeq
<1>3. \A i \in DOMAIN log : log[i].id \in 1 .. MaxOps /\ log[i].changes \in Changings
  BY <1>2 DEF Op, Changings
<1> QED
  BY <1>1, <1>3, ChangingIs

-----------------------------------------------------------------------------
(* Replay.                                                                 *)

\* There is a last one of some places of the log.
LEMMA LastOfIs ==
    ASSUME NEW n \in Nat, NEW S \in SUBSET (0 .. n), S # {}
    PROVE  LastOf(S) \in S /\ \A j \in S : j <= LastOf(S)
<1> DEFINE T == {n - i : i \in S}
<1>1. T \subseteq Nat /\ T # {}
  OBVIOUS
<1>s. \A i \in S : i \in Nat
  OBVIOUS
<1>2. \E x \in T : \A y \in T : ~(<<y, x>> \in OpToRel(<, Nat))
  <2> HIDE DEF T
  <2> QED
    BY <1>1, NatLessThanWellFounded, WFMin
<1>3. PICK x \in T : \A y \in T : ~(y < x)
  <2>1. \A x, y \in T : y < x => <<y, x>> \in OpToRel(<, Nat)
    BY <1>1 DEF OpToRel
  <2> QED
    BY <1>2, <2>1
<1>4. PICK i \in S : x = n - i
  OBVIOUS
<1>5. \A j \in S : j <= i
  <2> SUFFICES ASSUME NEW j \in S PROVE j <= i
    OBVIOUS
  <2>1. n - j \in T
    OBVIOUS
  <2>2. i \in Nat /\ j \in Nat
    BY <1>s
  <2>3. ~(n - j < x)
    <3> HIDE DEF T
    <3> QED
      BY <1>3, <2>1
  <2> QED
    BY <1>4, <2>2, <2>3
<1> QED
  BY <1>5 DEF LastOf

\* Operation i is the last of `from` .. `to` that changes ref r.
IsLast(i, r, from, to) ==
    /\ i \in from .. to /\ r \in DOMAIN log[i].changes
    /\ \A j \in from .. to : r \in DOMAIN log[j].changes => j <= i

\* Either no operation changes a ref, or there is a last one that does.
LEMMA LastChange ==
    ASSUME TypeOK, NEW from \in Nat \ {0}, NEW to \in 0 .. Len(log), NEW r \in Ref,
           ~(\A i \in from .. to : r \notin DOMAIN log[i].changes)
    PROVE  \E i \in from .. to : IsLast(i, r, from, to)
<1> DEFINE at == {i \in from .. to : r \in DOMAIN log[i].changes}
<1>1. to \in Nat /\ at # {}
  BY LogIs, SMTT(30)
<1>2. at \in SUBSET (0 .. to)
  BY <1>1
<1>3. LastOf(at) \in at /\ \A j \in at : j <= LastOf(at)
  <2> HIDE DEF at
  <2> QED
    BY <1>1, <1>2, LastOfIs
<1> DEFINE last == LastOf(at)
<1> HIDE DEF last
<1>4. last \in at /\ \A j \in at : j <= last
  BY <1>3 DEF last
<1> QED
  BY <1>4 DEF IsLast

\* A ref that no operation changes stays where it is.
LEMMA ReplayNot ==
    ASSUME NEW state, NEW from, NEW to, NEW r \in Ref,
           \A i \in from .. to : r \notin DOMAIN log[i].changes
    PROVE  Replay(state, from, to)[r] = state[r]
<1>1. Changes(r, from, to) = {}
  BY DEF Changes
<1> QED
  BY <1>1 DEF Replay

\* Each other ref is where the last of the operations that change it has put it.
LEMMA ReplayAt ==
    ASSUME TypeOK, NEW state, NEW from \in Nat \ {0}, NEW to \in 0 .. Len(log), NEW r \in Ref,
           NEW i \in from .. to, IsLast(i, r, from, to)
    PROVE  Replay(state, from, to)[r] = log[i].changes[r].new
<1> DEFINE at == Changes(r, from, to)
<1>1. at = {j \in from .. to : r \in DOMAIN log[j].changes} /\ to \in Nat /\ i \in Nat
  BY LogIs DEF Changes, IsLast
<1>2. i \in at /\ at \in SUBSET (0 .. to) /\ \A j \in at : j <= i
  BY <1>1 DEF IsLast
<1>3. Replay(state, from, to)[r] = IF at = {} THEN state[r] ELSE log[LastOf(at)].changes[r].new
  BY DEF Replay
<1> HIDE DEF at
<1>4. LastOf(at) \in at /\ \A j \in at : j <= LastOf(at)
  BY <1>1, <1>2, LastOfIs
<1>5. LastOf(at) <= i /\ i <= LastOf(at) /\ LastOf(at) \in Nat
  <2>1. \A j \in at : j \in Nat
    BY <1>1, <1>2
  <2> QED
    BY <1>2, <1>4, <2>1
<1>6. LastOf(at) = i
  BY <1>1, <1>5
<1> QED
  BY <1>2, <1>3, <1>6

\* ... and so of every ref.
LastCounts(state, from, to) ==
    \A r \in Ref : \A i \in from .. to :
        IsLast(i, r, from, to) => Replay(state, from, to)[r] = log[i].changes[r].new

\* What a ref is after a replay is what the last change of it made (fold_new).
LEMMA ReplayCounts ==
    ASSUME TypeOK, NEW state, NEW from \in Nat \ {0}, NEW to \in 0 .. Len(log)
    PROVE  LastCounts(state, from, to)
  BY ReplayAt DEF LastCounts

\* A replay makes a state of the refs of one (fold_new).
LEMMA ReplayTyped ==
    ASSUME TypeOK, NEW state \in State, NEW from \in Nat \ {0}, NEW to \in 0 .. Len(log)
    PROVE  Replay(state, from, to) \in State
<1>1. ASSUME NEW r \in Ref PROVE Replay(state, from, to)[r] \in Slot
  <2>1. \A i \in from .. to : i \in DOMAIN log
    BY LogIs
  <2>2. CASE \A i \in from .. to : r \notin DOMAIN log[i].changes
    BY <2>2, ReplayNot DEF State, Slot
  <2>3. CASE ~(\A i \in from .. to : r \notin DOMAIN log[i].changes)
    <3>1. PICK i \in from .. to : IsLast(i, r, from, to)
      BY <2>3, LastChange
    <3>2. Replay(state, from, to)[r] = log[i].changes[r].new
      BY <3>1, ReplayAt
    <3> QED
      BY <2>1, <3>1, <3>2, LogIs DEF IsLast
  <2> QED
    BY <2>2, <2>3
<1>2. Replay(state, from, to) = [r \in Ref |-> Replay(state, from, to)[r]]
  BY DEF Replay
<1> QED
  BY <1>1, <1>2 DEF State, Slot

\* With no operation to replay the refs stay as they are.
LEMMA ReplayNothing ==
    ASSUME TypeOK, NEW state \in State, NEW from \in Nat \ {0}, NEW to \in 0 .. Len(log), to < from
    PROVE  Replay(state, from, to) = state
<1>1. \A r \in Ref : Changes(r, from, to) = {}
  BY LogIs DEF Changes
<1> QED
  BY <1>1 DEF Replay, State

\* Replaying one operation more is applying it to what the others made (fold_new).
LEMMA ReplayStep ==
    ASSUME TypeOK, NEW state \in State, NEW from \in Nat \ {0}, NEW n \in Nat,
           from <= n + 1, n + 1 <= Len(log)
    PROVE  Replay(state, from, n + 1) = Apply(Replay(state, from, n), log[n + 1])
<1>0. /\ n \in 0 .. Len(log) /\ n + 1 \in 0 .. Len(log) /\ n + 1 \in from .. n + 1
      /\ \A i \in from .. n : i \in from .. n + 1 /\ i <= n + 1
      /\ \A i \in from .. n + 1 : i \in from .. n \/ i = n + 1
      /\ \A i \in from .. n + 1 : i <= n + 1
  BY LogIs
<1>n. n \in 0 .. Len(log)
  BY <1>0
<1>l. LastCounts(state, from, n)
  BY <1>n, ReplayCounts
<1>m. PICK m \in 0 .. Len(log) : m = n + 1 /\ m \in from .. m
  BY <1>0
<1>1. ASSUME NEW r \in Ref
      PROVE  Replay(state, from, n + 1)[r] =
               IF r \in DOMAIN log[n + 1].changes THEN log[n + 1].changes[r].new
                                                  ELSE Replay(state, from, n)[r]
  <2>1. CASE r \in DOMAIN log[n + 1].changes
    <3>1. IsLast(n + 1, r, from, n + 1)
      BY <1>0, <2>1 DEF IsLast
    <3>2. IsLast(m, r, from, m)
      BY <1>m, <3>1
    <3>3. Replay(state, from, m)[r] = log[m].changes[r].new
      BY <1>m, <3>2, ReplayAt
    <3> QED
      BY <1>m, <2>1, <3>3
  <2>2. CASE r \notin DOMAIN log[n + 1].changes
    <3>1. CASE \A i \in from .. n : r \notin DOMAIN log[i].changes
      <4>1. \A i \in from .. n + 1 : r \notin DOMAIN log[i].changes
        BY <1>0, <2>2, <3>1
      <4>2. Replay(state, from, n + 1)[r] = state[r]
        BY <1>0, <4>1, ReplayNot
      <4>3. Replay(state, from, n)[r] = state[r]
        BY <1>0, <3>1, ReplayNot
      <4> QED
        BY <2>2, <4>2, <4>3
    <3>2. CASE \E i \in from .. n : r \in DOMAIN log[i].changes
      <4>1. PICK i \in from .. n : IsLast(i, r, from, n)
        BY <1>0, <3>2, LastChange
      <4>2. i \in from .. n + 1 /\ IsLast(i, r, from, n + 1)
        BY <1>0, <2>2, <4>1 DEF IsLast
      <4>3. Replay(state, from, n + 1)[r] = log[i].changes[r].new
        BY <1>0, <4>1, <4>2, ReplayAt
      <4>4. Replay(state, from, n)[r] = log[i].changes[r].new
        BY <1>l, <4>1 DEF LastCounts
      <4> QED
        BY <2>2, <4>3, <4>4
    <3> QED
      BY <3>1, <3>2
  <2> QED
    BY <2>1, <2>2
<1>2. Replay(state, from, n + 1) = [r \in Ref |-> Replay(state, from, n + 1)[r]]
  BY DEF Replay
<1> QED
  BY <1>1, <1>2 DEF Apply

\* Catching up from a state of the history leads to a later one (open, fold_new).
LEMMA ReplayJoin ==
    ASSUME TypeOK, NEW k \in 0 .. Len(log), NEW n \in 0 .. Len(log), k <= n
    PROVE  Replay(StateAt(k), k + 1, n) = StateAt(n)
<1>0. /\ k \in Nat /\ n \in Nat /\ k + 1 \in Nat \ {0} /\ 1 \in Nat \ {0} /\ Len(log) \in Nat
      /\ \A i \in k + 1 .. n : i \in 1 .. n /\ k < i
      /\ \A i \in 1 .. k : i \in 1 .. n /\ i < k + 1
      /\ \A i \in 1 .. n : i \in 1 .. k \/ i \in k + 1 .. n
  BY LogIs
<1>1. ASSUME NEW r \in Ref PROVE Replay(StateAt(k), k + 1, n)[r] = StateAt(n)[r]
  <2>1. CASE \E i \in k + 1 .. n : r \in DOMAIN log[i].changes
    <3>1. PICK i \in k + 1 .. n : IsLast(i, r, k + 1, n)
      BY <1>0, <2>1, LastChange
    <3>2. i \in 1 .. n /\ IsLast(i, r, 1, n)
      <4>1. i \in 1 .. n /\ \A j \in 1 .. k : j <= i
        BY <1>0
      <4> QED
        BY <1>0, <3>1, <4>1 DEF IsLast
    <3>3. Replay(StateAt(k), k + 1, n)[r] = log[i].changes[r].new
      <4>1. PICK from \in Nat \ {0} : from = k + 1
        BY <1>0
      <4>2. i \in from .. n /\ IsLast(i, r, from, n)
        BY <3>1, <4>1
      <4>3. Replay(StateAt(k), from, n)[r] = log[i].changes[r].new
        BY <4>2, ReplayAt, SMTT(60)
      <4> QED
        BY <4>1, <4>3
    <3>4. StateAt(n)[r] = log[i].changes[r].new
      BY <1>0, <3>1, <3>2, ReplayAt DEF StateAt
    <3> QED
      BY <3>3, <3>4
  <2>2. CASE ~(\E i \in k + 1 .. n : r \in DOMAIN log[i].changes)
    <3>1. Replay(StateAt(k), k + 1, n)[r] = StateAt(k)[r]
      BY <1>0, <2>2, ReplayNot
    <3>2. CASE \A i \in 1 .. k : r \notin DOMAIN log[i].changes
      <4>1. StateAt(k)[r] = NoRefs[r]
        BY <1>0, <3>2, ReplayNot DEF StateAt
      <4>2. \A i \in 1 .. n : r \notin DOMAIN log[i].changes
        BY <1>0, <2>2, <3>2
      <4>3. StateAt(n)[r] = NoRefs[r]
        BY <1>0, <4>2, ReplayNot DEF StateAt
      <4> QED
        BY <3>1, <4>1, <4>3
    <3>3. CASE ~(\A i \in 1 .. k : r \notin DOMAIN log[i].changes)
      <4>1. PICK i \in 1 .. k : IsLast(i, r, 1, k)
        BY <1>0, <3>3, LastChange
      <4>2. StateAt(k)[r] = log[i].changes[r].new
        BY <1>0, <4>1, ReplayAt DEF StateAt
      <4>3. i \in 1 .. n /\ IsLast(i, r, 1, n)
        BY <1>0, <2>2, <4>1 DEF IsLast
      <4>4. StateAt(n)[r] = log[i].changes[r].new
        BY <1>0, <4>1, <4>3, ReplayAt DEF StateAt
      <4> QED
        BY <3>1, <4>2, <4>4
    <3> QED
      BY <3>2, <3>3
  <2> QED
    BY <2>1, <2>2
<1>2. /\ Replay(StateAt(k), k + 1, n) = [r \in Ref |-> Replay(StateAt(k), k + 1, n)[r]]
      /\ StateAt(n) = [r \in Ref |-> StateAt(n)[r]]
  BY DEF Replay, StateAt
<1> QED
  BY <1>1, <1>2

\* The state after an operation stays what it is as long as the log does up to there.
LEMMA StateKept ==
    ASSUME TypeOK, TypeOK', NEW k \in 0 .. Len(log),
           \A i \in 1 .. k : log'[i] = log[i]
    PROVE  StateAt(k)' = StateAt(k)
<1> DEFINE S(r) == {i \in 1 .. k : r \in DOMAIN log[i].changes}
           After(r) == {i \in 1 .. k : r \in DOMAIN log'[i].changes}
           Last(at) == CHOOSE i \in at : \A j \in at : j <= i
<1>0. k \in Nat
  BY LogIs
<1>1. ASSUME NEW r \in Ref
      PROVE  (IF S(r) = {} THEN NoRefs[r] ELSE log[Last(S(r))].changes[r].new)
             = (IF After(r) = {} THEN NoRefs[r] ELSE log'[Last(After(r))].changes[r].new)
  <2>1. After(r) = S(r)
    OBVIOUS
  <2>2. S(r) \in SUBSET (0 .. k) /\ S(r) \subseteq 1 .. k
    BY <1>0
  <2> HIDE DEF S, After
  <2>3. S(r) # {} => Last(S(r)) \in S(r)
    BY <1>0, <2>2, LastOfIs DEF LastOf
  <2> HIDE DEF Last
  <2> QED
    BY <2>1, <2>2, <2>3
<1>2. StateAt(k) = [r \in Ref |-> IF S(r) = {} THEN NoRefs[r] ELSE log[Last(S(r))].changes[r].new]
  BY DEF StateAt, Replay, Changes, LastOf
<1>3. StateAt(k)' = [r \in Ref |-> IF After(r) = {} THEN NoRefs[r]
                                   ELSE log'[Last(After(r))].changes[r].new]
  BY DEF StateAt, Replay, Changes, LastOf, NoRefs
<1> HIDE DEF S, After, Last
<1> QED
  BY <1>1, <1>2, <1>3

-----------------------------------------------------------------------------
(* What a process folds in.                                                *)

\* The map of a store is a state of the history, and catching up makes it the latest.
LEMMA CaughtUp ==
    ASSUME RefInv, NEW p \in Proc, pc[p] \in Alive
    PROVE  /\ applied[p] \in 0 .. Len(log) /\ known[p] \in 0 .. Len(log) /\ Len(log) \in Nat
           /\ refs[p] = StateAt(applied[p])
           /\ Folded(p) = StateAt(Len(log)) /\ Folded(p) \in State
<1>1. /\ TypeOK /\ applied[p] \in Nat /\ known[p] \in 0 .. Len(log) /\ applied[p] <= known[p]
      /\ Len(log) \in Nat /\ refs[p] \in State
  BY LogIs DEF RefInv, TypeOK
<1>2. PICK k \in 0 .. Len(log) : k = applied[p]
  BY <1>1
<1>3. refs[p] = StateAt(k)
  BY <1>2 DEF RefInv, MapInv, MapOf
<1>4. Replay(StateAt(k), k + 1, Len(log)) = StateAt(Len(log))
  <2>1. Len(log) \in 0 .. Len(log) /\ k <= Len(log)
    BY <1>1
  <2> QED
    BY <1>1, <2>1, ReplayJoin
<1>5. StateAt(Len(log)) \in State
  <2>1. Len(log) \in 0 .. Len(log) /\ 1 \in Nat \ {0}
    BY <1>1
  <2>2. NoRefs \in State
    BY DEF NoRefs, State
  <2> QED
    BY <1>1, <2>1, <2>2, ReplayTyped DEF StateAt
<1> QED
  BY <1>1, <1>2, <1>3, <1>4, <1>5 DEF Folded

\* A snapshot stands for the operations up to its own (RefStore::open).
LEMMA BaseIsState ==
    ASSUME RefInv, NEW p \in Proc
    PROVE  /\ Anchor(p) \in 0 .. known[p] /\ known[p] \in 0 .. Len(log) /\ Len(log) \in Nat
           /\ Base(p) = StateAt(Anchor(p)) /\ Base(p) \in State
<1>1. /\ TypeOK /\ known[p] \in 0 .. Len(log) /\ Len(log) \in Nat /\ DOMAIN log = 1 .. Len(log)
      /\ snapshot \in [at : 1 .. MaxOps, refs : State] \cup {None}
  BY LogIs DEF RefInv, TypeOK
<1>2. NoRefs \in State
  BY DEF NoRefs, State
<1>3. CASE snapshot # None /\ \E i \in 1 .. known[p] : log[i].id = snapshot.at
  <2> DEFINE at == CHOOSE i \in 1 .. known[p] : log[i].id = snapshot.at
  <2>1. at \in 1 .. known[p] /\ log[at].id = snapshot.at
    BY <1>3
  <2>2. Anchor(p) = at
    BY <1>3 DEF Anchor
  <2> HIDE DEF at
  <2>3. Anchor(p) # 0 /\ at \in DOMAIN log /\ at \in 0 .. known[p]
    BY <1>1, <2>1, <2>2
  <2>4. snapshot.refs = StateAt(at)
    BY <1>3, <2>1, <2>3 DEF RefInv, SnapshotInv
  <2> QED
    BY <1>1, <1>3, <2>2, <2>3, <2>4 DEF Base
<1>4. CASE ~(snapshot # None /\ \E i \in 1 .. known[p] : log[i].id = snapshot.at)
  <2>1. Anchor(p) = 0 /\ Base(p) = NoRefs
    BY <1>4 DEF Anchor, Base
  <2>2. StateAt(0) = NoRefs
    <3>1. 0 \in 0 .. Len(log) /\ 1 \in Nat \ {0} /\ 0 < 1
      BY <1>1
    <3> QED
      BY <1>1, <1>2, <3>1, ReplayNothing DEF StateAt
  <2>3. 0 \in 0 .. known[p]
    BY <1>1
  <2> QED
    BY <1>1, <1>2, <2>1, <2>2, <2>3
<1> QED
  BY <1>3, <1>4

\* What open makes of the log and the snapshot is the state after all it has read.
LEMMA OpenIsState ==
    ASSUME RefInv, NEW p \in Proc
    PROVE  /\ Replay(Base(p), Anchor(p) + 1, known[p]) = StateAt(known[p])
           /\ StateAt(known[p]) \in State
<1>1. PICK k \in 0 .. Len(log), n \in 0 .. Len(log) : k = Anchor(p) /\ n = known[p] /\ k <= n
  BY BaseIsState
<1>2. Replay(StateAt(k), k + 1, n) = StateAt(n)
  BY <1>1, ReplayJoin DEF RefInv
<1>3. StateAt(n) \in State
  <2>1. 1 \in Nat \ {0} /\ NoRefs \in State
    BY DEF NoRefs, State
  <2> QED
    BY <2>1, ReplayTyped DEF StateAt, RefInv
<1> QED
  BY <1>1, <1>2, <1>3, BaseIsState

-----------------------------------------------------------------------------
(* Every step keeps the types.                                             *)

\* The record that a transaction appends (encode_tx).
Record(changes) == [id |-> nextId + 1, changes |-> changes]

\* The appended log has the old one and the new operation.
LEMMA Appended ==
    ASSUME RefStoreAssumption, RefInv, NEW c \in Changings, nextId < MaxOps
    PROVE  LET new == Append(log, Record(c))
           IN  /\ Record(c) \in Op /\ new \in Seq(Op)
               /\ Len(new) = Len(log) + 1 /\ DOMAIN new = 1 .. Len(log) + 1 /\ Len(log) \in Nat
               /\ new[Len(log) + 1] = Record(c)
               /\ \A i \in 1 .. Len(log) : new[i] = log[i]
               /\ nextId \in Nat /\ nextId + 1 \in 1 .. MaxOps
<1>1. nextId \in Nat /\ nextId + 1 \in 1 .. MaxOps /\ TypeOK /\ MaxOps \in Nat
  BY DEF RefInv, TypeOK, RefStoreAssumption
<1>2. Record(c) \in Op
  BY <1>1 DEF Record, Op, Changings
<1>3. log \in Seq(Op) /\ Len(log) \in Nat
  BY <1>1, LogIs
<1> DEFINE new == Append(log, Record(c))
<1>4. /\ new \in Seq(Op) /\ Len(new) = Len(log) + 1
      /\ new[Len(log) + 1] = Record(c) /\ \A i \in 1 .. Len(log) : new[i] = log[i]
  BY <1>2, <1>3, AppendProperties
<1>5. DOMAIN new = 1 .. Len(log) + 1
  <2> HIDE DEF new
  <2> QED
    BY <1>4, LenProperties
<1> QED
  BY <1>1, <1>2, <1>3, <1>4, <1>5

\* The transactions that can be asked for, or taken back, are transactions.
LEMMA AskedIs ==
    ASSUME RefStoreAssumption
    PROVE  \A c \in Change : c \in Changings
BY DEF RefStoreAssumption, Changings

\* What a step under the log's lock does to the types (commit_idempotent).
LEMMA LockedTypes ==
    ASSUME RefStoreAssumption, RefInv, NEW p \in Proc, pc[p] \in Alive, NEW c \in Changings,
           AppendOp(p, c) \/ Refuse(p, c)
    PROVE  TypeOK'
<1>0. /\ TypeOK /\ log \in Seq(Op) /\ synced \in 0 .. Len(log) /\ Len(log) \in Nat
      /\ known \in [Proc -> 0 .. Len(log)] /\ applied \in [Proc -> Nat]
      /\ \A q \in Proc : applied[q] <= known[q]
      /\ pc \in [Proc -> {"closed", "opening"} \cup Alive] /\ since \in [Proc -> Nat]
      /\ refs \in [Proc -> State] /\ tx \in [Proc -> Changings]
      /\ Folded(p) \in State
  BY LogIs, CaughtUp DEF RefInv, TypeOK, Changings
<1> USE DEF disk, local, Goto
<1>1. CASE AppendOp(p, c)
  <2>1. /\ log' = Append(log, Record(c)) /\ nextId' = nextId + 1 /\ nextId < MaxOps
        /\ known' = [known EXCEPT ![p] = Len(log) + 1] /\ applied' = [applied EXCEPT ![p] = Len(log)]
        /\ refs' = [refs EXCEPT ![p] = Folded(p)] /\ tx' = [tx EXCEPT ![p] = c]
        /\ pc' = [pc EXCEPT ![p] = "appended"]
        /\ synced' = synced /\ snapshot' = snapshot /\ since' = since
    BY <1>1 DEF AppendOp, FoldNew, Record
  <2>2. log' \in Seq(Op) /\ Len(log') = Len(log) + 1 /\ nextId' \in 0 .. MaxOps
    <3>1. nextId + 1 \in 0 .. MaxOps
      BY <2>1, Appended
    <3> QED
      BY <2>1, <3>1, Appended
  <2>3. synced' \in 0 .. Len(log') /\ known' \in [Proc -> 0 .. Len(log')]
    <3>1. \A q \in Proc : known'[q] \in 0 .. Len(log')
      <4>1. Len(log) + 1 \in 0 .. Len(log) + 1 /\ \A k \in 0 .. Len(log) : k \in 0 .. Len(log) + 1
        BY <1>0
      <4> QED
        BY <1>0, <2>1, <2>2, <4>1
    <3> QED
      BY <1>0, <2>1, <2>2, <3>1
  <2>4. applied' \in [Proc -> Nat] /\ \A q \in Proc : applied'[q] <= known'[q]
    BY <1>0, <2>1
  <2>5. refs' \in [Proc -> State] /\ tx' \in [Proc -> Changings]
    BY <1>0, <2>1
  <2>6. pc' \in [Proc -> {"closed", "opening"} \cup Alive]
    BY <1>0, <2>1 DEF Alive
  <2> QED
    BY <1>0, <2>1, <2>2, <2>3, <2>4, <2>5, <2>6 DEF TypeOK, Changings
<1>2. CASE Refuse(p, c)
  <2>1. /\ log' = log /\ nextId' = nextId /\ synced' = synced /\ snapshot' = snapshot /\ since' = since
        /\ known' = [known EXCEPT ![p] = Len(log)] /\ applied' = [applied EXCEPT ![p] = Len(log)]
        /\ refs' = [refs EXCEPT ![p] = Folded(p)] /\ tx' = [tx EXCEPT ![p] = <<>>]
        /\ pc' = [pc EXCEPT ![p] = "idle"]
    BY <1>2 DEF Refuse, FoldNew
  <2>2. known' \in [Proc -> 0 .. Len(log')] /\ applied' \in [Proc -> Nat]
        /\ \A q \in Proc : applied'[q] <= known'[q]
    BY <1>0, <2>1
  <2>3. refs' \in [Proc -> State] /\ tx' \in [Proc -> Changings]
    BY <1>0, <2>1, ChangingIs
  <2>4. pc' \in [Proc -> {"closed", "opening"} \cup Alive]
    BY <1>0, <2>1 DEF Alive
  <2> QED
    BY <1>0, <2>1, <2>2, <2>3, <2>4 DEF TypeOK, Changings
<1> QED
  BY <1>1, <1>2

\* Every step keeps the types of the files and of every process.
LEMMA StepTypes ==
    ASSUME RefStoreAssumption, RefInv, Next
    PROVE  TypeOK'
<1>0. /\ TypeOK /\ log \in Seq(Op) /\ synced \in 0 .. Len(log) /\ Len(log) \in Nat
      /\ DOMAIN log = 1 .. Len(log)
      /\ nextId \in 0 .. MaxOps
      /\ snapshot \in [at : 1 .. MaxOps, refs : State] \cup {None}
      /\ known \in [Proc -> 0 .. Len(log)] /\ applied \in [Proc -> Nat]
      /\ \A q \in Proc : applied[q] <= known[q]
      /\ pc \in [Proc -> {"closed", "opening"} \cup Alive] /\ since \in [Proc -> Nat]
      /\ refs \in [Proc -> State] /\ tx \in [Proc -> Changings]
      /\ NoRefs \in State
  BY LogIs DEF RefInv, TypeOK, Changings, NoRefs, State
<1> USE DEF disk, local, Goto
<1>1. ASSUME NEW p \in Proc, OpenLog(p) PROVE TypeOK'
  BY <1>0, <1>1 DEF OpenLog, TypeOK, Changings
<1>2. ASSUME NEW p \in Proc, OpenRefs(p) PROVE TypeOK'
  <2>1. /\ log' = log /\ nextId' = nextId /\ synced' = synced /\ snapshot' = snapshot
        /\ known' = known /\ tx' = tx
        /\ refs' = [refs EXCEPT ![p] = Replay(Base(p), Anchor(p) + 1, known[p])]
        /\ since' = [since EXCEPT ![p] = known[p] - Anchor(p)]
        /\ applied' = [applied EXCEPT ![p] = known[p]] /\ pc' = [pc EXCEPT ![p] = "idle"]
    BY <1>2 DEF OpenRefs
  <2>2. known[p] - Anchor(p) \in Nat
    BY BaseIsState
  <2>3. refs' \in [Proc -> State] /\ since' \in [Proc -> Nat]
    BY <1>0, <2>1, <2>2, OpenIsState
  <2>4. applied' \in [Proc -> Nat] /\ \A q \in Proc : applied'[q] <= known'[q]
    BY <1>0, <2>1
  <2>5. pc' \in [Proc -> {"closed", "opening"} \cup Alive]
    BY <1>0, <2>1 DEF Alive
  <2> QED
    BY <1>0, <2>1, <2>3, <2>4, <2>5 DEF TypeOK, Changings
<1>3. ASSUME NEW p \in Proc, Commit(p) \/ RecordOp(p) \/ UndoCommit(p) PROVE TypeOK'
  <2>1. /\ pc[p] \in {"idle", "undoing"}
        /\ \E c \in Changings : AppendOp(p, c) \/ Refuse(p, c)
    BY <1>0, <1>3, AskedIs, ChangingIs DEF Commit, RecordOp, UndoCommit
  <2> QED
    BY <2>1, LockedTypes DEF Alive
<1>4. ASSUME NEW p \in Proc, Refresh(p) PROVE TypeOK'
  <2>1. Folded(p) \in State
    BY <1>4, CaughtUp DEF Refresh, Alive
  <2> QED
    BY <1>0, <1>4, <2>1 DEF Refresh, FoldNew, TypeOK, Changings
<1>5. ASSUME NEW p \in Proc, UndoRead(p) PROVE TypeOK'
  <2>1. InverseOf(log[LastTx(known[p])].changes) \in Changings
    <3>1. LastTx(known[p]) \in DOMAIN log
      BY <1>0, <1>5 DEF UndoRead
    <3> QED
      BY <1>0, <3>1, LogIs, ChangingIs
  <2> QED
    BY <1>0, <1>5, <2>1 DEF UndoRead, TypeOK, Changings, Alive
<1>6. ASSUME NEW p \in Proc, SyncOk(p) PROVE TypeOK'
  <2>1. /\ log' = log /\ nextId' = nextId /\ synced' \in {synced, Len(log)} /\ snapshot' = snapshot
        /\ known' = known
        /\ refs' = [refs EXCEPT ![p] = Apply(refs[p], [changes |-> tx[p]])]
        /\ applied' = [applied EXCEPT ![p] = known[p]] /\ since' = [since EXCEPT ![p] = @ + 1]
        /\ tx' = [tx EXCEPT ![p] = <<>>]
        /\ \E where \in {"snapshot", "idle"} : pc' = [pc EXCEPT ![p] = where]
    BY <1>6 DEF SyncOk
  <2>2. Apply(refs[p], [changes |-> tx[p]]) \in State
    <3>1. refs[p] \in State /\ tx[p] \in Changings
      BY <1>0
    <3>2. \A r \in DOMAIN tx[p] : tx[p][r].new \in Slot
      BY <3>1, ChangingIs
    <3> QED
      BY <3>1, <3>2 DEF Apply, State, Slot
  <2>3. refs' \in [Proc -> State] /\ since' \in [Proc -> Nat] /\ tx' \in [Proc -> Changings]
    BY <1>0, <2>1, <2>2, ChangingIs
  <2>4. applied' \in [Proc -> Nat] /\ \A q \in Proc : applied'[q] <= known'[q]
    BY <1>0, <2>1
  <2>5. pc' \in [Proc -> {"closed", "opening"} \cup Alive]
    BY <1>0, <2>1 DEF Alive
  <2> QED
    BY <1>0, <2>1, <2>3, <2>4, <2>5 DEF TypeOK, Changings
<1>7. ASSUME NEW p \in Proc, SyncFails(p) \/ SnapshotFails(p) PROVE TypeOK'
  <2>1. pc' = [pc EXCEPT ![p] = "idle"] /\ (tx' = tx \/ tx' = [tx EXCEPT ![p] = <<>>])
        /\ UNCHANGED <<disk, known, refs, applied, since>>
    BY <1>7 DEF SyncFails, SnapshotFails
  <2>2. tx' \in [Proc -> Changings]
    <3>1. <<>> \in Changings
      BY ChangingIs
    <3> QED
      BY <1>0, <2>1, <3>1
  <2>3. pc' \in [Proc -> {"closed", "opening"} \cup Alive]
    BY <1>0, <2>1 DEF Alive
  <2> QED
    BY <1>0, <2>1, <2>2, <2>3 DEF TypeOK, Changings
<1>8. ASSUME NEW p \in Proc, Snapshot(p) PROVE TypeOK'
  <2>1. snapshot' \in [at : 1 .. MaxOps, refs : State] \cup {None}
    <3>1. known[p] \in DOMAIN log /\ refs[p] \in State
      BY <1>0, <1>8 DEF Snapshot, RefInv, MapInv, MapOf
    <3>2. log[known[p]].id \in 1 .. MaxOps
      BY <1>0, <3>1, LogIs
    <3> QED
      BY <1>8, <3>1, <3>2 DEF Snapshot
  <2> QED
    BY <1>0, <1>8, <2>1 DEF Snapshot, TypeOK, Changings, Alive
<1>9. ASSUME NEW procs \in SUBSET Proc, Forget(procs)
      PROVE  /\ pc' \in [Proc -> {"closed", "opening"} \cup Alive]
             /\ known' \in [Proc -> 0 .. Len(log)] /\ applied' \in [Proc -> Nat]
             /\ \A q \in Proc : applied'[q] <= known'[q]
             /\ since' \in [Proc -> Nat] /\ refs' \in [Proc -> State] /\ tx' \in [Proc -> Changings]
  BY <1>0, <1>9, ChangingIs DEF Forget
<1>10. ASSUME NEW p \in Proc, Stop(p) PROVE TypeOK'
  <2>1. Forget({p}) /\ UNCHANGED disk
    BY <1>10 DEF Stop
  <2> QED
    BY <1>0, <1>9, <2>1 DEF TypeOK, Changings
<1>11. CASE PowerLoss
  <2>1. PICK k \in synced .. Len(log) : log' = SubSeq(log, 1, k) /\ synced' = k
    BY <1>11 DEF PowerLoss
  <2>2. k \in 0 .. Len(log) /\ k \in Nat
    BY <1>0, <2>1
  <2>3. log' \in Seq(Op) /\ Len(log') = k
    BY <1>0, <2>1, <2>2, SubSeqProperties, ElementOfSeq
  <2>4. Forget(Proc) /\ nextId' = nextId /\ snapshot' \in {snapshot, None}
    BY <1>11 DEF PowerLoss
  <2>5. known' \in [Proc -> 0 .. Len(log')]
    BY <2>2, <2>3, <2>4 DEF Forget
  <2> QED
    BY <1>0, <1>9, <2>1, <2>2, <2>3, <2>4, <2>5 DEF TypeOK, Changings
<1> QED
  BY <1>1, <1>2, <1>3, <1>4, <1>5, <1>6, <1>7, <1>8, <1>10, <1>11 DEF Next, Step

-----------------------------------------------------------------------------
(* Every step keeps the history and what stands for it.                    *)

\* The log has all it had.
Extends ==
    /\ Len(log) <= Len(log')
    /\ \A i \in 1 .. Len(log) : log'[i] = log[i]

\* A log that is only added to has the states it had.
LEMMA StatesStay ==
    ASSUME TypeOK, TypeOK', Extends
    PROVE  \A k \in 0 .. Len(log) : k \in 0 .. Len(log') /\ StateAt(k)' = StateAt(k)
<1>1. Len(log) \in Nat /\ Len(log') \in Nat /\ Len(log) <= Len(log')
  BY LenProperties DEF TypeOK, Extends
<1>2. ASSUME NEW k \in 0 .. Len(log) PROVE k \in 0 .. Len(log') /\ StateAt(k)' = StateAt(k)
  <2>1. k \in 0 .. Len(log') /\ \A i \in 1 .. k : i \in 1 .. Len(log)
    BY <1>1
  <2>2. \A i \in 1 .. k : log'[i] = log[i]
    BY <2>1 DEF Extends
  <2> QED
    BY <2>1, <2>2, StateKept
<1> QED
  BY <1>2

\* Steps that append nothing leave the history alone.
LEMMA QuietStep ==
    ASSUME RefInv, TypeOK', log' = log, nextId' = nextId
    PROVE  /\ Extends /\ LogInv'
           /\ snapshot' = snapshot => SnapshotInv'
<1>1. TypeOK /\ LogInv /\ SnapshotInv /\ Len(log) \in Nat /\ DOMAIN log = 1 .. Len(log)
  BY LogIs DEF RefInv
<1>2. Extends
  BY <1>1 DEF Extends
<1>3. \A k \in 0 .. Len(log) : StateAt(k)' = StateAt(k)
  BY <1>1, <1>2, StatesStay
<1>4. \A i \in DOMAIN log : i - 1 \in 0 .. Len(log) /\ i \in 0 .. Len(log)
  BY <1>1
<1>5. LogInv'
  BY <1>1, <1>3, <1>4 DEF LogInv
<1>6. snapshot' = snapshot => SnapshotInv'
  BY <1>1, <1>3, <1>4 DEF SnapshotInv
<1> QED
  BY <1>2, <1>5, <1>6

\* A transaction is checked against the latest state, under an id nobody has had.
LEMMA AppendStep ==
    ASSUME RefStoreAssumption, RefInv, TypeOK', NEW p \in Proc, pc[p] \in Alive,
           NEW c \in Changings, AppendOp(p, c)
    PROVE  /\ Extends /\ LogInv' /\ SnapshotInv'
           /\ log' = Append(log, Record(c)) /\ Len(log') = Len(log) + 1
           /\ log'[Len(log) + 1].changes = c
           /\ \A r \in DOMAIN c : StateAt(Len(log))[r] = c[r].old
<1>1. TypeOK /\ LogInv /\ SnapshotInv /\ Len(log) \in Nat /\ DOMAIN log = 1 .. Len(log)
  BY LogIs DEF RefInv
<1>2. /\ log' = Append(log, Record(c)) /\ nextId < MaxOps /\ nextId' = nextId + 1
      /\ snapshot' = snapshot /\ Matches(Folded(p), c)
  BY DEF AppendOp, Record, Accepts
<1>3. /\ Len(log') = Len(log) + 1 /\ DOMAIN log' = 1 .. Len(log) + 1
      /\ log'[Len(log) + 1] = Record(c) /\ \A i \in 1 .. Len(log) : log'[i] = log[i]
      /\ nextId \in Nat
  BY <1>2, Appended
<1>4. Extends
  BY <1>1, <1>3 DEF Extends
<1>5. \A k \in 0 .. Len(log) : StateAt(k)' = StateAt(k)
  BY <1>1, <1>4, StatesStay
<1>6. \A r \in DOMAIN c : StateAt(Len(log))[r] = c[r].old
  BY <1>2, CaughtUp DEF Matches
<1>7. Record(c).id = nextId + 1 /\ Record(c).changes = c
  BY DEF Record
<1>8. \A i \in DOMAIN log' : \/ i \in DOMAIN log /\ i \in 0 .. Len(log) /\ log'[i] = log[i] /\ i - 1 \in 0 .. Len(log)
                             \/ i = Len(log) + 1 /\ log'[i] = Record(c) /\ i - 1 = Len(log)
  BY <1>1, <1>3
<1>9. \A i \in DOMAIN log : log[i].id <= nextId /\ log[i].id \in Nat
  BY <1>1, LogIs DEF LogInv
<1>10. LogInv'
  <2>1. \A i \in DOMAIN log' : log'[i].id <= nextId'
    BY <1>2, <1>3, <1>7, <1>8, <1>9
  <2>2. ASSUME NEW i \in DOMAIN log', NEW j \in DOMAIN log', log'[i].id = log'[j].id PROVE i = j
    <3>1. CASE i \in DOMAIN log /\ j \in DOMAIN log
      BY <1>1, <1>3, <2>2, <3>1 DEF LogInv
    <3>2. CASE ~(i \in DOMAIN log /\ j \in DOMAIN log)
      BY <1>3, <1>7, <1>8, <1>9, <2>2, <3>2
    <3> QED
      BY <3>1, <3>2
  <2>3. ASSUME NEW i \in DOMAIN log', NEW r \in DOMAIN log'[i].changes
        PROVE  log'[i].changes[r].old = StateAt(i - 1)'[r]
    <3>1. CASE i \in DOMAIN log /\ log'[i] = log[i] /\ i - 1 \in 0 .. Len(log)
      BY <1>1, <1>5, <3>1 DEF LogInv
    <3>2. CASE log'[i] = Record(c) /\ i - 1 = Len(log)
      <4>1. i - 1 \in 0 .. Len(log)
        BY <1>1, <3>2
      <4>2. StateAt(i - 1)' = StateAt(i - 1)
        BY <1>5, <4>1
      <4> QED
        BY <1>6, <1>7, <3>2, <4>2
    <3> QED
      BY <1>8, <3>1, <3>2
  <2> QED
    BY <2>1, <2>2, <2>3 DEF LogInv
<1>11. SnapshotInv'
  <2>1. snapshot # None => snapshot.at <= nextId /\ snapshot.at \in Nat
    BY <1>1 DEF SnapshotInv, TypeOK
  <2>2. ASSUME snapshot # None, NEW i \in DOMAIN log', log'[i].id = snapshot.at
        PROVE  snapshot.refs = StateAt(i)'
    <3>1. i # Len(log) + 1
      BY <1>3, <1>7, <2>1, <2>2
    <3>2. i \in DOMAIN log /\ i \in 0 .. Len(log) /\ log'[i] = log[i]
      BY <1>8, <3>1
    <3> QED
      BY <1>1, <1>5, <2>2, <3>2 DEF SnapshotInv
  <2>3. snapshot # None => snapshot.at <= nextId'
    BY <1>2, <1>3, <2>1
  <2> QED
    BY <1>2, <2>2, <2>3 DEF SnapshotInv
<1> QED
  BY <1>2, <1>3, <1>4, <1>6, <1>7, <1>10, <1>11

\* A snapshot is of the operation that its process folded in last (snapshot).
LEMMA SnapshotStep ==
    ASSUME RefInv, TypeOK', NEW p \in Proc, Snapshot(p)
    PROVE  SnapshotInv'
<1>1. /\ log' = log /\ nextId' = nextId /\ pc[p] = "snapshot"
      /\ snapshot' \in {[at |-> log[known[p]].id, refs |-> refs[p]], None}
  BY DEF Snapshot, disk
<1>2. /\ TypeOK /\ LogInv /\ Len(log) \in Nat /\ DOMAIN log = 1 .. Len(log)
      /\ applied[p] = known[p] /\ applied[p] > 0 /\ known[p] \in DOMAIN log
      /\ refs[p] = StateAt(applied[p])
  <2>1. TypeOK /\ LogInv /\ Len(log) \in Nat /\ DOMAIN log = 1 .. Len(log)
    BY LogIs DEF RefInv
  <2>2. applied[p] = known[p] /\ applied[p] > 0
    BY <1>1 DEF RefInv, MapInv, MapOf
  <2>3. known[p] \in 0 .. Len(log) /\ refs[p] = StateAt(applied[p])
    BY <1>1, CaughtUp DEF Alive
  <2> QED
    BY <2>1, <2>2, <2>3
<1>3. PICK k \in DOMAIN log : k = known[p]
  BY <1>2
<1>4. Extends
  BY <1>1, <1>2 DEF Extends
<1>5. StateAt(k)' = StateAt(k)
  <2>1. k \in 0 .. Len(log)
    BY <1>2
  <2> QED
    BY <1>2, <1>4, <2>1, StatesStay
<1>6. ASSUME NEW i \in DOMAIN log, log[i].id = log[k].id PROVE i = k
  BY <1>2, <1>6 DEF LogInv
<1>7. log[k].id <= nextId
  BY <1>2 DEF LogInv
<1> QED
  BY <1>1, <1>2, <1>3, <1>5, <1>6, <1>7 DEF SnapshotInv

\* A power loss takes the latest states; a snapshot may outlive its operation.
LEMMA PowerLossStep ==
    ASSUME RefInv, TypeOK', PowerLoss
    PROVE  LogInv' /\ SnapshotInv' /\ MapInv'
<1>1. PICK n \in synced .. Len(log) : log' = SubSeq(log, 1, n) /\ synced' = n
  BY DEF PowerLoss
<1>2. /\ Len(log) \in Nat /\ n \in 0 .. Len(log) /\ n \in Nat /\ log \in Seq(Op) /\ TypeOK
      /\ LogInv /\ SnapshotInv /\ DOMAIN log = 1 .. Len(log)
  BY <1>1, LogIs, SMTT(30) DEF RefInv, TypeOK
<1>3. Len(log') = n /\ DOMAIN log' = 1 .. n /\ \A i \in 1 .. n : i \in DOMAIN log /\ log'[i] = log[i]
  <2>1. \A i \in 1 .. n : i \in DOMAIN log /\ log[i] \in Op
    BY <1>2, ElementOfSeq
  <2>2. 1 \in Int /\ n \in Int
    BY <1>2
  <2>3. /\ Len(log') = IF 1 <= n THEN n - 1 + 1 ELSE 0
        /\ log' \in Seq(Op)
        /\ \A i \in 1 .. n - 1 + 1 : log'[i] = log[1 + i - 1]
    BY <1>1, <1>2, <2>1, <2>2, SubSeqProperties
  <2>4. Len(log') = n /\ \A i \in 1 .. n : log'[i] = log[i]
    BY <1>2, <2>3
  <2>5. DOMAIN log' = 1 .. n
    BY <2>3, <2>4, LenProperties
  <2> QED
    BY <2>1, <2>4, <2>5
<1>4. ASSUME NEW k \in 0 .. n PROVE StateAt(k)' = StateAt(k)
  <2>1. k \in 0 .. Len(log) /\ \A i \in 1 .. k : log'[i] = log[i]
    BY <1>2, <1>3
  <2> QED
    BY <1>2, <2>1, StateKept
<1>5. \A i \in DOMAIN log' : i \in 0 .. n /\ i - 1 \in 0 .. n
  BY <1>2, <1>3
<1>6. nextId' = nextId /\ snapshot' \in {snapshot, None} /\ Forget(Proc)
  BY DEF PowerLoss
<1>7. LogInv'
  BY <1>2, <1>3, <1>4, <1>5, <1>6 DEF LogInv
<1>8. SnapshotInv'
  BY <1>2, <1>3, <1>4, <1>5, <1>6 DEF SnapshotInv
<1>9. MapInv'
  BY <1>6 DEF Forget, MapInv, MapOf, Alive
<1> QED
  BY <1>7, <1>8, <1>9

-----------------------------------------------------------------------------
(* Every step keeps the maps.                                              *)

\* What a process has is not disturbed by what another adds to the log.
LEMMA OthersStay ==
    ASSUME RefInv, TypeOK', Extends, NEW q \in Proc,
           pc'[q] = pc[q], known'[q] = known[q], applied'[q] = applied[q],
           refs'[q] = refs[q], tx'[q] = tx[q]
    PROVE  MapOf(q)'
<1>1. /\ TypeOK /\ known[q] \in 0 .. Len(log) /\ applied[q] \in Nat /\ applied[q] <= known[q]
      /\ MapOf(q) /\ Len(log) \in Nat
  BY LogIs DEF RefInv, MapInv, TypeOK
<1>2. applied[q] \in 0 .. Len(log)
  BY <1>1
<1>3. ASSUME pc[q] \in Alive, NEW k \in 0 .. Len(log'), applied'[q] = k
      PROVE  refs'[q] = StateAt(k)'
  <2>1. k \in 0 .. Len(log) /\ refs[q] = StateAt(k)
    BY <1>1, <1>2, <1>3 DEF MapOf
  <2> QED
    BY <1>1, <2>1, StatesStay
<1>4. ASSUME pc[q] = "appended"
      PROVE  known'[q] = applied'[q] + 1 /\ log'[known'[q]].changes = tx'[q]
  <2>1. known[q] = applied[q] + 1 /\ log[known[q]].changes = tx[q]
    BY <1>1, <1>4 DEF MapOf
  <2>2. known[q] \in 1 .. Len(log)
    BY <1>1, <2>1
  <2> QED
    BY <2>1, <2>2 DEF Extends
<1> QED
  BY <1>1, <1>3, <1>4 DEF MapOf

\* A map is right at place n of a log that has all the old one had.
LEMMA MovedTo ==
    ASSUME TypeOK, TypeOK', Extends, NEW q \in Proc, NEW n \in 0 .. Len(log),
           applied'[q] = n, refs'[q] = StateAt(n)
    PROVE  \A k \in 0 .. Len(log') : applied'[q] = k => refs'[q] = StateAt(k)'
BY StatesStay

\* Every step keeps every map a state of the history.
LEMMA StepMaps ==
    ASSUME RefStoreAssumption, RefInv, Next
    PROVE  LogInv' /\ SnapshotInv' /\ MapInv'
<1>0. /\ TypeOK /\ TypeOK' /\ Len(log) \in Nat /\ DOMAIN log = 1 .. Len(log)
      /\ known \in [Proc -> 0 .. Len(log)] /\ applied \in [Proc -> Nat]
      /\ \A q \in Proc : applied[q] <= known[q]
      /\ pc \in [Proc -> {"closed", "opening"} \cup Alive]
      /\ refs \in [Proc -> State] /\ tx \in [Proc -> Changings]
  BY StepTypes, LogIs DEF RefInv, TypeOK, Changings
<1> USE DEF disk, local, Goto
<1> DEFINE Same(q) == /\ pc'[q] = pc[q] /\ known'[q] = known[q] /\ applied'[q] = applied[q]
                      /\ refs'[q] = refs[q] /\ tx'[q] = tx[q]
<1>1. ASSUME NEW p \in Proc, OpenLog(p) PROVE LogInv' /\ SnapshotInv' /\ MapInv'
  <2>1. log' = log /\ nextId' = nextId /\ snapshot' = snapshot /\ \A q \in Proc \ {p} : Same(q)
    BY <1>0, <1>1 DEF OpenLog
  <2>2. Extends /\ LogInv' /\ SnapshotInv'
    BY <1>0, <2>1, QuietStep
  <2>3. MapOf(p)'
    BY <1>0, <1>1 DEF OpenLog, MapOf, Alive, RefInv, MapInv
  <2> QED
    BY <1>0, <2>1, <2>2, <2>3, OthersStay DEF MapInv
<1>2. ASSUME NEW p \in Proc, OpenRefs(p) PROVE LogInv' /\ SnapshotInv' /\ MapInv'
  <2>1. /\ log' = log /\ nextId' = nextId /\ snapshot' = snapshot /\ \A q \in Proc \ {p} : Same(q)
        /\ refs'[p] = Replay(Base(p), Anchor(p) + 1, known[p]) /\ applied'[p] = known[p]
        /\ pc'[p] = "idle"
    BY <1>0, <1>2 DEF OpenRefs
  <2>2. Extends /\ LogInv' /\ SnapshotInv'
    BY <1>0, <2>1, QuietStep
  <2>3. MapOf(p)'
    <3>1. PICK n \in 0 .. Len(log) : n = known[p]
      BY <1>0
    <3>2. refs'[p] = StateAt(n) /\ applied'[p] = n
      BY <2>1, <3>1, OpenIsState
    <3>3. \A k \in 0 .. Len(log') : applied'[p] = k => refs'[p] = StateAt(k)'
      BY <1>0, <2>2, <3>2, MovedTo
    <3> QED
      BY <2>1, <3>3 DEF MapOf
  <2> QED
    BY <1>0, <2>1, <2>2, <2>3, OthersStay DEF MapInv
<1>3. ASSUME NEW p \in Proc, pc[p] \in Alive, applied'[p] = Len(log), refs'[p] = Folded(p), Extends
      PROVE  \A k \in 0 .. Len(log') : applied'[p] = k => refs'[p] = StateAt(k)'
  <2>0. Len(log) \in 0 .. Len(log)
    BY <1>0
  <2>1. PICK n \in 0 .. Len(log) : n = Len(log)
    BY <2>0
  <2>2. refs'[p] = StateAt(n)
    BY <1>3, <2>1, CaughtUp
  <2> QED
    BY <1>0, <1>3, <2>1, <2>2, MovedTo
<1>4. ASSUME NEW p \in Proc, pc[p] \in Alive, NEW c \in Changings, AppendOp(p, c)
      PROVE  LogInv' /\ SnapshotInv' /\ MapInv'
  <2>1. /\ pc'[p] = "appended" /\ known'[p] = Len(log) + 1 /\ applied'[p] = Len(log)
        /\ refs'[p] = Folded(p) /\ tx'[p] = c /\ \A q \in Proc \ {p} : Same(q)
    BY <1>0, <1>4 DEF AppendOp, FoldNew
  <2>2. Extends /\ LogInv' /\ SnapshotInv' /\ log'[Len(log) + 1].changes = c
    BY <1>0, <1>4, AppendStep
  <2>3. MapOf(p)'
    BY <1>3, <1>4, <2>1, <2>2 DEF MapOf
  <2> QED
    BY <1>0, <2>1, <2>2, <2>3, OthersStay DEF MapInv
<1>5. ASSUME NEW p \in Proc, pc[p] \in Alive, NEW c \in Changings, Refuse(p, c)
      PROVE  LogInv' /\ SnapshotInv' /\ MapInv'
  <2>1. /\ pc'[p] = "idle" /\ applied'[p] = Len(log) /\ refs'[p] = Folded(p)
        /\ log' = log /\ nextId' = nextId /\ snapshot' = snapshot /\ \A q \in Proc \ {p} : Same(q)
    BY <1>0, <1>5 DEF Refuse, FoldNew
  <2>2. Extends /\ LogInv' /\ SnapshotInv'
    BY <1>0, <2>1, QuietStep
  <2>3. MapOf(p)'
    BY <1>3, <1>5, <2>1, <2>2 DEF MapOf
  <2> QED
    BY <1>0, <2>1, <2>2, <2>3, OthersStay DEF MapInv
<1>6. ASSUME NEW p \in Proc, Commit(p) \/ RecordOp(p) \/ UndoCommit(p)
      PROVE  LogInv' /\ SnapshotInv' /\ MapInv'
  <2>1. /\ pc[p] \in {"idle", "undoing"}
        /\ \E c \in Changings : AppendOp(p, c) \/ Refuse(p, c)
    BY <1>0, <1>6, AskedIs, ChangingIs DEF Commit, RecordOp, UndoCommit
  <2> QED
    BY <1>4, <1>5, <2>1 DEF Alive
<1>7. ASSUME NEW p \in Proc, Refresh(p) PROVE LogInv' /\ SnapshotInv' /\ MapInv'
  <2>1. /\ pc'[p] = "idle" /\ applied'[p] = Len(log) /\ refs'[p] = Folded(p) /\ pc[p] \in Alive
        /\ log' = log /\ nextId' = nextId /\ snapshot' = snapshot /\ \A q \in Proc \ {p} : Same(q)
    BY <1>0, <1>7 DEF Refresh, FoldNew, Alive
  <2>2. Extends /\ LogInv' /\ SnapshotInv'
    BY <1>0, <2>1, QuietStep
  <2>3. MapOf(p)'
    BY <1>3, <2>1, <2>2 DEF MapOf
  <2> QED
    BY <1>0, <2>1, <2>2, <2>3, OthersStay DEF MapInv
<1>8. ASSUME NEW p \in Proc, log' = log, nextId' = nextId, pc[p] \in Alive,
             pc'[p] \in {"idle", "undoing"}, applied'[p] = applied[p], refs'[p] = refs[p],
             \A q \in Proc \ {p} : Same(q)
      PROVE  LogInv' /\ MapInv' /\ (snapshot' = snapshot => SnapshotInv')
  <2>1. Extends /\ LogInv' /\ (snapshot' = snapshot => SnapshotInv')
    BY <1>0, <1>8, QuietStep
  <2>2. MapOf(p)'
    <3>1. PICK n \in 0 .. Len(log) : n = applied[p]
      BY <1>8, CaughtUp
    <3>2. refs'[p] = StateAt(n) /\ applied'[p] = n
      BY <1>8, <3>1, CaughtUp
    <3>3. \A k \in 0 .. Len(log') : applied'[p] = k => refs'[p] = StateAt(k)'
      BY <1>0, <2>1, <3>2, MovedTo
    <3> QED
      BY <1>8, <3>3 DEF MapOf
  <2> QED
    BY <1>0, <1>8, <2>1, <2>2, OthersStay DEF MapInv
<1>9. ASSUME NEW p \in Proc, UndoRead(p) \/ SyncFails(p) \/ SnapshotFails(p)
      PROVE  LogInv' /\ SnapshotInv' /\ MapInv'
  <2>1. /\ log' = log /\ nextId' = nextId /\ snapshot' = snapshot /\ pc[p] \in Alive
        /\ pc'[p] \in {"idle", "undoing"} /\ applied'[p] = applied[p] /\ refs'[p] = refs[p]
        /\ \A q \in Proc \ {p} : Same(q)
    <3>1. CASE UndoRead(p)
      BY <1>0, <3>1 DEF UndoRead, Alive
    <3>2. CASE SyncFails(p)
      BY <1>0, <3>2 DEF SyncFails, Alive
    <3>3. CASE SnapshotFails(p)
      BY <1>0, <3>3 DEF SnapshotFails, Alive
    <3> QED
      BY <1>9, <3>1, <3>2, <3>3
  <2> QED
    BY <1>8, <2>1
<1>10. ASSUME NEW p \in Proc, SyncOk(p) PROVE LogInv' /\ SnapshotInv' /\ MapInv'
  <2>1. /\ log' = log /\ nextId' = nextId /\ snapshot' = snapshot /\ \A q \in Proc \ {p} : Same(q)
        /\ pc[p] = "appended" /\ pc'[p] \in {"idle", "snapshot"}
        /\ known'[p] = known[p] /\ applied'[p] = known[p]
        /\ refs'[p] = Apply(refs[p], [changes |-> tx[p]])
    BY <1>0, <1>10 DEF SyncOk
  <2>2. Extends /\ LogInv' /\ SnapshotInv'
    BY <1>0, <2>1, QuietStep
  <2>3. MapOf(p)'
    <3>1. known[p] = applied[p] + 1 /\ log[known[p]].changes = tx[p] /\ known[p] \in 0 .. Len(log)
      BY <1>0, <2>1 DEF RefInv, MapInv, MapOf
    <3>2. PICK n \in 0 .. Len(log), m \in 0 .. Len(log) : n = applied[p] /\ m = n + 1 /\ m = known[p]
      BY <1>0, <3>1
    <3>3. refs[p] = StateAt(n) /\ log[m].changes = tx[p]
      BY <2>1, <3>1, <3>2, CaughtUp DEF Alive
    <3>4. StateAt(n + 1) = Apply(StateAt(n), log[n + 1])
      <4>1. NoRefs \in State /\ 1 \in Nat \ {0}
        BY DEF NoRefs, State
      <4>2. n \in Nat /\ 1 <= n + 1 /\ n + 1 <= Len(log)
        BY <1>0, <3>2
      <4> QED
        BY <1>0, <4>1, <4>2, ReplayStep DEF StateAt
    <3>5. refs'[p] = StateAt(m) /\ applied'[p] = m
      BY <2>1, <3>2, <3>3, <3>4 DEF Apply
    <3>6. \A k \in 0 .. Len(log') : applied'[p] = k => refs'[p] = StateAt(k)'
      BY <1>0, <2>2, <3>5, MovedTo
    <3>7. applied'[p] > 0
      BY <3>2, <3>5
    <3> QED
      BY <2>1, <3>6, <3>7 DEF MapOf
  <2> QED
    BY <1>0, <2>1, <2>2, <2>3, OthersStay DEF MapInv
<1>11. ASSUME NEW p \in Proc, Snapshot(p) PROVE LogInv' /\ SnapshotInv' /\ MapInv'
  <2>1. /\ log' = log /\ nextId' = nextId /\ pc[p] \in Alive
        /\ pc'[p] = "idle" /\ applied'[p] = applied[p] /\ refs'[p] = refs[p]
        /\ \A q \in Proc \ {p} : Same(q)
    BY <1>0, <1>11 DEF Snapshot, Alive
  <2> QED
    BY <1>0, <1>8, <1>11, <2>1, SnapshotStep
<1>12. ASSUME NEW p \in Proc, Stop(p) PROVE LogInv' /\ SnapshotInv' /\ MapInv'
  <2>1. log' = log /\ nextId' = nextId /\ snapshot' = snapshot /\ Forget({p})
    BY <1>12 DEF Stop
  <2>2. Extends /\ LogInv' /\ SnapshotInv'
    BY <1>0, <2>1, QuietStep
  <2>3. \A q \in Proc \ {p} : Same(q)
    BY <2>1 DEF Forget
  <2>4. MapOf(p)'
    BY <2>1 DEF Forget, MapOf, Alive
  <2> QED
    BY <1>0, <2>2, <2>3, <2>4, OthersStay DEF MapInv
<1> QED
  BY <1>0, <1>1, <1>2, <1>6, <1>7, <1>9, <1>10, <1>11, <1>12, PowerLossStep DEF Next, Step

-----------------------------------------------------------------------------
(* What holds of every behaviour.                                          *)

\* The history, the snapshot and every map agree (commit_idempotent, open, snapshot).
THEOREM RefStoreInvariant == ASSUME RefStoreAssumption PROVE Spec => []RefInv
<1>1. Init => RefInv
  <2> SUFFICES ASSUME Init PROVE RefInv
    OBVIOUS
  <2>1. log = <<>> /\ log \in Seq(Op) /\ DOMAIN log = {} /\ Len(log) = 0
    BY EmptySeq DEF Init
  <2>2. NoRefs \in State /\ <<>> \in Changings /\ MaxOps \in Nat
    BY ChangingIs DEF NoRefs, State, RefStoreAssumption
  <2>3. TypeOK
    BY <2>1, <2>2 DEF Init, TypeOK, Changings
  <2>4. LogInv /\ SnapshotInv
    BY <2>1 DEF Init, LogInv, SnapshotInv
  <2>5. MapInv
    BY DEF Init, MapInv, MapOf, Alive
  <2> QED
    BY <2>3, <2>4, <2>5 DEF RefInv
<1>2. RefInv /\ [Next]_vars => RefInv'
  <2> SUFFICES ASSUME RefInv, [Next]_vars PROVE RefInv'
    OBVIOUS
  <2>1. CASE Next
    BY <2>1, RefStoreAssumption, StepTypes, StepMaps DEF RefInv
  <2>2. CASE UNCHANGED vars
    <3>1. TypeOK'
      BY <2>2 DEF vars, disk, local, RefInv, TypeOK
    <3>2. Extends /\ LogInv' /\ SnapshotInv'
      BY <2>2, <3>1, QuietStep DEF vars, disk
    <3>3. MapInv'
      BY <2>2, <3>1, <3>2, OthersStay DEF vars, local, MapInv
    <3> QED
      BY <3>1, <3>2, <3>3 DEF RefInv
  <2> QED
    BY <2>1, <2>2
<1> QED
  BY <1>1, <1>2, PTL DEF Spec

\* The files and the memory of every process have the types the code gives them.
THEOREM RefStoreTypes == ASSUME RefStoreAssumption PROVE Spec => []TypeOK
<1>1. RefInv => TypeOK
  BY DEF RefInv
<1> QED
  BY <1>1, RefStoreInvariant, PTL

\* Snapshots, failed syncs, catch-ups and power losses never let a map drift from
\* what the log makes of no refs at all (open, fold_new, commit_idempotent).
THEOREM MapsAreReplays == ASSUME RefStoreAssumption PROVE Spec => []RefsAreReplay
<1>1. RefInv => RefsAreReplay
  BY CaughtUp DEF RefsAreReplay
<1> QED
  BY <1>1, RefStoreInvariant, PTL

\* Whatever a process is about to fold in, at open or under the lock, was checked
\* against just the map it has ("ref state diverged during replay").
THEOREM NoReplayDiverges == ASSUME RefStoreAssumption PROVE Spec => []ReplayNeverDiverges
<1>1. ASSUME RefInv, NEW k \in 0 .. Len(log), NEW n \in 0 .. Len(log)
      PROVE  Replays(StateAt(k), k + 1, n)
  <2>1. Len(log) \in Nat /\ DOMAIN log = 1 .. Len(log) /\ TypeOK
    BY <1>1, LogIs DEF RefInv
  <2>2. ASSUME NEW i \in k + 1 .. n, NEW r \in DOMAIN log[i].changes
        PROVE  Replay(StateAt(k), k + 1, i - 1)[r] = log[i].changes[r].old
    <3>1. i \in DOMAIN log
      BY <2>1
    <3>2. PICK j \in 0 .. Len(log) : j = i - 1 /\ k <= j
      BY <2>1
    <3>3. Replay(StateAt(k), k + 1, j) = StateAt(j)
      BY <2>1, <3>2, ReplayJoin
    <3>4. log[i].changes[r].old = StateAt(i - 1)[r]
      BY <1>1, <3>1 DEF RefInv, LogInv
    <3> QED
      BY <3>2, <3>3, <3>4
  <2> QED
    BY <2>2 DEF Replays, Matches
<1>2. ASSUME RefInv, NEW p \in Proc, pc[p] = "opening"
      PROVE  Replays(Base(p), Anchor(p) + 1, known[p])
  <2>1. PICK k \in 0 .. Len(log), n \in 0 .. Len(log) : k = Anchor(p) /\ n = known[p]
    BY <1>2, BaseIsState
  <2>2. Base(p) = StateAt(k)
    BY <1>2, <2>1, BaseIsState
  <2> QED
    BY <1>1, <1>2, <2>1, <2>2
<1>3. ASSUME RefInv, NEW p \in Proc, pc[p] \in Alive
      PROVE  Replays(refs[p], applied[p] + 1, Len(log))
  <2>1. PICK k \in 0 .. Len(log), n \in 0 .. Len(log) : k = applied[p] /\ n = Len(log)
    BY <1>3, CaughtUp
  <2>2. refs[p] = StateAt(k)
    BY <1>3, <2>1, CaughtUp
  <2> QED
    BY <1>1, <1>3, <2>1, <2>2
<1>4. RefInv => ReplayNeverDiverges
  BY <1>2, <1>3 DEF ReplayNeverDiverges
<1> QED
  BY <1>4, RefStoreInvariant, PTL

-----------------------------------------------------------------------------
(* The ref store is the history that RefHistory promises.                  *)

\* What the steps below need to know of the states before and after.
HistoryLaw ==
    /\ Len(log) \in Nat /\ DOMAIN log = 1 .. Len(log)
    /\ \A k \in 0 .. Len(log) : StateAt(k) \in State
    /\ StateAt(0) = NoRefs
    /\ \A n \in 0 .. Len(log) : \A r \in Ref :
          n + 1 <= Len(log) =>
             StateAt(n + 1)[r] = IF r \in DOMAIN log[n + 1].changes
                                 THEN log[n + 1].changes[r].new ELSE StateAt(n)[r]
    /\ States \in Seq(State) /\ Len(States) = Len(log) + 1
    /\ \A k \in 1 .. Len(log) + 1 : States[k] = StateAt(k - 1)
    /\ \A p \in Proc : /\ applied[p] \in 0 .. Len(log)
                       /\ pc[p] \in Alive => refs[p] = StateAt(applied[p])

\* The states so far are a sequence that each operation extends by one (fold_new).
LEMMA HistoryIs ==
    ASSUME RefStoreAssumption, RefInv
    PROVE  HistoryLaw
<1>1. TypeOK /\ Len(log) \in Nat /\ DOMAIN log = 1 .. Len(log) /\ 1 \in Nat \ {0} /\ NoRefs \in State
  BY LogIs DEF RefInv, NoRefs, State
<1>2. \A k \in 0 .. Len(log) : StateAt(k) \in State
  BY <1>1, ReplayTyped DEF StateAt
<1>3. StateAt(0) = NoRefs
  <2>1. 0 \in 0 .. Len(log) /\ 0 < 1
    BY <1>1
  <2> QED
    BY <1>1, <2>1, ReplayNothing DEF StateAt
<1>4. ASSUME NEW n \in 0 .. Len(log), NEW r \in Ref, n + 1 <= Len(log)
      PROVE  StateAt(n + 1)[r] = IF r \in DOMAIN log[n + 1].changes
                                 THEN log[n + 1].changes[r].new ELSE StateAt(n)[r]
  <2>1. n \in Nat /\ 1 <= n + 1
    BY <1>1
  <2>2. StateAt(n + 1) = Apply(StateAt(n), log[n + 1])
    BY <1>1, <1>4, <2>1, ReplayStep DEF StateAt
  <2> QED
    BY <2>2 DEF Apply
<1>5. States \in Seq(State) /\ Len(States) = Len(log) + 1
  <2>1. \A k \in 1 .. Len(log) + 1 : StateAt(k - 1) \in State
    <3>1. \A k \in 1 .. Len(log) + 1 : k - 1 \in 0 .. Len(log)
      BY <1>1
    <3> QED
      BY <1>2, <3>1
  <2>2. States = [k \in 1 .. Len(log) + 1 |-> StateAt(k - 1)] /\ Len(log) + 1 \in Nat
    BY <1>1 DEF States
  <2> QED
    BY <2>1, <2>2
<1>6. \A k \in 1 .. Len(log) + 1 : States[k] = StateAt(k - 1)
  BY DEF States
<1>7. \A p \in Proc : /\ applied[p] \in 0 .. Len(log)
                      /\ pc[p] \in Alive => refs[p] = StateAt(applied[p])
  <2>1. \A p \in Proc : applied[p] \in 0 .. Len(log)
    BY <1>1 DEF TypeOK
  <2> QED
    BY <2>1, CaughtUp
<1> QED
  BY <1>1, <1>2, <1>3, <1>4, <1>5, <1>6, <1>7 DEF HistoryLaw

\* A step of one process that moves its map forward is catching up.
LEMMA Moves ==
    ASSUME HistoryLaw, NEW p \in Proc, NEW n \in 0 .. Len(log),
           Place' = [Place EXCEPT ![p] = n + 1], Place[p] <= n + 1,
           refs'[p] = StateAt(n), \A q \in Proc \ {p} : refs'[q] = refs[q]
    PROVE  History!CatchUp
<1>1. Len(log) \in Nat /\ Len(States) = Len(log) + 1 /\ n \in Nat
  BY DEF HistoryLaw
<1>2. Place \in [Proc -> 0 .. Len(States)]
  <2>1. \A q \in Proc : applied[q] + 1 \in 0 .. Len(log) + 1 /\ 0 \in 0 .. Len(log) + 1
    BY <1>1 DEF HistoryLaw
  <2> QED
    BY <1>1, <2>1 DEF Place
<1>3. n + 1 \in 1 .. Len(log) + 1 /\ n + 1 > 0 /\ n + 1 - 1 = n
  BY <1>1
<1>4. States[n + 1] = StateAt(n)
  BY <1>3 DEF HistoryLaw
<1>5. Place' \in [Proc -> 0 .. Len(States)]
  <2>1. n + 1 \in 0 .. Len(States)
    BY <1>1
  <2> QED
    BY <1>2, <2>1
<1>6. Place'[p] = n + 1 /\ \A q \in Proc \ {p} : Place'[q] = Place[q]
  BY <1>2
<1>7. Place'[p] >= Place[p] /\ Place'[p] > 0 /\ refs'[p] = States[Place'[p]]
  <2>1. Place[p] \in Nat
    BY <1>1, <1>2
  <2> QED
    BY <1>1, <1>3, <1>4, <1>6, <2>1
<1> QED
  BY <1>5, <1>6, <1>7 DEF History!CatchUp

\* Where the place of one process goes.
LEMMA PlaceMoves ==
    ASSUME TypeOK, NEW p \in Proc,
           \A q \in Proc \ {p} : pc'[q] = pc[q] /\ applied'[q] = applied[q]
    PROVE  /\ pc'[p] \in Alive => Place' = [Place EXCEPT ![p] = applied'[p] + 1]
           /\ pc'[p] \notin Alive => Place' = [Place EXCEPT ![p] = 0]
           /\ (pc'[p] \in Alive <=> pc[p] \in Alive) /\ applied'[p] = applied[p] => Place' = Place
BY DEF Place

\* A step that appends nothing leaves the history as it is.
LEMMA StatesQuiet ==
    ASSUME RefInv, TypeOK', log' = log
    PROVE  States' = States
<1>1. Extends /\ TypeOK /\ Len(log) \in Nat
  BY LogIs DEF Extends, RefInv
<1>2. \A k \in 1 .. Len(log) + 1 : StateAt(k - 1)' = StateAt(k - 1)
  <2>1. \A k \in 1 .. Len(log) + 1 : k - 1 \in 0 .. Len(log)
    BY <1>1
  <2> QED
    BY <1>1, <2>1, StatesStay
<1> QED
  BY <1>2 DEF States

\* An append is a transaction of the history: checked against the latest state, it
\* makes the next one.
LEMMA Transacts ==
    ASSUME RefStoreAssumption, RefInv, HistoryLaw, HistoryLaw', TypeOK',
           NEW p \in Proc, pc[p] \in Alive, NEW c \in Changings, AppendOp(p, c)
    PROVE  History!Transact(c)
<1>1. /\ Extends /\ log' = Append(log, Record(c)) /\ Len(log') = Len(log) + 1
      /\ log'[Len(log) + 1].changes = c
      /\ \A r \in DOMAIN c : StateAt(Len(log))[r] = c[r].old
  BY AppendStep
<1>2. /\ TypeOK /\ Len(log) \in Nat /\ States \in Seq(State) /\ Len(States) = Len(log) + 1
      /\ States' \in Seq(State) /\ Len(States') = Len(log) + 2
      /\ \A k \in 1 .. Len(log) + 1 : States[k] = StateAt(k - 1)
      /\ \A k \in 1 .. Len(log) + 2 : States'[k] = StateAt(k - 1)'
  BY <1>1 DEF HistoryLaw, RefInv
<1>3. PICK n \in 0 .. Len(log) : n = Len(log)
  <2>1. Len(log) \in 0 .. Len(log)
    BY <1>2
  <2> QED
    BY <2>1
<1>4. History!Latest = StateAt(n)
  <2>1. Len(log) + 1 \in 1 .. Len(log) + 1 /\ Len(log) + 1 - 1 = n
    BY <1>2, <1>3
  <2> QED
    BY <1>2, <2>1 DEF History!Latest
<1>5. History!Expects(History!Latest, c)
  BY <1>1, <1>3, <1>4 DEF History!Expects
<1> DEFINE next == [r \in DOMAIN StateAt(n) |-> IF r \in DOMAIN c THEN c[r].new ELSE StateAt(n)[r]]
<1>6. StateAt(n) \in State /\ StateAt(n + 1)' \in State /\ StateAt(n)' = StateAt(n)
  <2>1. n + 1 \in 0 .. Len(log')
    BY <1>1, <1>2, <1>3
  <2>2. StateAt(n) \in State
    BY DEF HistoryLaw
  <2>3. StateAt(n + 1)' \in State
    BY <2>1 DEF HistoryLaw
  <2> QED
    BY <1>1, <1>2, <2>2, <2>3, StatesStay
<1>7. \A r \in Ref : StateAt(n + 1)'[r] = IF r \in DOMAIN c THEN c[r].new ELSE StateAt(n)[r]
  <2>1. n \in 0 .. Len(log') /\ n + 1 <= Len(log') /\ n + 1 = Len(log) + 1
    BY <1>1, <1>2, <1>3
  <2>2. \A r \in Ref : StateAt(n + 1)'[r] = IF r \in DOMAIN log'[n + 1].changes
                                            THEN log'[n + 1].changes[r].new ELSE StateAt(n)'[r]
    BY <2>1 DEF HistoryLaw
  <2> QED
    BY <1>1, <1>6, <2>1, <2>2
<1>8. StateAt(n + 1)' = next
  BY <1>6, <1>7 DEF State
<1>9. States' = Append(States, next)
  <2> DEFINE longer == Append(States, next)
  <2>0. next \in State
    BY <1>6, <1>8
  <2>1. /\ longer \in Seq(State) /\ Len(longer) = Len(log) + 2
        /\ longer[Len(log) + 2] = next
        /\ \A k \in 1 .. Len(log) + 1 : longer[k] = States[k]
    <3>1. /\ longer \in Seq(State) /\ Len(longer) = Len(States) + 1
          /\ longer[Len(States) + 1] = next
          /\ \A k \in 1 .. Len(States) : longer[k] = States[k]
      <4> HIDE DEF next
      <4> QED
        BY <1>2, <2>0, AppendProperties
    <3>2. Len(States) + 1 = Len(log) + 2
      BY <1>2
    <3> HIDE DEF longer
    <3> QED
      BY <1>2, <3>1, <3>2
  <2> HIDE DEF longer, next
  <2>2. ASSUME NEW k \in 1 .. Len(log) + 2 PROVE States'[k] = longer[k]
    <3>1. CASE k = Len(log) + 2
      <4>1. k - 1 = n + 1
        BY <1>2, <1>3, <3>1
      <4> QED
        BY <1>2, <1>8, <2>1, <3>1, <4>1
    <3>2. CASE k \in 1 .. Len(log) + 1
      <4>1. k - 1 \in 0 .. Len(log)
        BY <1>2, <3>2
      <4>2. StateAt(k - 1)' = StateAt(k - 1)
        BY <1>1, <1>2, <4>1, StatesStay
      <4> QED
        BY <1>2, <2>1, <3>2, <4>2
    <3>3. k = Len(log) + 2 \/ k \in 1 .. Len(log) + 1
      BY <1>2
    <3> QED
      BY <3>1, <3>2, <3>3
  <2>3. Len(States') = Len(longer) /\ \A k \in 1 .. Len(States') : States'[k] = longer[k]
    BY <1>2, <2>1, <2>2
  <2>4. States' = longer
    BY <1>2, <2>1, <2>3, SeqEqual
  <2> QED
    BY <2>4 DEF longer
<1>10. History!CatchUp
  <2>1. /\ pc'[p] = "appended" /\ applied'[p] = Len(log) /\ refs'[p] = Folded(p)
        /\ \A q \in Proc \ {p} : pc'[q] = pc[q] /\ applied'[q] = applied[q] /\ refs'[q] = refs[q]
    BY <1>2 DEF AppendOp, FoldNew, Goto, TypeOK
  <2>2. Place' = [Place EXCEPT ![p] = n + 1]
    BY <1>2, <1>3, <2>1, PlaceMoves DEF Alive
  <2>3. Place[p] = applied[p] + 1 /\ applied[p] \in 0 .. Len(log)
    BY DEF Place, HistoryLaw
  <2>4. Place[p] <= n + 1
    BY <1>2, <1>3, <2>3
  <2>5. refs'[p] = StateAt(n)
    BY <1>3, <2>1, CaughtUp
  <2> QED
    BY <2>1, <2>2, <2>4, <2>5, Moves
<1>11. States' = Append(States, History!After(History!Latest, c))
  BY <1>4, <1>9 DEF History!After
<1> QED
  BY <1>5, <1>10, <1>11 DEF History!Transact


-----------------------------------------------------------------------------
(* What is asked for.                                                      *)

\* The transactions of RefStore as RefHistory has them.
Asked == Change \cup {<<>>} \cup {InverseOf(c) : c \in Change}

\* What is in the log, and what an undo is about to append, was asked for or takes
\* back something that was (undo_ref_tx).
AskedInv ==
    /\ \A i \in DOMAIN log : log[i].changes \in Asked
    /\ \A p \in Proc : pc[p] = "undoing" => tx[p] \in Asked

\* Taking a transaction back twice is asking for it again (RefChange::inverse).
LEMMA AskedClosed ==
    ASSUME RefStoreAssumption
    PROVE  /\ \A c \in Asked : c \in Changings /\ InverseOf(c) \in Asked
           /\ <<>> \in Asked /\ Change \subseteq Asked
<1>1. <<>> \in Changings /\ InverseOf(<<>>) = <<>>
  <2>1. InverseOf(<<>>) = [r \in {} |-> [old |-> <<>>[r].new, new |-> <<>>[r].old]]
    BY DEF InverseOf
  <2> QED
    BY <2>1, ChangingIs
<1>2. ASSUME NEW c \in Change
      PROVE  c \in Changings /\ InverseOf(c) \in Changings /\ InverseOf(InverseOf(c)) = c
  <2>1. c \in Changings
    BY AskedIs
  <2>2. PICK rs \in SUBSET Ref : c \in [rs -> [old : Slot, new : Slot]]
    BY <2>1 DEF Changings, Changing, Slot
  <2>3. InverseOf(c) = [r \in rs |-> [old |-> c[r].new, new |-> c[r].old]]
    BY <2>2 DEF InverseOf
  <2>4. InverseOf(InverseOf(c)) = [r \in rs |-> [old |-> c[r].old, new |-> c[r].new]]
    BY <2>3 DEF InverseOf
  <2>5. \A r \in rs : [old |-> c[r].old, new |-> c[r].new] = c[r]
    BY <2>2
  <2>6. InverseOf(InverseOf(c)) = c
    BY <2>2, <2>4, <2>5
  <2> QED
    BY <2>1, <2>6, ChangingIs
<1> QED
  BY <1>1, <1>2 DEF Asked

\* Every step keeps that.
LEMMA AskedStep ==
    ASSUME RefStoreAssumption, RefInv, AskedInv, [Next]_vars
    PROVE  AskedInv'
<1> DEFINE Same(q) == pc'[q] = "undoing" => pc[q] = "undoing" /\ tx'[q] = tx[q]
<1>0. /\ TypeOK /\ Len(log) \in Nat /\ DOMAIN log = 1 .. Len(log) /\ log \in Seq(Op)
      /\ pc \in [Proc -> {"closed", "opening"} \cup Alive] /\ tx \in [Proc -> Changings]
      /\ known \in [Proc -> 0 .. Len(log)]
  BY LogIs DEF RefInv, TypeOK, Changings
<1>1. ASSUME log' = log, \A q \in Proc : Same(q) PROVE AskedInv'
  BY <1>1 DEF AskedInv
<1>2. ASSUME NEW p \in Proc, NEW c \in Asked, AppendOp(p, c) PROVE AskedInv'
  <2>1. c \in Changings /\ nextId < MaxOps /\ log' = Append(log, Record(c))
    BY <1>2, AskedClosed DEF AppendOp, Record
  <2>2. /\ DOMAIN log' = 1 .. Len(log) + 1 /\ log'[Len(log) + 1] = Record(c)
        /\ \A i \in 1 .. Len(log) : log'[i] = log[i]
    BY <2>1, Appended
  <2>3. \A i \in DOMAIN log' : i \in 1 .. Len(log) \/ i = Len(log) + 1
    BY <1>0, <2>2
  <2>4. \A i \in DOMAIN log' : log'[i].changes \in Asked
    BY <1>0, <2>2, <2>3 DEF AskedInv, Record
  <2>5. \A q \in Proc : Same(q)
    BY <1>0, <1>2 DEF AppendOp, Goto
  <2> QED
    BY <2>4, <2>5 DEF AskedInv
<1>3. ASSUME NEW p \in Proc, UndoRead(p) PROVE AskedInv'
  <2>1. LastTx(known[p]) = known[p] /\ known[p] # 0
    BY <1>3 DEF UndoRead
  <2>2. known[p] \in DOMAIN log
    BY <1>0, <2>1
  <2>3. tx' = [tx EXCEPT ![p] = InverseOf(log[known[p]].changes)]
        /\ pc' = [pc EXCEPT ![p] = "undoing"] /\ log' = log
    BY <1>3, <2>1 DEF UndoRead, Goto, disk
  <2>4. tx'[p] \in Asked
    BY <1>0, <2>2, <2>3, AskedClosed DEF AskedInv
  <2>5. \A q \in Proc \ {p} : Same(q)
    BY <1>0, <2>3
  <2> QED
    BY <2>3, <2>4, <2>5 DEF AskedInv
<1>4. ASSUME NEW p \in Proc, NEW c, Refuse(p, c) PROVE AskedInv'
  <2>1. log' = log /\ \A q \in Proc : Same(q)
    BY <1>0, <1>4 DEF Refuse, Goto, disk
  <2> QED
    BY <1>1, <2>1
<1>5. ASSUME NEW p \in Proc, Commit(p) \/ RecordOp(p) \/ UndoCommit(p) PROVE AskedInv'
  <2>1. (\E c \in Asked : AppendOp(p, c)) \/ \E c : Refuse(p, c)
    BY <1>5, AskedClosed DEF Commit, RecordOp, UndoCommit, AskedInv
  <2> QED
    BY <1>2, <1>4, <2>1
<1>6. ASSUME NEW p \in Proc,
             \/ OpenLog(p) \/ OpenRefs(p) \/ Refresh(p)
             \/ SyncFails(p) \/ Snapshot(p) \/ SnapshotFails(p)
      PROVE  AskedInv'
  <2>1. log' = log
    BY <1>6 DEF OpenLog, OpenRefs, Refresh, SyncFails, Snapshot, SnapshotFails, disk
  <2>2. CASE OpenLog(p) \/ OpenRefs(p) \/ SyncFails(p)
    BY <1>0, <1>1, <2>1, <2>2 DEF OpenLog, OpenRefs, SyncFails, Goto, local
  <2>3. CASE Refresh(p) \/ Snapshot(p) \/ SnapshotFails(p)
    BY <1>0, <1>1, <2>1, <2>3 DEF Refresh, Snapshot, SnapshotFails, Goto, local
  <2> QED
    BY <1>6, <2>2, <2>3
<1>7. ASSUME NEW p \in Proc, SyncOk(p) PROVE AskedInv'
  <2>1. log' = log /\ \A q \in Proc : Same(q)
    BY <1>0, <1>7 DEF SyncOk, Goto
  <2> QED
    BY <1>1, <2>1
<1>8. ASSUME NEW p \in Proc, Stop(p) PROVE AskedInv'
  <2>1. log' = log /\ \A q \in Proc : Same(q)
    BY <1>0, <1>8 DEF Stop, Forget, disk
  <2> QED
    BY <1>1, <2>1
<1>9. ASSUME PowerLoss PROVE AskedInv'
  <2>1. PICK n \in synced .. Len(log) : log' = SubSeq(log, 1, n)
    BY <1>9 DEF PowerLoss
  <2>2. n \in 0 .. Len(log)
    BY <1>0, <2>1 DEF TypeOK
  <2>3. \A i \in DOMAIN log' : i \in DOMAIN log /\ log'[i] = log[i]
    BY <1>0, <2>1, <2>2
  <2>4. \A q \in Proc : pc'[q] = "closed"
    BY <1>9 DEF PowerLoss, Forget
  <2> QED
    BY <2>3, <2>4 DEF AskedInv
<1>10. CASE UNCHANGED vars
  BY <1>1, <1>10 DEF vars, disk, local
<1> QED
  BY <1>3, <1>5, <1>6, <1>7, <1>8, <1>9, <1>10 DEF Next, Step


-----------------------------------------------------------------------------
(* Every step of the store is one of the history, or none.                 *)

\* A power loss leaves the earlier part of the states, and no reader.
LEMMA Loses ==
    ASSUME RefInv, HistoryLaw, HistoryLaw', TypeOK', PowerLoss
    PROVE  History!Lose
<1>1. PICK n \in 0 .. Len(log) : log' = SubSeq(log, 1, n)
  <2>1. \A n \in synced .. Len(log) : n \in 0 .. Len(log)
    BY LogIs DEF RefInv, TypeOK
  <2> QED
    BY <2>1 DEF PowerLoss
<1>2. /\ TypeOK /\ Len(log) \in Nat /\ log \in Seq(Op) /\ Len(States) = Len(log) + 1
      /\ States \in Seq(State) /\ States' \in Seq(State) /\ Len(States') = Len(log') + 1
      /\ \A k \in 1 .. Len(log) + 1 : States[k] = StateAt(k - 1)
      /\ \A k \in 1 .. Len(log') + 1 : States'[k] = StateAt(k - 1)'
  BY LogIs DEF HistoryLaw, RefInv
<1>3. Len(log') = n /\ \A i \in 1 .. n : log'[i] = log[i]
  BY <1>1, <1>2
<1>4. \A k \in 0 .. n : StateAt(k)' = StateAt(k)
  <2>1. \A k \in 0 .. n : k \in 0 .. Len(log) /\ \A i \in 1 .. k : i \in 1 .. n
    BY <1>2
  <2> QED
    BY <1>2, <1>3, <2>1, StateKept
<1>5. PICK m \in 1 .. Len(States) : m = n + 1
  BY <1>2
<1>6. States' = SubSeq(States, 1, m)
  <2> DEFINE kept == SubSeq(States, 1, m)
  <2>1. kept \in Seq(State) /\ Len(kept) = m /\ \A k \in 1 .. m : kept[k] = States[k]
    BY <1>2, <1>5
  <2>2. ASSUME NEW k \in 1 .. m PROVE States'[k] = States[k]
    <3>1. k - 1 \in 0 .. n /\ k \in 1 .. Len(log) + 1 /\ k \in 1 .. Len(log') + 1
      BY <1>2, <1>3, <1>5
    <3> QED
      BY <1>2, <1>4, <3>1
  <2> HIDE DEF kept
  <2>3. Len(States') = Len(kept) /\ \A k \in 1 .. Len(States') : States'[k] = kept[k]
    BY <1>2, <1>3, <1>5, <2>1, <2>2
  <2>4. States' = kept
    BY <1>2, <2>1, <2>3, SeqEqual
  <2> QED
    BY <2>4 DEF kept
<1>7. Place' = [p \in Proc |-> 0]
  BY DEF PowerLoss, Forget, Place, Alive
<1> QED
  BY <1>5, <1>6, <1>7 DEF History!Lose

\* A step of one process that folds up to place n reads a state of the history.
LEMMA Reads ==
    ASSUME RefInv, HistoryLaw, TypeOK', log' = log, NEW p \in Proc, NEW n \in 0 .. Len(log),
           pc'[p] \in Alive, applied'[p] = n, refs'[p] = StateAt(n),
           pc[p] \in Alive => applied[p] <= n,
           \A q \in Proc \ {p} : /\ pc'[q] = pc[q] /\ applied'[q] = applied[q]
                                 /\ refs'[q] = refs[q]
    PROVE  History!Read
<1>1. Place' = [Place EXCEPT ![p] = n + 1]
  BY PlaceMoves DEF RefInv
<1>2. Place[p] <= n + 1
  <2>1. n \in Nat /\ applied[p] \in Nat
    BY LogIs DEF HistoryLaw
  <2> QED
    BY <2>1 DEF Place
<1>3. History!CatchUp
  BY <1>1, <1>2, Moves
<1>4. States' = States
  BY StatesQuiet
<1> QED
  BY <1>3, <1>4 DEF History!Read

\* Opening, committing and catching up read the history, appending adds to it,
\* stopping leaves it, and the rest does not touch it.
LEMMA StepRefines ==
    ASSUME RefStoreAssumption, RefInv, RefInv', AskedInv, HistoryLaw, HistoryLaw', [Next]_vars
    PROVE  [History!Next]_<<States, Place, refs>>
<1> DEFINE Same(q) == pc'[q] = pc[q] /\ applied'[q] = applied[q] /\ refs'[q] = refs[q]
<1>0. /\ TypeOK /\ TypeOK' /\ Len(log) \in Nat /\ DOMAIN log = 1 .. Len(log)
      /\ Len(log) \in 0 .. Len(log)
      /\ pc \in [Proc -> {"closed", "opening"} \cup Alive] /\ applied \in [Proc -> Nat]
      /\ known \in [Proc -> 0 .. Len(log)] /\ refs \in [Proc -> State]
      /\ \A q \in Proc : applied[q] \in 0 .. Len(log) /\ applied[q] <= Len(log)
  BY LogIs, SMTT(30) DEF RefInv, TypeOK, HistoryLaw
<1>r. History!Read => History!Next
  BY DEF History!Next
<1>q. ASSUME log' = log, refs' = refs, NEW p \in Proc, \A q \in Proc \ {p} : Same(q),
             pc'[p] \in Alive <=> pc[p] \in Alive, applied'[p] = applied[p]
      PROVE  UNCHANGED <<States, Place, refs>>
  <2>1. Place' = Place
    BY <1>0, <1>q, PlaceMoves
  <2> QED
    BY <1>0, <1>q, <2>1, StatesQuiet
<1>1. ASSUME NEW p \in Proc, NEW c \in Asked, pc[p] \in Alive, AppendOp(p, c) PROVE History!Next
  <2>1. c \in Changings
    BY AskedClosed
  <2>2. History!Transact(c)
    BY <1>0, <1>1, <2>1, Transacts
  <2> QED
    BY <2>2 DEF History!Next, Asked
<1>2. ASSUME NEW p \in Proc, NEW c, pc[p] \in Alive, Refuse(p, c) PROVE History!Next
  <2>1. /\ log' = log /\ pc'[p] \in Alive /\ applied'[p] = Len(log)
        /\ refs'[p] = Folded(p) /\ \A q \in Proc \ {p} : Same(q)
    BY <1>0, <1>2 DEF Refuse, FoldNew, Goto, disk, Alive
  <2>2. refs'[p] = StateAt(Len(log))
    BY <1>2, <2>1, CaughtUp
  <2> QED
    BY <1>0, <1>r, <2>1, <2>2, Reads
<1>3. ASSUME NEW p \in Proc, Commit(p) \/ RecordOp(p) \/ UndoCommit(p) PROVE History!Next
  <2>1. pc[p] \in Alive
    BY <1>3 DEF Commit, RecordOp, UndoCommit, Alive
  <2>2. (\E c \in Asked : AppendOp(p, c)) \/ \E c : Refuse(p, c)
    BY <1>3, AskedClosed DEF Commit, RecordOp, UndoCommit, AskedInv
  <2> QED
    BY <1>1, <1>2, <2>1, <2>2
<1>4. ASSUME NEW p \in Proc, Refresh(p) PROVE History!Next
  <2>1. /\ log' = log /\ pc[p] \in Alive /\ pc'[p] \in Alive /\ applied'[p] = Len(log)
        /\ refs'[p] = Folded(p) /\ \A q \in Proc \ {p} : Same(q)
    BY <1>0, <1>4 DEF Refresh, FoldNew, disk, Alive
  <2>2. refs'[p] = StateAt(Len(log))
    BY <2>1, CaughtUp
  <2> QED
    BY <1>0, <1>r, <2>1, <2>2, Reads
<1>5. ASSUME NEW p \in Proc, OpenRefs(p) PROVE History!Next
  <2>1. /\ log' = log /\ pc[p] \notin Alive /\ pc'[p] \in Alive /\ applied'[p] = known[p]
        /\ refs'[p] = Replay(Base(p), Anchor(p) + 1, known[p]) /\ \A q \in Proc \ {p} : Same(q)
    BY <1>0, <1>5 DEF OpenRefs, Goto, disk, Alive
  <2>2. PICK n \in 0 .. Len(log) : n = known[p]
    BY <1>0
  <2>3. refs'[p] = StateAt(n)
    BY <2>1, <2>2, OpenIsState
  <2> QED
    BY <1>0, <1>r, <2>1, <2>2, <2>3, Reads
<1>6. ASSUME NEW p \in Proc, SyncOk(p) PROVE History!Next
  <2>1. /\ log' = log /\ pc[p] = "appended" /\ pc'[p] \in Alive /\ applied'[p] = known[p]
        /\ \A q \in Proc \ {p} : Same(q)
    BY <1>0, <1>6 DEF SyncOk, Goto, Alive
  <2>2. PICK n \in 0 .. Len(log) : n = known[p] /\ applied[p] <= n
    BY <1>0 DEF TypeOK
  <2>3. n \in 0 .. Len(log')
    BY <2>1, <2>2
  <2>4. refs'[p] = StateAt(n)'
    <3>1. applied'[p] \in 0 .. Len(log') /\ refs'[p] \in State
      BY <2>1, <2>2, <2>3, <1>0 DEF TypeOK
    <3> QED
      BY <2>1, <2>2, <2>3, <1>0 DEF RefInv, MapInv, MapOf
  <2>5. StateAt(n)' = StateAt(n)
    BY <1>0, <2>1, <2>2, StateKept
  <2> QED
    BY <1>0, <1>r, <2>1, <2>2, <2>4, <2>5, Reads
<1>7. ASSUME NEW p \in Proc, Stop(p) PROVE History!Next
  <2>1. log' = log /\ pc'[p] = "closed" /\ \A q \in Proc \ {p} : Same(q)
    BY <1>0, <1>7 DEF Stop, Forget, disk
  <2>2. Place' = [Place EXCEPT ![p] = 0]
    BY <1>0, <2>1, PlaceMoves DEF Alive
  <2>3. States' = States
    BY <1>0, <2>1, StatesQuiet
  <2>4. History!Close(p)
    BY <2>1, <2>2, <2>3 DEF History!Close
  <2> QED
    BY <2>4 DEF History!Next
<1>8. ASSUME NEW p \in Proc, OpenLog(p) \/ UndoRead(p) PROVE UNCHANGED <<States, Place, refs>>
  <2>1. /\ log' = log /\ refs' = refs /\ applied'[p] = applied[p]
        /\ pc'[p] \in Alive <=> pc[p] \in Alive
        /\ \A q \in Proc \ {p} : Same(q)
    BY <1>0, <1>8 DEF OpenLog, UndoRead, Goto, disk, Alive
  <2> QED
    BY <1>q, <2>1
<1>9. ASSUME NEW p \in Proc, SyncFails(p) \/ Snapshot(p) \/ SnapshotFails(p)
      PROVE  UNCHANGED <<States, Place, refs>>
  <2>1. /\ log' = log /\ refs' = refs /\ applied'[p] = applied[p]
        /\ pc'[p] \in Alive /\ pc[p] \in Alive
        /\ \A q \in Proc \ {p} : Same(q)
    BY <1>0, <1>9 DEF SyncFails, Snapshot, SnapshotFails, Goto, disk, Alive
  <2> QED
    BY <1>q, <2>1
<1>10. PowerLoss => History!Next
  BY <1>0, Loses DEF History!Next
<1>11. CASE UNCHANGED vars
  <2>1. log' = log /\ pc' = pc /\ applied' = applied /\ refs' = refs
    BY <1>11 DEF vars, disk, local
  <2>2. Place' = Place
    BY <2>1 DEF Place
  <2> QED
    BY <1>0, <2>1, <2>2, StatesQuiet
<1> QED
  BY <1>3, <1>4, <1>5, <1>6, <1>7, <1>8, <1>9, <1>10, <1>11 DEF Next, Step

\* The refs of all processes together are one history of atomic transactions, each
\* checked against the latest state, of which every open store has a state, a later
\* one with each step, until it ends or the machine stops (RefStore).
THEOREM RefStoreIsHistory == ASSUME RefStoreAssumption PROVE Spec => ImplementsRefHistory
<1>1. Init => History!Init /\ AskedInv
  <2> SUFFICES ASSUME Init PROVE History!Init /\ AskedInv
    OBVIOUS
  <2>1. log = <<>> /\ Len(log) = 0 /\ DOMAIN log = {} /\ \A p \in Proc : pc[p] = "closed"
    BY DEF Init
  <2>2. StateAt(0) = NoRefs
    <3>1. \A r \in Ref : Changes(r, 1, 0) = {}
      BY DEF Changes
    <3> QED
      BY <3>1 DEF StateAt, Replay, NoRefs
  <2>3. States = <<NoRefs>>
    <3>1. States = [k \in 1 .. 1 |-> StateAt(k - 1)]
      BY <2>1 DEF States
    <3>2. \A k \in 1 .. 1 : k = 1 /\ k - 1 = 0
      OBVIOUS
    <3>3. States = [k \in 1 .. 1 |-> NoRefs]
      BY <2>2, <3>1, <3>2
    <3> QED
      BY <3>3
  <2>4. Place = [p \in Proc |-> 0] /\ refs = [p \in Proc |-> NoRefs]
    BY <2>1 DEF Place, Alive, Init
  <2>5. AskedInv
    BY <2>1 DEF AskedInv
  <2> QED
    BY <2>3, <2>4, <2>5 DEF History!Init
<1>2. RefInv /\ AskedInv /\ [Next]_vars => AskedInv'
  BY RefStoreAssumption, AskedStep
<1>3. RefInv => HistoryLaw
  BY RefStoreAssumption, HistoryIs
<1>4. RefInv /\ RefInv' /\ AskedInv /\ HistoryLaw /\ HistoryLaw' /\ [Next]_vars
        => [History!Next]_<<States, Place, refs>>
  BY RefStoreAssumption, StepRefines
<1> QED
  BY <1>1, <1>2, <1>3, <1>4, RefStoreInvariant, PTL DEF Spec, ImplementsRefHistory, History!Spec

=============================================================================
