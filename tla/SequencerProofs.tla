--------------------------- MODULE SequencerProofs ---------------------------
(***************************************************************************)
(* Proofs about Sequencer: an abort ends where its command began, whatever *)
(* the commands of the workspace were, in whatever order they were used    *)
(* and stopped, and wherever the process died; and a bisect that names a   *)
(* commit names the culprit, in histories where a bisect can be trusted.   *)
(***************************************************************************)
EXTENDS Sequencer, FiniteSetTheorems, SequenceTheorems, WellFoundedInduction, TLAPS

Scratches == {"scratch", "bisect"}
FileNames == {"merge", "revert", "rebase", "bisect"}

-----------------------------------------------------------------------------
(* The inductive invariant. *)

(* Where the refs and the state files are kept, and what a plan is. *)
IsPlan(p) == \E S : p \in Seq(S)
Placed ==
    /\ head \in Refs
    /\ refs = [r \in Refs |-> refs[r]]
    /\ files = [f \in FileNames |-> files[f]]
    /\ "ended" \in DOMAIN ghost
    /\ IsPlan(plan)

(* A scratch ref exists only while HEAD is at it. *)
ScratchAtHead == \A r \in Scratches : refs[r] = 0 \/ head = r

(* The ref transactions: HEAD's ref moves, or HEAD goes back from a scratch *)
(* ref or leaves for one.                                                   *)
Stays(t) == /\ t.from \in Refs /\ t.to = t.from
            /\ \E old, new : t.moves = {Move(t.from, old, new)}
Returns(t) == /\ t.from \in Scratches /\ t.to \in Branches
              /\ \E old : t.moves = {Move(t.from, old, 0)}
Departs(t) == /\ t.from \in Branches /\ t.to \in Scratches
              /\ \E new : t.moves = {Move(t.to, 0, new)}
Leaving(t) == t.op = "tx" /\ t.from \in Branches /\ t.to \in Scratches

(* The states of the three commands that keep one. *)
OfRevert(s) == DOMAIN s = {"current", "todo", "orig"}
OfBisect(s) == DOMAIN s = {"branch", "bad", "good", "skip"} /\ s.branch \in Branches
OfRebase(s) == /\ DOMAIN s = {"branch", "orig", "onto", "current", "action", "todo"}
               /\ s.branch \in Branches

NoLeaving == \A i \in DOMAIN plan : ~Leaving(plan[i])

(* The branch of a rebase is where it was until HEAD is back on a branch. *)
Waits(s) == refs[s.branch] = s.orig \/ (head \in Branches /\ NoLeaving)

StatesKept ==
    /\ files.revert # None => OfRevert(files.revert)
    /\ files.bisect # None => OfBisect(files.bisect)
    /\ files.rebase # None => OfRebase(files.rebase) /\ Waits(files.rebase)

(* What a step still to be made may be. *)
Saved(t) ==
    /\ t.file \in FileNames
    /\ t.to # None =>
         /\ t.file = "revert" => OfRevert(t.to)
         /\ t.file = "bisect" => OfBisect(t.to)
         /\ t.file = "rebase" => OfRebase(t.to) /\ Waits(t.to)

Bisecting == head = "bisect" \/ (plan[1].op = "tx" /\ plan[1].to = "bisect")

Looping(s) ==
    \/ OfRevert(s)
    \/ OfRebase(s) /\ Waits(s)
    \/ OfBisect(s) /\ Bisecting

Written(t) ==
    /\ t.op = "tx" => Stays(t) \/ Returns(t) \/ Departs(t)
    /\ t.op = "commit" => t.ref = head
    /\ t.op = "save" => Saved(t)
    /\ t.op = "loop" => Looping(t.rest)

(* HEAD leaves a branch in the first step of a plan or not at all, a plan   *)
(* that commits has no transaction, and a loop comes last.                  *)
StepsWritten ==
    /\ \A i \in DOMAIN plan : Written(plan[i])
    /\ \A i \in DOMAIN plan :
          Leaving(plan[i]) => i = 1 /\ NothingInProgress /\ head = plan[i].from
    /\ \A i, j \in DOMAIN plan : plan[i].op = "commit" => plan[j].op # "tx"
    /\ \A i, j \in DOMAIN plan : plan[i].op = "loop" /\ plan[j].op = "tx" => Leaving(plan[j])
    /\ \A i \in DOMAIN plan : plan[i].op = "loop" => i = Len(plan)

(* What is left of an abort brings back whatever is not back yet. *)
Back(e) == head = e.branch /\ refs[e.branch] = e.at
GoesBack(t, e) ==
    /\ t.to = e.branch
    /\ head = t.from =>
          \/ \E old : t.moves = {Move(e.branch, old, e.at)}
          \/ refs[e.branch] = e.at /\ \A m \in t.moves : m.ref # e.branch
FilesBack(e) == \A p \in Paths \ e.loose : work[p] = TreeOf(commits, e.at)[p]
BringsBack(t, e) ==
    /\ t.tree = TreeOf(commits, e.at)
    /\ \A p \in Paths \ e.loose : work[p] # Absent => p \in t.old

Has(op) == \E i \in DOMAIN plan : plan[i].op = op

AbortLeft(e) ==
    /\ \A i \in DOMAIN plan : plan[i].op \in {"files", "index", "tx", "save", "end"}
    /\ \A i, j \in DOMAIN plan : plan[i].op = plan[j].op => i = j
    /\ \A i \in DOMAIN plan : plan[i].op = "end" => i = Len(plan)
    /\ \A i \in DOMAIN plan :
          /\ plan[i].op = "files" => BringsBack(plan[i], e)
          /\ plan[i].op = "index" => plan[i].index = TreeOf(commits, e.at)
          /\ plan[i].op = "tx" => GoesBack(plan[i], e)
    /\ Has("files") \/ FilesBack(e)
    /\ Has("index") \/ index = TreeOf(commits, e.at)
    /\ Has("tx") \/ Back(e)

Aborts(t) == t.op = "end" /\ "at" \in DOMAIN t.how

AbortsWritten == \A i \in DOMAIN plan : Aborts(plan[i]) => AbortLeft(plan[i].how)

(* An abort has ended only when nothing runs. *)
EndsLast == ghost.ended # None /\ "at" \in DOMAIN ghost.ended => plan = <<>>

AbortInv ==
    /\ Placed /\ ScratchAtHead /\ StatesKept /\ StepsWritten
    /\ AbortsWritten /\ EndsLast /\ AbortRestores

-----------------------------------------------------------------------------
(* Plans as sequences. *)

(* The steps of a plan have the numbers from 1 to its length. *)
LEMMA PlanDomain ==
    ASSUME NEW p, IsPlan(p)
    PROVE  Len(p) \in Nat /\ DOMAIN p = 1..Len(p) /\ (p # <<>> => 1 \in DOMAIN p)
  <1>1. PICK S : p \in Seq(S)
    BY DEF IsPlan
  <1>2. Len(p) \in Nat /\ DOMAIN p = 1..Len(p)
    BY <1>1, LenProperties
  <1>3. p # <<>> => Len(p) # 0
    BY <1>1, EmptySeq
  <1> QED BY <1>2, <1>3

(* What is left of a plan after its first step. *)
LEMMA PlanTail ==
    ASSUME NEW p, IsPlan(p), p # <<>>
    PROVE  /\ IsPlan(Tail(p))
           /\ Head(p) = p[1] /\ 1 \in DOMAIN p
           /\ Len(Tail(p)) = Len(p) - 1
           /\ \A i \in DOMAIN Tail(p) : i \in Nat /\ i # 0 /\ i + 1 \in DOMAIN p
                                        /\ Tail(p)[i] = p[i + 1]
           /\ \A i \in DOMAIN p : i = 1 \/ (i - 1 \in DOMAIN Tail(p) /\ Tail(p)[i - 1] = p[i])
  <1>1. PICK S : p \in Seq(S)
    BY DEF IsPlan
  <1>2. /\ Tail(p) \in Seq(S) /\ Head(p) = p[1] /\ Len(Tail(p)) = Len(p) - 1
        /\ \A i \in 1..Len(Tail(p)) : Tail(p)[i] = p[i + 1]
    BY <1>1, HeadTailProperties
  <1>3. IsPlan(Tail(p))
    BY <1>2 DEF IsPlan
  <1>4. /\ Len(p) \in Nat /\ DOMAIN p = 1..Len(p) /\ 1 \in DOMAIN p
        /\ DOMAIN Tail(p) = 1..Len(Tail(p)) /\ Len(Tail(p)) \in Nat
    BY <1>3, PlanDomain
  <1> QED BY <1>2, <1>3, <1>4

(* A plan of one step, and of two. *)
LEMMA PlanOfOne ==
    ASSUME NEW t
    PROVE  IsPlan(<<t>>) /\ Len(<<t>>) = 1 /\ DOMAIN <<t>> = {1} /\ <<t>>[1] = t
  <1>1. <<t>> \in Seq({t})
    OBVIOUS
  <1>2. IsPlan(<<t>>)
    BY <1>1 DEF IsPlan
  <1>3. Len(<<t>>) = 1 /\ <<t>>[1] = t
    OBVIOUS
  <1>4. DOMAIN <<t>> = {1}
    BY <1>1, <1>3, LenProperties
  <1> QED BY <1>2, <1>3, <1>4

LEMMA PlanOfTwo ==
    ASSUME NEW t, NEW u
    PROVE  /\ IsPlan(<<t, u>>) /\ Len(<<t, u>>) = 2 /\ DOMAIN <<t, u>> = {1, 2}
           /\ <<t, u>>[1] = t /\ <<t, u>>[2] = u
  <1>1. <<t, u>> \in Seq({t, u})
    OBVIOUS
  <1>2. IsPlan(<<t, u>>)
    BY <1>1 DEF IsPlan
  <1>3. Len(<<t, u>>) = 2 /\ <<t, u>>[1] = t /\ <<t, u>>[2] = u
    OBVIOUS
  <1>4. DOMAIN <<t, u>> = {1, 2}
    BY <1>1, <1>3, LenProperties
  <1> QED BY <1>2, <1>3, <1>4

(* One plan after another. *)
LEMMA PlanConcat ==
    ASSUME NEW p, NEW q, IsPlan(p), IsPlan(q)
    PROVE  /\ IsPlan(p \o q) /\ Len(p \o q) = Len(p) + Len(q)
           /\ \A i \in DOMAIN (p \o q) :
                 \/ i \in DOMAIN p /\ (p \o q)[i] = p[i]
                 \/ i - Len(p) \in DOMAIN q /\ (p \o q)[i] = q[i - Len(p)]
  <1>1. PICK S : p \in Seq(S)
    BY DEF IsPlan
  <1>2. PICK T : q \in Seq(T)
    BY DEF IsPlan
  <1>3. p \in Seq(S \cup T) /\ q \in Seq(S \cup T)
    BY <1>1, <1>2, SeqMonotonic, Zenon
  <1>4. /\ p \o q \in Seq(S \cup T) /\ Len(p \o q) = Len(p) + Len(q)
        /\ \A i \in 1..(Len(p) + Len(q)) :
              (p \o q)[i] = IF i <= Len(p) THEN p[i] ELSE q[i - Len(p)]
    BY <1>3, ConcatProperties
  <1>5. IsPlan(p \o q)
    BY <1>4 DEF IsPlan
  <1>6. /\ Len(p) \in Nat /\ DOMAIN p = 1..Len(p) /\ Len(q) \in Nat /\ DOMAIN q = 1..Len(q)
        /\ DOMAIN (p \o q) = 1..Len(p \o q)
    BY <1>5, PlanDomain
  <1> QED BY <1>4, <1>5, <1>6

-----------------------------------------------------------------------------
(* The steps of the running command. *)

(* A step leaves the rest of the plan as well written as it was, if the     *)
(* branches of rebases still wait and HEAD moves with transactions only.    *)
LEMMA TailWritten ==
    ASSUME AbortInv, plan # <<>>, plan' = Tail(plan),
           \A s : s.branch \in Branches /\ Waits(s) => Waits(s)',
           plan[1].op # "tx" => head' = head,
           plan[1].op = "tx" => head = plan[1].from /\ head' = plan[1].to
    PROVE  StepsWritten'
  <1>0. PICK q : q = Tail(plan)
    OBVIOUS
  <1>1. /\ IsPlan(plan) /\ 1 \in DOMAIN plan /\ Len(q) = Len(plan) - 1
        /\ \A i \in DOMAIN q : i \in Nat /\ i # 0 /\ i + 1 \in DOMAIN plan /\ q[i] = plan[i + 1]
    BY <1>0, PlanTail DEF AbortInv, Placed
  <1>2. Len(plan) \in Nat /\ DOMAIN plan = 1..Len(plan)
    BY <1>1, PlanDomain
  <1>3. plan' = q
    BY <1>0
  <1>4. ASSUME NEW i \in DOMAIN q
        PROVE  ~Leaving(q[i])
    BY <1>1, <1>4 DEF AbortInv, StepsWritten
  <1>5. ASSUME NEW i \in DOMAIN q, q[i].op = "commit"
        PROVE  q[i].ref = head'
    <2>1. plan[i + 1].op = "commit" /\ i + 1 \in DOMAIN plan /\ q[i] = plan[i + 1]
      BY <1>1, <1>5
    <2>2. plan[1].op # "tx" /\ plan[i + 1].ref = head
      BY <1>1, <2>1 DEF AbortInv, StepsWritten, Written
    <2> QED BY <2>1, <2>2
  <1>6. ASSUME NEW i \in DOMAIN q, q[i].op = "save"
        PROVE  Saved(q[i])'
    <2>1. plan[i + 1].op = "save" /\ i + 1 \in DOMAIN plan /\ q[i] = plan[i + 1]
      BY <1>1, <1>6
    <2>2. Saved(plan[i + 1])
      BY <2>1 DEF AbortInv, StepsWritten, Written
    <2>3. q[i].to # None /\ q[i].file = "rebase" => Waits(q[i].to)'
      BY <2>1, <2>2 DEF Saved, OfRebase
    <2> QED BY <2>1, <2>2, <2>3 DEF Saved, OfRebase, OfBisect, OfRevert
  <1>7. ASSUME NEW i \in DOMAIN q, q[i].op = "loop"
        PROVE  Looping(q[i].rest)'
    <2>1. plan[i + 1].op = "loop" /\ i + 1 \in DOMAIN plan /\ q[i] = plan[i + 1]
      BY <1>1, <1>7
    <2>2. Looping(plan[i + 1].rest)
      BY <2>1 DEF AbortInv, StepsWritten, Written
    <2>3. CASE OfRevert(q[i].rest)
      BY <2>3 DEF Looping, OfRevert
    <2>4. CASE OfRebase(q[i].rest) /\ Waits(q[i].rest)
      BY <2>4 DEF Looping, OfRebase
    <2>5. CASE OfBisect(q[i].rest) /\ Bisecting
      <3>1. head' = "bisect"
        <4>1. CASE plan[1].op # "tx"
          BY <2>5, <4>1 DEF Bisecting
        <4>2. CASE plan[1].op = "tx"
          <5>1. Leaving(plan[1])
            BY <1>1, <2>1, <4>2 DEF AbortInv, StepsWritten
          <5>2. head \in Branches
            BY <1>1, <5>1, <4>2 DEF Leaving
          <5> QED BY <2>5, <4>2, <5>2 DEF Bisecting, Branches
        <4> QED BY <4>1, <4>2
      <3> QED BY <2>5, <3>1 DEF Looping, OfBisect, Bisecting
    <2> QED BY <2>1, <2>2, <2>3, <2>4, <2>5 DEF Looping
  <1>8. ASSUME NEW i \in DOMAIN q, q[i].op = "tx"
        PROVE  (Stays(q[i]) \/ Returns(q[i]) \/ Departs(q[i]))'
    <2>1. Stays(q[i]) \/ Returns(q[i]) \/ Departs(q[i])
      BY <1>1, <1>8 DEF AbortInv, StepsWritten, Written
    <2> QED BY <2>1 DEF Stays, Returns, Departs
  <1>9. \A i, j \in DOMAIN q : q[i].op = "commit" => q[j].op # "tx"
    BY <1>1 DEF AbortInv, StepsWritten
  <1>10. \A i, j \in DOMAIN q : q[i].op = "loop" /\ q[j].op = "tx" => Leaving(q[j])
    BY <1>1 DEF AbortInv, StepsWritten
  <1>11. \A i \in DOMAIN q : q[i].op = "loop" => i = Len(q)
    BY <1>1, <1>2 DEF AbortInv, StepsWritten
  <1>12. ASSUME NEW i \in DOMAIN q
         PROVE  Written(q[i])'
    BY <1>5, <1>6, <1>7, <1>8 DEF Written
  <1>13. \A i \in DOMAIN plan' : Written(plan[i])'
    BY <1>3, <1>12
  <1> QED BY <1>3, <1>4, <1>9, <1>10, <1>11, <1>13 DEF StepsWritten

(* A step of an abort does its part, and leaves the others to do.           *)
LEMMA TailAborts ==
    ASSUME AbortInv, plan # <<>>, plan' = Tail(plan),
           commits' = commits,
           plan[1].op # "files" => work' = work,
           plan[1].op # "index" => index' = index,
           plan[1].op # "tx" => head' = head /\ refs' = refs,
           \A e : AbortLeft(e) =>
                    /\ plan[1].op = "files" => FilesBack(e)'
                    /\ plan[1].op = "index" => index' = TreeOf(commits, e.at)
                    /\ plan[1].op = "tx" => Back(e)'
    PROVE  AbortsWritten'
  <1>0. PICK q : q = Tail(plan)
    OBVIOUS
  <1>1. /\ IsPlan(plan) /\ 1 \in DOMAIN plan /\ Len(q) = Len(plan) - 1
        /\ \A i \in DOMAIN q : i \in Nat /\ i # 0 /\ i + 1 \in DOMAIN plan /\ q[i] = plan[i + 1]
        /\ \A i \in DOMAIN plan : i = 1 \/ (i - 1 \in DOMAIN q /\ q[i - 1] = plan[i])
    BY <1>0, PlanTail DEF AbortInv, Placed
  <1>2. Len(plan) \in Nat /\ DOMAIN plan = 1..Len(plan)
    BY <1>1, PlanDomain
  <1>3. plan' = q
    BY <1>0
  <1> SUFFICES ASSUME NEW e, NEW k \in DOMAIN q, Aborts(q[k]), e = q[k].how
               PROVE  AbortLeft(e)'
    BY <1>3 DEF AbortsWritten, Aborts
  <1>4. AbortLeft(e)
    BY <1>1 DEF AbortInv, AbortsWritten
  <1>5. plan[1].op \in {"files", "index", "tx", "save", "end"}
    BY <1>1, <1>4 DEF AbortLeft
  <1>a. /\ \A i \in DOMAIN plan : plan[i].op \in {"files", "index", "tx", "save", "end"}
        /\ \A i, j \in DOMAIN plan : plan[i].op = plan[j].op => i = j
        /\ \A i \in DOMAIN plan : plan[i].op = "end" => i = Len(plan)
    BY <1>4 DEF AbortLeft
  <1>6. ASSUME NEW i \in DOMAIN q
        PROVE  q[i].op \in {"files", "index", "tx", "save", "end"} /\ q[i].op # plan[1].op
    <2>1. i \in Nat /\ i # 0 /\ i + 1 \in DOMAIN plan /\ q[i] = plan[i + 1] /\ i + 1 # 1
      BY <1>1
    <2> QED BY <1>1, <1>a, <2>1
  <1>7. ASSUME NEW i \in DOMAIN q, NEW j \in DOMAIN q, q[i].op = q[j].op
        PROVE  i = j
    <2>1. /\ i \in Nat /\ i + 1 \in DOMAIN plan /\ q[i] = plan[i + 1]
          /\ j \in Nat /\ j + 1 \in DOMAIN plan /\ q[j] = plan[j + 1]
      BY <1>1
    <2>2. i + 1 = j + 1
      BY <1>7, <1>a, <2>1
    <2> QED BY <2>1, <2>2
  <1>8. ASSUME NEW i \in DOMAIN q, q[i].op = "end"
        PROVE  i = Len(q)
    <2>1. i \in Nat /\ i + 1 \in DOMAIN plan /\ q[i] = plan[i + 1]
      BY <1>1
    <2>2. i + 1 = Len(plan)
      BY <1>8, <1>a, <2>1
    <2> QED BY <1>1, <1>2, <2>1, <2>2
  <1>9. commits' = commits
    OBVIOUS
  <1>10. \A op : Has(op) => Has(op)' \/ plan[1].op = op
    BY <1>1, <1>3 DEF Has
  <1>11. ASSUME NEW i \in DOMAIN q
         PROVE  /\ q[i].op = "files" => BringsBack(q[i], e)'
                /\ q[i].op = "index" => q[i].index = TreeOf(commits, e.at)
                /\ q[i].op = "tx" => GoesBack(q[i], e)'
    <2>1. /\ q[i].op = "files" => BringsBack(q[i], e)
          /\ q[i].op = "index" => q[i].index = TreeOf(commits, e.at)
          /\ q[i].op = "tx" => GoesBack(q[i], e)
      BY <1>1, <1>4 DEF AbortLeft
    <2>2. CASE q[i].op = "files"
      BY <1>6, <1>9, <2>1, <2>2 DEF BringsBack
    <2>3. CASE q[i].op = "tx"
      BY <1>5, <1>6, <2>1, <2>3 DEF GoesBack, Move
    <2> QED BY <2>1, <2>2, <2>3
  <1>12. Has("files")' \/ FilesBack(e)'
    <2>1. CASE plan[1].op = "files"
      BY <1>4, <2>1
    <2>2. CASE plan[1].op # "files" /\ FilesBack(e)
      BY <1>9, <2>2 DEF FilesBack
    <2> QED BY <1>4, <1>10, <2>1, <2>2 DEF AbortLeft
  <1>13. Has("index")' \/ index' = TreeOf(commits, e.at)
    BY <1>4, <1>5, <1>10 DEF AbortLeft
  <1>14. Has("tx")' \/ Back(e)'
    <2>1. CASE plan[1].op = "tx"
      BY <1>4, <2>1
    <2>2. CASE plan[1].op # "tx" /\ Back(e)
      BY <1>5, <2>2 DEF Back
    <2> QED BY <1>4, <1>10, <2>1, <2>2 DEF AbortLeft
  <1> QED BY <1>3, <1>6, <1>7, <1>8, <1>9, <1>11, <1>12, <1>13, <1>14 DEF AbortLeft

(* A step no abort has leaves none behind it. *)
LEMMA TailNoAbort ==
    ASSUME AbortInv, plan # <<>>, plan' = Tail(plan), plan[1].op \in {"write", "add", "commit"}
    PROVE  AbortsWritten'
  <1>1. /\ 1 \in DOMAIN plan
        /\ \A i \in DOMAIN Tail(plan) : i + 1 \in DOMAIN plan /\ Tail(plan)[i] = plan[i + 1]
    BY PlanTail DEF AbortInv, Placed
  <1>2. \A e : ~AbortLeft(e)
    BY <1>1 DEF AbortLeft
  <1> QED BY <1>1, <1>2 DEF AbortInv, AbortsWritten, Aborts

(* While a command runs no abort has ended. *)
LEMMA NotEnded ==
    ASSUME AbortInv, plan # <<>>, ghost'.ended = ghost.ended
    PROVE  EndsLast' /\ AbortRestores'
  BY DEF AbortInv, EndsLast, AbortRestores

(* A rebase that waits still does when a step touches no ref. *)
LEMMA WaitsStay ==
    ASSUME AbortInv, plan # <<>>, refs' = refs, head' = head,
           plan' = Tail(plan) \/ plan' = <<>>
    PROVE  \A s : Waits(s) => Waits(s)'
  <1>1. NoLeaving => NoLeaving'
    <2>1. CASE plan' = <<>>
      BY <2>1 DEF NoLeaving
    <2>2. CASE plan' = Tail(plan)
      <3>1. \A i \in DOMAIN Tail(plan) : i + 1 \in DOMAIN plan /\ Tail(plan)[i] = plan[i + 1]
        BY PlanTail DEF AbortInv, Placed
      <3> QED BY <2>2, <3>1 DEF NoLeaving, Leaving
    <2> QED BY <2>1, <2>2
  <1> QED BY <1>1 DEF Waits

(* The state files a step leaves alone are as good as they were. *)
LEMMA StatesStay ==
    ASSUME AbortInv, files' = files,
           \A s : s.branch \in Branches /\ Waits(s) => Waits(s)'
    PROVE  StatesKept'
  <1>1. StatesKept /\ files'.rebase = files.rebase
    BY DEF AbortInv
  <1>2. files.rebase # None => Waits(files.rebase)'
    <2>1. PICK s : s = files.rebase
      OBVIOUS
    <2>2. s # None => Waits(s)'
      BY <1>1, <2>1 DEF StatesKept, OfRebase
    <2>3. s = files'.rebase
      BY <2>1
    <2> QED BY <2>1, <2>2, <2>3 DEF Waits
  <1> QED BY <1>1, <1>2 DEF StatesKept, OfRebase, OfBisect, OfRevert, Waits

(* A command that stops or dies half way leaves the refs and the states. *)
LEMMA StoppedKeeps ==
    ASSUME AbortInv, plan # <<>>, plan' = <<>>, refs' = refs, head' = head, files' = files,
           ghost' = ghost
    PROVE  AbortInv'
  <1>1. EndsLast' /\ AbortRestores'
    BY NotEnded
  <1>2. StatesKept'
    BY WaitsStay, StatesStay
  <1>3. IsPlan(<<>>) /\ DOMAIN <<>> = {}
    <2>1. <<>> \in Seq({})
      OBVIOUS
    <2> QED BY <2>1 DEF IsPlan
  <1>4. Placed' /\ ScratchAtHead'
    BY <1>3 DEF AbortInv, Placed, ScratchAtHead
  <1>5. StepsWritten' /\ AbortsWritten'
    BY <1>3 DEF StepsWritten, AbortsWritten
  <1> QED BY <1>1, <1>2, <1>4, <1>5 DEF AbortInv

LEMMA StepFilesKeeps ==
    ASSUME AbortInv, StepFiles
    PROVE  AbortInv'
  <1>1. plan # <<>> /\ Head(plan) = plan[1] /\ IsPlan(Tail(plan)) /\ plan[1].op = "files"
    BY PlanTail DEF StepFiles, Step, AbortInv, Placed
  <1>2. UNCHANGED <<commits, refs, head, index, files, ghost>>
    BY DEF StepFiles
  <1>3. CASE plan' = <<>>
    BY <1>1, <1>2, <1>3, StoppedKeeps
  <1>4. CASE plan' = Tail(plan) /\ work' = CheckedOut(plan[1].old, plan[1].tree, work)
    <2>1. \A s : Waits(s) => Waits(s)'
      BY <1>1, <1>2, <1>4, WaitsStay
    <2>2. StepsWritten' /\ StatesKept' /\ EndsLast' /\ AbortRestores'
      BY <1>1, <1>2, <1>4, <2>1, TailWritten, StatesStay, NotEnded
    <2>3. ASSUME NEW e, AbortLeft(e)
          PROVE  FilesBack(e)'
      <3>1. BringsBack(plan[1], e)
        BY <1>1, <2>3, PlanTail DEF AbortLeft, AbortInv, Placed
      <3> QED BY <1>2, <1>4, <3>1 DEF BringsBack, FilesBack, CheckedOut
    <2>4. AbortsWritten'
      BY <1>1, <1>2, <1>4, <2>3, TailAborts
    <2> QED BY <1>1, <1>2, <1>4, <2>2, <2>4 DEF AbortInv, Placed, ScratchAtHead
  <1> QED BY <1>1, <1>3, <1>4 DEF StepFiles, Done, Fails

LEMMA StepWriteKeeps ==
    ASSUME AbortInv, StepWrite
    PROVE  AbortInv'
  <1>1. plan # <<>> /\ Head(plan) = plan[1] /\ IsPlan(Tail(plan)) /\ plan[1].op = "write"
    BY PlanTail DEF StepWrite, Step, AbortInv, Placed
  <1>2. plan' = Tail(plan) /\ UNCHANGED <<commits, refs, head, index, files, ghost>>
    BY DEF StepWrite, Done
  <1>3. \A s : Waits(s) => Waits(s)'
    BY <1>1, <1>2, WaitsStay
  <1>4. StepsWritten' /\ StatesKept' /\ EndsLast' /\ AbortRestores'
    BY <1>1, <1>2, <1>3, TailWritten, StatesStay, NotEnded
  <1>5. AbortsWritten'
    BY <1>1, <1>2, TailNoAbort
  <1> QED BY <1>1, <1>2, <1>4, <1>5 DEF AbortInv, Placed, ScratchAtHead

LEMMA StepIndexKeeps ==
    ASSUME AbortInv, StepIndex
    PROVE  AbortInv'
  <1>1. plan # <<>> /\ Head(plan) = plan[1] /\ IsPlan(Tail(plan)) /\ plan[1].op = "index"
    BY PlanTail DEF StepIndex, Step, AbortInv, Placed
  <1>2. /\ plan' = Tail(plan) /\ index' = plan[1].index
        /\ UNCHANGED <<commits, refs, head, work, files>>
    BY <1>1 DEF StepIndex, Done
  <1>3. ghost'.ended = ghost.ended /\ DOMAIN ghost' = DOMAIN ghost
    BY DEF StepIndex, AbortInv, Placed
  <1>4. \A s : Waits(s) => Waits(s)'
    BY <1>1, <1>2, WaitsStay
  <1>5. StepsWritten' /\ StatesKept' /\ EndsLast' /\ AbortRestores'
    BY <1>1, <1>2, <1>3, <1>4, TailWritten, StatesStay, NotEnded
  <1>6. ASSUME NEW e, AbortLeft(e)
        PROVE  plan[1].index = TreeOf(commits, e.at)
    BY <1>1, <1>6, PlanTail DEF AbortLeft, AbortInv, Placed
  <1>7. AbortsWritten'
    BY <1>1, <1>2, <1>6, TailAborts
  <1> QED BY <1>1, <1>2, <1>3, <1>5, <1>7 DEF AbortInv, Placed, ScratchAtHead

LEMMA StepAddKeeps ==
    ASSUME AbortInv, StepAdd
    PROVE  AbortInv'
  <1>1. plan # <<>> /\ Head(plan) = plan[1] /\ IsPlan(Tail(plan)) /\ plan[1].op = "add"
    BY PlanTail DEF StepAdd, Step, AbortInv, Placed
  <1>2. plan' = Tail(plan) /\ UNCHANGED <<commits, refs, head, work, files>>
    BY DEF StepAdd, Done
  <1>3. ghost'.ended = ghost.ended /\ DOMAIN ghost' = DOMAIN ghost
    BY DEF StepAdd, AbortInv, Placed
  <1>4. \A s : Waits(s) => Waits(s)'
    BY <1>1, <1>2, WaitsStay
  <1>5. StepsWritten' /\ StatesKept' /\ EndsLast' /\ AbortRestores'
    BY <1>1, <1>2, <1>3, <1>4, TailWritten, StatesStay, NotEnded
  <1>6. AbortsWritten'
    BY <1>1, <1>2, TailNoAbort
  <1> QED BY <1>1, <1>2, <1>3, <1>5, <1>6 DEF AbortInv, Placed, ScratchAtHead

LEMMA StepSaveKeeps ==
    ASSUME AbortInv, StepSave
    PROVE  AbortInv'
  <1>1. plan # <<>> /\ Head(plan) = plan[1] /\ IsPlan(Tail(plan)) /\ plan[1].op = "save"
    BY PlanTail DEF StepSave, Step, AbortInv, Placed
  <1>2. /\ plan' = Tail(plan) /\ files' = [files EXCEPT ![plan[1].file] = plan[1].to]
        /\ UNCHANGED <<commits, refs, head, index, work, ghost>>
    BY <1>1 DEF StepSave, Done
  <1>3. \A s : Waits(s) => Waits(s)'
    BY <1>1, <1>2, WaitsStay
  <1>4. StepsWritten' /\ EndsLast' /\ AbortRestores'
    BY <1>1, <1>2, <1>3, TailWritten, NotEnded
  <1>5. AbortsWritten'
    BY <1>1, <1>2, TailAborts
  <1>6. Saved(plan[1])
    BY <1>1, PlanTail DEF AbortInv, StepsWritten, Written, Placed
  <1>7. files = [f \in FileNames |-> files[f]] /\ plan[1].file \in FileNames
    BY <1>6 DEF AbortInv, Placed, Saved
  <1>8. /\ files' = [f \in FileNames |-> files'[f]]
        /\ \A f \in FileNames : files'[f] = IF f = plan[1].file THEN plan[1].to ELSE files[f]
    BY <1>2, <1>7
  <1>9. StatesKept'
    <2>1. PICK s : s = plan[1].to
      OBVIOUS
    <2>2. PICK r : r = files.rebase
      OBVIOUS
    <2>3. files'.rebase # None => OfRebase(files'.rebase) /\ Waits(files'.rebase)
      BY <1>6, <1>8 DEF FileNames, Saved, AbortInv, StatesKept
    <2>4. files'.rebase \in {s, r}
      BY <1>8, <2>1, <2>2 DEF FileNames
    <2>5. files'.rebase # None => Waits(files.rebase)'
      <3>1. PICK u : u = files'.rebase
        OBVIOUS
      <3>2. u # None => Waits(u)'
        BY <1>3, <2>3, <3>1
      <3> QED BY <3>1, <3>2 DEF Waits
    <2>6. files'.revert # None => OfRevert(files'.revert)
      BY <1>6, <1>8 DEF FileNames, Saved, AbortInv, StatesKept
    <2>7. files'.bisect # None => OfBisect(files'.bisect)
      BY <1>6, <1>8 DEF FileNames, Saved, AbortInv, StatesKept
    <2> QED BY <2>3, <2>5, <2>6, <2>7 DEF StatesKept, OfRebase, OfBisect, OfRevert, Waits
  <1> QED BY <1>1, <1>2, <1>4, <1>5, <1>8, <1>9 DEF AbortInv, Placed, ScratchAtHead

LEMMA StepCommitKeeps ==
    ASSUME AbortInv, StepCommit
    PROVE  AbortInv'
  <1>1. /\ plan # <<>> /\ Head(plan) = plan[1] /\ IsPlan(Tail(plan)) /\ plan[1].op = "commit"
        /\ 1 \in DOMAIN plan
        /\ \A i \in DOMAIN Tail(plan) : i + 1 \in DOMAIN plan /\ Tail(plan)[i] = plan[i + 1]
    BY PlanTail DEF StepCommit, Step, AbortInv, Placed
  <1>2. plan[1].ref = head /\ \A i \in DOMAIN plan : plan[i].op # "tx"
    BY <1>1 DEF AbortInv, StepsWritten, Written
  <1>3. /\ plan' = Tail(plan) /\ refs' = [refs EXCEPT ![head] = Len(commits')]
        /\ UNCHANGED <<head, index, work, files, ghost>>
    BY <1>1, <1>2 DEF StepCommit, Done
  <1>4. NoLeaving'
    BY <1>1, <1>2, <1>3 DEF NoLeaving, Leaving
  <1>5. /\ refs = [r \in Refs |-> refs[r]] /\ head \in Refs
        /\ refs' = [r \in Refs |-> refs'[r]]
        /\ \A r \in Refs \ {head} : refs'[r] = refs[r]
    BY <1>3 DEF AbortInv, Placed
  <1>6. ASSUME NEW s, s.branch \in Branches, Waits(s)
        PROVE  Waits(s)'
    <2>1. CASE s.branch = head
      BY <1>3, <1>4, <1>6, <2>1 DEF Waits
    <2>2. CASE s.branch # head /\ refs[s.branch] = s.orig
      BY <1>5, <1>6, <2>2 DEF Waits, Branches, Refs
    <2>3. CASE head \in Branches
      BY <1>3, <1>4, <2>3 DEF Waits
    <2> QED BY <1>6, <2>1, <2>2, <2>3 DEF Waits
  <1>7. StepsWritten' /\ StatesKept' /\ EndsLast' /\ AbortRestores'
    BY <1>1, <1>3, <1>6, TailWritten, StatesStay, NotEnded
  <1>8. AbortsWritten'
    BY <1>1, <1>3, TailNoAbort
  <1>9. ScratchAtHead'
    BY <1>3, <1>5 DEF AbortInv, ScratchAtHead, Scratches, Refs
  <1> QED BY <1>1, <1>3, <1>5, <1>7, <1>8, <1>9 DEF AbortInv, Placed

LEMMA StepTxKeeps ==
    ASSUME AbortInv, StepTx
    PROVE  AbortInv'
  <1>1. /\ plan # <<>> /\ Head(plan) = plan[1] /\ IsPlan(Tail(plan)) /\ plan[1].op = "tx"
        /\ 1 \in DOMAIN plan
        /\ \A i \in DOMAIN Tail(plan) : i # 0 /\ i \in Nat /\ i + 1 \in DOMAIN plan
                                         /\ Tail(plan)[i] = plan[i + 1]
    BY PlanTail DEF StepTx, Step, AbortInv, Placed
  <1>2. UNCHANGED <<commits, index, work, files, ghost>>
    BY DEF StepTx
  <1>3. CASE plan' = <<>> /\ UNCHANGED <<refs, head>>
    BY <1>1, <1>2, <1>3, StoppedKeeps
  <1>4. CASE /\ head = plan[1].from /\ plan' = Tail(plan) /\ head' = plan[1].to
             /\ refs' = [r \in Refs |-> IF \E m \in plan[1].moves : m.ref = r
                                       THEN (CHOOSE m \in plan[1].moves : m.ref = r).new
                                       ELSE refs[r]]
    <2>1. Stays(plan[1]) \/ Returns(plan[1]) \/ Departs(plan[1])
      BY <1>1 DEF AbortInv, StepsWritten, Written
    <2>2. NoLeaving'
      BY <1>1, <1>4 DEF NoLeaving, AbortInv, StepsWritten, Leaving
    <2>3. PICK x, old, new :
              /\ x \in Refs
              /\ plan[1].moves = {Move(x, old, new)}
              /\ \/ x = head /\ head' = head
                 \/ x = head /\ head \in Scratches /\ head' \in Branches /\ new = 0
                 \/ x = head' /\ head \in Branches /\ head' \in Scratches
      <3>1. CASE Stays(plan[1])
        BY <1>4, <3>1 DEF Stays
      <3>2. CASE Returns(plan[1])
        BY <1>4, <3>2 DEF Returns, Scratches, Refs
      <3>3. CASE Departs(plan[1])
        BY <1>4, <3>3 DEF Departs, Scratches, Refs
      <3> QED BY <2>1, <3>1, <3>2, <3>3
    <2>4. refs'[x] = new /\ \A r \in Refs \ {x} : refs'[r] = refs[r]
      <3> DEFINE moves == {Move(x, old, new)}
      <3>1. \A r \in Refs : refs'[r] = IF \E m \in moves : m.ref = r
                                      THEN (CHOOSE m \in moves : m.ref = r).new ELSE refs[r]
        BY <1>4, <2>3
      <3>2. \A r \in Refs : (\E m \in moves : m.ref = r) <=> r = x
        BY <2>3 DEF Move
      <3>3. (CHOOSE m \in moves : m.ref = x) = Move(x, old, new)
        BY DEF Move
      <3>4. Move(x, old, new).new = new
        BY DEF Move
      <3> QED BY <2>3, <3>1, <3>2, <3>3, <3>4
    <2>5. head' \in Refs /\ refs' = [r \in Refs |-> refs'[r]]
      BY <1>4, <2>3 DEF AbortInv, Placed, Scratches, Branches, Refs
    <2>6. ScratchAtHead'
      BY <2>3, <2>4 DEF AbortInv, ScratchAtHead, Scratches, Branches, Refs
    <2>7. ASSUME NEW s, s.branch \in Branches, Waits(s)
          PROVE  Waits(s)'
      <3>1. CASE head' \in Branches
        BY <2>2, <3>1 DEF Waits
      <3>2. CASE head' \notin Branches
        <4>1. x # s.branch
          BY <2>3, <2>7, <3>2 DEF Scratches, Branches
        <4>2. refs[s.branch] = s.orig
          <5>1. CASE head \notin Branches
            BY <2>7, <5>1 DEF Waits
          <5>2. CASE head \in Branches
            <6>1. head' \in Scratches
              BY <2>3, <3>2, <5>2
            <6>2. Leaving(plan[1])
              BY <1>1, <1>4, <5>2, <6>1 DEF Leaving
            <6> QED BY <1>1, <2>7, <6>2 DEF Waits, NoLeaving
          <5> QED BY <5>1, <5>2
        <4>3. refs'[s.branch] = s.orig
          BY <2>4, <2>7, <4>1, <4>2 DEF Branches, Refs
        <4> QED BY <4>3 DEF Waits
      <3> QED BY <3>1, <3>2
    <2>8. StepsWritten' /\ StatesKept' /\ EndsLast' /\ AbortRestores'
      BY <1>1, <1>2, <1>4, <2>7, TailWritten, StatesStay, NotEnded
    <2>9. ASSUME NEW e, AbortLeft(e)
          PROVE  Back(e)'
      <3>1. GoesBack(plan[1], e)
        BY <1>1, <2>9 DEF AbortLeft
      <3>2. head' = e.branch
        BY <1>4, <3>1 DEF GoesBack
      <3>3. CASE \E u : plan[1].moves = {Move(e.branch, u, e.at)}
        <4>1. PICK u : {Move(x, old, new)} = {Move(e.branch, u, e.at)}
          BY <2>3, <3>3
        <4>2. Move(x, old, new) = Move(e.branch, u, e.at)
          BY <4>1
        <4>3. x = e.branch /\ new = e.at
          BY <4>2 DEF Move
        <4> QED BY <2>4, <3>2, <4>3 DEF Back
      <3>4. CASE refs[e.branch] = e.at /\ \A m \in plan[1].moves : m.ref # e.branch
        <4>1. x # e.branch
          BY <2>3, <3>4 DEF Move
        <4> QED BY <2>4, <2>5, <3>2, <3>4, <4>1 DEF Back
      <3> QED BY <1>4, <3>1, <3>3, <3>4 DEF GoesBack
    <2>10. AbortsWritten'
      BY <1>1, <1>2, <1>4, <2>9, TailAborts
    <2> QED BY <1>1, <1>2, <1>4, <2>5, <2>6, <2>8, <2>10 DEF AbortInv, Placed
  <1> QED BY <1>1, <1>3, <1>4 DEF StepTx, Done, Fails

LEMMA StepEndKeeps ==
    ASSUME AbortInv, StepEnd
    PROVE  AbortInv'
  <1>1. /\ plan # <<>> /\ Head(plan) = plan[1] /\ IsPlan(Tail(plan)) /\ plan[1].op = "end"
        /\ 1 \in DOMAIN plan
    BY PlanTail DEF StepEnd, Step, AbortInv, Placed
  <1>2. plan' = Tail(plan) /\ UNCHANGED <<commits, refs, head, index, work, files>>
    BY DEF StepEnd, Done
  <1>3. ghost'.ended = plan[1].how /\ DOMAIN ghost' = DOMAIN ghost
    BY <1>1 DEF StepEnd, AbortInv, Placed
  <1>4. \A s : Waits(s) => Waits(s)'
    BY <1>1, <1>2, WaitsStay
  <1>5. StepsWritten' /\ StatesKept'
    BY <1>1, <1>2, <1>4, TailWritten, StatesStay
  <1>6. AbortsWritten'
    BY <1>1, <1>2, TailAborts
  <1>7. EndsLast' /\ AbortRestores'
    <2>1. CASE "at" \notin DOMAIN plan[1].how
      BY <1>3, <2>1 DEF EndsLast, AbortRestores
    <2>2. CASE "at" \in DOMAIN plan[1].how
      <3>1. PICK e : e = plan[1].how
        OBVIOUS
      <3>2. AbortLeft(e)
        BY <1>1, <2>2, <3>1 DEF AbortInv, AbortsWritten, Aborts
      <3>3. Len(plan) = 1 /\ \A i \in DOMAIN plan : i = 1
        <4>1. DOMAIN plan = 1..Len(plan)
          BY PlanDomain DEF AbortInv, Placed
        <4>2. 1 = Len(plan)
          BY <1>1, <3>2 DEF AbortLeft
        <4>3. \A n : n = 1 => \A i \in 1..n : i = 1
          OBVIOUS
        <4> QED BY <4>1, <4>2, <4>3, Zenon
      <3>4. plan' = <<>>
        <4>1. Len(Tail(plan)) = 0
          BY <1>1, <3>3, PlanTail DEF AbortInv, Placed
        <4>2. PICK S : Tail(plan) \in Seq(S)
          BY <1>1 DEF IsPlan
        <4>3. Tail(plan) = <<>>
          BY <4>1, <4>2, EmptySeq
        <4> QED BY <1>2, <4>3
      <3>5. ~Has("files") /\ ~Has("index") /\ ~Has("tx")
        BY <1>1, <3>3 DEF Has
      <3>6. FilesBack(e) /\ index = TreeOf(commits, e.at) /\ Back(e)
        BY <3>2, <3>5 DEF AbortLeft
      <3>7. \A r \in Refs \ Branches : refs[r] = 0 \/ r = e.branch
        BY <3>6 DEF AbortInv, ScratchAtHead, Back, Refs, Branches, Scratches
      <3>8. EndsLast'
        BY <3>4 DEF EndsLast
      <3>9. AbortRestores'
        BY <1>2, <1>3, <3>1, <3>6, <3>7 DEF AbortRestores, FilesBack, Back
      <3> QED BY <3>8, <3>9
    <2> QED BY <2>1, <2>2
  <1> QED BY <1>1, <1>2, <1>3, <1>5, <1>6, <1>7 DEF AbortInv, Placed, ScratchAtHead

LEMMA CrashKeeps ==
    ASSUME AbortInv, Crash
    PROVE  AbortInv'
  BY StoppedKeeps DEF Crash, Fails

-----------------------------------------------------------------------------
(* The plans commands start with, put together. *)

(* What two plans one after the other are. *)
LEMMA PlanConcatIs ==
    ASSUME NEW p, NEW q, NEW r, IsPlan(p), IsPlan(q), IsPlan(r), Len(r) = Len(p) + Len(q),
           \A i \in 1..Len(p) : r[i] = p[i],
           \A i \in 1..Len(q) : r[Len(p) + i] = q[i]
    PROVE  p \o q = r
  <1>1. PICK S : p \in Seq(S)
    BY DEF IsPlan
  <1>2. PICK T : q \in Seq(T)
    BY DEF IsPlan
  <1>3. PICK U : r \in Seq(U)
    BY DEF IsPlan
  <1>4. PICK V : V = S \cup T \cup U
    OBVIOUS
  <1>5. p \in Seq(V) /\ q \in Seq(V) /\ r \in Seq(V)
    <2>1. S \subseteq V /\ T \subseteq V /\ U \subseteq V
      BY <1>4
    <2> QED BY <1>1, <1>2, <1>3, <2>1, SeqMonotonic
  <1>6. /\ p \o q \in Seq(V) /\ Len(p \o q) = Len(p) + Len(q)
        /\ \A i \in 1..(Len(p) + Len(q)) :
              (p \o q)[i] = IF i <= Len(p) THEN p[i] ELSE q[i - Len(p)]
    BY <1>5, ConcatProperties
  <1>7. Len(p) \in Nat /\ Len(q) \in Nat
    BY PlanDomain
  <1>8. ASSUME NEW i \in 1..Len(r)
        PROVE  (p \o q)[i] = r[i]
    <2>1. CASE i <= Len(p)
      BY <1>6, <1>7, <1>8, <2>1
    <2>2. CASE ~(i <= Len(p))
      <3>1. i - Len(p) \in 1..Len(q) /\ Len(p) + (i - Len(p)) = i
        BY <1>7, <1>8, <2>2
      <3> QED BY <1>6, <1>8, <2>2, <3>1
    <2> QED BY <2>1, <2>2
  <1> QED BY <1>5, <1>6, <1>8, SeqEqual

LEMMA PlanConcatEmpty ==
    ASSUME NEW p, IsPlan(p)
    PROVE  p \o <<>> = p
  <1>1. PICK S : p \in Seq(S)
    BY DEF IsPlan
  <1> QED BY <1>1, ConcatEmptySeq

LEMMA PlanConcatAssociative ==
    ASSUME NEW p, NEW q, NEW r, IsPlan(p), IsPlan(q), IsPlan(r)
    PROVE  (p \o q) \o r = p \o (q \o r)
  <1>1. PICK S : p \in Seq(S)
    BY DEF IsPlan
  <1>2. PICK T : q \in Seq(T)
    BY DEF IsPlan
  <1>3. PICK U : r \in Seq(U)
    BY DEF IsPlan
  <1>4. PICK V : V = S \cup T \cup U
    OBVIOUS
  <1>5. p \in Seq(V) /\ q \in Seq(V) /\ r \in Seq(V)
    <2>1. S \subseteq V /\ T \subseteq V /\ U \subseteq V
      BY <1>4
    <2> QED BY <1>1, <1>2, <1>3, <2>1, SeqMonotonic
  <1> QED BY <1>5, ConcatAssociative

(* A plan with one step more. *)
LEMMA PlanAppendIs ==
    ASSUME NEW p, NEW t, NEW r, IsPlan(p), IsPlan(r), Len(r) = Len(p) + 1, r[Len(p) + 1] = t,
           \A i \in 1..Len(p) : r[i] = p[i]
    PROVE  p \o <<t>> = r
  <1>1. IsPlan(<<t>>) /\ Len(<<t>>) = 1 /\ <<t>>[1] = t
    BY PlanOfOne
  <1>2. \A i \in 1..1 : r[Len(p) + i] = <<t>>[i]
    <2>1. \A i \in 1..1 : i = 1
      OBVIOUS
    <2> QED BY <1>1, <2>1
  <1>3. PICK q : q = <<t>>
    OBVIOUS
  <1>4. p \o q = r
    BY <1>1, <1>2, <1>3, PlanConcatIs
  <1> QED BY <1>3, <1>4

(* The shapes of an abort: with a ref transaction or without one. *)
FivePut(t1, t2, t3, t4, t5) == <<t1, t2>> \o <<t3>> \o <<t4>> \o <<t5>>
FourPut(t1, t2, t3, t4) == <<t1, t2>> \o <<>> \o <<t3>> \o <<t4>>
Five(t1, t2, t3, t4, t5) == <<t1, t2, t3, t4, t5>>
Four(t1, t2, t3, t4) == <<t1, t2, t3, t4>>

LEMMA AbortWithTx ==
    ASSUME NEW t1, NEW t2, NEW t3, NEW t4, NEW t5
    PROVE  /\ FivePut(t1, t2, t3, t4, t5) = Five(t1, t2, t3, t4, t5)
           /\ IsPlan(Five(t1, t2, t3, t4, t5))
  <1>1. IsPlan(<<t1, t2, t3, t4, t5>>) /\ IsPlan(<<t1, t2, t3, t4>>) /\ IsPlan(<<t1, t2, t3>>)
    <2>1. /\ <<t1, t2, t3, t4, t5>> \in Seq({t1, t2, t3, t4, t5}) /\ <<t1, t2, t3, t4>> \in Seq({t1, t2, t3, t4})
          /\ <<t1, t2, t3>> \in Seq({t1, t2, t3})
      OBVIOUS
    <2> QED BY <2>1 DEF IsPlan
  <1>2. IsPlan(<<t1, t2>>)
    BY PlanOfTwo
  <1>3. <<t1, t2>> \o <<t3>> = <<t1, t2, t3>>
    <2>1. PICK p, r : p = <<t1, t2>> /\ r = <<t1, t2, t3>>
      OBVIOUS
    <2>2. Len(p) = 2 /\ Len(r) = 2 + 1 /\ r[2 + 1] = t3 /\ \A i \in 1..2 : r[i] = p[i]
      BY <2>1
    <2>3. p \o <<t3>> = r
      <3>1. IsPlan(p) /\ IsPlan(r)
        BY <1>1, <1>2, <2>1, Zenon
      <3> QED BY <2>2, <3>1, PlanAppendIs
    <2> QED BY <2>1, <2>3
  <1>4. <<t1, t2, t3>> \o <<t4>> = <<t1, t2, t3, t4>>
    <2>1. PICK p, r : p = <<t1, t2, t3>> /\ r = <<t1, t2, t3, t4>>
      OBVIOUS
    <2>2. Len(p) = 3 /\ Len(r) = 3 + 1 /\ r[3 + 1] = t4 /\ \A i \in 1..3 : r[i] = p[i]
      BY <2>1
    <2>3. p \o <<t4>> = r
      <3>1. IsPlan(p) /\ IsPlan(r)
        BY <1>1, <1>2, <2>1, Zenon
      <3> QED BY <2>2, <3>1, PlanAppendIs
    <2> QED BY <2>1, <2>3
  <1>5. <<t1, t2, t3, t4>> \o <<t5>> = <<t1, t2, t3, t4, t5>>
    <2>1. PICK p, r : p = <<t1, t2, t3, t4>> /\ r = <<t1, t2, t3, t4, t5>>
      OBVIOUS
    <2>2. Len(p) = 4 /\ Len(r) = 4 + 1 /\ r[4 + 1] = t5 /\ \A i \in 1..4 : r[i] = p[i]
      BY <2>1
    <2>3. p \o <<t5>> = r
      <3>1. IsPlan(p) /\ IsPlan(r)
        BY <1>1, <1>2, <2>1, Zenon
      <3> QED BY <2>2, <3>1, PlanAppendIs
    <2> QED BY <2>1, <2>3
  <1> QED BY <1>1, <1>3, <1>4, <1>5, Zenon DEF FivePut, FourPut, Five, Four

LEMMA AbortWithoutTx ==
    ASSUME NEW t1, NEW t2, NEW t3, NEW t4
    PROVE  /\ FourPut(t1, t2, t3, t4) = Four(t1, t2, t3, t4)
           /\ IsPlan(Four(t1, t2, t3, t4))
  <1>1. IsPlan(<<t1, t2, t3, t4>>) /\ IsPlan(<<t1, t2, t3>>)
    <2>1. <<t1, t2, t3, t4>> \in Seq({t1, t2, t3, t4}) /\ <<t1, t2, t3>> \in Seq({t1, t2, t3})
      OBVIOUS
    <2> QED BY <2>1 DEF IsPlan
  <1>2. IsPlan(<<t1, t2>>)
    BY PlanOfTwo
  <1>3. <<t1, t2>> \o <<t3>> = <<t1, t2, t3>>
    <2>1. PICK p, r : p = <<t1, t2>> /\ r = <<t1, t2, t3>>
      OBVIOUS
    <2>2. Len(p) = 2 /\ Len(r) = 2 + 1 /\ r[2 + 1] = t3 /\ \A i \in 1..2 : r[i] = p[i]
      BY <2>1
    <2>3. p \o <<t3>> = r
      <3>1. IsPlan(p) /\ IsPlan(r)
        BY <1>1, <1>2, <2>1, Zenon
      <3> QED BY <2>2, <3>1, PlanAppendIs
    <2> QED BY <2>1, <2>3
  <1>4. <<t1, t2, t3>> \o <<t4>> = <<t1, t2, t3, t4>>
    <2>1. PICK p, r : p = <<t1, t2, t3>> /\ r = <<t1, t2, t3, t4>>
      OBVIOUS
    <2>2. Len(p) = 3 /\ Len(r) = 3 + 1 /\ r[3 + 1] = t4 /\ \A i \in 1..3 : r[i] = p[i]
      BY <2>1
    <2>3. p \o <<t4>> = r
      <3>1. IsPlan(p) /\ IsPlan(r)
        BY <1>1, <1>2, <2>1, Zenon
      <3> QED BY <2>2, <3>1, PlanAppendIs
    <2> QED BY <2>1, <2>3
  <1>5. <<t1, t2>> \o <<>> = <<t1, t2>>
    BY <1>2, PlanConcatEmpty
  <1> QED BY <1>1, <1>3, <1>4, <1>5, Zenon DEF FivePut, FourPut, Five, Four

-----------------------------------------------------------------------------
(* What the plan of a command that neither leaves its branch nor aborts is  *)
(* made of.                                                                 *)

(* The branch of a rebase is where it was, or HEAD is on a branch. *)
Kept(s) == refs[s.branch] = s.orig \/ head \in Branches

StateOf(file, to) ==
    /\ file \in FileNames
    /\ to # None =>
         /\ file = "revert" => OfRevert(to)
         /\ file = "bisect" => OfBisect(to)
         /\ file = "rebase" => OfRebase(to) /\ Kept(to)

Loops(s) == \/ OfRevert(s)
            \/ OfRebase(s) /\ Kept(s)
            \/ OfBisect(s) /\ head = "bisect"

Fit(t) ==
    /\ t.op = "tx" => Stays(t) \/ Returns(t)
    /\ t.op = "commit" => t.ref = head
    /\ t.op = "save" => StateOf(t.file, t.to)
    /\ t.op = "loop" => Loops(t.rest)

Ready(t) == Fit(t) /\ ~Aborts(t)

CommitOps == {"files", "write", "index", "add", "commit", "save"}
MoveOps == {"files", "index", "tx", "save", "end"}

Made(p, ops) == IsPlan(p) /\ \A i \in DOMAIN p : Ready(p[i]) /\ p[i].op \in ops

Steady(p) ==
    /\ IsPlan(p) /\ \A i \in DOMAIN p : Fit(p[i])
    /\ \A i, j \in DOMAIN p : p[i].op \in {"commit", "loop"} => p[j].op # "tx"
    /\ \A i \in DOMAIN p : p[i].op = "loop" => i = Len(p)

Quiet(p) == Steady(p) /\ \A i \in DOMAIN p : ~Aborts(p[i])

LEMMA MadeConcat ==
    ASSUME NEW p, NEW q, NEW ops, Made(p, ops), Made(q, ops)
    PROVE  Made(p \o q, ops)
  <1>1. PICK r : r = p \o q
    OBVIOUS
  <1>2. /\ IsPlan(r)
        /\ \A i \in DOMAIN r : \/ i \in DOMAIN p /\ r[i] = p[i]
                               \/ i - Len(p) \in DOMAIN q /\ r[i] = q[i - Len(p)]
    BY <1>1, PlanConcat DEF Made
  <1>3. \A i \in DOMAIN r : Ready(r[i]) /\ r[i].op \in ops
    BY <1>2 DEF Made
  <1> QED BY <1>1, <1>2, <1>3 DEF Made

LEMMA MadeOfNothing ==
    ASSUME NEW ops
    PROVE  Made(<<>>, ops)
  <1>1. <<>> \in Seq({}) /\ DOMAIN <<>> = {}
    OBVIOUS
  <1> QED BY <1>1 DEF Made, IsPlan

LEMMA MadeOfOne ==
    ASSUME NEW t, NEW ops, Ready(t), t.op \in ops
    PROVE  Made(<<t>>, ops)
  BY PlanOfOne DEF Made

LEMMA MadeIsQuiet ==
    ASSUME NEW p, Made(p, CommitOps) \/ Made(p, MoveOps)
    PROVE  Quiet(p)
  BY DEF Made, Ready, Quiet, Steady, CommitOps, MoveOps

(* A plan that commits may go on with another round. *)
LEMMA MadeLoops ==
    ASSUME NEW p, NEW s, Made(p, CommitOps), Loops(s)
    PROVE  Quiet(p \o Loop(s))
  <1>1. PICK t : t = [op |-> "loop", rest |-> s]
    OBVIOUS
  <1>2. PICK q : q = <<t>>
    OBVIOUS
  <1>3. PICK r : r = p \o q
    OBVIOUS
  <1>4. t.op = "loop" /\ Ready(t)
    BY <1>1 DEF Ready, Fit, Aborts
  <1>5. IsPlan(q) /\ Len(q) = 1 /\ \A i \in DOMAIN q : i = 1 /\ q[i] = t
    BY <1>2, PlanOfOne
  <1>6. /\ IsPlan(r) /\ Len(r) = Len(p) + 1
        /\ \A i \in DOMAIN r : \/ i \in DOMAIN p /\ r[i] = p[i]
                               \/ i - Len(p) \in DOMAIN q /\ r[i] = q[i - Len(p)]
    BY <1>3, <1>5, PlanConcat DEF Made
  <1>7. Len(p) \in Nat /\ DOMAIN r = 1..Len(r)
    BY <1>6, PlanDomain DEF Made
  <1>8. ASSUME NEW i \in DOMAIN r
        PROVE  \/ Ready(r[i]) /\ r[i].op \in CommitOps
               \/ r[i] = t /\ i = Len(r)
    <2>1. CASE i \in DOMAIN p /\ r[i] = p[i]
      BY <2>1 DEF Made
    <2>2. CASE i - Len(p) \in DOMAIN q /\ r[i] = q[i - Len(p)]
      <3>1. i - Len(p) = 1 /\ r[i] = t
        BY <1>5, <2>2
      <3> QED BY <1>6, <1>7, <1>8, <3>1
    <2> QED BY <1>6, <1>8, <2>1, <2>2
  <1>9. Quiet(r)
    <2>1. \A i \in DOMAIN r : Fit(r[i]) /\ ~Aborts(r[i])
      BY <1>4, <1>8 DEF Ready
    <2>2. \A i \in DOMAIN r : r[i].op # "tx"
      BY <1>4, <1>8 DEF CommitOps
    <2>3. \A i \in DOMAIN r : r[i].op = "loop" => i = Len(r)
      BY <1>8 DEF CommitOps
    <2> QED BY <1>6, <2>1, <2>2, <2>3 DEF Quiet, Steady
  <1> QED BY <1>1, <1>2, <1>3, <1>9 DEF Loop

LEMMA LoopIsQuiet ==
    ASSUME NEW s, Loops(s)
    PROVE  Quiet(Loop(s))
  <1>1. PICK t : t = [op |-> "loop", rest |-> s]
    OBVIOUS
  <1>2. t.op = "loop" /\ Ready(t)
    BY <1>1 DEF Ready, Fit, Aborts
  <1>3. PICK q : q = <<t>>
    OBVIOUS
  <1>4. IsPlan(q) /\ Len(q) = 1 /\ \A i \in DOMAIN q : i = 1 /\ q[i] = t
    BY <1>3, PlanOfOne
  <1> QED BY <1>1, <1>2, <1>3, <1>4 DEF Loop, Quiet, Steady, Ready

(* The writes of a command. *)
LEMMA WritesMade ==
    /\ \A old, tree : /\ Made(Checkout(old, tree), CommitOps)
                      /\ Made(Checkout(old, tree), MoveOps)
    /\ \A base, ours, theirs : Made(Conflict(base, ours, theirs), CommitOps)
    /\ \A parents, tree, carries : Made(Commit(head, parents, tree, carries), CommitOps)
    /\ \A file, to : StateOf(file, to) => /\ Made(Save(file, to), CommitOps)
                                          /\ Made(Save(file, to), MoveOps)
  <1>1. ASSUME NEW old, NEW tree
        PROVE  Made(Checkout(old, tree), CommitOps) /\ Made(Checkout(old, tree), MoveOps)
    <2>1. PICK t, u : t = [op |-> "files", old |-> old, tree |-> tree]
                      /\ u = [op |-> "index", index |-> tree]
      OBVIOUS
    <2>2. t.op = "files" /\ u.op = "index"
      BY <2>1
    <2>3. Ready(t) /\ Ready(u)
      BY <2>2 DEF Ready, Fit, Aborts
    <2>4. Made(<<t, u>>, CommitOps) /\ Made(<<t, u>>, MoveOps)
      BY <2>2, <2>3, PlanOfTwo DEF Made, CommitOps, MoveOps
    <2> QED BY <2>1, <2>4 DEF Checkout
  <1>2. ASSUME NEW base, NEW ours, NEW theirs
        PROVE  Made(Conflict(base, ours, theirs), CommitOps)
    <2>1. PICK t, u : t = [op |-> "write", tree |-> WrittenConflict(base, ours, theirs, work)]
                      /\ u = [op |-> "index", index |-> MergedIndex(base, ours, theirs)]
      OBVIOUS
    <2>2. t.op = "write" /\ u.op = "index"
      BY <2>1
    <2>3. Ready(t) /\ Ready(u)
      BY <2>2 DEF Ready, Fit, Aborts
    <2>4. Made(<<t, u>>, CommitOps)
      BY <2>2, <2>3, PlanOfTwo DEF Made, CommitOps
    <2> QED BY <2>1, <2>4 DEF Conflict
  <1>3. ASSUME NEW parents, NEW tree, NEW carries
        PROVE  Made(Commit(head, parents, tree, carries), CommitOps)
    <2>1. PICK new : new = [parents |-> parents, tree |-> tree, carries |-> carries]
      OBVIOUS
    <2>2. PICK t : t = [op |-> "commit", ref |-> head, old |-> refs[head], new |-> new]
      OBVIOUS
    <2>3. t.op = "commit" /\ t.ref = head
      BY <2>2
    <2>4. Ready(t)
      BY <2>3 DEF Ready, Fit, Aborts
    <2>5. Made(<<t>>, CommitOps)
      BY <2>3, <2>4, MadeOfOne DEF CommitOps
    <2> QED BY <2>1, <2>2, <2>5 DEF Commit
  <1>4. ASSUME NEW file, NEW to, StateOf(file, to)
        PROVE  Made(Save(file, to), CommitOps) /\ Made(Save(file, to), MoveOps)
    <2>1. PICK t : t = [op |-> "save", file |-> file, to |-> to]
      OBVIOUS
    <2>2. t.op = "save" /\ t.file = file /\ t.to = to
      BY <2>1
    <2>3. Ready(t)
      BY <1>4, <2>2 DEF Ready, Fit, Aborts
    <2>4. Made(<<t>>, CommitOps) /\ Made(<<t>>, MoveOps)
      BY <2>2, <2>3, MadeOfOne DEF CommitOps, MoveOps
    <2> QED BY <2>1, <2>4 DEF Save
  <1> QED BY <1>1, <1>2, <1>3, <1>4

(* A plan made of these keeps what the invariant says of plans. *)
LEMMA SteadyPlanned ==
    ASSUME AbortInv, UNCHANGED <<refs, head, files>>, Steady(plan')
    PROVE  StepsWritten' /\ StatesKept' /\ IsPlan(plan')
  <1>1. PICK p : p = plan'
    OBVIOUS
  <1>2. Steady(p)
    BY <1>1
  <1>3. \A i \in DOMAIN p : ~Leaving(p[i])
    BY <1>2 DEF Quiet, Steady, Ready, Fit, Leaving, Stays, Returns, Branches, Scratches
  <1>4. ASSUME NEW s, Kept(s)
        PROVE  Waits(s)'
    BY <1>1, <1>3, <1>4 DEF Kept, Waits, NoLeaving
  <1>5. StatesKept'
    <2>1. \A s : s.branch \in Branches /\ Waits(s) => Waits(s)'
      BY <1>4 DEF Waits, Kept
    <2> QED BY <2>1, StatesStay
  <1>6. ASSUME NEW i \in DOMAIN p
        PROVE  Written(p[i])'
    <2>1. PICK t : t = p[i]
      OBVIOUS
    <2>2. Fit(t)
      BY <1>2, <1>6, <2>1 DEF Quiet, Steady
    <2>3. t.op = "tx" => (Stays(t) \/ Returns(t) \/ Departs(t))'
      BY <2>2 DEF Ready, Fit, Stays, Returns
    <2>4. t.op = "save" => Saved(t)'
      BY <1>4, <2>2 DEF Ready, Fit, StateOf, Saved, OfRevert, OfBisect, OfRebase
    <2>5. t.op = "loop" => Looping(t.rest)'
      <3>1. PICK s : s = t.rest
        OBVIOUS
      <3>2. Loops(s) => Looping(s)'
        BY <1>4 DEF Loops, Looping, OfRevert, OfBisect, OfRebase, Bisecting
      <3> QED BY <2>2, <3>1, <3>2 DEF Ready, Fit
    <2>6. Written(t)'
      BY <2>2, <2>3, <2>4, <2>5 DEF Written, Ready, Fit
    <2> QED BY <2>1, <2>6
  <1>7. StepsWritten'
    <2>1. \A i \in DOMAIN plan' : Written(plan[i])'
      BY <1>1, <1>6
    <2>2. \A i \in DOMAIN plan' : ~Leaving(plan'[i])
      BY <1>1, <1>3
    <2>3. \A i, j \in DOMAIN plan' : plan'[i].op \in {"commit", "loop"} => plan'[j].op # "tx"
      BY DEF Quiet, Steady
    <2>4. \A i \in DOMAIN plan' : plan'[i].op = "loop" => i = Len(plan')
      BY DEF Quiet, Steady
    <2> QED BY <2>1, <2>2, <2>3, <2>4 DEF StepsWritten
  <1> QED BY <1>5, <1>7 DEF Steady

LEMMA QuietPlanned ==
    ASSUME AbortInv, UNCHANGED <<refs, head, files>>, Quiet(plan')
    PROVE  StepsWritten' /\ StatesKept' /\ AbortsWritten' /\ IsPlan(plan')
  <1>1. AbortsWritten'
    BY DEF Quiet, AbortsWritten, Aborts
  <1> QED BY <1>1, SteadyPlanned DEF Quiet

(* A command that begins, or an edit. *)
LEMMA QuietKeeps ==
    ASSUME AbortInv, UNCHANGED <<refs, head, files>>, Quiet(plan'),
           ghost'.ended = None, "ended" \in DOMAIN ghost'
    PROVE  AbortInv'
  <1>1. EndsLast' /\ AbortRestores'
    BY DEF EndsLast, AbortRestores
  <1>2. StepsWritten' /\ StatesKept' /\ AbortsWritten' /\ IsPlan(plan')
    BY QuietPlanned
  <1> QED BY <1>1, <1>2 DEF AbortInv, Placed, ScratchAtHead

LEMMA BeginKeeps ==
    ASSUME AbortInv, NEW name, NEW p, Quiet(p), Begin(name, p)
    PROVE  AbortInv'
  <1>1. ghost'.ended = None /\ "ended" \in DOMAIN ghost'
    BY DEF Begin, AbortInv, Placed
  <1> QED BY <1>1, QuietKeeps DEF Begin

LEMMA EditKeeps ==
    ASSUME AbortInv, NEW p, NEW c, Edit(p, c)
    PROVE  AbortInv'
  <1>1. ghost'.ended = None /\ "ended" \in DOMAIN ghost'
    BY DEF Edit, AbortInv, Placed
  <1>2. Quiet(<<>>)
    BY MadeOfNothing, MadeIsQuiet
  <1>3. plan' = <<>> /\ UNCHANGED <<refs, head, files>>
    BY DEF Edit
  <1> QED BY <1>1, <1>2, <1>3, QuietKeeps

LEMMA AddKeeps ==
    ASSUME AbortInv, (\E ps \in SUBSET Paths : Add(ps)) \/ AddAll
    PROVE  AbortInv'
  <1>1. ASSUME NEW ps, NEW i
        PROVE  Quiet(<<[op |-> "add", paths |-> ps, index |-> i]>>)
    <2>1. PICK t : t = [op |-> "add", paths |-> ps, index |-> i]
      OBVIOUS
    <2>2. t.op = "add" /\ Ready(t)
      BY <2>1 DEF Ready, Fit, Aborts
    <2>3. Made(<<t>>, CommitOps)
      BY <2>2, MadeOfOne DEF CommitOps
    <2> QED BY <2>1, <2>3, MadeIsQuiet
  <1>2. CASE AddAll
    BY <1>1, <1>2, BeginKeeps DEF AddAll
  <1>3. ASSUME NEW ps \in SUBSET Paths, Add(ps)
        PROVE  AbortInv'
    BY <1>1, <1>3, BeginKeeps DEF Add
  <1> QED BY <1>2, <1>3

LEMMA CommitStagedKeeps ==
    ASSUME AbortInv, CommitStaged
    PROVE  AbortInv'
  <1> DEFINE a == Commit(head, <<Tip>> \o (IF files.merge = 0 THEN <<>> ELSE <<files.merge>>),
                         Staged(index), Waiting(files.rebase))
             b == IF files.merge = 0 THEN <<>> ELSE Save("merge", 0)
             c == IF files.revert = None THEN <<>>
                  ELSE Save("revert", [files.revert EXCEPT !.current = 0])
             d == IF files.rebase = None THEN <<>>
                  ELSE Save("rebase", [files.rebase EXCEPT !.current = 0])
  <1>1. Made(a, CommitOps)
    BY WritesMade
  <1>2. Made(b, CommitOps)
    <2>1. StateOf("merge", 0)
      BY DEF StateOf, FileNames
    <2> QED BY <2>1, WritesMade, MadeOfNothing
  <1>3. Made(c, CommitOps)
    <2>1. CASE files.revert = None
      BY <2>1, MadeOfNothing
    <2>2. CASE files.revert # None
      <3>1. StateOf("revert", [files.revert EXCEPT !.current = 0])
        BY <2>2 DEF StateOf, FileNames, AbortInv, StatesKept, OfRevert
      <3> QED BY <2>2, <3>1, WritesMade
    <2> QED BY <2>1, <2>2
  <1>4. Made(d, CommitOps)
    <2>1. CASE files.rebase = None
      BY <2>1, MadeOfNothing
    <2>2. CASE files.rebase # None
      <3>1. StateOf("rebase", [files.rebase EXCEPT !.current = 0])
        BY <2>2 DEF StateOf, FileNames, AbortInv, StatesKept, OfRebase, Waits, Kept
      <3> QED BY <2>2, <3>1, WritesMade
    <2> QED BY <2>1, <2>2
  <1>5. Begin("commit", a \o b \o c \o d)
    BY DEF CommitStaged
  <1> HIDE DEF a, b, c, d
  <1>6. Quiet(a \o b \o c \o d)
    BY <1>1, <1>2, <1>3, <1>4, MadeConcat, MadeIsQuiet
  <1> QED BY <1>5, <1>6, BeginKeeps

(* A transaction on HEAD's own ref, and one that goes back from a scratch.  *)
LEMMA TxMade ==
    ASSUME AbortInv, NEW old, NEW new
    PROVE  Made(Tx({Move(head, old, new)}, head), MoveOps)
  <1>1. PICK m : m = {Move(head, old, new)}
    OBVIOUS
  <1>2. PICK t : t = [op |-> "tx", from |-> head, to |-> head, moves |-> m]
    OBVIOUS
  <1>3. t.op = "tx" /\ t.from = head /\ t.to = head /\ t.moves = m
    BY <1>2
  <1>4. Stays(t)
    BY <1>1, <1>3 DEF Stays, AbortInv, Placed
  <1>5. Ready(t)
    BY <1>3, <1>4 DEF Ready, Fit, Aborts
  <1>6. Made(<<t>>, MoveOps)
    BY <1>3, <1>5, MadeOfOne DEF MoveOps
  <1> QED BY <1>1, <1>2, <1>6 DEF Tx

LEMMA ReturnMade ==
    ASSUME NEW from \in Scratches, NEW to \in Branches, NEW old
    PROVE  Made(<<[op |-> "tx", from |-> from, to |-> to, moves |-> {Move(from, old, 0)}]>>, MoveOps)
  <1>1. PICK m : m = {Move(from, old, 0)}
    OBVIOUS
  <1>2. PICK t : t = [op |-> "tx", from |-> from, to |-> to, moves |-> m]
    OBVIOUS
  <1>3. t.op = "tx" /\ t.from = from /\ t.to = to /\ t.moves = m
    BY <1>2
  <1>4. Returns(t)
    BY <1>1, <1>3 DEF Returns
  <1>5. Ready(t)
    BY <1>3, <1>4 DEF Ready, Fit, Aborts
  <1>6. Made(<<t>>, MoveOps)
    BY <1>3, <1>5, MadeOfOne DEF MoveOps
  <1> QED BY <1>1, <1>2, <1>6

LEMMA MergeKeeps ==
    ASSUME AbortInv, NEW branch, Merge(branch)
    PROVE  AbortInv'
  <1> DEFINE theirs == refs[branch]
             bases == MergeBases(commits, {Tip}, {theirs})
             base == BaseTree(commits, bases)
             tree == MergedTree(base, HeadTree, TreeOf(commits, theirs))
             old == PathsIn(Staged(index))
             a == Checkout(old, TreeOf(commits, theirs)) \o Tx({Move(head, Tip, theirs)}, head)
             b == Conflict(base, HeadTree, TreeOf(commits, theirs)) \o Save("merge", theirs)
             c == Checkout(old, tree) \o Commit(head, <<Tip, theirs>>, tree, {})
  <1>1. Begin("merge", a) \/ Begin("merge", b) \/ Begin("merge", c)
    BY Zenon DEF Merge
  <1>2. Quiet(a)
    BY WritesMade, TxMade, MadeConcat, MadeIsQuiet
  <1>3. StateOf("merge", theirs)
    BY DEF StateOf, FileNames
  <1> HIDE DEF theirs, base, tree, old
  <1>4. Quiet(b)
    BY <1>3, WritesMade, MadeConcat, MadeIsQuiet
  <1>5. Quiet(c)
    BY WritesMade, MadeConcat, MadeIsQuiet
  <1> HIDE DEF a, b, c
  <1> QED BY <1>1, <1>2, <1>4, <1>5, BeginKeeps

LEMMA CherryPickKeeps ==
    ASSUME AbortInv, NEW d, CherryPick(d)
    PROVE  AbortInv'
  <1> DEFINE base == TreeOf(commits, commits[d].parents[1])
             theirs == TreeOf(commits, d)
             tree == MergedTree(base, HeadTree, theirs)
             a == Conflict(base, HeadTree, theirs)
             b == Checkout(PathsIn(Staged(index)), tree) \o Commit(head, <<Tip>>, tree, {})
  <1>1. Begin("pick", a) \/ Begin("pick", b)
    BY Zenon DEF CherryPick
  <1> HIDE DEF theirs, base, tree
  <1>2. Quiet(a)
    BY WritesMade, MadeIsQuiet
  <1>3. Quiet(b)
    BY WritesMade, MadeConcat, MadeIsQuiet
  <1> HIDE DEF a, b
  <1> QED BY <1>1, <1>2, <1>3, BeginKeeps

-----------------------------------------------------------------------------
(* Revert. *)

LEMMA RevertStartKeeps ==
    ASSUME AbortInv, NEW todo, RevertStart(todo)
    PROVE  AbortInv'
  <1>1. Loops(RevertState(0, todo, Tip))
    BY DEF Loops, OfRevert, RevertState
  <1> QED BY <1>1, LoopIsQuiet, BeginKeeps DEF RevertStart

LEMMA RevertContinueKeeps ==
    ASSUME AbortInv, RevertContinue
    PROVE  AbortInv'
  <1>1. PICK s : s = files.revert
    OBVIOUS
  <1>2. Loops(s)
    BY <1>1 DEF RevertContinue, AbortInv, StatesKept, Loops
  <1>3. Quiet(Loop(s)) /\ Quiet(Commit(head, <<Tip>>, Staged(index), {}) \o Loop(s))
    BY <1>2, LoopIsQuiet, MadeLoops, WritesMade
  <1>4. \/ Begin("revert", Loop(s))
        \/ Begin("revert", Commit(head, <<Tip>>, Staged(index), {}) \o Loop(s))
    BY <1>1 DEF RevertContinue
  <1> QED BY <1>3, <1>4, BeginKeeps

LEMMA RevertRoundQuiet ==
    ASSUME AbortInv, NEW s, OfRevert(s)
    PROVE  Quiet(RevertRound(s))
  <1> DEFINE c == Head(s.todo)
             from == TreeOf(commits, c)
             to == RevertedFrom(c)
             tree == MergedTree(from, HeadTree, to)
             rest == RevertState(0, Tail(s.todo), s.orig)
             left == RevertState(c, Tail(s.todo), s.orig)
             p1 == Save("revert", None)
             p2 == Conflict(from, HeadTree, to) \o Save("revert", left)
             p3 == Checkout(PathsIn(Staged(index)), tree) \o <<>>
             p4 == Checkout(PathsIn(Staged(index)), tree)
                   \o (Commit(head, <<Tip>>, tree, {}) \o Loop(rest))
  <1>1. RevertRound(s) \in {<<>>, p1, p2, p3, p4}
    BY DEF RevertRound
  <1>2. Loops(rest) /\ StateOf("revert", None) /\ StateOf("revert", left)
    BY DEF Loops, OfRevert, RevertState, StateOf, FileNames
  <1> HIDE DEF c, from, to, tree, rest, left
  <1>3. Quiet(<<>>) /\ Quiet(p1) /\ Quiet(p2) /\ Quiet(p3)
    BY <1>2, WritesMade, MadeOfNothing, MadeConcat, MadeIsQuiet
  <1>4. Quiet(p4)
    <2>1. /\ Made(Checkout(PathsIn(Staged(index)), tree), CommitOps)
          /\ Made(Commit(head, <<Tip>>, tree, {}), CommitOps)
      BY WritesMade
    <2>2. IsPlan(Loop(rest))
      BY <1>2, LoopIsQuiet DEF Quiet, Steady
    <2>3. p4 = (Checkout(PathsIn(Staged(index)), tree) \o Commit(head, <<Tip>>, tree, {})) \o Loop(rest)
      BY <2>1, <2>2, PlanConcatAssociative DEF Made
    <2> QED BY <1>2, <2>1, <2>3, MadeConcat, MadeLoops
  <1> QED BY <1>1, <1>3, <1>4

-----------------------------------------------------------------------------
(* Aborts. *)

(* The five or four steps of an abort, in a plan of their own. *)
LEMMA AbortKeeps ==
    ASSUME AbortInv, UNCHANGED <<commits, refs, head, index, work, files>>,
           ghost'.ended = None, "ended" \in DOMAIN ghost',
           NEW e, NEW a, NEW b, NEW t, NEW s, NEW z,
           a.op = "files", BringsBack(a, e), b.op = "index", b.index = TreeOf(commits, e.at),
           s.op = "save", StateOf(s.file, s.to), z.op = "end", z.how = e,
           \/ plan' = FourPut(a, b, s, z) /\ Back(e)
           \/ /\ plan' = FivePut(a, b, t, s, z)
              /\ t.op = "tx" /\ GoesBack(t, e) /\ (Stays(t) \/ Returns(t))
    PROVE  AbortInv'
  <1>1. EndsLast' /\ AbortRestores'
    BY DEF EndsLast, AbortRestores
  <1>2. Fit(a) /\ Fit(b) /\ Fit(s) /\ Fit(z)
    BY DEF Fit
  <1>3. CASE plan' = FourPut(a, b, s, z) /\ Back(e)
    <2>1. PICK p : p = Four(a, b, s, z)
      OBVIOUS
    <2>2. IsPlan(p)
      BY <2>1, AbortWithoutTx
    <2>3. /\ Len(p) = 4
          /\ \A i \in DOMAIN p : \/ i = 1 /\ p[i] = a
                                 \/ i = 2 /\ p[i] = b
                                 \/ i = 3 /\ p[i] = s
                                 \/ i = 4 /\ p[i] = z
      BY <2>1 DEF Four
    <2>4. 1 \in DOMAIN p /\ 2 \in DOMAIN p /\ p[1] = a /\ p[2] = b
      BY <2>1 DEF Four
    <2>5. plan' = p
      BY <1>3, <2>1, AbortWithoutTx
    <2>6. Steady(p)
      BY <1>2, <2>2, <2>3 DEF Steady
    <2>7. StepsWritten' /\ StatesKept' /\ IsPlan(plan')
      BY <2>5, <2>6, SteadyPlanned
    <2>8. AbortLeft(e)'
      <3>1. \A i \in DOMAIN p : p[i].op \in {"files", "index", "tx", "save", "end"}
        BY <2>3
      <3>2. \A i, j \in DOMAIN p : p[i].op = p[j].op => i = j
        BY <2>3
      <3>3. \A i \in DOMAIN p : p[i].op = "end" => i = Len(p)
        BY <2>3
      <3>4. \A i \in DOMAIN p : /\ p[i].op = "files" => BringsBack(p[i], e)
                                /\ p[i].op = "index" => p[i].index = TreeOf(commits, e.at)
                                /\ p[i].op # "tx"
        BY <2>3
      <3>5. Has("files")' /\ Has("index")'
        BY <2>4, <2>5 DEF Has
      <3> QED BY <1>3, <2>5, <3>1, <3>2, <3>3, <3>4, <3>5 DEF AbortLeft, BringsBack, Back
    <2>9. AbortsWritten'
      <3>1. \A i \in DOMAIN p : Aborts(p[i]) => p[i].how = e
        BY <2>3 DEF Aborts
      <3> QED BY <2>5, <2>8, <3>1 DEF AbortsWritten, Aborts
    <2> QED BY <1>1, <2>7, <2>9 DEF AbortInv, Placed, ScratchAtHead
  <1>4. CASE /\ plan' = FivePut(a, b, t, s, z)
             /\ t.op = "tx" /\ GoesBack(t, e) /\ (Stays(t) \/ Returns(t))
    <2>0. Fit(t)
      BY <1>4 DEF Fit
    <2>1. PICK p : p = Five(a, b, t, s, z)
      OBVIOUS
    <2>2. IsPlan(p)
      BY <2>1, AbortWithTx
    <2>3. /\ Len(p) = 5
          /\ \A i \in DOMAIN p : \/ i = 1 /\ p[i] = a
                                 \/ i = 2 /\ p[i] = b
                                 \/ i = 3 /\ p[i] = t
                                 \/ i = 4 /\ p[i] = s
                                 \/ i = 5 /\ p[i] = z
      BY <2>1 DEF Five
    <2>4. /\ 1 \in DOMAIN p /\ 2 \in DOMAIN p /\ 3 \in DOMAIN p
          /\ p[1] = a /\ p[2] = b /\ p[3] = t
      BY <2>1 DEF Five
    <2>5. plan' = p
      BY <1>4, <2>1, AbortWithTx
    <2>6. Steady(p)
      BY <1>2, <1>4, <2>0, <2>2, <2>3 DEF Steady
    <2>7. StepsWritten' /\ StatesKept' /\ IsPlan(plan')
      BY <2>5, <2>6, SteadyPlanned
    <2>8. AbortLeft(e)'
      <3>1. \A i \in DOMAIN p : p[i].op \in {"files", "index", "tx", "save", "end"}
        BY <1>4, <2>3
      <3>2. \A i, j \in DOMAIN p : p[i].op = p[j].op => i = j
        BY <1>4, <2>3
      <3>3. \A i \in DOMAIN p : p[i].op = "end" => i = Len(p)
        BY <1>4, <2>3
      <3>4. \A i \in DOMAIN p : /\ p[i].op = "files" => BringsBack(p[i], e)
                                /\ p[i].op = "index" => p[i].index = TreeOf(commits, e.at)
                                /\ p[i].op = "tx" => GoesBack(p[i], e)
        BY <1>4, <2>3
      <3>5. Has("files")' /\ Has("index")' /\ Has("tx")'
        BY <1>4, <2>4, <2>5 DEF Has
      <3>6. \A u : (GoesBack(u, e) => GoesBack(u, e)') /\ (BringsBack(u, e) => BringsBack(u, e)')
        BY DEF GoesBack, Move, BringsBack
      <3>7. \A i \in DOMAIN p : /\ p[i].op = "files" => BringsBack(p[i], e)'
                                /\ p[i].op = "index" => p[i].index = TreeOf(commits, e.at)'
                                /\ p[i].op = "tx" => GoesBack(p[i], e)'
        BY <3>4, <3>6
      <3>8. \A i \in DOMAIN plan' : /\ plan'[i].op = "files" => BringsBack(plan[i], e)'
                                    /\ plan'[i].op = "index" => plan'[i].index = TreeOf(commits, e.at)'
                                    /\ plan'[i].op = "tx" => GoesBack(plan[i], e)'
        BY <2>5, <3>7
      <3>9. /\ \A i \in DOMAIN plan' : plan'[i].op \in {"files", "index", "tx", "save", "end"}
            /\ \A i, j \in DOMAIN plan' : plan'[i].op = plan'[j].op => i = j
            /\ \A i \in DOMAIN plan' : plan'[i].op = "end" => i = Len(plan')
        BY <2>5, <3>1, <3>2, <3>3
      <3> QED BY <3>5, <3>8, <3>9 DEF AbortLeft
    <2>9. AbortsWritten'
      <3>1. \A i \in DOMAIN p : Aborts(p[i]) => p[i].how = e
        BY <1>4, <2>3 DEF Aborts
      <3> QED BY <2>5, <2>8, <3>1 DEF AbortsWritten, Aborts
    <2> QED BY <1>1, <2>7, <2>9 DEF AbortInv, Placed, ScratchAtHead
  <1> QED BY <1>3, <1>4

LEMMA RevertAbortKeeps ==
    ASSUME AbortInv, RevertAbort
    PROVE  AbortInv'
  <1> DEFINE o == files.revert.orig
             e == [branch |-> head, at |-> o, loose |-> NeverAdded]
             a == [op |-> "files", old |-> Known(index), tree |-> TreeOf(commits, o)]
             b == [op |-> "index", index |-> TreeOf(commits, o)]
             m == {Move(head, Tip, o)}
             t == [op |-> "tx", from |-> head, to |-> head, moves |-> m]
             s == [op |-> "save", file |-> "revert", to |-> None]
             z == [op |-> "end", how |-> e]
  <1>1. /\ UNCHANGED <<commits, refs, head, index, work, files>>
        /\ ghost'.ended = None /\ "ended" \in DOMAIN ghost'
    BY DEF RevertAbort, Begin, AbortInv, Placed
  <1>2. plan' = <<a, b>> \o (IF Tip = o THEN <<>> ELSE <<t>>) \o <<s>> \o <<z>>
    BY DEF RevertAbort, Begin, Checkout, Tx, Save, Restored, End
  <1>3. /\ a.op = "files" /\ a.tree = TreeOf(commits, o) /\ a.old = Known(index)
        /\ b.op = "index" /\ b.index = TreeOf(commits, o)
        /\ t.op = "tx" /\ t.from = head /\ t.to = head /\ t.moves = m
        /\ s.op = "save" /\ s.file = "revert" /\ s.to = None
        /\ z.op = "end" /\ z.how = e
        /\ e.branch = head /\ e.at = o /\ e.loose = NeverAdded /\ "at" \in DOMAIN e
    OBVIOUS
  <1> HIDE DEF a, b, t, s, z, e
  <1>4. BringsBack(a, e)
    BY <1>3 DEF BringsBack, Known, NeverAdded, PathsIn
  <1>5. StateOf(s.file, s.to)
    BY <1>3 DEF StateOf, FileNames
  <1>6. GoesBack(t, e) /\ Stays(t)
    BY <1>3 DEF GoesBack, Stays, AbortInv, Placed
  <1>7. Tip = o => Back(e)
    BY <1>3 DEF Back, Tip
  <1>8. (plan' = FourPut(a, b, s, z) /\ Tip = o) \/ plan' = FivePut(a, b, t, s, z)
    BY <1>2 DEF FivePut, FourPut
  <1> QED BY <1>1, <1>3, <1>4, <1>5, <1>6, <1>7, <1>8, AbortKeeps

LEMMA RebaseAbortKeeps ==
    ASSUME AbortInv, RebaseAbort
    PROVE  AbortInv'
  <1> DEFINE o == files.rebase.orig
             h == files.rebase.branch
             e == [branch |-> h, at |-> o, loose |-> NeverAdded]
             a == [op |-> "files", old |-> Known(index), tree |-> TreeOf(commits, o)]
             b == [op |-> "index", index |-> TreeOf(commits, o)]
             m == {Move("scratch", refs["scratch"], 0)}
             t == [op |-> "tx", from |-> "scratch", to |-> h, moves |-> m]
             s == [op |-> "save", file |-> "rebase", to |-> None]
             z == [op |-> "end", how |-> e]
  <1>1. /\ UNCHANGED <<commits, refs, head, index, work, files>>
        /\ ghost'.ended = None /\ "ended" \in DOMAIN ghost'
    BY DEF RebaseAbort, Begin, AbortInv, Placed
  <1>2. plan' = <<a, b>> \o <<t>> \o <<s>> \o <<z>>
    BY DEF RebaseAbort, Begin, Checkout, LeaveScratch, Save, Restored, End
  <1>3. /\ a.op = "files" /\ a.tree = TreeOf(commits, o) /\ a.old = Known(index)
        /\ b.op = "index" /\ b.index = TreeOf(commits, o)
        /\ t.op = "tx" /\ t.from = "scratch" /\ t.to = h /\ t.moves = m
        /\ s.op = "save" /\ s.file = "rebase" /\ s.to = None
        /\ z.op = "end" /\ z.how = e
        /\ e.branch = h /\ e.at = o /\ e.loose = NeverAdded /\ "at" \in DOMAIN e
    OBVIOUS
  <1> HIDE DEF a, b, t, s, z, e
  <1>4. BringsBack(a, e)
    BY <1>3 DEF BringsBack, Known, NeverAdded, PathsIn
  <1>5. StateOf(s.file, s.to)
    BY <1>3 DEF StateOf, FileNames
  <1>6. h \in Branches /\ (head = "scratch" => refs[h] = o)
    BY DEF RebaseAbort, AbortInv, StatesKept, OfRebase, Waits, Branches
  <1>7. Returns(t)
    BY <1>3, <1>6 DEF Returns, Scratches
  <1>8. GoesBack(t, e)
    <2>1. h # "scratch"
      BY <1>6 DEF Branches
    <2>2. \A n \in m : n.ref = "scratch"
      BY DEF Move
    <2> QED BY <1>3, <1>6, <2>1, <2>2 DEF GoesBack
  <1>9. plan' = FivePut(a, b, t, s, z)
    BY <1>2 DEF FivePut
  <1> QED BY <1>1, <1>3, <1>4, <1>5, <1>7, <1>8, <1>9, AbortKeeps

LEMMA BisectResetKeeps ==
    ASSUME AbortInv, BisectReset
    PROVE  AbortInv'
  <1> DEFINE h == files.bisect.branch
             o == refs[h]
             at == refs["bisect"]
             e == [branch |-> h, at |-> o, loose |-> Untracked(index, work)]
             a == [op |-> "files", old |-> PathsIn(TreeOf(commits, at)), tree |-> TreeOf(commits, o)]
             b == [op |-> "index", index |-> TreeOf(commits, o)]
             m == {Move("bisect", at, 0)}
             t == [op |-> "tx", from |-> "bisect", to |-> h, moves |-> m]
             s == [op |-> "save", file |-> "bisect", to |-> None]
             z == [op |-> "end", how |-> e]
  <1>1. /\ UNCHANGED <<commits, refs, head, index, work, files>>
        /\ ghost'.ended = None /\ "ended" \in DOMAIN ghost'
    BY DEF BisectReset, Begin, AbortInv, Placed
  <1>2. plan' = <<a, b>> \o <<t>> \o <<s>> \o <<z>>
    BY DEF BisectReset, Begin, Checkout, Save, Restored, End
  <1>3. /\ a.op = "files" /\ a.tree = TreeOf(commits, o) /\ a.old = PathsIn(TreeOf(commits, at))
        /\ b.op = "index" /\ b.index = TreeOf(commits, o)
        /\ t.op = "tx" /\ t.from = "bisect" /\ t.to = h /\ t.moves = m
        /\ s.op = "save" /\ s.file = "bisect" /\ s.to = None
        /\ z.op = "end" /\ z.how = e
        /\ e.branch = h /\ e.at = o /\ e.loose = Untracked(index, work) /\ "at" \in DOMAIN e
    OBVIOUS
  <1> HIDE DEF a, b, t, s, z, e
  <1>4. BringsBack(a, e)
    <2>1. head = "bisect" /\ Clean
      BY DEF BisectReset, AbortInv, ScratchAtHead, Scratches
    <2>2. PathsIn(TreeOf(commits, at)) = PathsIn(Staged(index))
      BY <2>1 DEF Clean, IsClean, StagedChanges, PathsIn, HeadTree, Tip
    <2> QED BY <1>3, <2>2 DEF BringsBack, Untracked, PathsIn
  <1>5. StateOf(s.file, s.to)
    BY <1>3 DEF StateOf, FileNames
  <1>6. h \in Branches
    BY DEF BisectReset, AbortInv, StatesKept, OfBisect
  <1>7. Returns(t)
    BY <1>3, <1>6 DEF Returns, Scratches
  <1>8. GoesBack(t, e)
    <2>1. h # "bisect"
      BY <1>6 DEF Branches
    <2>2. \A n \in m : n.ref = "bisect"
      BY DEF Move
    <2> QED BY <1>3, <1>6, <2>1, <2>2 DEF GoesBack
  <1>9. plan' = FivePut(a, b, t, s, z)
    BY <1>2 DEF FivePut
  <1> QED BY <1>1, <1>3, <1>4, <1>5, <1>7, <1>8, <1>9, AbortKeeps

-----------------------------------------------------------------------------
(* Rebase. *)

(* A rebase in progress commits where HEAD is. *)
LEMMA ApplyMade ==
    ASSUME AbortInv, refs["scratch"] # 0, NEW action, NEW c, NEW tree
    PROVE  Made(Apply(action, c, tree), CommitOps)
  <1>1. head = "scratch"
    BY DEF AbortInv, ScratchAtHead, Scratches
  <1>2. \A parents, carries : Made(Commit("scratch", parents, tree, carries), CommitOps)
    BY <1>1, WritesMade
  <1> QED BY <1>2 DEF Apply

(* The state of a rebase in progress, and the ones it goes on with. *)
LEMMA RebaseGoesOn ==
    ASSUME NEW s, OfRebase(s), Kept(s)
    PROVE  /\ Loops(s) /\ StateOf("rebase", s) /\ StateOf("rebase", None)
           /\ \A n : /\ OfRebase([s EXCEPT !.current = n]) /\ Kept([s EXCEPT !.current = n])
                    /\ OfRebase([s EXCEPT !.todo = n]) /\ Kept([s EXCEPT !.todo = n])
           /\ \A n, m, a : LET t == [[s EXCEPT !.todo = n] EXCEPT !.current = m, !.action = a]
                          IN StateOf("rebase", t)
  <1>1. ASSUME NEW t, DOMAIN t = DOMAIN s, t.branch = s.branch, t.orig = s.orig
        PROVE  OfRebase(t) /\ Kept(t)
    BY <1>1 DEF OfRebase, Kept
  <1>2. \A t : OfRebase(t) /\ Kept(t) => StateOf("rebase", t)
    BY DEF StateOf, FileNames
  <1>3. ASSUME NEW n
        PROVE  /\ OfRebase([s EXCEPT !.current = n]) /\ Kept([s EXCEPT !.current = n])
               /\ OfRebase([s EXCEPT !.todo = n]) /\ Kept([s EXCEPT !.todo = n])
    <2>1. PICK t : t = [s EXCEPT !.current = n]
      OBVIOUS
    <2>2. PICK u : u = [s EXCEPT !.todo = n]
      OBVIOUS
    <2>3. DOMAIN t = DOMAIN s /\ t.branch = s.branch /\ t.orig = s.orig
      BY <2>1 DEF OfRebase
    <2>4. DOMAIN u = DOMAIN s /\ u.branch = s.branch /\ u.orig = s.orig
      BY <2>2 DEF OfRebase
    <2> QED BY <1>1, <2>1, <2>2, <2>3, <2>4
  <1>4. ASSUME NEW n, NEW m, NEW a
        PROVE  StateOf("rebase", [[s EXCEPT !.todo = n] EXCEPT !.current = m, !.action = a])
    <2>1. PICK t : t = [[s EXCEPT !.todo = n] EXCEPT !.current = m, !.action = a]
      OBVIOUS
    <2>2. DOMAIN t = DOMAIN s /\ t.branch = s.branch /\ t.orig = s.orig
      BY <2>1 DEF OfRebase
    <2>3. StateOf("rebase", t)
      BY <1>1, <1>2, <2>2
    <2> QED BY <2>1, <2>3
  <1>5. StateOf("rebase", None) /\ Loops(s)
    BY DEF StateOf, FileNames, Loops
  <1> QED BY <1>2, <1>3, <1>4, <1>5

LEMMA RebaseContinueKeeps ==
    ASSUME AbortInv, RebaseContinue
    PROVE  AbortInv'
  <1>1. PICK s : s = files.rebase
    OBVIOUS
  <1>2. PICK done : done = [s EXCEPT !.current = 0]
    OBVIOUS
  <1>3. OfRebase(s) /\ Kept(s)
    BY <1>1 DEF RebaseContinue, AbortInv, StatesKept, Waits, Kept
  <1>4. OfRebase(done) /\ Kept(done)
    BY <1>2, <1>3, RebaseGoesOn
  <1>5. PICK a : a = Apply(s.action, s.current, Staged(index))
    OBVIOUS
  <1>6. Made(a, CommitOps)
    BY <1>5, ApplyMade DEF RebaseContinue
  <1>7. Loops(s) /\ Loops(done) /\ StateOf("rebase", done)
    BY <1>3, <1>4, RebaseGoesOn
  <1>8. Quiet(Loop(s)) /\ Quiet(a \o Save("rebase", done) \o Loop(done))
    BY <1>6, <1>7, LoopIsQuiet, WritesMade, MadeConcat, MadeLoops
  <1>9. \/ Begin("rebase", Loop(s))
        \/ Begin("rebase", a \o Save("rebase", done) \o Loop(done))
    BY <1>1, <1>2, <1>5 DEF RebaseContinue
  <1> QED BY <1>8, <1>9, BeginKeeps

LEMMA RebaseSkipKeeps ==
    ASSUME AbortInv, RebaseSkip
    PROVE  AbortInv'
  <1>1. PICK s : s = files.rebase
    OBVIOUS
  <1>2. PICK done : done = [s EXCEPT !.current = 0]
    OBVIOUS
  <1>3. OfRebase(s) /\ Kept(s)
    BY <1>1 DEF RebaseSkip, AbortInv, StatesKept, Waits, Kept
  <1>4. OfRebase(done) /\ Kept(done)
    BY <1>2, <1>3, RebaseGoesOn
  <1>5. Loops(done) /\ StateOf("rebase", done)
    BY <1>4, RebaseGoesOn
  <1>6. PICK p : p = Checkout(Known(index), TreeOf(commits, refs["scratch"]))
                     \o Save("rebase", done) \o Loop(done)
    OBVIOUS
  <1>7. Quiet(p)
    BY <1>5, <1>6, WritesMade, MadeConcat, MadeLoops
  <1>8. plan' = p /\ UNCHANGED <<refs, head, files>>
    BY <1>1, <1>2, <1>6 DEF RebaseSkip
  <1>9. ghost'.ended = None /\ "ended" \in DOMAIN ghost'
    BY DEF RebaseSkip, AbortInv, Placed
  <1> QED BY <1>7, <1>8, <1>9, QuietKeeps

LEMMA RebaseRoundQuiet ==
    ASSUME AbortInv, NEW s, OfRebase(s), Kept(s)
    PROVE  Quiet(RebaseRound(s))
  <1> DEFINE at == refs["scratch"]
             step == Head(s.todo)
             c == step.commit
             base == RevertedFrom(c)
             tree == MergedTree(base, TreeOf(commits, at), TreeOf(commits, c))
             rest == [s EXCEPT !.todo = Tail(s.todo)]
             left == [rest EXCEPT !.current = c, !.action = step.action]
             moves == {Move(s.branch, s.orig, at)}
             tx == [op |-> "tx", from |-> s.branch, to |-> s.branch, moves |-> moves]
             leave == LeaveScratch(s.branch)
             p1 == Save("rebase", rest) \o Loop(rest)
             p2 == leave \o <<>> \o Save("rebase", None)
             p3 == leave \o <<tx>> \o Save("rebase", None)
             p4 == Conflict(base, TreeOf(commits, at), TreeOf(commits, c)) \o Save("rebase", left)
             p5 == Checkout(PathsIn(Staged(index)), tree) \o <<>> \o Save("rebase", rest) \o Loop(rest)
             p6 == Checkout(PathsIn(Staged(index)), tree) \o Apply(step.action, c, tree)
                   \o Save("rebase", rest) \o Loop(rest)
  <1>1. \/ RebaseRound(s) \in {<<>>, p1, p2, p3, p4, p5}
        \/ RebaseRound(s) = p6 /\ at # 0
    BY DEF RebaseRound
  <1>2. Loops(rest) /\ StateOf("rebase", rest) /\ StateOf("rebase", left) /\ StateOf("rebase", None)
    <2>1. OfRebase(rest) /\ Kept(rest)
      BY RebaseGoesOn
    <2>2. StateOf("rebase", left)
      BY RebaseGoesOn
    <2> QED BY <2>1, <2>2, RebaseGoesOn
  <1>3. Made(leave, MoveOps)
    BY ReturnMade DEF LeaveScratch, Scratches, OfRebase
  <1>4. Made(<<tx>>, MoveOps)
    <2>1. tx.op = "tx" /\ tx.from = s.branch /\ tx.to = s.branch /\ tx.moves = moves
      OBVIOUS
    <2> HIDE DEF tx
    <2>2. Stays(tx)
      BY <2>1 DEF Stays, OfRebase, Branches, Refs
    <2>3. Ready(tx)
      BY <2>1, <2>2 DEF Ready, Fit, Aborts
    <2> QED BY <2>1, <2>3, MadeOfOne DEF MoveOps
  <1> HIDE DEF step, c, base, tree, rest, left, tx, leave
  <1>5. Quiet(<<>>) /\ Quiet(p1)
    BY <1>2, WritesMade, MadeOfNothing, MadeIsQuiet, MadeLoops
  <1>6. Quiet(p2) /\ Quiet(p3)
    BY <1>2, <1>3, <1>4, WritesMade, MadeOfNothing, MadeConcat, MadeIsQuiet
  <1>7. Quiet(p4)
    BY <1>2, WritesMade, MadeConcat, MadeIsQuiet
  <1>8. Quiet(p5)
    BY <1>2, WritesMade, MadeOfNothing, MadeConcat, MadeLoops
  <1>9. at # 0 => Quiet(p6)
    BY <1>2, ApplyMade, WritesMade, MadeConcat, MadeLoops
  <1> HIDE DEF p1, p2, p3, p4, p5, p6
  <1> QED BY <1>1, <1>5, <1>6, <1>7, <1>8, <1>9

-----------------------------------------------------------------------------
(* Bisect, and the rounds of all three loops. *)

LEMMA BisectMarkKeeps ==
    ASSUME AbortInv, NEW verdict, BisectMark(verdict)
    PROVE  AbortInv'
  <1> DEFINE at == refs["bisect"]
             s == [files.bisect EXCEPT
                      !.bad = IF verdict = "bad" THEN at ELSE @,
                      !.good = IF verdict = "good" THEN @ \cup {at} ELSE @,
                      !.skip = IF verdict = "skip" THEN @ \cup {at} ELSE @]
  <1>1. head = "bisect" /\ files.bisect # None
    BY DEF BisectMark, AbortInv, ScratchAtHead, Scratches
  <1>2. OfBisect(files.bisect)
    BY <1>1 DEF AbortInv, StatesKept
  <1>3. OfBisect(s)
    BY <1>2 DEF OfBisect
  <1>4. Begin("bisect", Save("bisect", s) \o Loop(s))
    BY DEF BisectMark
  <1> HIDE DEF s
  <1>5. Loops(s) /\ StateOf("bisect", s)
    BY <1>1, <1>3 DEF Loops, StateOf, FileNames
  <1>6. Quiet(Save("bisect", s) \o Loop(s))
    BY <1>5, WritesMade, MadeLoops
  <1> QED BY <1>4, <1>6, BeginKeeps

LEMMA BisectRoundQuiet ==
    ASSUME AbortInv, NEW s, head = "bisect"
    PROVE  Quiet(BisectRound(s))
  <1>1. ASSUME NEW n
        PROVE  Quiet(End([found |-> n]))
    <2>1. PICK h : h = [found |-> n]
      OBVIOUS
    <2>2. PICK t : t = [op |-> "end", how |-> h]
      OBVIOUS
    <2>3. t.op = "end" /\ t.how = h /\ "at" \notin DOMAIN h
      BY <2>1, <2>2
    <2>4. Ready(t)
      BY <2>3 DEF Ready, Fit, Aborts
    <2>5. Made(<<t>>, MoveOps)
      BY <2>3, <2>4, MadeOfOne DEF MoveOps
    <2> QED BY <2>1, <2>2, <2>5, MadeIsQuiet DEF End
  <1> DEFINE c == ToTest(s)
             a == Checkout(PathsIn(HeadTree), TreeOf(commits, c))
             b == Tx({Move("bisect", refs["bisect"], c)}, head)
  <1>2. BisectRound(s) \in {<<>>, End([found |-> s.bad]), End([found |-> 0]), a \o b}
    BY DEF BisectRound
  <1>3. Made(b, MoveOps)
    BY TxMade
  <1> HIDE DEF c, b
  <1>4. Quiet(a \o b) /\ Quiet(<<>>)
    BY <1>3, WritesMade, MadeConcat, MadeIsQuiet, MadeOfNothing
  <1> QED BY <1>1, <1>2, <1>4

LEMMA StepLoopKeeps ==
    ASSUME AbortInv, StepLoop
    PROVE  AbortInv'
  <1>1. plan # <<>> /\ Head(plan) = plan[1] /\ plan[1].op = "loop" /\ 1 \in DOMAIN plan
    BY PlanTail DEF StepLoop, Step, AbortInv, Placed
  <1>2. PICK s : s = plan[1].rest
    OBVIOUS
  <1>3. Looping(s)
    BY <1>1, <1>2 DEF AbortInv, StepsWritten, Written
  <1>4. UNCHANGED <<commits, refs, head, index, work, files>>
    BY DEF StepLoop
  <1>5. plan' = IF "onto" \in DOMAIN s THEN RebaseRound(s)
                ELSE IF "bad" \in DOMAIN s THEN BisectRound(s) ELSE RevertRound(s)
    BY <1>1, <1>2 DEF StepLoop
  <1>6. Quiet(plan')
    <2>1. CASE OfRevert(s)
      BY <1>5, <2>1, RevertRoundQuiet DEF OfRevert
    <2>2. CASE OfRebase(s) /\ Waits(s)
      BY <1>5, <2>2, RebaseRoundQuiet DEF OfRebase, Waits, Kept
    <2>3. CASE OfBisect(s) /\ Bisecting
      BY <1>1, <1>5, <2>3, BisectRoundQuiet DEF OfBisect, Bisecting
    <2> QED BY <1>3, <2>1, <2>2, <2>3 DEF Looping
  <1>7. ghost'.ended = ghost.ended /\ DOMAIN ghost' = DOMAIN ghost
    BY DEF StepLoop, AbortInv, Placed
  <1>8. StepsWritten' /\ StatesKept' /\ AbortsWritten' /\ IsPlan(plan')
    BY <1>4, <1>6, QuietPlanned
  <1>9. EndsLast' /\ AbortRestores'
    BY <1>1, <1>7, NotEnded
  <1> QED BY <1>4, <1>7, <1>8, <1>9 DEF AbortInv, Placed, ScratchAtHead

-----------------------------------------------------------------------------
(* Commands that leave the branch for a scratch ref. *)

(* The steps between the transaction and the loop. *)
Opening(t, branch) ==
    \/ t.op \in {"files", "index"}
    \/ /\ t.op = "save" /\ t.file \in {"rebase", "bisect"}
       /\ t.file = "rebase" => OfRebase(t.to) /\ refs[t.to.branch] = t.to.orig
       /\ t.file = "bisect" => OfBisect(t.to)

(* Leaving is the first step, and nothing else is in progress. *)
LEMMA DepartKeeps ==
    ASSUME AbortInv, UNCHANGED <<refs, head, files>>,
           ghost'.ended = None, "ended" \in DOMAIN ghost',
           NothingInProgress, NEW t, t.op = "tx", Departs(t), t.from = head,
           NEW q, IsPlan(q), \A i \in DOMAIN q : Opening(q[i], head),
           NEW s, \/ OfRebase(s) /\ refs[s.branch] = s.orig
                  \/ OfBisect(s) /\ t.to = "bisect",
           plan' = <<t>> \o (q \o Loop(s))
    PROVE  AbortInv'
  <1>1. EndsLast' /\ AbortRestores'
    BY DEF EndsLast, AbortRestores
  <1>2. PICK z : z = [op |-> "loop", rest |-> s]
    OBVIOUS
  <1>3. z.op = "loop" /\ z.rest = s
    BY <1>2
  <1>4. PICK l : l = <<z>>
    OBVIOUS
  <1>5. IsPlan(l) /\ Len(l) = 1 /\ \A i \in DOMAIN l : i = 1 /\ l[i] = z
    BY <1>4, PlanOfOne
  <1>6. PICK k : k = <<t>>
    OBVIOUS
  <1>7. /\ IsPlan(k) /\ Len(k) = 1 /\ 1 \in DOMAIN k /\ k[1] = t
        /\ \A i \in DOMAIN k : i = 1 /\ k[i] = t
    BY <1>6, PlanOfOne
  <1>8. PICK r : r = q \o l
    OBVIOUS
  <1>9. /\ IsPlan(r) /\ Len(r) = Len(q) + 1
        /\ \A i \in DOMAIN r : \/ i \in DOMAIN q /\ r[i] = q[i]
                               \/ i - Len(q) \in DOMAIN l /\ r[i] = l[i - Len(q)]
    BY <1>5, <1>8, PlanConcat
  <1>10. Len(q) \in Nat /\ DOMAIN r = 1..Len(r)
    BY <1>9, PlanDomain
  <1>11. ASSUME NEW i \in DOMAIN r
         PROVE  Opening(r[i], head) \/ (r[i] = z /\ i = Len(r))
    <2>1. CASE i \in DOMAIN q /\ r[i] = q[i]
      BY <2>1
    <2>2. CASE i - Len(q) \in DOMAIN l /\ r[i] = l[i - Len(q)]
      BY <1>5, <1>9, <1>10, <1>11, <2>2
    <2> QED BY <1>9, <1>11, <2>1, <2>2
  <1>12. PICK p : p = k \o r
    OBVIOUS
  <1>13. /\ IsPlan(p) /\ Len(p) = 1 + Len(r)
         /\ \A i \in DOMAIN p : \/ i \in DOMAIN k /\ p[i] = k[i]
                                \/ i - Len(k) \in DOMAIN r /\ p[i] = r[i - Len(k)]
    <2>1. /\ IsPlan(k \o r) /\ Len(k \o r) = Len(k) + Len(r)
          /\ \A i \in DOMAIN (k \o r) :
                \/ i \in DOMAIN k /\ (k \o r)[i] = k[i]
                \/ i - Len(k) \in DOMAIN r /\ (k \o r)[i] = r[i - Len(k)]
      <3>1. IsPlan(k) /\ IsPlan(r)
        BY <1>7, <1>9
      <3> QED BY <3>1, PlanConcat
    <2>2. Len(k) = 1
      BY <1>7
    <2> QED BY <1>12, <2>1, <2>2
  <1>14. Len(r) \in Nat /\ DOMAIN p = 1..Len(p)
    BY <1>9, <1>10, <1>13, PlanDomain
  <1>15. plan' = p
    <2>1. l = Loop(s)
      BY <1>2, <1>4 DEF Loop
    <2>2. r = q \o Loop(s)
      BY <1>8, <2>1
    <2> QED BY <1>6, <1>12, <2>2
  <1>16. ASSUME NEW i \in DOMAIN p
         PROVE  \/ i = 1 /\ p[i] = t
                \/ i # 1 /\ Opening(p[i], head)
                \/ i # 1 /\ p[i] = z /\ i = Len(p)
    <2>1. CASE i \in DOMAIN k /\ p[i] = k[i]
      BY <1>7, <2>1
    <2>2. CASE i - Len(k) \in DOMAIN r /\ p[i] = r[i - Len(k)]
      BY <1>7, <1>10, <1>11, <1>13, <1>14, <1>16, <2>2
    <2> QED BY <1>13, <1>16, <2>1, <2>2
  <1>17. 1 \in DOMAIN p /\ p[1] = t
    <2>1. 1 \in DOMAIN p
      BY <1>13, <1>14
    <2>2. 1 - Len(k) \notin DOMAIN r
      BY <1>7, <1>10
    <2> QED BY <1>7, <1>13, <2>1, <2>2
  <1>18. ASSUME NEW i \in DOMAIN p, p[i].op \in {"tx", "commit", "end"}
         PROVE  i = 1 /\ p[i].op = "tx"
    BY <1>3, <1>16, <1>18 DEF Opening
  <1>19. Leaving(t)
    BY DEF Leaving, Departs
  <1>20. ASSUME NEW i \in DOMAIN p
         PROVE  Written(p[i])'
    <2>1. CASE i = 1 /\ p[i] = t
      <3>1. Departs(t)'
        BY DEF Departs
      <3> QED BY <2>1, <3>1 DEF Written
    <2>2. CASE Opening(p[i], head)
      <3>1. PICK u : u = p[i]
        OBVIOUS
      <3>2. Opening(u, head)
        BY <2>2, <3>1
      <3>3. u.op = "save" => Saved(u)'
        BY <3>2 DEF Opening, Saved, FileNames, OfRebase, OfBisect, Waits
      <3>4. Written(u)'
        BY <3>2, <3>3 DEF Written, Opening
      <3> QED BY <3>1, <3>4
    <2>3. CASE p[i] = z
      <3>1. Looping(s)'
        <4>1. OfRebase(s) /\ refs[s.branch] = s.orig => OfRebase(s)' /\ Waits(s)'
          BY DEF OfRebase, Waits
        <4>2. OfBisect(s) /\ t.to = "bisect" => OfBisect(s)' /\ Bisecting'
          BY <1>15, <1>17 DEF OfBisect, Bisecting
        <4> QED BY <4>1, <4>2 DEF Looping
      <3>2. Written(z)'
        BY <1>3, <3>1 DEF Written
      <3> QED BY <2>3, <3>2
    <2> QED BY <1>16, <1>20, <2>1, <2>2, <2>3
  <1>21. StepsWritten'
    <2>1. \A i \in DOMAIN plan' : Written(plan[i])'
      BY <1>15, <1>20
    <2>2. ASSUME NEW i \in DOMAIN p, Leaving(p[i])
          PROVE  i = 1 /\ head' = p[i].from
      BY <1>17, <1>18, <2>2 DEF Leaving
    <2>3. \A i, j \in DOMAIN p : p[i].op = "commit" => p[j].op # "tx"
      BY <1>18
    <2>4. \A i, j \in DOMAIN p : p[j].op = "tx" => Leaving(p[j])
      BY <1>17, <1>18, <1>19
    <2>5. \A i \in DOMAIN p : p[i].op = "loop" => i = Len(p)
      BY <1>16 DEF Opening
    <2>6. NothingInProgress'
      BY DEF NothingInProgress
    <2>7. \A i \in DOMAIN plan' : Leaving(plan'[i]) => i = 1 /\ head' = plan'[i].from
      BY <1>15, <2>2
    <2>8. /\ \A i, j \in DOMAIN plan' : plan'[i].op = "commit" => plan'[j].op # "tx"
          /\ \A i, j \in DOMAIN plan' : plan'[i].op = "loop" /\ plan'[j].op = "tx" => Leaving(plan'[j])
          /\ \A i \in DOMAIN plan' : plan'[i].op = "loop" => i = Len(plan')
      BY <1>15, <2>3, <2>4, <2>5
    <2> QED BY <2>1, <2>6, <2>7, <2>8 DEF StepsWritten
  <1>22. AbortsWritten'
    <2>1. \A i \in DOMAIN p : p[i].op # "end"
      BY <1>18
    <2> QED BY <1>15, <2>1 DEF AbortsWritten, Aborts
  <1>23. StatesKept'
    BY DEF NothingInProgress, StatesKept
  <1> QED BY <1>1, <1>13, <1>15, <1>21, <1>22, <1>23 DEF AbortInv, Placed, ScratchAtHead

LEMMA OpeningConcat ==
    ASSUME NEW p, NEW q, NEW branch, IsPlan(p), IsPlan(q),
           \A i \in DOMAIN p : Opening(p[i], branch),
           \A i \in DOMAIN q : Opening(q[i], branch)
    PROVE  IsPlan(p \o q) /\ \A i \in DOMAIN (p \o q) : Opening((p \o q)[i], branch)
  <1>1. PICK r : r = p \o q
    OBVIOUS
  <1>2. /\ IsPlan(r)
        /\ \A i \in DOMAIN r : \/ i \in DOMAIN p /\ r[i] = p[i]
                               \/ i - Len(p) \in DOMAIN q /\ r[i] = q[i - Len(p)]
    BY <1>1, PlanConcat
  <1>3. \A i \in DOMAIN r : Opening(r[i], branch)
    BY <1>2
  <1> QED BY <1>1, <1>2, <1>3

(* The files and the index of a checkout, and the first state of a command. *)
LEMMA OpeningCheckout ==
    ASSUME NEW old, NEW tree, NEW branch
    PROVE  /\ IsPlan(Checkout(old, tree))
           /\ \A i \in DOMAIN Checkout(old, tree) : Opening(Checkout(old, tree)[i], branch)
  <1>1. PICK t, u : t = [op |-> "files", old |-> old, tree |-> tree]
                    /\ u = [op |-> "index", index |-> tree]
    OBVIOUS
  <1>2. Opening(t, branch) /\ Opening(u, branch)
    BY <1>1 DEF Opening
  <1>3. IsPlan(<<t, u>>) /\ \A i \in DOMAIN <<t, u>> : Opening(<<t, u>>[i], branch)
    BY <1>2, PlanOfTwo
  <1> QED BY <1>1, <1>3 DEF Checkout

LEMMA OpeningSave ==
    ASSUME NEW file, NEW to, NEW branch,
           \/ file = "rebase" /\ OfRebase(to) /\ refs[to.branch] = to.orig
           \/ file = "bisect" /\ OfBisect(to)
    PROVE  /\ IsPlan(Save(file, to))
           /\ \A i \in DOMAIN Save(file, to) : Opening(Save(file, to)[i], branch)
  <1>1. PICK t : t = [op |-> "save", file |-> file, to |-> to]
    OBVIOUS
  <1>2. t.op = "save" /\ t.file = file /\ t.to = to
    BY <1>1
  <1>3. Opening(t, branch)
    BY <1>2 DEF Opening
  <1>4. IsPlan(<<t>>) /\ \A i \in DOMAIN <<t>> : Opening(<<t>>[i], branch)
    BY <1>3, PlanOfOne
  <1> QED BY <1>1, <1>4 DEF Save

(* The transaction that leaves the branch. *)
LEMMA DepartingTx ==
    ASSUME head \in Branches, NEW to \in Scratches, NEW new
    PROVE  \E t : /\ Tx({Move(to, 0, new)}, to) = <<t>>
                  /\ t.op = "tx" /\ Departs(t) /\ t.from = head /\ t.to = to
  <1>1. PICK m : m = {Move(to, 0, new)}
    OBVIOUS
  <1>2. PICK t : t = [op |-> "tx", from |-> head, to |-> to, moves |-> m]
    OBVIOUS
  <1>3. t.op = "tx" /\ t.from = head /\ t.to = to /\ t.moves = m
    BY <1>2
  <1>4. Departs(t)
    BY <1>1, <1>3 DEF Departs
  <1>5. Tx({Move(to, 0, new)}, to) = <<t>>
    BY <1>1, <1>2 DEF Tx
  <1> QED BY <1>3, <1>4, <1>5

LEMMA RebaseStartKeeps ==
    ASSUME AbortInv, NEW upstream, NEW actions, RebaseStart(upstream, actions)
    PROVE  AbortInv'
  <1> DEFINE onto == refs[upstream]
             picks == ToReplay(Tip, onto)
             todo == EditedTodo(picks, actions)
             tx == Tx({Move("scratch", 0, onto)}, "scratch")
             out == Checkout(PathsIn(TreeOf(commits, Tip)), TreeOf(commits, onto))
             new == [branch |-> head, orig |-> Tip, onto |-> onto,
                     current |-> 0, action |-> "pick", todo |-> todo]
  <1>1. /\ NothingInProgress /\ head \in Branches
        /\ UNCHANGED <<refs, head, files>>
        /\ plan' = tx \o out \o (Save("rebase", new) \o Loop(new))
    BY DEF RebaseStart, OnBranch
  <1>2. ghost'.ended = None /\ "ended" \in DOMAIN ghost'
    BY DEF RebaseStart, AbortInv, Placed
  <1>3. OfRebase(new) /\ refs[new.branch] = new.orig
    BY <1>1 DEF OfRebase, Tip
  <1>4. PICK t : tx = <<t>> /\ t.op = "tx" /\ Departs(t) /\ t.from = head
    BY <1>1, DepartingTx DEF Scratches
  <1> HIDE DEF new, tx, out
  <1>5. PICK s : s = new
    OBVIOUS
  <1>6. PICK k : k = <<t>>
    OBVIOUS
  <1>7. PICK l : l = Loop(s)
    OBVIOUS
  <1>8. IsPlan(k) /\ IsPlan(l)
    BY <1>6, <1>7, PlanOfOne DEF Loop
  <1>9. /\ IsPlan(out) /\ \A i \in DOMAIN out : Opening(out[i], head)
    BY OpeningCheckout DEF out
  <1>10. PICK w : w = Save("rebase", s)
    OBVIOUS
  <1>11. IsPlan(w) /\ \A i \in DOMAIN w : Opening(w[i], head)
    BY <1>3, <1>5, <1>10, OpeningSave
  <1>12. PICK q : q = out \o w
    OBVIOUS
  <1>13. IsPlan(q) /\ \A i \in DOMAIN q : Opening(q[i], head)
    BY <1>9, <1>11, <1>12, OpeningConcat
  <1>14. plan' = k \o (q \o l)
    <2>1. IsPlan(w \o l)
      BY <1>8, <1>11, PlanConcat
    <2>2. (k \o out) \o (w \o l) = k \o (out \o (w \o l))
      BY <1>8, <1>9, <2>1, PlanConcatAssociative
    <2>3. (out \o w) \o l = out \o (w \o l)
      BY <1>8, <1>9, <1>11, PlanConcatAssociative
    <2>4. plan' = (k \o out) \o (w \o l)
      BY <1>1, <1>4, <1>5, <1>6, <1>7, <1>10
    <2> QED BY <1>12, <2>2, <2>3, <2>4
  <1>15. plan' = <<t>> \o (q \o Loop(s))
    BY <1>6, <1>7, <1>14
  <1>16. OfRebase(s) /\ refs[s.branch] = s.orig
    BY <1>3, <1>5
  <1> QED BY <1>1, <1>2, <1>4, <1>13, <1>15, <1>16, DepartKeeps

LEMMA BisectStartKeeps ==
    ASSUME AbortInv, NEW good, BisectStart(good)
    PROVE  AbortInv'
  <1> DEFINE tx == Tx({Move("bisect", 0, Tip)}, "bisect")
             new == [branch |-> head, bad |-> Tip, good |-> {good}, skip |-> {}]
  <1>1. /\ NothingInProgress /\ head \in Branches
        /\ Begin("bisect", tx \o Save("bisect", new) \o Loop(new))
    BY DEF BisectStart, OnBranch
  <1>2. /\ UNCHANGED <<refs, head, files>>
        /\ plan' = tx \o Save("bisect", new) \o Loop(new)
    BY <1>1 DEF Begin
  <1>3. ghost'.ended = None /\ "ended" \in DOMAIN ghost'
    BY <1>1 DEF Begin, AbortInv, Placed
  <1>4. OfBisect(new)
    BY <1>1 DEF OfBisect
  <1>5. PICK t : /\ tx = <<t>> /\ t.op = "tx" /\ Departs(t) /\ t.from = head
                 /\ t.to = "bisect"
    BY <1>1, DepartingTx DEF Scratches
  <1> HIDE DEF new, tx
  <1>6. PICK s : s = new
    OBVIOUS
  <1>7. PICK k : k = <<t>>
    OBVIOUS
  <1>8. PICK l : l = Loop(s)
    OBVIOUS
  <1>9. IsPlan(k) /\ IsPlan(l)
    BY <1>7, <1>8, PlanOfOne DEF Loop
  <1>10. PICK w : w = Save("bisect", s)
    OBVIOUS
  <1>11. IsPlan(w) /\ \A i \in DOMAIN w : Opening(w[i], head)
    BY <1>4, <1>6, <1>10, OpeningSave
  <1>12. plan' = k \o (w \o l)
    <2>1. (k \o w) \o l = k \o (w \o l)
      BY <1>9, <1>11, PlanConcatAssociative
    <2>2. plan' = (k \o w) \o l
      BY <1>2, <1>5, <1>6, <1>7, <1>8, <1>10
    <2> QED BY <2>1, <2>2
  <1>13. plan' = <<t>> \o (w \o Loop(s))
    BY <1>7, <1>8, <1>12
  <1>14. OfBisect(s)
    BY <1>4, <1>6
  <1> QED BY <1>1, <1>2, <1>3, <1>5, <1>11, <1>13, <1>14, DepartKeeps

-----------------------------------------------------------------------------
(* The theorem. *)

LEMMA InitAbortInv == Init => AbortInv
  <1> SUFFICES ASSUME Init
               PROVE  AbortInv
    OBVIOUS
  <1>1. PICK h \in Histories :
           /\ refs = [r \in Refs |-> IF r \in Branches THEN h[r] ELSE 0]
           /\ head = "topic"
           /\ files = [merge |-> 0, revert |-> None, rebase |-> None, bisect |-> None]
           /\ plan = <<>>
           /\ ghost = [excused |-> {}, open |-> {}, ended |-> None, culprit |-> h.culprit,
                        commands |-> h.commands]
    BY DEF Init
  <1>2. IsPlan(plan) /\ DOMAIN plan = {}
    BY <1>1, MadeOfNothing DEF Made
  <1>3. Placed
    <2>1. head \in Refs /\ refs = [r \in Refs |-> refs[r]]
      BY <1>1 DEF Refs
    <2>2. files = [f \in FileNames |-> files[f]]
      BY <1>1 DEF FileNames
    <2>3. "ended" \in DOMAIN ghost
      BY <1>1
    <2> QED BY <1>2, <2>1, <2>2, <2>3 DEF Placed
  <1>4. ScratchAtHead
    BY <1>1 DEF ScratchAtHead, Scratches, Refs, Branches
  <1>5. StatesKept
    BY <1>1 DEF StatesKept
  <1>6. StepsWritten /\ AbortsWritten
    BY <1>2 DEF StepsWritten, AbortsWritten
  <1>7. EndsLast /\ AbortRestores
    BY <1>1 DEF EndsLast, AbortRestores
  <1> QED BY <1>3, <1>4, <1>5, <1>6, <1>7 DEF AbortInv

LEMMA NextAbortInv ==
    ASSUME AbortInv, [Next]_vars
    PROVE  AbortInv'
  <1>1. CASE \E p \in Paths, c \in Contents \cup {Absent} : Edit(p, c)
    BY <1>1, EditKeeps
  <1>2. CASE (\E p \in Paths : Add({p})) \/ AddAll
    BY <1>2, AddKeeps
  <1>3. CASE CommitStaged \/ \E b \in Branches \ {head} : Merge(b)
    BY <1>3, CommitStagedKeeps, MergeKeeps
  <1>4. CASE \E c \in DOMAIN commits : CherryPick(c)
    BY <1>4, CherryPickKeeps
  <1>5. CASE \E c, d \in DOMAIN commits : RevertStart(<<c>>) \/ RevertStart(<<c, d>>)
    BY <1>5, RevertStartKeeps
  <1>6. CASE RevertContinue \/ RevertAbort
    BY <1>6, RevertContinueKeeps, RevertAbortKeeps
  <1>7. CASE \E b \in Branches \ {head}, t \in Todos : RebaseStart(b, t)
    BY <1>7, RebaseStartKeeps
  <1>8. CASE RebaseContinue \/ RebaseSkip \/ RebaseAbort
    BY <1>8, RebaseContinueKeeps, RebaseSkipKeeps, RebaseAbortKeeps
  <1>9. CASE \E c \in DOMAIN commits : BisectStart(c)
    BY <1>9, BisectStartKeeps
  <1>10. CASE (\E v \in {"good", "bad", "skip"} : BisectMark(v)) \/ BisectReset
    BY <1>10, BisectMarkKeeps, BisectResetKeeps
  <1>11. CASE StepTx \/ StepCommit \/ StepFiles \/ StepWrite \/ StepIndex \/ StepAdd
    BY <1>11, StepTxKeeps, StepCommitKeeps, StepFilesKeeps, StepWriteKeeps, StepIndexKeeps,
       StepAddKeeps
  <1>12. CASE StepSave \/ StepLoop \/ StepEnd \/ Crash
    BY <1>12, StepSaveKeeps, StepLoopKeeps, StepEndKeeps, CrashKeeps
  <1>13. CASE UNCHANGED vars
    <2>1. UNCHANGED <<commits, refs, head, index, work, files, plan, ghost>>
      BY <1>13 DEF vars
    <2>2. Placed' /\ ScratchAtHead' /\ EndsLast' /\ AbortRestores'
      BY <2>1 DEF AbortInv, Placed, ScratchAtHead, EndsLast, AbortRestores
    <2>3. \A s : Waits(s) => Waits(s)'
      BY <2>1 DEF Waits, NoLeaving
    <2>4. StatesKept'
      BY <2>1, <2>3, StatesStay
    <2>5. \A t : Written(t) => Written(t)'
      BY <2>1, <2>3 DEF Written, Saved, Looping, Bisecting
    <2>6. StepsWritten'
      BY <2>1, <2>5 DEF AbortInv, StepsWritten, NothingInProgress
    <2>7. \A e : AbortLeft(e) => AbortLeft(e)'
      BY <2>1 DEF AbortLeft, Has, FilesBack, BringsBack, GoesBack, Back
    <2>8. AbortsWritten'
      BY <2>1, <2>7 DEF AbortInv, AbortsWritten
    <2> QED BY <2>2, <2>4, <2>6, <2>8 DEF AbortInv
  <1> QED BY <1>1, <1>2, <1>3, <1>4, <1>5, <1>6, <1>7, <1>8, <1>9, <1>10, <1>11, <1>12, <1>13
             DEF Next

(* An abort that ended left HEAD, the branch, the index and the files where *)
(* its command began, and no scratch ref but one HEAD was at already.       *)
(* (rebase_abort, revert_abort, bisect_reset, over every history of the     *)
(* workspace's commands and crashes.)                                       *)
THEOREM AbortsRestore == Spec => []AbortRestores
  <1>1. Init => AbortInv
    BY InitAbortInv
  <1>2. AbortInv /\ [Next]_vars => AbortInv'
    BY NextAbortInv
  <1>3. AbortInv => AbortRestores
    BY DEF AbortInv
  <1> QED BY <1>1, <1>2, <1>3, PTL DEF Spec

-----------------------------------------------------------------------------
(* Sets reached by parents. *)

(* Of a set of numbers that is not empty one is the least. *)
LEMMA LeastNumber ==
    ASSUME NEW S \in SUBSET Nat, S # {}
    PROVE  \E n \in S : \A m \in S : n <= m
  <1> DEFINE R == OpToRel(<, Nat)
  <1>1. \A x, y \in Nat : <<x, y>> \in R <=> x < y
    BY DEF OpToRel
  <1>2. IsWellFoundedOn(R, Nat)
    BY NatLessThanWellFounded
  <1> HIDE DEF R
  <1>3. PICK n \in S : \A m \in S : ~(<<m, n>> \in R)
    BY <1>2, WFMin
  <1>4. ASSUME NEW m \in S
        PROVE  n <= m
    <2>1. m \in Nat /\ n \in Nat /\ ~(m < n)
      BY <1>1, <1>3
    <2> QED BY <2>1
  <1> QED BY <1>4

(* The sets reached by parents, along the least numbers first. *)
IsWalk(D, P, f) == f = [d \in D |-> {d} \cup UNION {f[p] : p \in P[d]}]

(* A set is there that has each number's own and its parents' sets: the     *)
(* numbers in every set closed under parents that has it.                   *)
LEMMA WalkExists ==
    ASSUME NEW D, NEW P, \A d \in D : P[d] \subseteq D
    PROVE  \E f : IsWalk(D, P, f)
  <1> DEFINE Closed == {s \in SUBSET D : \A d \in s : P[d] \subseteq s}
             Above(d) == {a \in D : \A s \in Closed : d \in s => a \in s}
             g == [d \in D |-> Above(d)]
  <1>1. \A d \in D : d \in Above(d) /\ Above(d) \in Closed
    <2>1. TAKE d \in D
    <2>2. ASSUME NEW a \in Above(d), NEW p \in P[a]
          PROVE  p \in Above(d)
      <3>1. p \in D
        BY <2>2
      <3>2. ASSUME NEW s \in Closed, d \in s
            PROVE  p \in s
        <4>1. a \in s
          BY <3>2
        <4> QED BY <2>2, <3>2, <4>1
      <3> QED BY <3>1, <3>2
    <2> QED BY <2>2
  <1>2. \A c, d \in D : \A s \in Closed : c \in s => Above(c) \subseteq s
    OBVIOUS
  <1>3. ASSUME NEW d \in D
        PROVE  Above(d) = {d} \cup UNION {Above(p) : p \in P[d]}
    <2> DEFINE U == {d} \cup UNION {Above(p) : p \in P[d]}
    <2>1. U \in Closed
      <3>1. U \subseteq D
        OBVIOUS
      <3>2. ASSUME NEW a \in U
            PROVE  P[a] \subseteq U
        <4>1. CASE a = d
          BY <1>1, <4>1
        <4>2. CASE a # d
          <5>1. PICK p \in P[d] : a \in Above(p)
            BY <3>2, <4>2
          <5>2. p \in D /\ Above(p) \in Closed
            BY <1>1
          <5>3. P[a] \subseteq Above(p)
            BY <5>1, <5>2
          <5> QED BY <5>3
        <4> QED BY <4>1, <4>2
      <3> QED BY <3>1, <3>2
    <2>2. Above(d) \subseteq U
      BY <2>1
    <2>3. ASSUME NEW p \in P[d]
          PROVE  Above(p) \subseteq Above(d)
      <3>1. Above(d) \in Closed /\ d \in Above(d)
        BY <1>1
      <3>2. p \in Above(d)
        BY <3>1
      <3> QED BY <3>1, <3>2
    <2>4. U \subseteq Above(d)
      BY <1>1, <2>3
    <2> QED BY <2>2, <2>4
  <1> HIDE DEF Closed, Above
  <1>4. ASSUME NEW d \in D
        PROVE  g[d] = {d} \cup UNION {g[p] : p \in P[d]}
    <2>1. {g[p] : p \in P[d]} = {Above(p) : p \in P[d]}
      OBVIOUS
    <2> QED BY <1>3, <2>1
  <1>5. IsWalk(D, P, g)
    BY <1>4 DEF IsWalk
  <1> QED BY <1>5

(* Where parents have smaller numbers, each of those sets has its number    *)
(* and, with a member, that member's set.                                   *)
LEMMA WalkIs ==
    ASSUME NEW D \in SUBSET Nat, NEW P,
           \A d \in D : P[d] \subseteq D /\ \A p \in P[d] : p < d,
           NEW f, IsWalk(D, P, f)
    PROVE  \A d \in D : d \in f[d] /\ f[d] \subseteq D /\ \A b \in f[d] : f[b] \subseteq f[d]
  <1>1. \A d \in D : f[d] = {d} \cup UNION {f[p] : p \in P[d]}
    BY DEF IsWalk
  <1> DEFINE Right(d) == f[d] \subseteq D /\ \A b \in f[d] : f[b] \subseteq f[d]
             Wrong == {d \in D : ~Right(d)}
  <1>2. SUFFICES ASSUME Wrong # {}
                 PROVE  FALSE
    BY <1>1
  <1>3. PICK d \in Wrong : \A m \in Wrong : d <= m
    <2> HIDE DEF Wrong
    <2>1. Wrong \in SUBSET Nat
      BY DEF Wrong
    <2> QED BY <1>2, <2>1, LeastNumber
  <1>4. \A p \in P[d] : p \in D /\ Right(p)
    <2>1. TAKE p \in P[d]
    <2>2. p \in D /\ d \in D /\ p < d
      OBVIOUS
    <2>3. p \notin Wrong
      BY <1>3, <2>2
    <2> QED BY <2>2, <2>3
  <1>5. f[d] \subseteq D
    BY <1>1, <1>4
  <1>6. ASSUME NEW b \in f[d]
        PROVE  f[b] \subseteq f[d]
    <2>1. CASE b = d
      BY <2>1
    <2>2. CASE b # d
      <3>1. PICK p \in P[d] : b \in f[p]
        BY <1>1, <1>6, <2>2
      <3>2. f[b] \subseteq f[p] /\ f[p] \subseteq f[d]
        BY <1>1, <1>4, <3>1
      <3> QED BY <3>2
    <2> QED BY <2>1, <2>2
  <1> QED BY <1>5, <1>6

(* What Ancestry follows parents by. *)
Walk(cs) == CHOOSE f : f = [c \in DOMAIN cs |-> {c} \cup UNION {f[p] : p \in ParentsOf(cs, c)}]

(* A commit is its own ancestor, an ancestor's ancestor is one, and the     *)
(* ancestry of a set is that of its members.                                *)
LEMMA AncestorsAre ==
    ASSUME NEW cs, Numbered(cs)
    PROVE  /\ \A c \in DOMAIN cs : IsAncestor(cs, c, c)
           /\ \A c \in DOMAIN cs : \A b : IsAncestor(cs, b, c) => b \in DOMAIN cs
           /\ \A a, b : \A c \in DOMAIN cs :
                 IsAncestor(cs, a, b) /\ IsAncestor(cs, b, c) => IsAncestor(cs, a, c)
           /\ \A a, S : a \in Ancestry(cs, S) <=> \E c \in S : IsAncestor(cs, a, c)
  <1> DEFINE P == [c \in DOMAIN cs |-> ParentsOf(cs, c)]
             w == Walk(cs)
  <1>1. DOMAIN cs \subseteq Nat
    BY DEF Numbered
  <1>2. \A c \in DOMAIN cs : P[c] \subseteq DOMAIN cs /\ \A p \in P[c] : p < c
    BY DEF Numbered
  <1> DEFINE Is(f) == f = [c \in DOMAIN cs |-> {c} \cup UNION {f[p] : p \in ParentsOf(cs, c)}]
  <1>3. \A f : IsWalk(DOMAIN cs, P, f) <=> Is(f)
    <2>1. TAKE f
    <2>2. \A c \in DOMAIN cs : P[c] = ParentsOf(cs, c)
      OBVIOUS
    <2> HIDE DEF P
    <2>3. [c \in DOMAIN cs |-> {c} \cup UNION {f[p] : p \in P[c]}]
          = [c \in DOMAIN cs |-> {c} \cup UNION {f[p] : p \in ParentsOf(cs, c)}]
      BY <2>2
    <2> QED BY <2>3 DEF IsWalk
  <1>4. \E f : IsWalk(DOMAIN cs, P, f)
    <2> HIDE DEF P
    <2> QED BY <1>2, WalkExists
  <1>5. Is(w)
    BY <1>3, <1>4 DEF Walk
  <1>6. \A d \in DOMAIN cs : d \in w[d] /\ w[d] \subseteq DOMAIN cs /\ \A b \in w[d] : w[b] \subseteq w[d]
    <2>1. IsWalk(DOMAIN cs, P, w)
      BY <1>3, <1>5
    <2> HIDE DEF P, w, Is
    <2> QED BY <1>1, <1>2, <2>1, WalkIs
  <1> HIDE DEF P, Is
  <1>7. \A S : Ancestry(cs, S) = UNION {w[c] : c \in S}
    BY DEF Ancestry, Walk
  <1> HIDE DEF w
  <1>8. \A a, c : IsAncestor(cs, a, c) <=> a \in w[c]
    BY <1>7 DEF IsAncestor
  <1> QED BY <1>6, <1>7, <1>8

(* The numbers a bisect compares the candidates by. *)
LEMMA ReachIsNumber ==
    ASSUME Numbered(commits), NEW cs \in SUBSET DOMAIN commits, NEW c \in cs
    PROVE  Reach(cs, c) \in Nat
  <1> DEFINE P == [d \in cs |-> ParentsOf(commits, d) \cap cs]
             Is(f) == f = [d \in cs |-> {d} \cup UNION {f[p] : p \in ParentsOf(commits, d) \cap cs}]
             w == CHOOSE f : Is(f)
  <1>1. cs \subseteq Nat /\ cs \subseteq 1..Len(commits) /\ Len(commits) \in Nat
    BY DEF Numbered
  <1>2. \A d \in cs : P[d] \subseteq cs /\ \A p \in P[d] : p < d
    <2>1. \A d \in cs : \A p \in ParentsOf(commits, d) : p < d
      BY <1>1 DEF Numbered
    <2> QED BY <2>1
  <1>3. \A f : IsWalk(cs, P, f) <=> Is(f)
    <2>1. TAKE f
    <2>2. \A d \in cs : P[d] = ParentsOf(commits, d) \cap cs
      OBVIOUS
    <2> HIDE DEF P
    <2>3. [d \in cs |-> {d} \cup UNION {f[p] : p \in P[d]}]
          = [d \in cs |-> {d} \cup UNION {f[p] : p \in ParentsOf(commits, d) \cap cs}]
      BY <2>2
    <2> QED BY <2>3 DEF IsWalk
  <1>4. \E f : IsWalk(cs, P, f)
    <2> HIDE DEF P
    <2> QED BY <1>2, WalkExists
  <1>5. Is(w)
    BY <1>3, <1>4
  <1>6. w[c] \subseteq cs
    <2>1. IsWalk(cs, P, w)
      BY <1>3, <1>5
    <2> HIDE DEF P, w, Is
    <2> QED BY <1>1, <1>2, <2>1, WalkIs
  <1>7. Reach(cs, c) = Cardinality(w[c])
    BY DEF Reach
  <1> HIDE DEF P, w, Is
  <1>8. IsFiniteSet(1..Len(commits))
    BY <1>1, FS_Interval
  <1>9. IsFiniteSet(w[c])
    BY <1>1, <1>6, <1>8, FS_Subset
  <1> QED BY <1>7, <1>9, FS_CardinalityType

(* There is a best commit to test whenever one can be tested. *)
LEMMA ToTestIs ==
    ASSUME Numbered(commits), NEW s, Candidates(s) \subseteq DOMAIN commits, Testable(s) # {}
    PROVE  ToTest(s) \in Testable(s)
  <1> DEFINE cs == Candidates(s)
             T == Testable(s)
             N == Cardinality(cs)
             r(c) == Reach(cs, c)
             v(c) == Score(cs, c)
  <1>1. cs \subseteq 1..Len(commits) /\ Len(commits) \in Nat /\ T \subseteq cs
    BY DEF Numbered, Testable
  <1>2. N \in Nat
    <2>1. IsFiniteSet(1..Len(commits))
      BY <1>1, FS_Interval
    <2>2. IsFiniteSet(cs)
      BY <1>1, <2>1, FS_Subset
    <2> QED BY <2>2, FS_CardinalityType
  <1>3. ASSUME NEW c \in T
        PROVE  c \in Nat /\ Len(commits) - c \in Nat /\ r(c) \in Nat /\ v(c) \in Int /\ N - v(c) \in Nat
    <2>1. c \in cs /\ c \in 1..Len(commits)
      BY <1>1
    <2>2. r(c) \in Nat
      BY <2>1, ReachIsNumber
    <2>3. v(c) = IF r(c) <= N - r(c) THEN r(c) ELSE N - r(c)
      BY DEF Score
    <2> HIDE DEF v, r, N
    <2> QED BY <1>1, <1>2, <2>1, <2>2, <2>3
  <1> HIDE DEF v, r, N, cs, T
  <1>4. PICK a \in T : \A d \in T : v(d) <= v(a)
    <2>1. {N - v(c) : c \in T} \in SUBSET Nat /\ {N - v(c) : c \in T} # {}
      BY <1>3 DEF T
    <2>2. PICK n \in {N - v(c) : c \in T} : \A m \in {N - v(c) : c \in T} : n <= m
      BY <2>1, LeastNumber
    <2>3. PICK a \in T : n = N - v(a)
      BY <2>2
    <2>4. \A d \in T : N - v(a) <= N - v(d)
      BY <2>2, <2>3
    <2>5. ASSUME NEW d \in T
          PROVE  v(d) <= v(a)
      <3>1. v(d) \in Int /\ v(a) \in Int /\ N - v(a) <= N - v(d)
        BY <1>3, <2>4
      <3> QED BY <1>2, <3>1
    <2> QED BY <2>5
  <1> DEFINE U == {c \in T : v(c) = v(a)}
  <1>5. PICK b \in U : \A d \in U : r(b) <= r(d)
    <2>1. {r(c) : c \in U} \in SUBSET Nat /\ {r(c) : c \in U} # {}
      BY <1>3
    <2>2. PICK n \in {r(c) : c \in U} : \A m \in {r(c) : c \in U} : n <= m
      <3> HIDE DEF U
      <3> QED BY <2>1, LeastNumber
    <2> QED BY <2>2
  <1> DEFINE W == {c \in U : r(c) = r(b)}
  <1>6. PICK e \in W : \A d \in W : d <= e
    <2>1. {Len(commits) - c : c \in W} \in SUBSET Nat /\ {Len(commits) - c : c \in W} # {}
      BY <1>3
    <2>2. PICK n \in {Len(commits) - c : c \in W} : \A m \in {Len(commits) - c : c \in W} : n <= m
      <3> HIDE DEF W
      <3> QED BY <2>1, LeastNumber
    <2>3. PICK e \in W : n = Len(commits) - e
      BY <2>2
    <2>4. \A d \in W : Len(commits) - e <= Len(commits) - d
      BY <2>2, <2>3
    <2>5. ASSUME NEW d \in W
          PROVE  d <= e
      <3>1. d \in Nat /\ e \in Nat /\ Len(commits) - e <= Len(commits) - d
        BY <1>3, <2>4
      <3> QED BY <1>1, <3>1
    <2> QED BY <2>5
  <1>7. ASSUME NEW d \in T \ {e}
        PROVE  Better(cs, e, d)
    <2>1. /\ e \in T /\ d \in T /\ v(e) = v(a) /\ v(d) <= v(e) /\ r(e) = r(b)
          /\ v(d) = v(e) => r(e) <= r(d)
          /\ v(d) = v(e) /\ r(e) = r(d) => d <= e
      BY <1>4, <1>5, <1>6
    <2>2. \/ v(e) > v(d)
          \/ v(e) = v(d) /\ r(e) < r(d)
          \/ v(e) = v(d) /\ r(e) = r(d) /\ e > d
      <3>1. /\ v(e) \in Int /\ v(d) \in Int /\ r(e) \in Nat /\ r(d) \in Nat
            /\ e \in Nat /\ d \in Nat /\ e # d
        BY <1>3, <2>1
      <3> QED BY <2>1, <3>1
    <2> QED BY <2>2 DEF Better, v, r
  <1>8. e \in Testable(s) /\ \A d \in Testable(s) \ {e} : Better(Candidates(s), e, d)
    BY <1>7 DEF T, cs
  <1> QED BY <1>8 DEF ToTest

-----------------------------------------------------------------------------
(* The invariant of such a history.                                         *)

(* Every state of a bisect has the culprit between good and bad. *)
Knows(s) ==
    /\ s \in BisectStates
    /\ s.bad \in DOMAIN commits /\ IsAncestor(commits, ghost.culprit, s.bad)
    /\ s.good \subseteq DOMAIN commits
    /\ \A c \in s.good : ~IsAncestor(commits, ghost.culprit, c)

(* The fields of ghost. *)
GhostNames == {"excused", "open", "ended", "culprit", "commands"}

(* What holds wherever a plan is: verdicts can be trusted, the refs are at  *)
(* commits, and BISECT_STATE knows.                                         *)
Grounds ==
    /\ DOMAIN ghost = GhostNames
    /\ ghost.commands \subseteq BisectCommands /\ ghost.open = {}
    /\ Bisectable(commits, ghost.culprit)
    /\ files.merge = 0
    /\ refs[head] \in DOMAIN commits /\ \A r \in Branches : refs[r] \in DOMAIN commits
    /\ files.bisect # None => Knows(files.bisect)
    /\ BisectFindsCulprit

(* What the steps of a bisect are. *)
LeaveStep(t) == /\ t.op = "tx" /\ t.from = head /\ t.to = "bisect"
                /\ t.moves = {Move("bisect", 0, Tip)}
SaveStep(t) == t.op = "save" /\ t.file = "bisect" /\ Knows(t.to)
LoopStep(t) == t.op = "loop" /\ Knows(t.rest)
AddStep(t) == t.op = "add" /\ t.index = index
ForgetStep(t) == t.op = "save" /\ t.file = "bisect" /\ t.to = None
EndStep(t) == /\ t.op = "end"
              /\ "found" \in DOMAIN t.how => t.how.found \in {0, ghost.culprit}
FilesStep(t, c) == /\ t.op = "files" /\ t.old = PathsIn(HeadTree)
                   /\ t.tree = TreeOf(commits, c)
IndexStep(t, c) == t.op = "index" /\ t.index = TreeOf(commits, c)
LandStep(t, c) ==
    /\ t.op = "tx" /\ t.from = head
    /\ \/ t.to = head /\ t.moves = {Move(head, refs[head], c)}
       \/ t.to \in Branches /\ refs[t.to] = c /\ t.moves = {Move(head, refs[head], 0)}
Closes(t, u) == ForgetStep(t) /\ EndStep(u)

(* The files and the index are those of HEAD ... *)
AtHead == work = HeadTree /\ index = HeadTree
Under == head = "bisect" /\ files.bisect # None

Still ==
    /\ AtHead
    /\ \/ plan = <<>>
       \/ \E t : plan = <<t>> /\ (AddStep(t) \/ EndStep(t))
       \/ \E t : plan = <<t>> /\ LoopStep(t) /\ Under
       \/ \E t, u : plan = <<t, u>> /\ SaveStep(t) /\ LoopStep(u) /\ head = "bisect"
       \/ \E t, u : plan = <<t, u>> /\ Closes(t, u)
       \/ \E t, u, v : plan = <<t, u, v>> /\ LeaveStep(t) /\ SaveStep(u) /\ LoopStep(v)

(* ... or on the way to those of another commit. *)
OnTheWay(c, t, u, v, x, y) ==
    /\ LandStep(v, c)
    /\ \/ /\ AtHead /\ FilesStep(t, c) /\ IndexStep(u, c)
          /\ plan = <<t, u, v>> \/ (plan = <<t, u, v, x, y>> /\ Closes(x, y))
       \/ /\ work = TreeOf(commits, c) /\ IndexStep(u, c)
          /\ plan = <<u, v>> \/ (plan = <<u, v, x, y>> /\ Closes(x, y))
       \/ /\ work = TreeOf(commits, c) /\ index = work
          /\ plan = <<v>> \/ (plan = <<v, x, y>> /\ Closes(x, y))
Moving == Under /\ \E c \in DOMAIN commits : \E t, u, v, x, y : OnTheWay(c, t, u, v, x, y)

Bisected == Grounds /\ (Still \/ Moving)

-----------------------------------------------------------------------------
(* Trees and states that stay what they are. *)

(* The files of a commit are contents, none of them unmerged. *)
LEMMA TreesAre ==
    ASSUME Grounds, NEW c \in DOMAIN commits
    PROVE  LET tree == TreeOf(commits, c)
           IN /\ tree = [p \in Paths |-> tree[p]]
              /\ Staged(tree) = tree
              /\ \A p \in Paths : tree[p] # Unmerged
  <1>1. TreeOf(commits, c) \in Trees
    BY DEF Grounds, Bisectable
  <1>2. PICK tree : tree = TreeOf(commits, c)
    OBVIOUS
  <1>3. tree = [p \in Paths |-> tree[p]] /\ \A p \in Paths : tree[p] # Unmerged
    BY <1>1, <1>2, WorkTreeAssumption DEF Trees
  <1>4. Staged(tree) = tree
    BY <1>3 DEF Staged
  <1> QED BY <1>2, <1>3, <1>4

(* Only the end of a command is news. *)
SameGhost == /\ DOMAIN ghost' = DOMAIN ghost /\ ghost'.commands = ghost.commands
             /\ ghost'.culprit = ghost.culprit /\ ghost'.open = ghost.open

(* What a state knows it knows as long as no commit is made. *)
LEMMA KnowsStays ==
    ASSUME commits' = commits, ghost'.culprit = ghost.culprit
    PROVE  \A s : Knows(s) => Knows(s)'
  BY DEF Knows

(* Steps that touch neither commits, refs, HEAD nor state files keep the    *)
(* grounds.                                                                 *)
LEMMA GroundsStay ==
    ASSUME Grounds, UNCHANGED <<commits, refs, head, files>>, SameGhost, BisectFindsCulprit'
    PROVE  Grounds'
  <1>1. files'.bisect # None => Knows(files.bisect)'
    BY KnowsStays DEF Grounds, SameGhost
  <1> QED BY <1>1 DEF Grounds, SameGhost

(* A command starts: nothing has ended, and all else is as it was. *)
LEMMA BeginStays ==
    ASSUME Grounds, NEW name, NEW p, Begin(name, p)
    PROVE  /\ SameGhost /\ Grounds' /\ plan = <<>> /\ plan' = p
           /\ UNCHANGED <<commits, refs, head, files, index, work>>
           /\ name \in BisectCommands
  <1>1. SameGhost /\ ghost'.ended = None
    BY DEF Begin, Grounds, SameGhost, GhostNames
  <1>2. BisectFindsCulprit'
    BY <1>1 DEF BisectFindsCulprit
  <1> QED BY <1>1, <1>2, GroundsStay DEF Begin, Grounds

-----------------------------------------------------------------------------
(* The steps of a bisect. *)

(* The first step and the rest of a short plan. *)
LEMMA ShortPlans ==
    ASSUME NEW a, NEW b, NEW c, NEW d, NEW e
    PROVE  /\ <<a>> # <<>> /\ Head(<<a>>) = a /\ Tail(<<a>>) = <<>>
           /\ <<a, b>> # <<>> /\ Head(<<a, b>>) = a /\ Tail(<<a, b>>) = <<b>>
           /\ <<a, b, c>> # <<>> /\ Head(<<a, b, c>>) = a /\ Tail(<<a, b, c>>) = <<b, c>>
           /\ Head(<<a, b, c, d>>) = a /\ Tail(<<a, b, c, d>>) = <<b, c, d>>
           /\ Head(<<a, b, c, d, e>>) = a /\ Tail(<<a, b, c, d, e>>) = <<b, c, d, e>>
  OBVIOUS

(* What is left to do after the first step. *)
StillNext(a, q) ==
    /\ AtHead
    /\ \/ (AddStep(a) \/ EndStep(a)) /\ q = <<>>
       \/ LoopStep(a) /\ Under /\ q = <<>>
       \/ SaveStep(a) /\ head = "bisect" /\ \E u : q = <<u>> /\ LoopStep(u)
       \/ ForgetStep(a) /\ \E u : q = <<u>> /\ EndStep(u)
       \/ LeaveStep(a) /\ \E u, v : q = <<u, v>> /\ SaveStep(u) /\ LoopStep(v)
MoveNext(a, q, c, u, v, x, y) ==
    \/ /\ AtHead /\ FilesStep(a, c) /\ IndexStep(u, c) /\ LandStep(v, c)
       /\ q = <<u, v>> \/ (q = <<u, v, x, y>> /\ Closes(x, y))
    \/ /\ work = TreeOf(commits, c) /\ IndexStep(a, c) /\ LandStep(v, c)
       /\ q = <<v>> \/ (q = <<v, x, y>> /\ Closes(x, y))
    \/ /\ work = TreeOf(commits, c) /\ index = work /\ LandStep(a, c)
       /\ q = <<>> \/ (q = <<x, y>> /\ Closes(x, y))
MovingNext(a, q) ==
    Under /\ \E c \in DOMAIN commits : \E u, v, x, y : MoveNext(a, q, c, u, v, x, y)

(* Either it is the first step of a command that moves nothing, or one on   *)
(* the way.                                                                 *)
LEMMA FirstStep ==
    ASSUME Still \/ Moving, plan # <<>>
    PROVE  StillNext(Head(plan), Tail(plan)) \/ MovingNext(Head(plan), Tail(plan))
  <1>1. CASE Still
    <2>1. CASE \E t : plan = <<t>> /\ (AddStep(t) \/ EndStep(t) \/ (LoopStep(t) /\ Under))
      <3>1. PICK t : plan = <<t>> /\ (AddStep(t) \/ EndStep(t) \/ (LoopStep(t) /\ Under))
        BY <2>1
      <3>2. Head(plan) = t /\ Tail(plan) = <<>>
        BY <3>1, ShortPlans
      <3> QED BY <1>1, <3>1, <3>2 DEF Still, StillNext
    <2>2. CASE \E t, u : plan = <<t, u>> /\ \/ SaveStep(t) /\ LoopStep(u) /\ head = "bisect"
                                            \/ Closes(t, u)
      <3>1. PICK t, u : plan = <<t, u>> /\ \/ SaveStep(t) /\ LoopStep(u) /\ head = "bisect"
                                           \/ Closes(t, u)
        BY <2>2
      <3>2. Head(plan) = t /\ Tail(plan) = <<u>>
        BY <3>1, ShortPlans
      <3> QED BY <1>1, <3>1, <3>2 DEF Still, StillNext, Closes
    <2>3. CASE \E t, u, v : plan = <<t, u, v>> /\ LeaveStep(t) /\ SaveStep(u) /\ LoopStep(v)
      <3>1. PICK t, u, v : plan = <<t, u, v>> /\ LeaveStep(t) /\ SaveStep(u) /\ LoopStep(v)
        BY <2>3
      <3>2. Head(plan) = t /\ Tail(plan) = <<u, v>>
        BY <3>1, ShortPlans
      <3> QED BY <1>1, <3>1, <3>2 DEF Still, StillNext
    <2> QED BY <1>1, <2>1, <2>2, <2>3 DEF Still
  <1>2. CASE Moving
    <2>1. PICK c, t, u, v, x, y : c \in DOMAIN commits /\ OnTheWay(c, t, u, v, x, y)
      BY <1>2 DEF Moving
    <2>2. Under
      BY <1>2 DEF Moving
    <2>a. PICK a, q : a = Head(plan) /\ q = Tail(plan)
      OBVIOUS
    <2>3. MoveNext(a, q, c, u, v, x, y)
      <3>1. CASE /\ AtHead /\ FilesStep(t, c) /\ IndexStep(u, c) /\ LandStep(v, c)
                 /\ plan = <<t, u, v>> \/ (plan = <<t, u, v, x, y>> /\ Closes(x, y))
        <4>1. plan = <<t, u, v>> => a = t /\ q = <<u, v>>
          BY <2>a
        <4>2. plan = <<t, u, v, x, y>> => a = t /\ q = <<u, v, x, y>>
          BY <2>a
        <4> QED BY <3>1, <4>1, <4>2 DEF MoveNext
      <3>2. CASE /\ work = TreeOf(commits, c) /\ IndexStep(u, c) /\ LandStep(v, c)
                 /\ plan = <<u, v>> \/ (plan = <<u, v, x, y>> /\ Closes(x, y))
        <4>1. plan = <<u, v>> => a = u /\ q = <<v>>
          BY <2>a
        <4>2. plan = <<u, v, x, y>> => a = u /\ q = <<v, x, y>>
          BY <2>a
        <4> QED BY <3>2, <4>1, <4>2 DEF MoveNext
      <3>3. CASE /\ work = TreeOf(commits, c) /\ index = work /\ LandStep(v, c)
                 /\ plan = <<v>> \/ (plan = <<v, x, y>> /\ Closes(x, y))
        <4>1. plan = <<v>> => a = v /\ q = <<>>
          BY <2>a
        <4>2. plan = <<v, x, y>> => a = v /\ q = <<x, y>>
          BY <2>a
        <4> QED BY <3>3, <4>1, <4>2 DEF MoveNext
      <3> QED BY <2>1, <3>1, <3>2, <3>3 DEF OnTheWay
    <2>4. MovingNext(a, q)
      BY <2>1, <2>2, <2>3 DEF MovingNext
    <2> QED BY <2>a, <2>4
  <1> QED BY <1>1, <1>2

(* Which steps those may be. *)
LEMMA FirstOp ==
    ASSUME Bisected, NEW op, Step(op)
    PROVE  /\ StillNext(Head(plan), Tail(plan)) \/ MovingNext(Head(plan), Tail(plan))
           /\ Head(plan).op = op
           /\ StillNext(Head(plan), Tail(plan)) => op \in {"add", "end", "loop", "save", "tx"}
           /\ MovingNext(Head(plan), Tail(plan)) => op \in {"files", "index", "tx"}
  <1>1. StillNext(Head(plan), Tail(plan)) \/ MovingNext(Head(plan), Tail(plan))
    BY FirstStep DEF Bisected, Step
  <1>2. Head(plan).op = op
    BY DEF Step
  <1>3. StillNext(Head(plan), Tail(plan)) => op \in {"add", "end", "loop", "save", "tx"}
    BY <1>2 DEF StillNext, AddStep, EndStep, LoopStep, SaveStep, ForgetStep, LeaveStep
  <1>4. MovingNext(Head(plan), Tail(plan)) => op \in {"files", "index", "tx"}
    BY <1>2 DEF MovingNext, MoveNext, FilesStep, IndexStep, LandStep
  <1> QED BY <1>1, <1>2, <1>3, <1>4

(* The end of a bisect names what its plan said. *)
LEMMA BisectStepEnd ==
    ASSUME Bisected, StepEnd
    PROVE  Bisected'
  <1>1. Step("end")
    BY DEF StepEnd
  <1>2. AtHead /\ EndStep(Head(plan)) /\ Tail(plan) = <<>>
    BY <1>1, FirstOp DEF StillNext, AddStep, LoopStep, SaveStep, ForgetStep, LeaveStep
  <1>3. SameGhost /\ ghost'.ended = Head(plan).how
    BY DEF StepEnd, Bisected, Grounds, SameGhost, GhostNames
  <1>4. BisectFindsCulprit'
    BY <1>2, <1>3 DEF EndStep, BisectFindsCulprit, SameGhost
  <1>5. Grounds'
    BY <1>3, <1>4, GroundsStay DEF Bisected, StepEnd
  <1>6. AtHead' /\ plan' = <<>>
    BY <1>2 DEF AtHead, HeadTree, Tip, StepEnd, Done
  <1> QED BY <1>5, <1>6 DEF Bisected, Still

(* What is added is in the index already. *)
LEMMA BisectStepAdd ==
    ASSUME Bisected, StepAdd
    PROVE  Bisected'
  <1>1. Step("add")
    BY DEF StepAdd
  <1>2. AtHead /\ AddStep(Head(plan)) /\ Tail(plan) = <<>>
    BY <1>1, FirstOp DEF StillNext, EndStep, LoopStep, SaveStep, ForgetStep, LeaveStep
  <1>3. SameGhost /\ ghost'.ended = ghost.ended
    BY DEF StepAdd, Bisected, Grounds, SameGhost, GhostNames
  <1>4. Grounds'
    <2>1. BisectFindsCulprit'
      BY <1>3 DEF BisectFindsCulprit, Bisected, Grounds, SameGhost
    <2> QED BY <1>3, <2>1, GroundsStay DEF Bisected, StepAdd
  <1>5. AtHead' /\ plan' = <<>>
    BY <1>2 DEF AtHead, HeadTree, Tip, StepAdd, Done, AddStep
  <1> QED BY <1>4, <1>5 DEF Bisected, Still

(* A checkout makes the files those of the commit it goes to, or nothing. *)
LEMMA BisectStepFiles ==
    ASSUME Bisected, StepFiles
    PROVE  Bisected'
  <1>1. Step("files")
    BY DEF StepFiles
  <1>2. UNCHANGED <<commits, refs, head, index, files, ghost>>
    BY DEF StepFiles
  <1>3. Grounds'
    <2>1. SameGhost /\ BisectFindsCulprit'
      BY <1>2 DEF SameGhost, BisectFindsCulprit, Bisected, Grounds
    <2> QED BY <1>2, <2>1, GroundsStay DEF Bisected
  <1>4. PICK c, u, v, x, y :
          /\ c \in DOMAIN commits
          /\ Under /\ AtHead /\ FilesStep(Head(plan), c) /\ IndexStep(u, c) /\ LandStep(v, c)
          /\ Tail(plan) = <<u, v>> \/ (Tail(plan) = <<u, v, x, y>> /\ Closes(x, y))
    <2>1. MovingNext(Head(plan), Tail(plan)) /\ Head(plan).op = "files"
      BY <1>1, FirstOp
    <2>2. PICK c, u, v, x, y : c \in DOMAIN commits /\ MoveNext(Head(plan), Tail(plan), c, u, v, x, y)
      BY <2>1 DEF MovingNext
    <2>3. ~IndexStep(Head(plan), c) /\ ~LandStep(Head(plan), c)
      BY <2>1 DEF IndexStep, LandStep
    <2> QED BY <2>1, <2>2, <2>3 DEF MovingNext, MoveNext
  <1>5. PICK a : a = Head(plan)
    OBVIOUS
  <1>6. \/ plan' = <<>> /\ work' = work
        \/ plan' = Tail(plan) /\ work' = CheckedOut(a.old, a.tree, work)
    BY <1>5 DEF StepFiles, Done, Fails
  <1>7. CASE plan' = <<>> /\ work' = work
    BY <1>2, <1>3, <1>4, <1>7 DEF AtHead, HeadTree, Tip, Bisected, Still
  <1>8. CASE plan' = Tail(plan) /\ work' = CheckedOut(a.old, a.tree, work)
    <2>1. PICK to, from : to = TreeOf(commits, c) /\ from = HeadTree
      OBVIOUS
    <2>2. to = [p \in Paths |-> to[p]]
      BY <1>4, <2>1, TreesAre DEF Bisected
    <2>3. work' = CheckedOut(PathsIn(from), to, from)
      BY <1>4, <1>5, <1>8, <2>1 DEF FilesStep, AtHead
    <2>4. CheckedOut(PathsIn(from), to, from) = to
      BY <2>2 DEF CheckedOut, PathsIn
    <2>5. work' = TreeOf(commits, c)'
      BY <1>2, <2>1, <2>3, <2>4
    <2>6. IndexStep(u, c)' /\ LandStep(v, c)' /\ (Closes(x, y) => Closes(x, y)') /\ Under'
      BY <1>2, <1>4 DEF IndexStep, LandStep, Closes, ForgetStep, EndStep, Under
    <2>7. OnTheWay(c, u, u, v, x, y)'
      BY <1>4, <1>8, <2>5, <2>6 DEF OnTheWay
    <2>8. Moving'
      BY <1>2, <1>4, <2>6, <2>7 DEF Moving
    <2> QED BY <1>3, <2>8 DEF Bisected
  <1> QED BY <1>6, <1>7, <1>8

(* Then the index is what the files are. *)
LEMMA BisectStepIndex ==
    ASSUME Bisected, StepIndex
    PROVE  Bisected'
  <1>1. Step("index")
    BY DEF StepIndex
  <1>2. UNCHANGED <<commits, refs, head, work, files>> /\ plan' = Tail(plan)
        /\ index' = Head(plan).index
    BY DEF StepIndex, Done
  <1>3. PICK c, v, x, y :
          /\ c \in DOMAIN commits
          /\ Under /\ work = TreeOf(commits, c) /\ IndexStep(Head(plan), c) /\ LandStep(v, c)
          /\ Tail(plan) = <<v>> \/ (Tail(plan) = <<v, x, y>> /\ Closes(x, y))
    <2>1. MovingNext(Head(plan), Tail(plan)) /\ Head(plan).op = "index"
      BY <1>1, FirstOp
    <2>2. PICK c, u, v, x, y : c \in DOMAIN commits /\ MoveNext(Head(plan), Tail(plan), c, u, v, x, y)
      BY <2>1 DEF MovingNext
    <2>3. ~FilesStep(Head(plan), c) /\ ~LandStep(Head(plan), c)
      BY <2>1 DEF FilesStep, LandStep
    <2> QED BY <2>1, <2>2, <2>3 DEF MovingNext, MoveNext
  <1>4. index' = TreeOf(commits, c)
    BY <1>2, <1>3 DEF IndexStep
  <1>5. {p \in Paths : index'[p] = Unmerged} = {}
    BY <1>3, <1>4, TreesAre DEF Bisected
  <1>6. SameGhost /\ ghost'.ended = ghost.ended
    BY <1>5 DEF StepIndex, Bisected, Grounds, SameGhost, GhostNames
  <1>7. Grounds'
    <2>1. BisectFindsCulprit'
      BY <1>6 DEF BisectFindsCulprit, Bisected, Grounds, SameGhost
    <2> QED BY <1>2, <1>6, <2>1, GroundsStay DEF Bisected
  <1>8. LandStep(v, c)' /\ (Closes(x, y) => Closes(x, y)') /\ Under'
    BY <1>2, <1>3, <1>6 DEF LandStep, Closes, ForgetStep, EndStep, Under, SameGhost
  <1>9. Moving'
    <2>1. work' = TreeOf(commits, c)' /\ index' = work' /\ c \in (DOMAIN commits)'
      BY <1>2, <1>3, <1>4
    <2>2. OnTheWay(c, v, v, v, x, y)'
      BY <1>2, <1>3, <1>8, <2>1 DEF OnTheWay
    <2> QED BY <1>8, <2>1, <2>2 DEF Moving
  <1> QED BY <1>7, <1>9 DEF Bisected

(* Files and index that are HEAD's stay HEAD's when nothing of it changes. *)
LEMMA AtHeadStays ==
    ASSUME AtHead, UNCHANGED <<commits, refs, head, index, work>>
    PROVE  AtHead'
  BY DEF AtHead, HeadTree, Tip

(* A state file that is written knows, and so does the round after it. *)
LEMMA BisectStepSave ==
    ASSUME Placed, Bisected, StepSave
    PROVE  Bisected'
  <1>1. Step("save")
    BY DEF StepSave
  <1>2. UNCHANGED <<commits, refs, head, index, work, ghost>> /\ plan' = Tail(plan)
        /\ files' = [files EXCEPT ![Head(plan).file] = Head(plan).to]
    BY DEF StepSave, Done
  <1>3. /\ AtHead
        /\ \/ SaveStep(Head(plan)) /\ head = "bisect" /\ \E u : Tail(plan) = <<u>> /\ LoopStep(u)
           \/ ForgetStep(Head(plan)) /\ \E u : Tail(plan) = <<u>> /\ EndStep(u)
    BY <1>1, FirstOp DEF StillNext, AddStep, LoopStep, EndStep, LeaveStep
  <1>4. PICK a : a = Head(plan)
    OBVIOUS
  <1>5. a.file = "bisect"
    BY <1>3, <1>4 DEF SaveStep, ForgetStep
  <1>6. files'.bisect = a.to /\ files'.merge = files.merge
    BY <1>2, <1>4, <1>5 DEF Placed, FileNames
  <1>7. \A s : Knows(s) => Knows(s)'
    BY <1>2, KnowsStays
  <1>8. a.to # None => Knows(a.to)
    BY <1>3, <1>4 DEF SaveStep, ForgetStep
  <1>9. Grounds'
    BY <1>2, <1>6, <1>7, <1>8 DEF Bisected, Grounds, BisectFindsCulprit
  <1>10. AtHead'
    BY <1>2, <1>3, AtHeadStays
  <1>11. CASE SaveStep(a) /\ head = "bisect" /\ \E u : Tail(plan) = <<u>> /\ LoopStep(u)
    <2>1. PICK u : Tail(plan) = <<u>> /\ LoopStep(u)
      BY <1>11
    <2>2. LoopStep(u)'
      BY <1>7, <2>1 DEF LoopStep
    <2>3. Under'
      BY <1>2, <1>6, <1>11, SequencerAssumption DEF Under, SaveStep, Knows
    <2>4. Still'
      BY <1>2, <1>10, <2>1, <2>2, <2>3 DEF Still
    <2> QED BY <1>9, <2>4 DEF Bisected
  <1>12. CASE ForgetStep(a) /\ \E u : Tail(plan) = <<u>> /\ EndStep(u)
    <2>1. PICK u : Tail(plan) = <<u>> /\ EndStep(u)
      BY <1>12
    <2>2. EndStep(u)'
      BY <1>2, <2>1 DEF EndStep
    <2>3. Still'
      BY <1>2, <1>10, <2>1, <2>2 DEF Still
    <2> QED BY <1>9, <2>3 DEF Bisected
  <1> QED BY <1>3, <1>4, <1>11, <1>12

(* A transaction of one move. *)
LEMMA OneMove ==
    ASSUME Placed, StepTx, NEW r \in Refs, NEW old, NEW new,
           Head(plan).from = head, Head(plan).moves = {Move(r, old, new)}
    PROVE  \/ refs[r] # old /\ plan' = <<>> /\ UNCHANGED <<refs, head>>
           \/ /\ refs[r] = old /\ plan' = Tail(plan) /\ head' = Head(plan).to
              /\ refs'[r] = new /\ \A x \in Refs \ {r} : refs'[x] = refs[x]
  <1>1. PICK t : t = Head(plan)
    OBVIOUS
  <1>2. PICK m : m = Move(r, old, new)
    OBVIOUS
  <1>3. m.ref = r /\ m.old = old /\ m.new = new
    BY <1>2 DEF Move
  <1>4. t.from = head /\ t.moves = {m}
    BY <1>1, <1>2
  <1>5. (\A k \in t.moves : refs[k.ref] = k.old) <=> refs[r] = old
    BY <1>3, <1>4
  <1>6. CASE refs[r] # old
    BY <1>1, <1>4, <1>5, <1>6 DEF StepTx, Fails
  <1>7. CASE refs[r] = old
    <2>1. /\ refs' = [x \in Refs |-> IF \E k \in t.moves : k.ref = x
                                     THEN (CHOOSE k \in t.moves : k.ref = x).new ELSE refs[x]]
          /\ head' = t.to /\ plan' = Tail(plan)
      BY <1>1, <1>4, <1>5, <1>7 DEF StepTx, Done
    <2>2. (CHOOSE k \in t.moves : k.ref = r) = m
      BY <1>3, <1>4
    <2>3. refs'[r] = new
      BY <1>3, <1>4, <2>1, <2>2
    <2>4. \A x \in Refs \ {r} : refs'[x] = refs[x]
      BY <1>3, <1>4, <2>1
    <2> QED BY <1>1, <1>7, <2>1, <2>3, <2>4
  <1> QED BY <1>6, <1>7

(* HEAD leaves for the scratch ref, or lands where the files are already. *)
LEMMA BisectStepTx ==
    ASSUME Placed, Bisected, StepTx
    PROVE  Bisected'
  <1>1. Step("tx")
    BY DEF StepTx
  <1>2. UNCHANGED <<commits, index, work, files, ghost>>
    BY DEF StepTx
  <1>3. Head(plan).op = "tx" /\ \/ StillNext(Head(plan), Tail(plan))
                                \/ MovingNext(Head(plan), Tail(plan))
    BY <1>1, FirstOp
  <1>4. PICK a, q : a = Head(plan) /\ q = Tail(plan)
    OBVIOUS
  <1>5. a.op = "tx" /\ (StillNext(a, q) \/ MovingNext(a, q))
    BY <1>3, <1>4
  <1>6. \A s : Knows(s) => Knows(s)'
    BY <1>2, KnowsStays
  <1>7. /\ head' \in {"bisect"} \cup Branches /\ refs'[head'] \in DOMAIN commits
        /\ \A r \in Branches : refs'[r] = refs[r]
        => Grounds'
    BY <1>2, <1>6 DEF Bisected, Grounds, BisectFindsCulprit
  <1>8. /\ UNCHANGED <<refs, head>>
        => Grounds'
    BY <1>2, <1>6 DEF Bisected, Grounds, BisectFindsCulprit
  <1>9. CASE StillNext(a, q)
    <2>1. AtHead /\ LeaveStep(a)
      BY <1>5, <1>9 DEF StillNext, AddStep, EndStep, LoopStep, SaveStep, ForgetStep
    <2>2. PICK u, v : q = <<u, v>> /\ SaveStep(u) /\ LoopStep(v)
      BY <1>5, <1>9 DEF StillNext, AddStep, EndStep, LoopStep, SaveStep, ForgetStep
    <2>3. SaveStep(u)' /\ LoopStep(v)'
      BY <1>6, <2>2 DEF SaveStep, LoopStep
    <2>4. \/ plan' = <<>> /\ UNCHANGED <<refs, head>>
          \/ /\ plan' = q /\ head' = "bisect" /\ refs'["bisect"] = Tip
             /\ \A x \in Refs \ {"bisect"} : refs'[x] = refs[x]
      BY <1>4, <2>1, OneMove DEF LeaveStep, Refs
    <2>5. CASE plan' = <<>> /\ UNCHANGED <<refs, head>>
      <3>1. AtHead'
        BY <1>2, <2>1, <2>5, AtHeadStays
      <3> QED BY <1>8, <2>5, <3>1 DEF Bisected, Still
    <2>6. CASE /\ plan' = q /\ head' = "bisect" /\ refs'["bisect"] = Tip
               /\ \A x \in Refs \ {"bisect"} : refs'[x] = refs[x]
      <3>1. Grounds'
        BY <1>7, <2>6 DEF Refs, Branches, Bisected, Grounds, Tip
      <3>2. AtHead'
        BY <1>2, <2>1, <2>6 DEF AtHead, HeadTree, Tip
      <3>3. Still'
        BY <2>2, <2>3, <2>6, <3>2 DEF Still
      <3> QED BY <3>1, <3>3 DEF Bisected
    <2> QED BY <2>4, <2>5, <2>6
  <1>10. CASE MovingNext(a, q)
    <2>1. PICK c, u, v, x, y : c \in DOMAIN commits /\ MoveNext(a, q, c, u, v, x, y)
      BY <1>10 DEF MovingNext
    <2>2. /\ work = TreeOf(commits, c) /\ index = work /\ LandStep(a, c)
          /\ q = <<>> \/ (q = <<x, y>> /\ Closes(x, y))
      BY <1>5, <2>1 DEF MoveNext, FilesStep, IndexStep
    <2>3. head = "bisect"
      BY <1>10 DEF MovingNext, Under
    <2>4. /\ plan' = q /\ refs'[head'] = c /\ head' \in {"bisect"} \cup Branches
          /\ \A r \in Branches : refs'[r] = refs[r]
      <3>1. CASE a.to = head /\ a.moves = {Move(head, refs[head], c)}
        BY <1>4, <2>2, <2>3, <3>1, OneMove DEF LandStep, Refs, Branches
      <3>2. CASE a.to \in Branches /\ refs[a.to] = c /\ a.moves = {Move(head, refs[head], 0)}
        BY <1>4, <2>2, <2>3, <3>2, OneMove DEF LandStep, Refs, Branches
      <3> QED BY <2>2, <3>1, <3>2 DEF LandStep
    <2>5. Grounds'
      BY <1>7, <2>1, <2>4
    <2>6. AtHead'
      BY <1>2, <2>2, <2>4 DEF AtHead, HeadTree, Tip
    <2>7. Closes(x, y) => Closes(x, y)'
      BY <1>2 DEF Closes, ForgetStep, EndStep
    <2>8. Still'
      BY <2>2, <2>4, <2>6, <2>7 DEF Still
    <2> QED BY <2>5, <2>8 DEF Bisected
  <1> QED BY <1>5, <1>9, <1>10

(* A process that dies, but not on the way, leaves files and index HEAD's. *)
LEMMA BisectCrash ==
    ASSUME ~BisectDies, Bisected, Crash
    PROVE  Bisected'
  <1>1. plan # <<>> /\ plan' = <<>> /\ UNCHANGED <<commits, refs, head, index, files, ghost>>
        /\ (files.bisect = None \/ Head(plan).op \in {"save", "loop", "end"})
    BY DEF Crash, Fails
  <1>2. StillNext(Head(plan), Tail(plan))
    <2>1. StillNext(Head(plan), Tail(plan)) \/ MovingNext(Head(plan), Tail(plan))
      BY <1>1, FirstStep DEF Bisected
    <2>2. MovingNext(Head(plan), Tail(plan)) => files.bisect # None
      BY DEF MovingNext, Under
    <2>3. MovingNext(Head(plan), Tail(plan)) => Head(plan).op \in {"files", "index", "tx"}
      BY DEF MovingNext, MoveNext, FilesStep, IndexStep, LandStep
    <2> QED BY <1>1, <2>1, <2>2, <2>3
  <1>3. AtHead /\ Head(plan).op \notin {"files", "write"}
    BY <1>2 DEF StillNext, AddStep, EndStep, LoopStep, SaveStep, ForgetStep, LeaveStep
  <1>4. BeingWritten = work
    BY <1>3 DEF BeingWritten
  <1>5. work' = work
    <2>1. PICK ps \in SUBSET Paths :
             work' = [p \in Paths |-> IF p \in ps THEN BeingWritten[p] ELSE work[p]]
      BY DEF Crash
    <2>2. work' = [p \in Paths |-> work[p]]
      BY <1>4, <2>1
    <2>3. work = [p \in Paths |-> work[p]]
      <3>1. PICK c \in DOMAIN commits : work = TreeOf(commits, c)
        BY <1>3 DEF AtHead, HeadTree, Tip, Bisected, Grounds
      <3> QED BY <3>1, TreesAre DEF Bisected
    <2> QED BY <2>2, <2>3
  <1>6. SameGhost /\ BisectFindsCulprit'
    BY <1>1 DEF SameGhost, BisectFindsCulprit, Bisected, Grounds
  <1>7. Grounds' /\ AtHead'
    BY <1>1, <1>3, <1>5, <1>6, GroundsStay, AtHeadStays DEF Bisected
  <1> QED BY <1>1, <1>7 DEF Bisected, Still

(* The end of a bisect is one step. *)
LEMMA EndOfBisect ==
    ASSUME NEW n
    PROVE  \E t : End([found |-> n]) = <<t>> /\ t.op = "end" /\ t.how.found = n
  <1>1. PICK h : h = [found |-> n]
    OBVIOUS
  <1>2. PICK t : t = [op |-> "end", how |-> h]
    OBVIOUS
  <1>3. t.op = "end" /\ t.how = h /\ h.found = n
    BY <1>1, <1>2
  <1>4. End(h) = <<t>>
    BY <1>2 DEF End
  <1> QED BY <1>1, <1>3, <1>4

(* The culprit is a candidate, and so is the bad commit. *)
LEMMA CandidatesAre ==
    ASSUME Grounds, NEW s, Knows(s)
    PROVE  /\ ghost.culprit \in Candidates(s) /\ s.bad \in Candidates(s)
           /\ Candidates(s) \subseteq DOMAIN commits
           /\ Cardinality(Candidates(s)) = 1 => s.bad = ghost.culprit
  <1>1. Numbered(commits)
    BY DEF Grounds, Bisectable
  <1>2. /\ \A c \in DOMAIN commits : IsAncestor(commits, c, c)
        /\ \A c \in DOMAIN commits : \A a : IsAncestor(commits, a, c) => a \in DOMAIN commits
        /\ \A a, d : \A c \in DOMAIN commits :
              IsAncestor(commits, a, d) /\ IsAncestor(commits, d, c) => IsAncestor(commits, a, c)
        /\ \A a, S : a \in Ancestry(commits, S) <=> \E c \in S : IsAncestor(commits, a, c)
    BY <1>1, AncestorsAre
  <1>3. \A a : a \in Candidates(s) <=> /\ IsAncestor(commits, a, s.bad)
                                       /\ \A c \in s.good : ~IsAncestor(commits, a, c)
    BY <1>2 DEF Candidates
  <1>4. ghost.culprit \in Candidates(s)
    BY <1>3 DEF Knows
  <1>5. s.bad \in Candidates(s)
    <2>1. IsAncestor(commits, s.bad, s.bad)
      BY <1>2 DEF Knows
    <2>2. ASSUME NEW c \in s.good
          PROVE  ~IsAncestor(commits, s.bad, c)
      BY <1>2, <2>2 DEF Knows
    <2> QED BY <1>3, <2>1, <2>2
  <1>6. Candidates(s) \subseteq DOMAIN commits
    BY <1>2, <1>3 DEF Knows
  <1>7. ASSUME Cardinality(Candidates(s)) = 1
        PROVE  s.bad = ghost.culprit
    <2>1. Candidates(s) \subseteq 1..Len(commits) /\ Len(commits) \in Nat
      BY <1>1, <1>6 DEF Numbered
    <2>2. IsFiniteSet(Candidates(s))
      <3>1. IsFiniteSet(1..Len(commits))
        BY <2>1, FS_Interval
      <3> QED BY <2>1, <3>1, FS_Subset
    <2>3. PICK c : Candidates(s) = {c}
      BY <1>7, <2>2, FS_Singleton
    <2> QED BY <1>4, <1>5, <2>3
  <1> QED BY <1>4, <1>5, <1>6, <1>7

(* The way to the next commit to test. *)
LEMMA CheckoutPut ==
    ASSUME NEW t, NEW u, NEW v
    PROVE  <<t, u>> \o <<v>> = <<t, u, v>>
  <1>1. PICK p, r : p = <<t, u>> /\ r = <<t, u, v>>
    OBVIOUS
  <1>2. IsPlan(p) /\ Len(p) = 2 /\ p[1] = t /\ p[2] = u
    BY <1>1, PlanOfTwo
  <1>3. r \in Seq({t, u, v}) /\ Len(r) = 3 /\ r[1] = t /\ r[2] = u /\ r[3] = v
    BY <1>1
  <1>4. \A i \in 1..2 : i = 1 \/ i = 2
    OBVIOUS
  <1>5. IsPlan(r) /\ Len(r) = Len(p) + 1 /\ r[Len(p) + 1] = v /\ \A i \in 1..Len(p) : r[i] = p[i]
    BY <1>2, <1>3, <1>4 DEF IsPlan
  <1>6. p \o <<v>> = r
    BY <1>2, <1>5, PlanAppendIs
  <1> QED BY <1>1, <1>6

(* A round stops, ends with the culprit or nothing, or goes to a commit to  *)
(* test.                                                                    *)
LEMMA BisectRoundStays ==
    ASSUME Grounds, AtHead, Under, NEW s, Knows(s), NEW p, p = BisectRound(s)
    PROVE  \/ p = <<>>
           \/ \E t : p = <<t>> /\ EndStep(t)
           \/ \E c \in DOMAIN commits : \E t, u, v :
                p = <<t, u, v>> /\ FilesStep(t, c) /\ IndexStep(u, c) /\ LandStep(v, c)
  <1> DEFINE c == ToTest(s)
  <1>1. \/ p = <<>>
        \/ Cardinality(Candidates(s)) = 1 /\ p = End([found |-> s.bad])
        \/ p = End([found |-> 0])
        \/ /\ Testable(s) # {}
           /\ p = Checkout(PathsIn(HeadTree), TreeOf(commits, c))
                  \o Tx({Move("bisect", refs["bisect"], c)}, head)
    BY DEF BisectRound
  <1>2. CASE Cardinality(Candidates(s)) = 1 /\ p = End([found |-> s.bad])
    <2>1. s.bad = ghost.culprit
      BY <1>2, CandidatesAre
    <2> QED BY <1>2, <2>1, EndOfBisect DEF EndStep
  <1>3. CASE p = End([found |-> 0])
    BY <1>3, EndOfBisect DEF EndStep
  <1>4. CASE /\ Testable(s) # {}
             /\ p = Checkout(PathsIn(HeadTree), TreeOf(commits, c))
                    \o Tx({Move("bisect", refs["bisect"], c)}, head)
    <2>1. c \in DOMAIN commits
      <3>1. Numbered(commits) /\ Candidates(s) \subseteq DOMAIN commits
        BY CandidatesAre DEF Grounds, Bisectable
      <3>2. c \in Testable(s)
        BY <1>4, <3>1, ToTestIs
      <3> QED BY <3>1, <3>2 DEF Testable
    <2> HIDE DEF c
    <2>2. PICK old, tree, m : old = PathsIn(HeadTree) /\ tree = TreeOf(commits, c)
                              /\ m = {Move("bisect", refs["bisect"], c)}
      OBVIOUS
    <2>3. PICK t, u, v : /\ t = [op |-> "files", old |-> old, tree |-> tree]
                         /\ u = [op |-> "index", index |-> tree]
                         /\ v = [op |-> "tx", from |-> head, to |-> head, moves |-> m]
      OBVIOUS
    <2>4. /\ t.op = "files" /\ t.old = old /\ t.tree = tree /\ u.op = "index" /\ u.index = tree
          /\ v.op = "tx" /\ v.from = head /\ v.to = head /\ v.moves = m
      BY <2>3
    <2>5. p = <<t, u>> \o <<v>>
      BY <1>4, <2>2, <2>3 DEF Checkout, Tx
    <2>6. p = <<t, u, v>>
      BY <2>5, CheckoutPut
    <2>7. FilesStep(t, c) /\ IndexStep(u, c) /\ LandStep(v, c)
      BY <2>2, <2>4 DEF FilesStep, IndexStep, LandStep, Under
    <2> QED BY <2>1, <2>6, <2>7
  <1> QED BY <1>1, <1>2, <1>3, <1>4

(* So does its step. *)
LEMMA BisectStepLoop ==
    ASSUME Bisected, StepLoop
    PROVE  Bisected'
  <1>1. Step("loop")
    BY DEF StepLoop
  <1>2. AtHead /\ LoopStep(Head(plan)) /\ Under
    BY <1>1, FirstOp DEF StillNext, AddStep, SaveStep, EndStep, ForgetStep, LeaveStep
  <1>3. UNCHANGED <<commits, refs, head, index, work, files>>
    BY DEF StepLoop
  <1>4. PICK s : s = Head(plan).rest
    OBVIOUS
  <1>5. Knows(s)
    BY <1>2, <1>4 DEF LoopStep
  <1>6. "onto" \notin DOMAIN s /\ "bad" \in DOMAIN s
    BY <1>5 DEF Knows, BisectStates
  <1>7. plan' = BisectRound(s)
    BY <1>4, <1>6 DEF StepLoop
  <1>8. SameGhost /\ ghost'.ended = ghost.ended
    BY DEF StepLoop, Bisected, Grounds, SameGhost, GhostNames
  <1>9. Grounds'
    <2>1. BisectFindsCulprit'
      BY <1>8 DEF BisectFindsCulprit, Bisected, Grounds, SameGhost
    <2> QED BY <1>3, <1>8, <2>1, GroundsStay DEF Bisected
  <1>10. AtHead' /\ Under'
    BY <1>2, <1>3, AtHeadStays DEF Under
  <1>11. \/ plan' = <<>>
         \/ \E t : plan' = <<t>> /\ EndStep(t)
         \/ \E c \in DOMAIN commits : \E t, u, v :
              plan' = <<t, u, v>> /\ FilesStep(t, c) /\ IndexStep(u, c) /\ LandStep(v, c)
    BY <1>2, <1>5, <1>7, BisectRoundStays DEF Bisected
  <1>12. CASE plan' = <<>>
    BY <1>9, <1>10, <1>12 DEF Bisected, Still
  <1>13. CASE \E t : plan' = <<t>> /\ EndStep(t)
    <2>1. PICK t : plan' = <<t>> /\ EndStep(t)
      BY <1>13
    <2>2. EndStep(t)'
      BY <1>8, <2>1 DEF EndStep, SameGhost
    <2> QED BY <1>9, <1>10, <2>1, <2>2 DEF Bisected, Still
  <1>14. CASE \E c \in DOMAIN commits : \E t, u, v :
                plan' = <<t, u, v>> /\ FilesStep(t, c) /\ IndexStep(u, c) /\ LandStep(v, c)
    <2>1. PICK c, t, u, v :
             /\ c \in DOMAIN commits
             /\ plan' = <<t, u, v>> /\ FilesStep(t, c) /\ IndexStep(u, c) /\ LandStep(v, c)
      BY <1>14
    <2>2. FilesStep(t, c)' /\ IndexStep(u, c)' /\ LandStep(v, c)'
      BY <1>3, <2>1 DEF FilesStep, IndexStep, LandStep, HeadTree, Tip
    <2>3. OnTheWay(c, t, u, v, v, v)'
      BY <1>10, <2>1, <2>2 DEF OnTheWay
    <2>4. Moving'
      BY <1>3, <1>10, <2>1, <2>3 DEF Moving
    <2> QED BY <1>9, <2>4 DEF Bisected
  <1> QED BY <1>11, <1>12, <1>13, <1>14

-----------------------------------------------------------------------------
(* The commands on such a history. *)

(* Between commands the files and the index are HEAD's. *)
LEMMA IdleAtHead ==
    ASSUME Bisected, plan = <<>>
    PROVE  AtHead /\ index = work /\ Staged(index) = index /\ Staged(index) = HeadTree
           /\ work = [p \in Paths |-> work[p]]
  <1>1. Still
    <2>1. SUFFICES ASSUME Moving PROVE FALSE
      BY DEF Bisected
    <2>2. PICK c, t, u, v, x, y : OnTheWay(c, t, u, v, x, y)
      BY <2>1 DEF Moving
    <2>3. /\ <<t, u, v>> # <<>> /\ <<t, u, v, x, y>> # <<>> /\ <<u, v>> # <<>>
          /\ <<u, v, x, y>> # <<>> /\ <<v>> # <<>> /\ <<v, x, y>> # <<>>
      OBVIOUS
    <2> QED BY <2>2, <2>3 DEF OnTheWay
  <1>2. AtHead
    BY <1>1 DEF Still
  <1>3. PICK c \in DOMAIN commits : work = TreeOf(commits, c)
    BY <1>2 DEF AtHead, HeadTree, Tip, Bisected, Grounds
  <1> QED BY <1>2, <1>3, TreesAre DEF AtHead, Bisected

(* There is nothing to add. *)
LEMMA BisectAdds ==
    ASSUME Bisected, (\E p \in Paths : Add({p})) \/ AddAll
    PROVE  Bisected'
  <1>1. \E ps, i : /\ i = work \/ i = [p \in Paths |-> IF p \in ps THEN work[p] ELSE Staged(index)[p]]
                   /\ Begin("add", <<[op |-> "add", paths |-> ps, index |-> i]>>)
    <2>1. CASE AddAll
      BY <2>1 DEF AddAll
    <2>2. ASSUME NEW p \in Paths, Add({p})
          PROVE  \E ps, i :
                   /\ i = work \/ i = [q \in Paths |-> IF q \in ps THEN work[q] ELSE Staged(index)[q]]
                   /\ Begin("add", <<[op |-> "add", paths |-> ps, index |-> i]>>)
      BY <2>2 DEF Add
    <2> QED BY <2>1, <2>2
  <1>2. PICK ps, i :
          /\ i = work \/ i = [p \in Paths |-> IF p \in ps THEN work[p] ELSE Staged(index)[p]]
          /\ Begin("add", <<[op |-> "add", paths |-> ps, index |-> i]>>)
    BY <1>1
  <1>3. PICK t : t = [op |-> "add", paths |-> ps, index |-> i]
    OBVIOUS
  <1>4. t.op = "add" /\ t.index = i
    BY <1>3
  <1>5. /\ Grounds' /\ plan = <<>> /\ plan' = <<t>>
        /\ UNCHANGED <<commits, refs, head, files, index, work>>
    BY <1>2, <1>3, BeginStays DEF Bisected
  <1>6. AtHead /\ i = index
    BY <1>2, <1>5, IdleAtHead
  <1>7. AtHead' /\ AddStep(t)'
    BY <1>4, <1>5, <1>6, AtHeadStays DEF AddStep
  <1> QED BY <1>5, <1>7 DEF Bisected, Still

(* What the files of a commit say is what is so of it. *)
LEMMA VerdictIsRight ==
    ASSUME Grounds, NEW c \in DOMAIN commits
    PROVE  IsBad(TreeOf(commits, c)) <=> IsAncestor(commits, ghost.culprit, c)
  BY DEF IsBad, IsAncestor, Grounds, Bisectable, Tells

(* A plan of two steps. *)
LEMMA TwoPut ==
    ASSUME NEW t, NEW u
    PROVE  <<t>> \o <<u>> = <<t, u>>
  <1>1. PICK p, r : p = <<t>> /\ r = <<t, u>>
    OBVIOUS
  <1>2. /\ IsPlan(p) /\ Len(p) = 1 /\ p[1] = t
        /\ IsPlan(r) /\ Len(r) = 2 /\ r[1] = t /\ r[2] = u
    BY <1>1, PlanOfOne, PlanOfTwo
  <1>3. \A i \in 1..1 : i = 1
    OBVIOUS
  <1>4. Len(r) = Len(p) + 1 /\ r[Len(p) + 1] = u /\ \A i \in 1..Len(p) : r[i] = p[i]
    BY <1>2, <1>3
  <1>5. p \o <<u>> = r
    BY <1>2, <1>4, PlanAppendIs
  <1> QED BY <1>1, <1>5

(* A bisect starts between a good and a bad commit. *)
LEMMA StartsKnowing ==
    ASSUME Bisected, NEW good \in DOMAIN commits, BisectStart(good)
    PROVE  Bisected'
  <1>a. PICK m, s : /\ m = {Move("bisect", 0, Tip)}
                     /\ s = [branch |-> head, bad |-> Tip, good |-> {good}, skip |-> {}]
    OBVIOUS
  <1>b. PICK t, u, v : /\ t = [op |-> "tx", from |-> head, to |-> "bisect", moves |-> m]
                       /\ u = [op |-> "save", file |-> "bisect", to |-> s]
                       /\ v = [op |-> "loop", rest |-> s]
    OBVIOUS
  <1>1. /\ t.op = "tx" /\ t.from = head /\ t.to = "bisect" /\ t.moves = m
        /\ u.op = "save" /\ u.file = "bisect" /\ u.to = s /\ v.op = "loop" /\ v.rest = s
        /\ s.branch = head /\ s.bad = Tip /\ s.good = {good}
    BY <1>a, <1>b
  <1>2. Begin("bisect", <<t>> \o <<u>> \o <<v>>)
    BY <1>a, <1>b DEF BisectStart, Tx, Save, Loop
  <1>3. Knows(s)
    <2>1. DOMAIN commits \subseteq Nat
      BY DEF Bisected, Grounds, Bisectable, Numbered
    <2>2. Tip \in DOMAIN commits /\ head \in {"topic", "main"}
      BY DEF Tip, Bisected, Grounds, BisectStart, OnBranch, Branches
    <2>3. s \in BisectStates
      BY <1>a, <2>1, <2>2 DEF BisectStates
    <2>4. IsAncestor(commits, ghost.culprit, Tip) /\ ~IsAncestor(commits, ghost.culprit, good)
      BY <2>2, VerdictIsRight DEF Bisected, BisectStart, HeadTree
    <2> QED BY <1>1, <2>2, <2>3, <2>4 DEF Knows
  <1>4. plan' = <<t, u, v>>
    <2>1. plan' = <<t>> \o <<u>> \o <<v>>
      BY <1>2 DEF Begin
    <2>2. <<t>> \o <<u>> = <<t, u>>
      BY TwoPut
    <2>3. <<t, u>> \o <<v>> = <<t, u, v>>
      BY CheckoutPut
    <2> QED BY <2>1, <2>2, <2>3
  <1>5. /\ SameGhost /\ Grounds' /\ plan = <<>>
        /\ UNCHANGED <<commits, refs, head, files, index, work>>
    BY <1>2, BeginStays DEF Bisected
  <1>6. Knows(s)'
    BY <1>3, <1>5, KnowsStays DEF SameGhost
  <1>7. AtHead'
    BY <1>5, IdleAtHead, AtHeadStays
  <1>8. LeaveStep(t)' /\ SaveStep(u)' /\ LoopStep(v)'
    BY <1>a, <1>1, <1>5, <1>6 DEF LeaveStep, SaveStep, LoopStep, Tip
  <1>9. Still'
    BY <1>4, <1>7, <1>8 DEF Still
  <1> QED BY <1>5, <1>9 DEF Bisected

(* A verdict is on the commit HEAD is at, and is right. *)
LEMMA MarksKnowing ==
    ASSUME Placed, ScratchAtHead, Bisected, NEW verdict \in {"good", "bad", "skip"},
           BisectMark(verdict)
    PROVE  Bisected'
  <1>a. PICK at, f : at = refs["bisect"] /\ f = files.bisect
    OBVIOUS
  <1>b. PICK s : s = [f EXCEPT !.bad = IF verdict = "bad" THEN at ELSE @,
                                !.good = IF verdict = "good" THEN @ \cup {at} ELSE @,
                                !.skip = IF verdict = "skip" THEN @ \cup {at} ELSE @]
    OBVIOUS
  <1>c. PICK t, u : /\ t = [op |-> "save", file |-> "bisect", to |-> s]
                    /\ u = [op |-> "loop", rest |-> s]
    OBVIOUS
  <1>1. t.op = "save" /\ t.file = "bisect" /\ t.to = s /\ u.op = "loop" /\ u.rest = s
    BY <1>c
  <1>2. Begin("bisect", <<t>> \o <<u>>)
    BY <1>a, <1>b, <1>c DEF BisectMark, Save, Loop
  <1>3. /\ SameGhost /\ Grounds' /\ plan = <<>>
        /\ UNCHANGED <<commits, refs, head, files, index, work>>
    BY <1>2, BeginStays DEF Bisected
  <1>4. AtHead
    BY <1>3, IdleAtHead
  <1>5. head = "bisect" /\ f # None
    BY <1>a DEF BisectMark, ScratchAtHead, Scratches
  <1>6. at \in DOMAIN commits /\ at \in Nat /\ work = TreeOf(commits, at)
    BY <1>4, <1>5, <1>a DEF AtHead, HeadTree, Tip, Bisected, Grounds, Bisectable, Numbered
  <1>7. Knows(f)
    BY <1>5, <1>a DEF Bisected, Grounds
  <1>8. /\ verdict = "bad" => IsAncestor(commits, ghost.culprit, at)
        /\ verdict = "good" => ~IsAncestor(commits, ghost.culprit, at)
    BY <1>6, VerdictIsRight DEF Bisected, BisectMark
  <1>9. Knows(s)
    <2>1. f \in [branch : {"topic", "main"}, bad : Nat, good : SUBSET Nat, skip : SUBSET Nat]
      BY <1>7 DEF Knows, BisectStates
    <2>2. /\ s.bad = IF verdict = "bad" THEN at ELSE f.bad
          /\ s.good = IF verdict = "good" THEN f.good \cup {at} ELSE f.good
      BY <1>b, <2>1
    <2>3. s \in BisectStates
      BY <1>6, <1>b, <2>1 DEF BisectStates
    <2> QED BY <1>6, <1>7, <1>8, <2>2, <2>3 DEF Knows
  <1>10. plan' = <<t, u>>
    <2>1. plan' = <<t>> \o <<u>>
      BY <1>2 DEF Begin
    <2> QED BY <2>1, TwoPut
  <1>11. Knows(s)'
    BY <1>3, <1>9, KnowsStays DEF SameGhost
  <1>12. AtHead'
    BY <1>3, <1>4, AtHeadStays
  <1>13. SaveStep(t)' /\ LoopStep(u)' /\ head' = "bisect"
    BY <1>1, <1>3, <1>5, <1>11 DEF SaveStep, LoopStep
  <1>14. Still'
    BY <1>10, <1>12, <1>13 DEF Still
  <1> QED BY <1>3, <1>14 DEF Bisected

(* A reset goes the way of a checkout, to the branch, and names nothing. *)
LEMMA ResetsFind ==
    ASSUME Placed, ScratchAtHead, Bisected, BisectReset
    PROVE  Bisected'
  <1>x. PICK h, at, m : /\ h = files.bisect.branch /\ at = refs["bisect"]
                        /\ m = {Move("bisect", at, 0)}
    OBVIOUS
  <1>y. PICK o, e, old, tree :
             /\ o = refs[h] /\ e = [branch |-> h, at |-> o, loose |-> Untracked(index, work)]
             /\ old = PathsIn(TreeOf(commits, at)) /\ tree = TreeOf(commits, o)
    OBVIOUS
  <1>z. PICK a, b, t, s, z :
             /\ a = [op |-> "files", old |-> old, tree |-> tree]
             /\ b = [op |-> "index", index |-> tree]
             /\ t = [op |-> "tx", from |-> "bisect", to |-> h, moves |-> m]
             /\ s = [op |-> "save", file |-> "bisect", to |-> None]
             /\ z = [op |-> "end", how |-> e]
    OBVIOUS
  <1>1. Begin("bisect", <<a, b>> \o <<t>> \o <<s>> \o <<z>>)
    BY <1>x, <1>y, <1>z DEF BisectReset, Checkout, Save, Restored, End
  <1>2. /\ a.op = "files" /\ a.tree = TreeOf(commits, o) /\ a.old = PathsIn(TreeOf(commits, at))
        /\ b.op = "index" /\ b.index = TreeOf(commits, o)
        /\ t.op = "tx" /\ t.from = "bisect" /\ t.to = h /\ t.moves = m
        /\ s.op = "save" /\ s.file = "bisect" /\ s.to = None
        /\ z.op = "end" /\ z.how = e /\ "found" \notin DOMAIN e
    BY <1>y, <1>z
  <1>3. /\ SameGhost /\ Grounds' /\ plan = <<>>
        /\ UNCHANGED <<commits, refs, head, files, index, work>>
    BY <1>1, BeginStays DEF Bisected
  <1>4. AtHead
    BY <1>3, IdleAtHead
  <1>5. head = "bisect" /\ files.bisect # None
    BY DEF BisectReset, ScratchAtHead, Scratches
  <1>6. h \in Branches /\ o \in DOMAIN commits
    BY <1>5, <1>x, <1>y DEF Bisected, Grounds, Knows, BisectStates, Branches
  <1>7. plan' = <<a, b, t, s, z>>
    <2>1. plan' = FivePut(a, b, t, s, z)
      BY <1>1 DEF Begin, FivePut
    <2> QED BY <2>1, AbortWithTx DEF Five
  <1>8. /\ FilesStep(a, o)' /\ IndexStep(b, o)'
        /\ LandStep(t, o)' /\ ForgetStep(s)' /\ EndStep(z)'
    <2>1. FilesStep(a, o) /\ IndexStep(b, o) /\ LandStep(t, o) /\ ForgetStep(s) /\ EndStep(z)
      BY <1>2, <1>5, <1>6, <1>x, <1>y DEF FilesStep, IndexStep, LandStep, ForgetStep, EndStep, HeadTree, Tip
    <2> QED BY <1>3, <2>1
         DEF FilesStep, IndexStep, LandStep, ForgetStep, EndStep, HeadTree, Tip, SameGhost
  <1>9. AtHead' /\ Under'
    BY <1>3, <1>4, <1>5, AtHeadStays DEF Under
  <1>10. OnTheWay(o, a, b, t, s, z)'
    BY <1>7, <1>8, <1>9 DEF OnTheWay, Closes
  <1>11. Moving'
    BY <1>3, <1>6, <1>9, <1>10 DEF Moving
  <1> QED BY <1>3, <1>11 DEF Bisected

-----------------------------------------------------------------------------
(* The other histories: no plan has a round or an end of a bisect.          *)
TameStep(t) == /\ t.op = "end" => "found" \notin DOMAIN t.how
               /\ t.op = "loop" => "bad" \notin DOMAIN t.rest
Tame(p) == IsPlan(p) /\ \A i \in DOMAIN p : TameStep(p[i])

NoFind == ghost.ended # None => "found" \notin DOMAIN ghost.ended
Untested == /\ DOMAIN ghost = GhostNames /\ "bisect" \notin ghost.commands
            /\ Tame(plan) /\ NoFind

(* Plans are put together of tame ones. *)
LEMMA TameConcat ==
    ASSUME NEW p, NEW q, Tame(p), Tame(q)
    PROVE  Tame(p \o q)
  <1>1. PICK r : r = p \o q
    OBVIOUS
  <1>2. /\ IsPlan(r)
        /\ \A i \in DOMAIN r : \/ i \in DOMAIN p /\ r[i] = p[i]
                               \/ i - Len(p) \in DOMAIN q /\ r[i] = q[i - Len(p)]
    BY <1>1, PlanConcat DEF Tame
  <1>3. \A i \in DOMAIN r : TameStep(r[i])
    BY <1>2 DEF Tame
  <1> QED BY <1>1, <1>2, <1>3 DEF Tame

LEMMA TameOne ==
    ASSUME NEW t, TameStep(t)
    PROVE  Tame(<<t>>)
  BY PlanOfOne DEF Tame

LEMMA TameTwo ==
    ASSUME NEW t, NEW u, TameStep(t), TameStep(u)
    PROVE  Tame(<<t, u>>)
  BY PlanOfTwo DEF Tame

LEMMA TameNothing == Tame(<<>>)
  <1>1. <<>> \in Seq({}) /\ DOMAIN <<>> = {}
    OBVIOUS
  <1> QED BY <1>1 DEF Tame, IsPlan

LEMMA TameLeft ==
    ASSUME NEW p, Tame(p), p # <<>>
    PROVE  Tame(Tail(p)) /\ TameStep(Head(p))
  <1>1. PICK q : q = Tail(p)
    OBVIOUS
  <1>2. /\ IsPlan(q) /\ Head(p) = p[1] /\ 1 \in DOMAIN p
        /\ \A i \in DOMAIN q : i + 1 \in DOMAIN p /\ q[i] = p[i + 1]
    BY <1>1, PlanTail DEF Tame
  <1> QED BY <1>1, <1>2 DEF Tame

(* All writes are tame, and a loop is what its state is. *)
LEMMA TameWrites ==
    /\ \A old, tree : Tame(Checkout(old, tree))
    /\ \A base, ours, theirs : Tame(Conflict(base, ours, theirs))
    /\ \A r, parents, tree, carries : Tame(Commit(r, parents, tree, carries))
    /\ \A file, to : Tame(Save(file, to))
    /\ \A moves, to : Tame(Tx(moves, to))
    /\ \A branch : Tame(LeaveScratch(branch))
    /\ \A s : "bad" \notin DOMAIN s => Tame(Loop(s))
    /\ \A branch, c, loose : Tame(Restored(branch, c, loose))
  <1>1. ASSUME NEW old, NEW tree
        PROVE  Tame(Checkout(old, tree))
    <2>1. PICK t, u : t = [op |-> "files", old |-> old, tree |-> tree]
                      /\ u = [op |-> "index", index |-> tree]
      OBVIOUS
    <2>2. TameStep(t) /\ TameStep(u)
      BY <2>1 DEF TameStep
    <2> QED BY <2>1, <2>2, TameTwo DEF Checkout
  <1>2. ASSUME NEW base, NEW ours, NEW theirs
        PROVE  Tame(Conflict(base, ours, theirs))
    <2>1. PICK t, u : t = [op |-> "write", tree |-> WrittenConflict(base, ours, theirs, work)]
                      /\ u = [op |-> "index", index |-> MergedIndex(base, ours, theirs)]
      OBVIOUS
    <2>2. TameStep(t) /\ TameStep(u)
      BY <2>1 DEF TameStep
    <2> QED BY <2>1, <2>2, TameTwo DEF Conflict
  <1>3. ASSUME NEW r, NEW parents, NEW tree, NEW carries
        PROVE  Tame(Commit(r, parents, tree, carries))
    <2>1. PICK new : new = [parents |-> parents, tree |-> tree, carries |-> carries]
      OBVIOUS
    <2>2. PICK t : t = [op |-> "commit", ref |-> r, old |-> refs[r], new |-> new]
      OBVIOUS
    <2>3. TameStep(t)
      BY <2>2 DEF TameStep
    <2> QED BY <2>1, <2>2, <2>3, TameOne DEF Commit
  <1>4. ASSUME NEW file, NEW to
        PROVE  Tame(Save(file, to))
    <2>1. PICK t : t = [op |-> "save", file |-> file, to |-> to]
      OBVIOUS
    <2>2. TameStep(t)
      BY <2>1 DEF TameStep
    <2> QED BY <2>1, <2>2, TameOne DEF Save
  <1>5. ASSUME NEW moves, NEW to
        PROVE  Tame(Tx(moves, to))
    <2>1. PICK t : t = [op |-> "tx", from |-> head, to |-> to, moves |-> moves]
      OBVIOUS
    <2>2. TameStep(t)
      BY <2>1 DEF TameStep
    <2> QED BY <2>1, <2>2, TameOne DEF Tx
  <1>6. ASSUME NEW branch
        PROVE  Tame(LeaveScratch(branch))
    <2>1. PICK m : m = {Move("scratch", refs["scratch"], 0)}
      OBVIOUS
    <2>2. PICK t : t = [op |-> "tx", from |-> "scratch", to |-> branch, moves |-> m]
      OBVIOUS
    <2>3. TameStep(t)
      BY <2>2 DEF TameStep
    <2> QED BY <2>1, <2>2, <2>3, TameOne DEF LeaveScratch
  <1>7. ASSUME NEW s, "bad" \notin DOMAIN s
        PROVE  Tame(Loop(s))
    <2>1. PICK t : t = [op |-> "loop", rest |-> s]
      OBVIOUS
    <2>2. TameStep(t)
      BY <1>7, <2>1 DEF TameStep
    <2> QED BY <2>1, <2>2, TameOne DEF Loop
  <1>8. ASSUME NEW branch, NEW c, NEW loose
        PROVE  Tame(Restored(branch, c, loose))
    <2>1. PICK h : h = [branch |-> branch, at |-> c, loose |-> loose]
      OBVIOUS
    <2>2. PICK t : t = [op |-> "end", how |-> h]
      OBVIOUS
    <2>3. TameStep(t)
      BY <2>1, <2>2 DEF TameStep
    <2> QED BY <2>1, <2>2, <2>3, TameOne DEF Restored, End
  <1> QED BY <1>1, <1>2, <1>3, <1>4, <1>5, <1>6, <1>7, <1>8

(* A command that begins, a step, and a step that fails. *)
LEMMA TameBegins ==
    ASSUME Untested, NEW name, NEW p, Begin(name, p), Tame(p)
    PROVE  Untested'
  BY DEF Begin, Untested, NoFind, GhostNames

LEMMA TameStays ==
    ASSUME Untested, Tame(plan'), DOMAIN ghost' = DOMAIN ghost,
           ghost'.commands = ghost.commands, ghost'.ended \in {ghost.ended, None}
    PROVE  Untested'
  BY DEF Untested, NoFind

LEMMA TameSteps ==
    ASSUME Untested,
           \/ StepTx \/ StepCommit \/ StepFiles \/ StepWrite \/ StepIndex \/ StepAdd \/ StepSave
           \/ StepEnd \/ Crash
    PROVE  Untested'
  <1>1. plan # <<>>
    BY DEF StepTx, StepCommit, StepFiles, StepWrite, StepIndex, StepAdd, StepSave, StepEnd, Crash, Step
  <1>2. Tame(Tail(plan)) /\ TameStep(Head(plan)) /\ Tame(<<>>)
    BY <1>1, TameLeft, TameNothing DEF Untested
  <1>3. CASE StepEnd
    <2>1. Head(plan).op = "end" /\ plan' = Tail(plan)
      BY <1>3 DEF StepEnd, Step, Done
    <2>2. /\ DOMAIN ghost' = DOMAIN ghost /\ ghost'.commands = ghost.commands
          /\ ghost'.ended = Head(plan).how
      BY <1>3 DEF StepEnd, Untested, GhostNames
    <2> QED BY <1>2, <2>1, <2>2 DEF Untested, NoFind, TameStep
  <1>4. CASE StepTx \/ StepCommit \/ StepFiles \/ StepWrite \/ StepSave \/ Crash
    <2>1. (plan' = Tail(plan) \/ plan' = <<>>) /\ ghost' = ghost
      BY <1>4 DEF StepTx, StepCommit, StepFiles, StepWrite, StepSave, Crash, Done, Fails
    <2> QED BY <1>2, <2>1, TameStays
  <1>5. CASE StepIndex \/ StepAdd
    <2>1. /\ plan' = Tail(plan) /\ DOMAIN ghost' = DOMAIN ghost
          /\ ghost'.commands = ghost.commands /\ ghost'.ended = ghost.ended
      BY <1>5 DEF StepIndex, StepAdd, Done, Untested, GhostNames
    <2> QED BY <1>2, <2>1, TameStays
  <1> QED BY <1>3, <1>4, <1>5

(* The rounds of the other loops are made of writes and their own loop. *)
LEMMA TameApply == \A action, c, tree : Tame(Apply(action, c, tree))
  BY TameWrites DEF Apply

LEMMA TameRevertRound ==
    ASSUME NEW s
    PROVE  Tame(RevertRound(s))
  <1> DEFINE c == Head(s.todo)
             tree == MergedTree(TreeOf(commits, c), HeadTree, RevertedFrom(c))
             rest == RevertState(0, Tail(s.todo), s.orig)
             p1 == Conflict(TreeOf(commits, c), HeadTree, RevertedFrom(c))
                   \o Save("revert", RevertState(c, Tail(s.todo), s.orig))
             p2 == Checkout(PathsIn(Staged(index)), tree) \o <<>>
             p3 == Checkout(PathsIn(Staged(index)), tree)
                   \o (Commit(head, <<Tip>>, tree, {}) \o Loop(rest))
  <1>1. RevertRound(s) \in {Save("revert", None), <<>>, p1, p2, p3}
    BY DEF RevertRound
  <1>2. "bad" \notin DOMAIN rest
    BY DEF RevertState
  <1> HIDE DEF c, tree, rest
  <1>3. Tame(p1) /\ Tame(p2)
    BY TameWrites, TameConcat, TameNothing
  <1>4. Tame(p3)
    BY <1>2, TameWrites, TameConcat
  <1> HIDE DEF p1, p2, p3
  <1> QED BY <1>1, <1>3, <1>4, TameWrites, TameNothing

LEMMA TameRebaseRound ==
    ASSUME NEW s, "bad" \notin DOMAIN s
    PROVE  Tame(RebaseRound(s))
  <1> DEFINE at == refs["scratch"]
             step == Head(s.todo)
             c == step.commit
             base == RevertedFrom(c)
             tree == MergedTree(base, TreeOf(commits, at), TreeOf(commits, c))
             rest == [s EXCEPT !.todo = Tail(s.todo)]
             left == [rest EXCEPT !.current = c, !.action = step.action]
             moves == {Move(s.branch, s.orig, at)}
             tx == <<[op |-> "tx", from |-> s.branch, to |-> s.branch, moves |-> moves]>>
             p1 == Save("rebase", rest) \o Loop(rest)
             p2 == LeaveScratch(s.branch) \o <<>> \o Save("rebase", None)
             p3 == LeaveScratch(s.branch) \o tx \o Save("rebase", None)
             p4 == Conflict(base, TreeOf(commits, at), TreeOf(commits, c)) \o Save("rebase", left)
             p5 == Checkout(PathsIn(Staged(index)), tree) \o <<>> \o Save("rebase", rest) \o Loop(rest)
             p6 == Checkout(PathsIn(Staged(index)), tree) \o Apply(step.action, c, tree)
                   \o Save("rebase", rest) \o Loop(rest)
  <1>1. RebaseRound(s) \in {<<>>, p1, p2, p3, p4, p5, p6}
    BY DEF RebaseRound
  <1>2. "bad" \notin DOMAIN rest
    OBVIOUS
  <1>3. Tame(tx)
    <2>1. PICK m : m = moves
      OBVIOUS
    <2>2. PICK t : t = [op |-> "tx", from |-> s.branch, to |-> s.branch, moves |-> m]
      OBVIOUS
    <2>3. TameStep(t)
      BY <2>2 DEF TameStep
    <2> QED BY <2>1, <2>2, <2>3, TameOne
  <1> HIDE DEF step, c, base, tree, rest, left, tx
  <1>4. Tame(p1) /\ Tame(p2) /\ Tame(p3) /\ Tame(p4)
    BY <1>2, <1>3, TameWrites, TameConcat, TameNothing
  <1>5. Tame(p5)
    BY <1>2, TameWrites, TameConcat, TameNothing
  <1>6. Tame(p6)
    BY <1>2, TameWrites, TameConcat, TameApply
  <1> HIDE DEF p1, p2, p3, p4, p5, p6
  <1> QED BY <1>1, <1>4, <1>5, <1>6, TameNothing

(* The state of a loop says whose it is. *)
LEMMA TameLoops ==
    ASSUME Untested, StepLoop
    PROVE  Untested'
  <1>1. plan # <<>> /\ Head(plan).op = "loop"
    BY DEF StepLoop, Step
  <1>2. TameStep(Head(plan))
    BY <1>1, TameLeft DEF Untested
  <1>3. PICK s : s = Head(plan).rest
    OBVIOUS
  <1>4. "bad" \notin DOMAIN s
    BY <1>1, <1>2, <1>3 DEF TameStep
  <1>5. plan' = RebaseRound(s) \/ plan' = RevertRound(s)
    BY <1>3, <1>4 DEF StepLoop
  <1>6. Tame(plan')
    BY <1>4, <1>5, TameRebaseRound, TameRevertRound
  <1>7. /\ DOMAIN ghost' = DOMAIN ghost /\ ghost'.commands = ghost.commands
        /\ ghost'.ended = ghost.ended
    BY DEF StepLoop, Untested, GhostNames
  <1> QED BY <1>6, <1>7, TameStays

(* The commands, each a plan of writes. *)
LEMMA TameCommits ==
    ASSUME Untested, CommitStaged
    PROVE  Untested'
  <1> DEFINE a == Commit(head, <<Tip>> \o (IF files.merge = 0 THEN <<>> ELSE <<files.merge>>),
                         Staged(index), Waiting(files.rebase))
             b == IF files.merge = 0 THEN <<>> ELSE Save("merge", 0)
             c == IF files.revert = None THEN <<>>
                  ELSE Save("revert", [files.revert EXCEPT !.current = 0])
             d == IF files.rebase = None THEN <<>>
                  ELSE Save("rebase", [files.rebase EXCEPT !.current = 0])
  <1>1. Tame(a) /\ Tame(b) /\ Tame(c) /\ Tame(d)
    BY TameWrites, TameNothing
  <1>2. Begin("commit", a \o b \o c \o d)
    BY DEF CommitStaged
  <1> HIDE DEF a, b, c, d
  <1>3. Tame(a \o b \o c \o d)
    BY <1>1, TameConcat
  <1> QED BY <1>2, <1>3, TameBegins

LEMMA TameAdds ==
    ASSUME Untested, (\E p \in Paths : Add({p})) \/ AddAll
    PROVE  Untested'
  <1>1. ASSUME NEW ps, NEW i
        PROVE  Tame(<<[op |-> "add", paths |-> ps, index |-> i]>>)
    <2>1. PICK t : t = [op |-> "add", paths |-> ps, index |-> i]
      OBVIOUS
    <2>2. TameStep(t)
      BY <2>1 DEF TameStep
    <2> QED BY <2>1, <2>2, TameOne
  <1>2. CASE AddAll
    BY <1>1, <1>2, TameBegins DEF AddAll
  <1>3. ASSUME NEW p \in Paths, Add({p})
        PROVE  Untested'
    BY <1>1, <1>3, TameBegins DEF Add
  <1> QED BY <1>2, <1>3

LEMMA TameMerges ==
    ASSUME Untested, NEW branch, Merge(branch)
    PROVE  Untested'
  <1> DEFINE theirs == refs[branch]
             bases == MergeBases(commits, {Tip}, {theirs})
             base == BaseTree(commits, bases)
             tree == MergedTree(base, HeadTree, TreeOf(commits, theirs))
             old == PathsIn(Staged(index))
             p1 == Checkout(old, TreeOf(commits, theirs)) \o Tx({Move(head, Tip, theirs)}, head)
             p2 == Conflict(base, HeadTree, TreeOf(commits, theirs)) \o Save("merge", theirs)
             p3 == Checkout(old, tree) \o Commit(head, <<Tip, theirs>>, tree, {})
  <1>1. Begin("merge", p1) \/ Begin("merge", p2) \/ Begin("merge", p3)
    BY DEF Merge
  <1> HIDE DEF theirs, bases, base, tree, old
  <1>2. Tame(p1) /\ Tame(p2) /\ Tame(p3)
    BY TameWrites, TameConcat
  <1> HIDE DEF p1, p2, p3
  <1> QED BY <1>1, <1>2, TameBegins

LEMMA TamePicks ==
    ASSUME Untested, NEW c, CherryPick(c)
    PROVE  Untested'
  <1> DEFINE base == TreeOf(commits, commits[c].parents[1])
             theirs == TreeOf(commits, c)
             tree == MergedTree(base, HeadTree, theirs)
             p1 == Conflict(base, HeadTree, theirs)
             p2 == Checkout(PathsIn(Staged(index)), tree) \o Commit(head, <<Tip>>, tree, {})
  <1>1. Begin("pick", p1) \/ Begin("pick", p2)
    BY DEF CherryPick
  <1> HIDE DEF base, theirs, tree
  <1>2. Tame(p1) /\ Tame(p2)
    BY TameWrites, TameConcat
  <1> HIDE DEF p1, p2
  <1> QED BY <1>1, <1>2, TameBegins

LEMMA TameReverts ==
    ASSUME AbortInv, Untested,
           (\E todo : RevertStart(todo)) \/ RevertContinue \/ RevertAbort
    PROVE  Untested'
  <1>1. CASE \E todo : RevertStart(todo)
    <2>1. PICK todo : RevertStart(todo)
      BY <1>1
    <2>2. PICK s : s = RevertState(0, todo, Tip)
      OBVIOUS
    <2>3. "bad" \notin DOMAIN s
      BY <2>2 DEF RevertState
    <2> QED BY <2>1, <2>2, <2>3, TameWrites, TameBegins DEF RevertStart
  <1>2. CASE RevertContinue
    <2>1. PICK s : s = files.revert
      OBVIOUS
    <2>2. "bad" \notin DOMAIN s
      BY <1>2, <2>1 DEF RevertContinue, AbortInv, StatesKept, OfRevert
    <2>3. \/ Begin("revert", Loop(s))
          \/ Begin("revert", Commit(head, <<Tip>>, Staged(index), {}) \o Loop(s))
      BY <1>2, <2>1 DEF RevertContinue
    <2>4. Tame(Loop(s)) /\ Tame(Commit(head, <<Tip>>, Staged(index), {}) \o Loop(s))
      BY <2>2, TameWrites, TameConcat
    <2> QED BY <2>3, <2>4, TameBegins
  <1>3. CASE RevertAbort
    <2> DEFINE s == files.revert
               a == Checkout(Known(index), TreeOf(commits, s.orig))
               b == IF Tip = s.orig THEN <<>> ELSE Tx({Move(head, Tip, s.orig)}, head)
               p == a \o b \o Save("revert", None) \o Restored(head, s.orig, NeverAdded)
    <2>1. Begin("revert", p)
      BY <1>3 DEF RevertAbort
    <2>2. Tame(a) /\ Tame(b)
      BY TameWrites, TameNothing
    <2> HIDE DEF a, b
    <2>3. Tame(p)
      BY <2>2, TameWrites, TameConcat
    <2> QED BY <2>1, <2>3, TameBegins
  <1> QED BY <1>1, <1>2, <1>3

LEMMA TameRebases ==
    ASSUME AbortInv, Untested,
           \/ \E upstream, actions : RebaseStart(upstream, actions)
           \/ RebaseContinue \/ RebaseSkip \/ RebaseAbort
    PROVE  Untested'
  <1>1. CASE \E upstream, actions : RebaseStart(upstream, actions)
    <2>1. PICK upstream, actions : RebaseStart(upstream, actions)
      BY <1>1
    <2> DEFINE onto == refs[upstream]
               todo == EditedTodo(ToReplay(Tip, onto), actions)
               tx == Tx({Move("scratch", 0, onto)}, "scratch")
               out == Checkout(PathsIn(TreeOf(commits, Tip)), TreeOf(commits, onto))
               s == [branch |-> head, orig |-> Tip, onto |-> onto,
                     current |-> 0, action |-> "pick", todo |-> todo]
    <2>2. plan' = tx \o out \o (Save("rebase", s) \o Loop(s))
      BY <2>1 DEF RebaseStart
    <2>3. Tame(tx) /\ Tame(out) /\ "bad" \notin DOMAIN s
      BY TameWrites
    <2> HIDE DEF tx, out, s
    <2>4. Tame(plan')
      BY <2>2, <2>3, TameWrites, TameConcat
    <2>5. DOMAIN ghost' = DOMAIN ghost /\ ghost'.commands = ghost.commands /\ ghost'.ended = None
      BY <2>1 DEF RebaseStart, Untested, GhostNames
    <2> QED BY <2>4, <2>5, TameStays
  <1>2. ASSUME files.rebase # None, NEW n
        PROVE  "bad" \notin DOMAIN files.rebase /\ "bad" \notin DOMAIN [files.rebase EXCEPT !.current = n]
    BY <1>2 DEF AbortInv, StatesKept, OfRebase
  <1>3. CASE RebaseContinue
    <2> DEFINE s == files.rebase
               done == [s EXCEPT !.current = 0]
               a == Apply(s.action, s.current, Staged(index))
    <2>1. \/ Begin("rebase", Loop(s))
          \/ Begin("rebase", a \o Save("rebase", done) \o Loop(done))
      BY <1>3 DEF RebaseContinue
    <2>2. Tame(a) /\ "bad" \notin DOMAIN s /\ "bad" \notin DOMAIN done
      BY <1>2, <1>3, TameApply DEF RebaseContinue
    <2> HIDE DEF s, done, a
    <2>3. Tame(Loop(s)) /\ Tame(a \o Save("rebase", done) \o Loop(done))
      BY <2>2, TameWrites, TameConcat
    <2> QED BY <2>1, <2>3, TameBegins
  <1>4. CASE RebaseSkip
    <2> DEFINE done == [files.rebase EXCEPT !.current = 0]
               a == Checkout(Known(index), TreeOf(commits, refs["scratch"]))
    <2>1. plan' = a \o Save("rebase", done) \o Loop(done)
      BY <1>4 DEF RebaseSkip
    <2>2. Tame(a) /\ "bad" \notin DOMAIN done
      BY <1>2, <1>4, TameWrites DEF RebaseSkip
    <2> HIDE DEF done, a
    <2>3. Tame(plan')
      BY <2>1, <2>2, TameWrites, TameConcat
    <2>4. DOMAIN ghost' = DOMAIN ghost /\ ghost'.commands = ghost.commands /\ ghost'.ended = None
      BY <1>4 DEF RebaseSkip, Untested, GhostNames
    <2> QED BY <2>3, <2>4, TameStays
  <1>5. CASE RebaseAbort
    <2> DEFINE s == files.rebase
               p == Checkout(Known(index), TreeOf(commits, s.orig)) \o LeaveScratch(s.branch)
                    \o Save("rebase", None) \o Restored(s.branch, s.orig, NeverAdded)
    <2>1. Begin("rebase", p)
      BY <1>5 DEF RebaseAbort
    <2>2. Tame(p)
      BY TameWrites, TameConcat
    <2> QED BY <2>1, <2>2, TameBegins
  <1> QED BY <1>1, <1>3, <1>4, <1>5

(* The other commands are not used, or refuse. *)
LEMMA NothingElseBegins ==
    ASSUME Bisected
    PROVE  /\ \A p, c : ~Edit(p, c)
           /\ ~CommitStaged
           /\ \A b : ~Merge(b)
           /\ \A c : ~CherryPick(c)
           /\ \A todo : ~RevertStart(todo)
           /\ ~RevertContinue /\ ~RevertAbort
           /\ \A b, t : ~RebaseStart(b, t)
           /\ ~RebaseContinue /\ ~RebaseSkip /\ ~RebaseAbort
  <1>1. ghost.commands \subseteq BisectCommands /\ ghost.open = {} /\ files.merge = 0
    BY DEF Bisected, Grounds
  <1>2. \A name, p : Begin(name, p) => name \in BisectCommands
    BY <1>1 DEF Begin
  <1>3. \A p, c : ~Edit(p, c)
    BY <1>1 DEF Edit
  <1>4. ~CommitStaged
    <2>1. SUFFICES ASSUME CommitStaged
                   PROVE  FALSE
      OBVIOUS
    <2>2. plan = <<>> /\ Staged(index) # HeadTree
      BY <1>1, <2>1 DEF CommitStaged, Begin
    <2> QED BY <2>2, IdleAtHead
  <1>5. \A b : ~Merge(b)
    BY <1>2 DEF Merge, BisectCommands
  <1>6. \A c : ~CherryPick(c)
    BY <1>2 DEF CherryPick, BisectCommands
  <1>7. \A todo : ~RevertStart(todo)
    BY <1>2 DEF RevertStart, BisectCommands
  <1>8. ~RevertContinue /\ ~RevertAbort
    BY <1>2 DEF RevertContinue, RevertAbort, BisectCommands
  <1>9. \A b, t : ~RebaseStart(b, t)
    BY <1>1 DEF RebaseStart, BisectCommands
  <1>10. ~RebaseContinue /\ ~RebaseSkip /\ ~RebaseAbort
    BY <1>1, <1>2 DEF RebaseContinue, RebaseSkip, RebaseAbort, BisectCommands
  <1> QED BY <1>3, <1>4, <1>5, <1>6, <1>7, <1>8, <1>9, <1>10

(* Nor is a commit made or a conflict written. *)
LEMMA NoCommitNoConflict ==
    ASSUME Bisected
    PROVE  ~StepCommit /\ ~StepWrite
  BY FirstOp DEF StepCommit, StepWrite

(* Without bisect, none of its commands begins, and an edit ends nothing. *)
LEMMA NoBisectBegins ==
    ASSUME Untested
    PROVE  /\ \A c : ~BisectStart(c)
           /\ \A v : ~BisectMark(v)
           /\ ~BisectReset
  BY DEF BisectStart, BisectMark, BisectReset, Begin, Untested

(* An edit plans nothing. *)
LEMMA TameEdits ==
    ASSUME Untested, NEW p, NEW c, Edit(p, c)
    PROVE  Untested'
  BY TameStays DEF Edit, Untested, GhostNames

(* Every step of a history that is bisected keeps its invariant. *)
LEMMA BisectedNext ==
    ASSUME ~BisectDies, AbortInv, Bisected, Next
    PROVE  Bisected'
  <1>1. Placed /\ ScratchAtHead
    BY DEF AbortInv
  <1>2. CASE (\E p \in Paths : Add({p})) \/ AddAll
    BY <1>2, BisectAdds
  <1>3. CASE \E c \in DOMAIN commits : BisectStart(c)
    BY <1>3, StartsKnowing
  <1>4. CASE \E v \in {"good", "bad", "skip"} : BisectMark(v)
    BY <1>1, <1>4, MarksKnowing
  <1>5. CASE BisectReset
    BY <1>1, <1>5, ResetsFind
  <1>6. CASE StepTx \/ StepFiles \/ StepIndex \/ StepAdd \/ StepSave
    BY <1>1, <1>6, BisectStepTx, BisectStepFiles, BisectStepIndex, BisectStepAdd, BisectStepSave
  <1>7. CASE StepLoop \/ StepEnd \/ Crash
    BY <1>7, BisectStepLoop, BisectStepEnd, BisectCrash
  <1> QED BY <1>2, <1>3, <1>4, <1>5, <1>6, <1>7, NothingElseBegins, NoCommitNoConflict DEF Next

(* Every step of another history names no commit. *)
LEMMA UntestedNext ==
    ASSUME AbortInv, Untested, Next
    PROVE  Untested'
  <1>1. CASE \E p \in Paths, c \in Contents \cup {Absent} : Edit(p, c)
    BY <1>1, TameEdits
  <1>2. CASE (\E p \in Paths : Add({p})) \/ AddAll \/ CommitStaged
    BY <1>2, TameAdds, TameCommits
  <1>3. CASE (\E b \in Branches \ {head} : Merge(b)) \/ \E c \in DOMAIN commits : CherryPick(c)
    BY <1>3, TameMerges, TamePicks
  <1>4. CASE \/ \E c, d \in DOMAIN commits : RevertStart(<<c>>) \/ RevertStart(<<c, d>>)
             \/ RevertContinue \/ RevertAbort
    BY <1>4, TameReverts
  <1>5. CASE \/ \E b \in Branches \ {head}, t \in Todos : RebaseStart(b, t)
             \/ RebaseContinue \/ RebaseSkip \/ RebaseAbort
    BY <1>5, TameRebases
  <1>6. CASE \/ StepTx \/ StepCommit \/ StepFiles \/ StepWrite \/ StepIndex \/ StepAdd
             \/ StepSave \/ StepEnd \/ Crash
    BY <1>6, TameSteps
  <1>7. CASE StepLoop
    BY <1>7, TameLoops
  <1> QED BY <1>1, <1>2, <1>3, <1>4, <1>5, <1>6, <1>7, NoBisectBegins DEF Next

-----------------------------------------------------------------------------
(* The theorem. *)

(* The inductive invariant: one of the two, and what aborts need. *)
BisectInv == AbortInv /\ (Bisected \/ Untested)

(* It holds at first. *)
LEMMA InitBisectInv ==
    ASSUME BisectsAlone, Init
    PROVE  BisectInv
  <1>1. PICK h \in Histories :
           /\ commits = h.commits
           /\ refs = [r \in Refs |-> IF r \in Branches THEN h[r] ELSE 0]
           /\ head = "topic"
           /\ index = TreeOf(h.commits, h.topic)
           /\ work = index
           /\ files = [merge |-> 0, revert |-> None, rebase |-> None, bisect |-> None]
           /\ plan = <<>>
           /\ ghost = [excused |-> {}, open |-> {}, ended |-> None, culprit |-> h.culprit,
                        commands |-> h.commands]
    BY DEF Init
  <1>2. AbortInv
    BY InitAbortInv
  <1>3. /\ DOMAIN ghost = GhostNames /\ ghost.open = {} /\ ghost.ended = None
        /\ ghost.culprit = h.culprit /\ ghost.commands = h.commands
        /\ files.merge = 0 /\ files.bisect = None
        /\ refs["topic"] = h.topic /\ refs["main"] = h.main
    BY <1>1 DEF GhostNames, Refs, Branches
  <1>4. CASE "bisect" \in h.commands
    <2>1. /\ h.commands \subseteq BisectCommands
          /\ Bisectable(h.commits, h.culprit)
          /\ {h.topic, h.main} \subseteq DOMAIN h.commits
      BY <1>4 DEF BisectsAlone
    <2>2. Grounds
      BY <1>1, <1>3, <2>1 DEF Grounds, Branches, BisectFindsCulprit
    <2>3. Still
      BY <1>1, <1>3 DEF Still, AtHead, HeadTree, Tip
    <2> QED BY <1>2, <2>2, <2>3 DEF BisectInv, Bisected
  <1>5. CASE "bisect" \notin h.commands
    BY <1>1, <1>2, <1>3, <1>5, TameNothing DEF BisectInv, Untested, NoFind
  <1> QED BY <1>4, <1>5

(* Every step keeps it. *)
LEMMA NextBisectInv ==
    ASSUME ~BisectDies, BisectInv, [Next]_vars
    PROVE  BisectInv'
  <1>1. AbortInv'
    BY NextAbortInv DEF BisectInv
  <1>2. CASE Next
    BY <1>1, <1>2, BisectedNext, UntestedNext DEF BisectInv
  <1>3. CASE UNCHANGED vars
    <2>1. UNCHANGED <<commits, refs, head, index, work, files, plan, ghost>>
      BY <1>3 DEF vars
    <2>2. CASE Untested
      <3>1. Untested'
        BY <2>1, <2>2, TameStays DEF Untested
      <3> QED BY <1>1, <3>1 DEF BisectInv
    <2>3. CASE Bisected
      <3>1. Grounds'
        BY <2>1, <2>3, GroundsStay DEF Bisected, SameGhost, BisectFindsCulprit, Grounds
      <3>2. \A s : Knows(s) => Knows(s)'
        BY <2>1, KnowsStays
      <3>3. AtHead => AtHead'
        BY <2>1, AtHeadStays
      <3>4. Still => Still'
        BY <2>1, <3>2, <3>3 DEF Still, AddStep, EndStep, LoopStep, SaveStep, LeaveStep,
           Closes, ForgetStep, Under, Tip
      <3>5. Moving => Moving'
        <4>1. \A t, c : /\ FilesStep(t, c) => FilesStep(t, c)'
                        /\ IndexStep(t, c) => IndexStep(t, c)'
                        /\ LandStep(t, c) => LandStep(t, c)'
          BY <2>1 DEF FilesStep, IndexStep, LandStep, HeadTree, Tip
        <4>2. \A t, u : Closes(t, u) => Closes(t, u)'
          BY <2>1 DEF Closes, ForgetStep, EndStep
        <4>3. \A c, t, u, v, x, y : OnTheWay(c, t, u, v, x, y) => OnTheWay(c, t, u, v, x, y)'
          <5>1. \A c : TreeOf(commits', c) = TreeOf(commits, c)
            BY <2>1
          <5> QED BY <2>1, <3>3, <4>1, <4>2, <5>1 DEF OnTheWay
        <4> QED BY <2>1, <4>3 DEF Moving, Under
      <3> QED BY <1>1, <2>3, <3>1, <3>4, <3>5 DEF BisectInv, Bisected
    <2> QED BY <2>2, <2>3 DEF BisectInv
  <1> QED BY <1>2, <1>3

(* A bisect that names a commit names the culprit, whichever commits it was *)
(* started on and tested, in whatever order they were marked, skipped or    *)
(* reset, and wherever the process died but between the checkout of a       *)
(* commit and the move of the scratch ref to it. (bisect_next and           *)
(* bisect_step.)                                                            *)
THEOREM BisectsFind ==
    ASSUME ~BisectDies, BisectsAlone
    PROVE  Spec => []BisectFindsCulprit
  <1>1. Init => BisectInv
    BY InitBisectInv
  <1>2. BisectInv /\ [Next]_vars => BisectInv'
    BY NextBisectInv
  <1>3. BisectInv => BisectFindsCulprit
    BY DEF BisectInv, Bisected, Grounds, Untested, NoFind, BisectFindsCulprit
  <1> QED BY <1>1, <1>2, <1>3, PTL DEF Spec
=============================================================================
