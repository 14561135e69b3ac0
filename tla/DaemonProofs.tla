---------------------------- MODULE DaemonProofs ----------------------------
(***************************************************************************)
(* Proofs about Daemon, for any clients, daemons and number of attempts;   *)
(* about the group commit each daemon has, and about who owns its socket.  *)
(***************************************************************************)
EXTENDS Daemon, GroupCommit, DaemonBind, FiniteSetTheorems, SequenceTheorems, TLAPS

-----------------------------------------------------------------------------
(* The inductive invariant of what answers mean.                           *)

\* A request is at one daemon, which runs it under its mutex.
RequestInv ==
    /\ up \cap dead = {}
    /\ \A c \in Client :
         /\ pc[c] # "waiting" => work[c] = "none" /\ conn[c] = None
         /\ pc[c] = "waiting" => conn[c] \in up \cup dead
         /\ work[c] \in InTurn /\ conn[c] \in up => mutex[conn[c]] = c

\* What has been applied is in the log, and what has been flushed on the device.
MadeIt(c) == \E i \in DOMAIN log : log[i].by = c /\ log[i].try = tries[c]
AnswerInv ==
    /\ \A c \in Client : /\ work[c] = "applied" => MadeIt(c)
                         /\ work[c] \in {"flushing", "known"} => Applied(c)
                         /\ work[c] = "ran" => Durable(c)
                         /\ pc[c] \in {"served", "direct"} => Durable(c)
    /\ \A d \in up : \A c \in byKey[d] : Applied(c)

RunInv == TypeOK /\ RequestInv /\ AnswerInv

-----------------------------------------------------------------------------
(* ... and of exactly once, for one client whose command carries its id.   *)

\* A snapshot hides an operation of a client from who opens the store next (open:
\* the replay starts after the operation the snapshot is anchored to).
Hidden(c) == \E i \in DOMAIN log : log[i].by = c /\ i < ReplayFrom
Visible(c) == Hidden(c) => pc[c] \in Ended

\* While the client is at it, each daemon that has folded its operation in has its id.
Folded(c, d) ==
    pc[c] \notin Ended => \A i \in 1 .. seen[d] : log[i].by = c /\ log[i].keyed => c \in byKey[d]
IndexInv(c) == \A d \in up : seen[d] <= Len(log) /\ Folded(c, d)

\* A command that is about to be applied has not been.
OnceInv(c) ==
    /\ Once(c)
    /\ pc[c] \in {"new", "runDirect"} => ~Applied(c)
    /\ work[c] = "running" /\ conn[c] \in up => ~Applied(c)
    /\ \A i \in DOMAIN log : log[i].by = c /\ ~log[i].keyed => pc[c] = "direct"

-----------------------------------------------------------------------------
(* The log and the indexes over it.                                        *)

\* An append keeps what is there (Oplog::append_checked).
LEMMA AppendKeeps ==
    ASSUME NEW s \in Seq(Op), NEW e \in Op
    PROVE  /\ Append(s, e) \in Seq(Op) /\ Len(Append(s, e)) = Len(s) + 1 /\ Len(s) \in Nat
           /\ Append(s, e)[Len(s) + 1] = e
           /\ DOMAIN s = 1 .. Len(s) /\ DOMAIN Append(s, e) = 1 .. Len(s) + 1
           /\ Len(s) + 1 \in DOMAIN Append(s, e)
           /\ \A i \in DOMAIN s : i \in DOMAIN Append(s, e) /\ Append(s, e)[i] = s[i]
           /\ \A i \in DOMAIN Append(s, e) : i \in DOMAIN s \/ i = Len(s) + 1
<1>1. /\ Append(s, e) \in Seq(Op) /\ Len(Append(s, e)) = Len(s) + 1 /\ Len(s) \in Nat
      /\ Append(s, e)[Len(s) + 1] = e /\ \A i \in 1 .. Len(s) : Append(s, e)[i] = s[i]
  BY AppendProperties, LenProperties
<1>2. DOMAIN s = 1 .. Len(s) /\ DOMAIN Append(s, e) = 1 .. Len(s) + 1
  BY <1>1, LenProperties
<1>3. /\ \A i \in 1 .. Len(s) : i \in 1 .. Len(s) + 1
      /\ \A i \in 1 .. Len(s) + 1 : i \in 1 .. Len(s) \/ i = Len(s) + 1
      /\ Len(s) + 1 \in 1 .. Len(s) + 1
  BY <1>1
<1> QED
  BY <1>1, <1>2, <1>3

\* The operations that a power loss leaves are the first ones.
LEMMA PrefixKeeps ==
    ASSUME NEW s \in Seq(Op), NEW k \in 0 .. Len(s)
    PROVE  /\ SubSeq(s, 1, k) \in Seq(Op) /\ DOMAIN SubSeq(s, 1, k) = 1 .. k
           /\ DOMAIN s = 1 .. Len(s) /\ 1 .. k \subseteq DOMAIN s
           /\ \A i \in 1 .. k : SubSeq(s, 1, k)[i] = s[i]
<1>1. Len(s) \in Nat /\ DOMAIN s = 1 .. Len(s) /\ k \in Nat /\ k <= Len(s)
  BY LenProperties
<1>2. \A i \in 1 .. k : i \in 1 .. Len(s) /\ s[i] \in Op
  <2>1. \A i \in 1 .. k : i \in 1 .. Len(s)
    BY <1>1
  <2> QED
    BY <2>1, ElementOfSeq
<1>3. /\ SubSeq(s, 1, k) \in Seq(Op)
      /\ Len(SubSeq(s, 1, k)) = IF 1 <= k THEN k - 1 + 1 ELSE 0
      /\ \A i \in 1 .. k - 1 + 1 : SubSeq(s, 1, k)[i] = s[1 + i - 1]
  <2>1. 1 \in Int /\ k \in Int
    BY <1>1
  <2> QED
    BY <1>2, <2>1, SubSeqProperties
<1>4. Len(SubSeq(s, 1, k)) = k
  BY <1>1, <1>3
<1>5. \A i \in 1 .. k : SubSeq(s, 1, k)[i] = s[i]
  BY <1>1, <1>3
<1>6. DOMAIN SubSeq(s, 1, k) = 1 .. k
  BY <1>3, <1>4, LenProperties
<1> QED
  BY <1>1, <1>2, <1>3, <1>5, <1>6

\* A replay begins within the log, and finds ids that are in the log (open).
LEMMA IndexProperties ==
    ASSUME TypeOK
    PROVE  /\ ReplayFrom \in Nat /\ 1 <= ReplayFrom /\ ReplayFrom <= 1 + Len(log)
           /\ Len(log) \in Nat /\ DOMAIN log = 1 .. Len(log)
           /\ 1 + Len(log) - ReplayFrom \in Nat
           /\ \A i \in DOMAIN log : log[i] \in Op
           /\ \A first \in Nat : 1 <= first => \A c \in KeysFrom(first) : c \in Client /\ Applied(c)
<1>1. log \in Seq(Op) /\ Len(log) \in Nat /\ DOMAIN log = 1 .. Len(log)
  BY LenProperties DEF TypeOK
<1>2. \A i \in DOMAIN log : log[i] \in Op
  BY <1>1, ElementOfSeq
<1>3. ReplayFrom \in Nat /\ 1 <= ReplayFrom /\ ReplayFrom <= 1 + Len(log)
  <2>1. CASE \E i \in DOMAIN log : log[i] = snapshot
    <3> DEFINE anchor == CHOOSE i \in DOMAIN log : log[i] = snapshot
    <3>1. anchor \in DOMAIN log
      BY <2>1
    <3>2. ReplayFrom = 1 + anchor
      BY <2>1 DEF ReplayFrom
    <3> HIDE DEF anchor
    <3> QED
      BY <1>1, <3>1, <3>2
  <2>2. CASE ~(\E i \in DOMAIN log : log[i] = snapshot)
    BY <1>1, <2>2 DEF ReplayFrom
  <2> QED
    BY <2>1, <2>2
<1>4. \A first \in Nat : 1 <= first => \A c \in KeysFrom(first) : c \in Client /\ Applied(c)
  <2>1. ASSUME NEW first \in Nat, 1 <= first, NEW j \in first .. Len(log)
        PROVE  j \in DOMAIN log
    BY <1>1, <2>1
  <2> QED
    BY <1>2, <2>1 DEF KeysFrom, Op, Applied
<1>5. 1 + Len(log) - ReplayFrom \in Nat
  BY <1>1, <1>3
<1> QED
  BY <1>1, <1>2, <1>3, <1>4, <1>5

\* The operation that a command has just appended.
Mine(c) == CHOOSE i \in DOMAIN log : log[i].by = c /\ log[i].try = tries[c]

LEMMA MineIsThere ==
    ASSUME RunInv, NEW c \in Client, work[c] = "applied"
    PROVE  /\ Mine(c) \in DOMAIN log /\ Mine(c) \in Nat /\ Mine(c) <= Len(log)
           /\ log[Mine(c)].by = c /\ log[Mine(c)] \in Op /\ Applied(c)
<1>1. MadeIt(c) /\ TypeOK
  BY DEF RunInv, AnswerInv
<1>2. Mine(c) \in DOMAIN log /\ log[Mine(c)].by = c
  BY <1>1 DEF MadeIt, Mine
<1>3. DOMAIN log = 1 .. Len(log) /\ Len(log) \in Nat /\ log[Mine(c)] \in Op
  BY <1>1, <1>2, IndexProperties
<1> QED
  BY <1>2, <1>3 DEF Applied

-----------------------------------------------------------------------------
(* Every step keeps the types and the place of a request.                  *)

LEMMA StepTypes ==
    ASSUME DaemonAssumption, RunInv, Next
    PROVE  TypeOK'
<1>0. /\ TypeOK /\ log \in Seq(Op) /\ Len(log) \in Nat
      /\ pc \in [Client -> Places] /\ tries \in [Client -> 0 .. MaxTries]
      /\ conn \in [Client -> Daemon \cup {None}] /\ work \in [Client -> Stages]
      /\ mutex \in [Daemon -> Client \cup {None}] /\ seen \in [Daemon -> Nat]
      /\ byKey \in [Daemon -> SUBSET Client] /\ sinceSnap \in [Daemon -> Nat]
      /\ MaxTries \in Nat
  BY LenProperties DEF RunInv, TypeOK, DaemonAssumption
<1> USE DEF store, procs, memory, client, Places, Ended, Stages, InTurn, Stage, At, Idle
<1>1. ASSUME NEW d \in Daemon, Spawn(d) PROVE TypeOK'
  <2>1. byKey' = [byKey EXCEPT ![d] = KeysFrom(ReplayFrom)] /\ KeysFrom(ReplayFrom) \subseteq Client
    BY <1>0, <1>1, IndexProperties DEF Spawn
  <2>2. sinceSnap' = [sinceSnap EXCEPT ![d] = 1 + Len(log) - ReplayFrom]
        /\ 1 + Len(log) - ReplayFrom \in Nat
    BY <1>0, <1>1, IndexProperties DEF Spawn
  <2>3. seen' = [seen EXCEPT ![d] = Len(log)] /\ up' = up \cup {d}
    BY <1>1 DEF Spawn
  <2> QED
    BY <1>0, <1>1, <2>1, <2>2, <2>3 DEF Spawn, TypeOK
<1>2. ASSUME NEW c \in Client, NEW d \in Daemon, Send(c, d) PROVE TypeOK'
  <2>1. tries' \in [Client -> 0 .. MaxTries]
    <3>1. tries[c] + 1 \in 0 .. MaxTries
      BY <1>0, <1>2 DEF Send
    <3> QED
      BY <1>0, <1>2, <3>1 DEF Send
  <2> QED
    BY <1>0, <1>2, <2>1 DEF Send, TypeOK
<1>3. ASSUME NEW c \in Client, FirstNotSent(c) \/ GiveUp(c) PROVE TypeOK'
  BY <1>0, <1>3 DEF FirstNotSent, GiveUp, TypeOK
<1>4. ASSUME NEW c \in Client, LaterNotSent(c) PROVE TypeOK'
  <2>1. tries' \in [Client -> 0 .. MaxTries]
    <3>1. tries[c] + 1 \in 0 .. MaxTries
      BY <1>0, <1>4 DEF LaterNotSent
    <3> QED
      BY <1>0, <1>4, <3>1 DEF LaterNotSent
  <2> QED
    BY <1>0, <1>4, <2>1 DEF LaterNotSent, TypeOK
<1>5. ASSUME NEW c \in Client, RunDirect(c) PROVE TypeOK'
  <2>1. [by |-> c, try |-> 0, keyed |-> FALSE] \in Op
    BY DEF Op
  <2>2. log' \in Seq(Op) /\ Len(log') \in Nat
    BY <1>0, <1>5, <2>1, AppendKeeps DEF RunDirect
  <2> QED
    BY <1>0, <1>5, <2>2 DEF RunDirect, TypeOK
<1>6. ASSUME NEW c \in Client, Lose(c) PROVE TypeOK'
  BY <1>0, <1>6 DEF Lose, TypeOK
<1>7. ASSUME NEW c \in Client, Receive(c) PROVE TypeOK'
  <2>1. \E where \in Places : pc' = [pc EXCEPT ![c] = where]
    BY <1>7 DEF Receive
  <2>2. pc' \in [Client -> Places]
    BY <1>0, <2>1
  <2> QED
    BY <1>0, <1>7, <2>2 DEF Receive, TypeOK
<1>8. ASSUME NEW c \in Client, NEW d \in Daemon, Dispatch(c, d) PROVE TypeOK'
  <2>1. byKey' \in [Daemon -> SUBSET Client]
    <3>1. seen[d] + 1 \in Nat /\ 1 <= seen[d] + 1
      BY <1>0
    <3>2. KeysFrom(seen[d] + 1) \subseteq Client
      BY <1>0, <3>1, IndexProperties
    <3> QED
      BY <1>0, <1>8, <3>2 DEF Dispatch
  <2>2. mutex' \in [Daemon -> Client \cup {None}] /\ work' \in [Client -> Stages]
    <3>1. \/ mutex' = mutex /\ work' = [work EXCEPT ![c] = "known"]
          \/ mutex' = [mutex EXCEPT ![d] = c] /\ work' = [work EXCEPT ![c] = "running"]
      BY <1>8 DEF Dispatch
    <3>2. CASE mutex' = mutex /\ work' = [work EXCEPT ![c] = "known"]
      BY <1>0, <3>2
    <3>3. CASE mutex' = [mutex EXCEPT ![d] = c] /\ work' = [work EXCEPT ![c] = "running"]
      BY <1>0, <3>3
    <3> QED
      BY <3>1, <3>2, <3>3
  <2>3. seen' \in [Daemon -> Nat]
    BY <1>0, <1>8 DEF Dispatch
  <2> QED
    BY <1>0, <1>8, <2>1, <2>2, <2>3 DEF Dispatch, TypeOK
<1>9. ASSUME NEW c \in Client, NEW d \in Daemon, Apply(c, d) PROVE TypeOK'
  <2>1. tries[c] \in Nat
    BY <1>0
  <2>2. [by |-> c, try |-> tries[c], keyed |-> c \in Keyed] \in Op
    BY <2>1, SMT DEF Op
  <2>3. log' \in Seq(Op)
    BY <1>0, <1>9, <2>2, AppendKeeps DEF Apply
  <2> QED
    BY <1>0, <1>9, <2>3 DEF Apply, TypeOK
<1>10. ASSUME NEW c \in Client, NEW d \in Daemon, Refuse(c, d) PROVE TypeOK'
  BY <1>0, <1>10 DEF Refuse, TypeOK
<1>11. ASSUME NEW c \in Client, NEW d \in Daemon, Note(c, d) PROVE TypeOK'
  <2>1. /\ Mine(c) \in Nat /\ Mine(c) <= Len(log) /\ log[Mine(c)] \in Op
        /\ Mine(c) = CHOOSE i \in DOMAIN log : log[i].by = c /\ log[i].try = tries[c]
    BY <1>11, MineIsThere DEF Note, Mine
  <2> DEFINE keys == {log[i].by : i \in {j \in seen[d] + 1 .. Mine(c) : log[j].keyed}}
  <2>2. keys \subseteq Client
    <3>1. \A j \in seen[d] + 1 .. Mine(c) : j \in DOMAIN log
      BY <1>0, <2>1, IndexProperties, SMTT(30)
    <3>2. \A j \in DOMAIN log : log[j].by \in Client
      BY <1>0, IndexProperties DEF Op
    <3> QED
      BY <3>1, <3>2
  <2>3. byKey' = [byKey EXCEPT ![d] = @ \cup keys]
    BY <1>11, <2>1 DEF Note
  <2>4. byKey' \in [Daemon -> SUBSET Client]
    <3> HIDE DEF keys
    <3> QED
      BY <1>0, <2>2, <2>3
  <2>5. seen' \in [Daemon -> Nat] /\ sinceSnap' \in [Daemon -> Nat] /\ snapshot' \in Op \cup {None}
    BY <1>0, <1>11, <2>1 DEF Note, TypeOK
  <2>6. work' \in [Client -> Stages] /\ mutex' \in [Daemon -> Client \cup {None}]
    BY <1>0, <1>11 DEF Note
  <2>7. UNCHANGED <<log, flushed, procs, pc, tries, conn>>
    BY <1>11 DEF Note
  <2> QED
    BY <1>0, <2>4, <2>5, <2>6, <2>7 DEF TypeOK
<1>12. ASSUME NEW c \in Client, NEW d \in Daemon, Flush(c, d) \/ FlushFails(c, d) PROVE TypeOK'
  BY <1>0, <1>12, ZenonT(60) DEF Flush, FlushFails, TypeOK
<1>13. ASSUME NEW d \in Daemon, Kill(d) PROVE TypeOK'
  BY <1>0, <1>13 DEF Kill, TypeOK
<1>14. CASE PowerLoss
  <2>1. PICK k \in flushed .. Len(log) : log' = SubSeq(log, 1, k) /\ flushed' = k
    BY <1>14 DEF PowerLoss
  <2>2. k \in 0 .. Len(log) /\ k \in Nat
    BY <1>0, <2>1 DEF TypeOK
  <2>3. log' \in Seq(Op)
    BY <1>0, <2>1, <2>2, PrefixKeeps
  <2> QED
    BY <1>0, <1>14, <2>1, <2>2, <2>3 DEF PowerLoss, TypeOK
<1> QED
  BY <1>1, <1>2, <1>3, <1>4, <1>5, <1>6, <1>7, <1>8, <1>9, <1>10, <1>11, <1>12, <1>13, <1>14
  DEF Next, ClientStep, WorkerStep

LEMMA StepRequests ==
    ASSUME DaemonAssumption, RunInv, Next
    PROVE  RequestInv'
<1>0. /\ RequestInv /\ TypeOK /\ None \notin Daemon
      /\ pc \in [Client -> Places] /\ work \in [Client -> Stages] /\ up \subseteq Daemon
      /\ conn \in [Client -> Daemon \cup {None}] /\ mutex \in [Daemon -> Client \cup {None}]
  BY DEF RunInv, TypeOK, DaemonAssumption
<1> USE DEF store, procs, memory, client, Ended, InTurn, Stage, At, Idle, RequestInv
<1>1. ASSUME NEW d \in Daemon, Spawn(d) PROVE RequestInv'
  BY <1>0, <1>1 DEF Spawn
<1>2. ASSUME NEW c \in Client, NEW d \in Daemon, Send(c, d) PROVE RequestInv'
  BY <1>0, <1>2 DEF Send
<1>3. ASSUME NEW c \in Client, FirstNotSent(c) \/ GiveUp(c) \/ LaterNotSent(c) \/ RunDirect(c)
      PROVE  RequestInv'
  BY <1>0, <1>3 DEF FirstNotSent, GiveUp, LaterNotSent, RunDirect
<1>4. ASSUME NEW c \in Client, Lose(c) PROVE RequestInv'
  BY <1>0, <1>4 DEF Lose
<1>5. ASSUME NEW c \in Client, Receive(c) PROVE RequestInv'
  BY <1>0, <1>5 DEF Receive
<1>6. ASSUME NEW c \in Client, NEW d \in Daemon, Dispatch(c, d) PROVE RequestInv'
  BY <1>0, <1>6 DEF Dispatch, DaemonAssumption
<1>7. ASSUME NEW c \in Client, NEW d \in Daemon, Apply(c, d) PROVE RequestInv'
  BY <1>0, <1>7 DEF Apply
<1>8. ASSUME NEW c \in Client, NEW d \in Daemon, Refuse(c, d) \/ Note(c, d) PROVE RequestInv'
  BY <1>0, <1>8 DEF Refuse, Note
<1>9. ASSUME NEW c \in Client, NEW d \in Daemon, Flush(c, d) \/ FlushFails(c, d) PROVE RequestInv'
  BY <1>0, <1>9 DEF Flush, FlushFails
<1>10. ASSUME NEW d \in Daemon, Kill(d) PROVE RequestInv'
  BY <1>0, <1>10 DEF Kill
<1>11. CASE PowerLoss
  BY <1>0, <1>11 DEF PowerLoss
<1> QED
  BY <1>1, <1>2, <1>3, <1>4, <1>5, <1>6, <1>7, <1>8, <1>9, <1>10, <1>11
  DEF Next, ClientStep, WorkerStep

-----------------------------------------------------------------------------
(* Every step keeps what answers mean.                                     *)

\* Only a power loss takes an operation away, and none that the device holds.
LEMMA AppliedStays ==
    ASSUME DaemonAssumption, RunInv, Next, ~PowerLoss
    PROVE  /\ \/ log' = log
              \/ \E e \in Op : log' = Append(log, e)
           /\ flushed' \in {flushed, Len(log')}
           /\ \A c \in Client : Applied(c) => Applied(c)'
           /\ \A c \in Client : Durable(c) => Durable(c)'
<1>0. TypeOK /\ log \in Seq(Op) /\ tries \in [Client -> 0 .. MaxTries] /\ TypeOK'
  BY StepTypes DEF RunInv, TypeOK
<1> USE DEF store, procs, memory, client
<1>1. /\ log' = log \/ \E e \in Op : log' = Append(log, e)
      /\ flushed' \in {flushed, Len(log')}
  <2>1. ASSUME NEW c \in Client, RunDirect(c)
        PROVE  (\E e \in Op : log' = Append(log, e)) /\ flushed' \in {flushed, Len(log')}
    <3>1. [by |-> c, try |-> 0, keyed |-> FALSE] \in Op
      BY DEF Op
    <3> QED
      BY <2>1, <3>1 DEF RunDirect
  <2>2. ASSUME NEW c \in Client, NEW d \in Daemon, Apply(c, d)
        PROVE  (\E e \in Op : log' = Append(log, e)) /\ flushed' \in {flushed, Len(log')}
    <3>1. tries[c] \in Nat
      BY <1>0 DEF DaemonAssumption
    <3>2. [by |-> c, try |-> tries[c], keyed |-> c \in Keyed] \in Op
      BY <3>1, SMT DEF Op
    <3> QED
      BY <2>2, <3>2 DEF Apply
  <2>3. ASSUME NEW c \in Client, ClientStep(c), ~RunDirect(c)
        PROVE  log' = log /\ flushed' = flushed
    BY <2>3 DEF ClientStep, Send, FirstNotSent, LaterNotSent, Lose, GiveUp, Receive
  <2>4. ASSUME NEW c \in Client, NEW d \in Daemon,
               Dispatch(c, d) \/ Refuse(c, d) \/ Note(c, d) \/ Flush(c, d) \/ FlushFails(c, d)
        PROVE  log' = log /\ flushed' \in {flushed, Len(log')}
    BY <2>4 DEF Dispatch, Refuse, Note, Flush, FlushFails
  <2>5. ASSUME NEW d \in Daemon, Spawn(d) \/ Kill(d)
        PROVE  log' = log /\ flushed' = flushed
    BY <2>5 DEF Spawn, Kill
  <2> QED
    BY <2>1, <2>2, <2>3, <2>4, <2>5 DEF Next, WorkerStep
<1>2. \A i \in DOMAIN log : i \in DOMAIN log' /\ log'[i] = log[i]
  BY <1>0, <1>1, AppendKeeps, SMTT(30)
<1>3. DOMAIN log' = 1 .. Len(log') /\ Len(log') \in Nat
  BY <1>0, LenProperties DEF TypeOK
<1>4. \A c \in Client : Applied(c) => Applied(c)'
  BY <1>2, SMTT(30) DEF Applied
<1>5. \A c \in Client : Durable(c) => Durable(c)'
  BY <1>1, <1>2, <1>3 DEF Durable
<1> QED
  BY <1>1, <1>4, <1>5

LEMMA StepAnswers ==
    ASSUME DaemonAssumption, RunInv, Next
    PROVE  AnswerInv'
<1>0. /\ RequestInv /\ TypeOK /\ AnswerInv /\ None \notin Daemon
      /\ pc \in [Client -> Places] /\ work \in [Client -> Stages] /\ up \subseteq Daemon
      /\ conn \in [Client -> Daemon \cup {None}] /\ byKey \in [Daemon -> SUBSET Client]
      /\ seen \in [Daemon -> Nat] /\ log \in Seq(Op) /\ tries \in [Client -> 0 .. MaxTries]
      /\ MaxTries \in Nat
  BY DEF RunInv, TypeOK, DaemonAssumption
<1>i. /\ \A c \in Client : /\ work[c] = "applied" => MadeIt(c)
                           /\ work[c] \in {"flushing", "known"} => Applied(c)
                           /\ work[c] = "ran" => Durable(c)
                           /\ pc[c] \in {"served", "direct"} => Durable(c)
      /\ \A d \in up : \A c \in byKey[d] : Applied(c)
  BY <1>0 DEF AnswerInv
<1>k. \A first \in Nat : 1 <= first => \A c \in KeysFrom(first) : c \in Client /\ Applied(c)
  BY <1>0, IndexProperties
<1> USE DEF store, procs, memory, client, Ended, InTurn, Stage, At, Idle
<1> DEFINE Answers(c) == /\ work'[c] = "applied" => MadeIt(c)'
                         /\ work'[c] \in {"flushing", "known"} => Applied(c)'
                         /\ work'[c] = "ran" => Durable(c)'
                         /\ pc'[c] \in {"served", "direct"} => Durable(c)'
           Indexes == \A d \in up' : \A c \in byKey'[d] : Applied(c)'
<1>1. CASE PowerLoss
  <2>1. PICK k \in flushed .. Len(log) : log' = SubSeq(log, 1, k) /\ flushed' = k
    BY <1>1 DEF PowerLoss
  <2>2. k \in 0 .. Len(log) /\ flushed \in Nat /\ flushed <= k /\ Len(log) \in Nat
    BY <1>0, <2>1, LenProperties DEF TypeOK
  <2>3. /\ DOMAIN log' = 1 .. k /\ \A i \in 1 .. k : log'[i] = log[i]
    BY <1>0, <2>1, <2>2, PrefixKeeps
  <2>4. \A c \in Client : Durable(c) => Durable(c)'
    <3>1. \A i \in 1 .. flushed : i \in 1 .. k
      BY <2>2
    <3> QED
      BY <2>1, <2>3, <3>1 DEF Durable
  <2>5. \A c \in Client : work'[c] = "none" /\ (pc'[c] \in {"served", "direct"} => pc'[c] = pc[c])
    BY <1>0, <1>1 DEF PowerLoss
  <2>6. up' = {}
    BY <1>1 DEF PowerLoss
  <2>7. \A c \in Client : Answers(c)
    BY <1>i, <2>4, <2>5
  <2> QED
    BY <2>6, <2>7 DEF AnswerInv
<1>2. CASE ~PowerLoss
  <2>1. /\ \A c \in Client : Applied(c) => Applied(c)'
        /\ \A c \in Client : Durable(c) => Durable(c)'
        /\ log' = log \/ \E e \in Op : log' = Append(log, e)
    BY <1>2, AppliedStays
  <2>2. \A c \in Client : MadeIt(c) => Applied(c)
    BY DEF MadeIt, Applied
  <2>3. ASSUME NEW c \in Client, work'[c] = work[c], tries'[c] = tries[c],
               pc'[c] = pc[c] \/ pc'[c] \notin {"served", "direct"}
        PROVE  Answers(c)
    <3>1. MadeIt(c) => MadeIt(c)'
      <4>1. \A i \in DOMAIN log : i \in DOMAIN log' /\ log'[i] = log[i]
        <5>1. log \in Seq(Op) /\ (log' = log \/ \E e \in Op : log' = Append(log, e))
          BY <1>0, <2>1
        <5> QED
          BY <5>1, AppendKeeps
      <4> QED
        BY <2>3, <4>1 DEF MadeIt
    <3> QED
      BY <1>i, <2>1, <2>3, <3>1
  <2>4. ASSUME NEW c \in Client, work'[c] \in {"none", "queued", "running", "error"},
               pc'[c] = pc[c] \/ pc'[c] \notin {"served", "direct"}
        PROVE  Answers(c)
    BY <1>i, <2>1, <2>4
  <2>5. ASSUME up' \subseteq up, byKey' = byKey PROVE Indexes
    BY <1>0, <1>i, <2>1, <2>5
  <2> HIDE DEF Answers, Indexes
  <2>6. ASSUME NEW d \in Daemon, Spawn(d) PROVE (\A c \in Client : Answers(c)) /\ Indexes
    <3>1. \A c \in Client : Answers(c)
      BY <2>3, <2>6 DEF Spawn
    <3>2. up' = up \cup {d} /\ byKey' = [byKey EXCEPT ![d] = KeysFrom(ReplayFrom)]
      BY <2>6 DEF Spawn
    <3>3. \A c \in KeysFrom(ReplayFrom) : c \in Client /\ Applied(c)
      BY <1>0, <1>k, IndexProperties
    <3>4. Indexes
      BY <1>0, <1>i, <2>1, <3>2, <3>3 DEF Indexes
    <3> QED
      BY <3>1, <3>4
  <2>7. ASSUME NEW d \in Daemon, Kill(d) PROVE (\A c \in Client : Answers(c)) /\ Indexes
    BY <2>3, <2>5, <2>7 DEF Kill
  <2>8. ASSUME NEW c \in Client, ClientStep(c) PROVE (\A b \in Client : Answers(b)) /\ Indexes
    <3>1. Indexes
      BY <2>5, <2>8 DEF ClientStep, Send, FirstNotSent, LaterNotSent, RunDirect, Lose, GiveUp, Receive
    <3>2. \A b \in Client \ {c} : Answers(b)
      <4>1. \A b \in Client \ {c} : work'[b] = work[b] /\ tries'[b] = tries[b] /\ pc'[b] = pc[b]
        BY <1>0, <2>8 DEF ClientStep, Send, FirstNotSent, LaterNotSent, RunDirect, Lose, GiveUp, Receive
      <4> QED
        BY <2>3, <4>1
    <3>3. CASE \E d \in Daemon : Send(c, d)
      <4>1. work'[c] = "queued" /\ pc'[c] = "waiting"
        BY <1>0, <3>3 DEF Send
      <4> QED
        BY <2>4, <3>1, <3>2, <4>1
    <3>4. CASE FirstNotSent(c) \/ GiveUp(c)
      <4>1. pc'[c] \in {"runDirect", "gaveUp"} /\ work'[c] = work[c] /\ tries'[c] = tries[c]
        BY <1>0, <3>4 DEF FirstNotSent, GiveUp
      <4> QED
        BY <2>3, <3>1, <3>2, <4>1
    <3>5. CASE LaterNotSent(c) \/ Lose(c)
      <4>1. /\ pc'[c] = pc[c] \/ pc'[c] = "lost"
            /\ work'[c] = "none"
        BY <1>0, <3>5 DEF LaterNotSent, Lose, RequestInv
      <4> QED
        BY <2>4, <3>1, <3>2, <4>1
    <3>6. CASE RunDirect(c)
      <4> DEFINE e == [by |-> c, try |-> 0, keyed |-> FALSE]
      <4>1. e \in Op /\ log' = Append(log, e) /\ flushed' = Len(log')
            /\ work'[c] = "none"
        BY <1>0, <3>6 DEF RunDirect, Op, RequestInv
      <4>2. Len(log) + 1 \in DOMAIN log' /\ log'[Len(log) + 1] = e /\ flushed' = Len(log) + 1
            /\ Len(log) \in Nat
        BY <1>0, <4>1, AppendKeeps
      <4>3. Durable(c)'
        <5>1. Len(log) + 1 \in 1 .. flushed'
          BY <4>2
        <5>2. log'[Len(log) + 1].by = c
          BY <4>2
        <5> QED
          BY <4>2, <5>1, <5>2 DEF Durable
      <4> QED
        BY <3>1, <3>2, <4>1, <4>3 DEF Answers
    <3>7. CASE Receive(c)
      <4>1. work'[c] = "none" /\ (pc'[c] \in {"served", "direct"} => work[c] = "ran")
        BY <1>0, <3>7 DEF Receive
      <4> QED
        BY <1>i, <2>1, <3>1, <3>2, <4>1 DEF Answers
    <3> QED
      BY <2>8, <3>3, <3>4, <3>5, <3>6, <3>7 DEF ClientStep
  <2>9. ASSUME NEW c \in Client, NEW d \in Daemon, Dispatch(c, d)
        PROVE  (\A b \in Client : Answers(b)) /\ Indexes
    <3>1. \A b \in Client \ {c} : work'[b] = work[b] /\ tries'[b] = tries[b] /\ pc'[b] = pc[b]
      BY <1>0, <2>9 DEF Dispatch
    <3>2. /\ byKey' = [byKey EXCEPT ![d] = @ \cup KeysFrom(seen[d] + 1)] /\ up' = up /\ pc' = pc
          /\ d \in up
          /\ work'[c] = "running" \/ (work'[c] = "known" /\ c \in byKey'[d])
      BY <1>0, <2>9 DEF Dispatch
    <3>3. \A b \in KeysFrom(seen[d] + 1) : b \in Client /\ Applied(b)
      <4>1. seen[d] + 1 \in Nat /\ 1 <= seen[d] + 1
        BY <1>0
      <4> QED
        BY <1>k, <4>1
    <3>4. Indexes
      BY <1>0, <1>i, <2>1, <3>2, <3>3 DEF Indexes
    <3>5. Answers(c)
      BY <1>i, <2>1, <3>2, <3>4 DEF Answers, Indexes
    <3> QED
      BY <2>3, <3>1, <3>4, <3>5
  <2>10. ASSUME NEW c \in Client, NEW d \in Daemon, Apply(c, d)
         PROVE  (\A b \in Client : Answers(b)) /\ Indexes
    <3>1. \A b \in Client \ {c} : work'[b] = work[b] /\ tries'[b] = tries[b] /\ pc'[b] = pc[b]
      BY <1>0, <2>10 DEF Apply
    <3> DEFINE e == [by |-> c, try |-> tries[c], keyed |-> c \in Keyed]
    <3>2. /\ log' = Append(log, e) /\ work'[c] = "applied" /\ pc' = pc /\ tries' = tries
          /\ pc[c] = "waiting"
      BY <1>0, <2>10 DEF Apply
    <3>3. e \in Op
      <4>1. tries[c] \in Nat
        BY <1>0
      <4> QED
        BY <4>1, SMT DEF Op
    <3>4. e.by = c /\ e.try = tries[c]
      OBVIOUS
    <3> HIDE DEF e
    <3>5. Len(log) + 1 \in DOMAIN log' /\ log'[Len(log) + 1] = e
      BY <1>0, <3>2, <3>3, AppendKeeps
    <3>6. MadeIt(c)'
      BY <3>2, <3>4, <3>5 DEF MadeIt
    <3>7. Answers(c)
      BY <3>2, <3>6 DEF Answers
    <3>8. Indexes
      BY <2>5, <2>10 DEF Apply
    <3> QED
      BY <2>3, <3>1, <3>7, <3>8
  <2>11. ASSUME NEW c \in Client, NEW d \in Daemon, Note(c, d)
         PROVE  (\A b \in Client : Answers(b)) /\ Indexes
    <3>1. \A b \in Client \ {c} : work'[b] = work[b] /\ tries'[b] = tries[b] /\ pc'[b] = pc[b]
      BY <1>0, <2>11 DEF Note
    <3>2. /\ Mine(c) \in Nat /\ Mine(c) <= Len(log) /\ Applied(c)
          /\ Mine(c) = CHOOSE i \in DOMAIN log : log[i].by = c /\ log[i].try = tries[c]
      BY <2>11, MineIsThere DEF Note, Mine
    <3> DEFINE keys == {log[i].by : i \in {j \in seen[d] + 1 .. Mine(c) : log[j].keyed}}
    <3>3. \A b \in keys : b \in Client /\ Applied(b)
      <4>1. \A j \in seen[d] + 1 .. Mine(c) : j \in DOMAIN log
        BY <1>0, <3>2, IndexProperties, SMTT(30)
      <4>2. \A j \in DOMAIN log : log[j].by \in Client
        BY <1>0, IndexProperties DEF Op
      <4> QED
        BY <4>1, <4>2 DEF Applied
    <3>4. /\ byKey' = [byKey EXCEPT ![d] = @ \cup keys] /\ up' = up /\ pc' = pc /\ tries' = tries
          /\ work'[c] = "flushing" /\ pc[c] = "waiting"
      BY <1>0, <2>11, <3>2 DEF Note
    <3> HIDE DEF keys
    <3>5. Indexes
      BY <1>0, <1>i, <2>1, <3>3, <3>4 DEF Indexes
    <3>6. Answers(c)
      BY <2>1, <3>2, <3>4 DEF Answers
    <3> QED
      BY <2>3, <3>1, <3>5, <3>6
  <2>12. ASSUME NEW c \in Client, NEW d \in Daemon, Refuse(c, d) \/ FlushFails(c, d)
         PROVE  (\A b \in Client : Answers(b)) /\ Indexes
    <3>1. \A b \in Client \ {c} : work'[b] = work[b] /\ tries'[b] = tries[b] /\ pc'[b] = pc[b]
      BY <1>0, <2>12 DEF Refuse, FlushFails
    <3>2. work'[c] = "error" /\ pc' = pc /\ up' = up /\ byKey' = byKey
      BY <1>0, <2>12 DEF Refuse, FlushFails
    <3> QED
      BY <2>3, <2>4, <2>5, <3>1, <3>2
  <2>13. ASSUME NEW c \in Client, NEW d \in Daemon, Flush(c, d)
         PROVE  (\A b \in Client : Answers(b)) /\ Indexes
    <3>1. \A b \in Client \ {c} : work'[b] = work[b] /\ tries'[b] = tries[b] /\ pc'[b] = pc[b]
      BY <1>0, <2>13 DEF Flush
    <3>2. /\ work[c] = "flushing" /\ work'[c] = "ran" /\ pc' = pc /\ up' = up /\ byKey' = byKey
          /\ log' = log /\ flushed' = Len(log) /\ pc[c] = "waiting"
      BY <1>0, <2>13 DEF Flush
    <3>3. Durable(c)'
      <4>1. DOMAIN log = 1 .. Len(log)
        BY <1>0, IndexProperties
      <4> QED
        BY <1>i, <3>2, <4>1 DEF Durable, Applied
    <3>4. Answers(c)
      BY <3>2, <3>3 DEF Answers
    <3> QED
      BY <2>3, <2>5, <3>1, <3>2, <3>4
  <2>14. (\A b \in Client : Answers(b)) /\ Indexes
    BY <1>2, <2>6, <2>7, <2>8, <2>9, <2>10, <2>11, <2>12, <2>13 DEF Next, WorkerStep
  <2> QED
    BY <2>14 DEF AnswerInv, Answers, Indexes
<1> QED
  BY <1>1, <1>2

-----------------------------------------------------------------------------
(* What holds of every behaviour.                                          *)

\* Every command is at one place and every answer of success is about the log
\* (serve_write, serve, dispatch).
THEOREM RunInvariant == ASSUME DaemonAssumption PROVE Spec => []RunInv
<1>1. Init => RunInv
  <2> SUFFICES ASSUME Init PROVE RunInv
    OBVIOUS
  <2>1. log = <<>> /\ log \in Seq(Op) /\ DOMAIN log = {} /\ Len(log) = 0
    BY EmptySeq DEF Init
  <2>2. TypeOK
    BY <2>1 DEF Init, TypeOK, Places, Stages, DaemonAssumption
  <2> QED
    BY <2>2 DEF Init, RunInv, RequestInv, AnswerInv, InTurn
<1>2. RunInv /\ [Next]_vars => RunInv'
  <2> SUFFICES ASSUME RunInv, [Next]_vars PROVE RunInv'
    OBVIOUS
  <2>1. CASE Next
    BY <2>1, DaemonAssumption, StepTypes, StepRequests, StepAnswers DEF RunInv
  <2>2. CASE UNCHANGED vars
    BY <2>2 DEF vars, store, procs, memory, client, RunInv, TypeOK, RequestInv, AnswerInv,
                MadeIt, Applied, Durable
  <2> QED
    BY <2>1, <2>2
<1> QED
  BY <1>1, <1>2, PTL DEF Spec

\* Every client, worker and daemon is in a state that serve_write and serve know.
THEOREM DaemonTypes == ASSUME DaemonAssumption PROVE Spec => []TypeOK
<1>1. RunInv => TypeOK
  BY DEF RunInv
<1> QED
  BY <1>1, RunInvariant, PTL

\* dispatch answers from its index only what is in the log.
THEOREM AcksAreAboutTheLog == ASSUME DaemonAssumption PROVE Spec => []AcksAreTrue
<1>1. RunInv => AcksAreTrue
  BY DEF RunInv, AnswerInv, AcksAreTrue
<1> QED
  BY <1>1, RunInvariant, PTL

\* What serve answered after its flush, and what a client ran itself, no power loss
\* takes away.
THEOREM ServedSurvives == ASSUME DaemonAssumption PROVE Spec => []RunsAreDurable
<1>1. RunInv => RunsAreDurable
  BY DEF RunInv, AnswerInv, RunsAreDurable
<1> QED
  BY <1>1, RunInvariant, PTL

-----------------------------------------------------------------------------
(* Exactly once: a command that carries its id.                            *)

\* A client that is done stays so, and none goes back to before its first attempt.
LEMMA EndedStays ==
    ASSUME RunInv, Next, NEW c \in Client
    PROVE  /\ pc[c] \in Ended => pc'[c] \in Ended
           /\ pc[c] = "direct" => pc'[c] = "direct"
           /\ pc'[c] \in {"new", "runDirect"} => pc[c] \in {"new", "runDirect"}
<1>0. pc \in [Client -> Places]
  BY DEF RunInv, TypeOK
<1>1. CASE PowerLoss
  BY <1>0, <1>1 DEF PowerLoss, Ended
<1>2. CASE \E d \in Daemon : Spawn(d) \/ Kill(d)
  BY <1>2 DEF Spawn, Kill, client
<1>3. ASSUME NEW b \in Client, WorkerStep(b) PROVE pc' = pc
  BY <1>3 DEF WorkerStep, Dispatch, Apply, Refuse, Note, Flush, FlushFails
<1>4. ASSUME NEW b \in Client, ClientStep(b)
      PROVE  /\ pc[c] \in Ended => pc'[c] \in Ended
             /\ pc[c] = "direct" => pc'[c] = "direct"
             /\ pc'[c] \in {"new", "runDirect"} => pc[c] \in {"new", "runDirect"}
  <2>1. CASE \E d \in Daemon : Send(b, d)
    BY <1>0, <2>1 DEF Send, Idle, Ended
  <2>2. CASE FirstNotSent(b) \/ RunDirect(b) \/ Lose(b) \/ GiveUp(b)
    BY <1>0, <2>2 DEF FirstNotSent, RunDirect, Lose, GiveUp, Ended
  <2>3. CASE LaterNotSent(b)
    BY <2>3 DEF LaterNotSent
  <2>4. CASE Receive(b)
    <3>1. \E where \in {"served", "acked", "refused"} : pc' = [pc EXCEPT ![b] = where]
      BY <2>4 DEF Receive
    <3> QED
      BY <1>0, <2>4, <3>1 DEF Receive, Ended
  <2> QED
    BY <1>4, <2>1, <2>2, <2>3, <2>4 DEF ClientStep
<1> QED
  BY <1>1, <1>2, <1>3, <1>4 DEF Next

\* Each daemon that serves has the id of what it has folded in, or a snapshot hid it.
LEMMA StepIndex ==
    ASSUME DaemonAssumption, RunInv, Next, NEW c \in Client, IndexInv(c), Visible(c)
    PROVE  IndexInv(c)'
<1>0. /\ TypeOK /\ up \subseteq Daemon
      /\ log \in Seq(Op) /\ Len(log) \in Nat /\ DOMAIN log = 1 .. Len(log)
      /\ pc \in [Client -> Places] /\ seen \in [Daemon -> Nat] /\ byKey \in [Daemon -> SUBSET Client]
  BY IndexProperties DEF RunInv, TypeOK
<1>i. \A d \in up : seen[d] <= Len(log) /\ Folded(c, d)
  BY DEF IndexInv
<1>e. pc'[c] \notin Ended => pc[c] \notin Ended
  BY EndedStays
<1> USE DEF store, procs, memory, client, Stage, At, Idle
<1>1. CASE PowerLoss
  BY <1>1 DEF PowerLoss, IndexInv
<1>2. CASE ~PowerLoss
  <2>1. log' = log \/ \E e \in Op : log' = Append(log, e)
    BY <1>2, AppliedStays
  <2>2. /\ Len(log') \in Nat /\ Len(log) <= Len(log')
        /\ \A i \in 1 .. Len(log) : log'[i] = log[i]
    <3>1. log \in Seq(Op)
      BY <1>0
    <3>2. CASE log' = log
      BY <1>0, <3>2
    <3>3. CASE \E e \in Op : log' = Append(log, e)
      <4>1. PICK e \in Op : log' = Append(log, e)
        BY <3>3
      <4> QED
        BY <3>1, <4>1, AppendKeeps
    <3> QED
      BY <2>1, <3>2, <3>3
  <2>3. ASSUME NEW d \in up, seen'[d] = seen[d], byKey'[d] = byKey[d]
        PROVE  seen'[d] <= Len(log') /\ Folded(c, d)'
    <3>1. seen[d] \in Nat /\ seen[d] <= Len(log) /\ Folded(c, d)
      BY <1>0, <1>i
    <3>2. seen'[d] <= Len(log')
      BY <1>0, <2>2, <2>3, <3>1
    <3>3. \A i \in 1 .. seen[d] : i \in 1 .. Len(log)
      BY <1>0, <3>1
    <3> QED
      BY <1>e, <2>2, <2>3, <3>1, <3>2, <3>3 DEF Folded
  <2>4. CASE up' \subseteq up /\ seen' = seen /\ byKey' = byKey
    BY <2>3, <2>4 DEF IndexInv
  <2>5. ASSUME NEW d \in Daemon, Kill(d) PROVE IndexInv(c)'
    BY <2>4, <2>5 DEF Kill
  <2>6. ASSUME NEW b \in Client, ClientStep(b) PROVE IndexInv(c)'
    BY <2>4, <2>6 DEF ClientStep, Send, FirstNotSent, LaterNotSent, RunDirect, Lose, GiveUp, Receive
  <2>7. ASSUME NEW b \in Client, NEW d \in Daemon,
               Apply(b, d) \/ Refuse(b, d) \/ Flush(b, d) \/ FlushFails(b, d)
        PROVE  IndexInv(c)'
    BY <2>4, <2>7 DEF Apply, Refuse, Flush, FlushFails
  <2>8. ASSUME NEW d \in Daemon, Spawn(d) PROVE IndexInv(c)'
    <3>1. /\ log' = log /\ pc' = pc /\ up' = up \cup {d} /\ d \notin up
          /\ seen' = [seen EXCEPT ![d] = Len(log)] /\ byKey' = [byKey EXCEPT ![d] = KeysFrom(ReplayFrom)]
      BY <2>8 DEF Spawn
    <3>2. seen'[d] = Len(log) /\ byKey'[d] = KeysFrom(ReplayFrom)
      BY <1>0, <3>1
    <3>3. ASSUME pc[c] \notin Ended, NEW i \in 1 .. Len(log), log[i].by = c, log[i].keyed
          PROVE  c \in KeysFrom(ReplayFrom)
      <4>1. ~(i < ReplayFrom)
        BY <1>0, <3>3 DEF Visible, Hidden
      <4>2. ReplayFrom \in Nat
        BY <1>0, IndexProperties
      <4>3. i \in ReplayFrom .. Len(log)
        BY <1>0, <4>1, <4>2
      <4> QED
        BY <3>3, <4>3 DEF KeysFrom
    <3>4. Folded(c, d)'
      BY <1>e, <3>1, <3>2, <3>3 DEF Folded
    <3>5. \A b \in up : seen'[b] <= Len(log') /\ Folded(c, b)'
      BY <1>0, <2>3, <3>1
    <3>6. Len(log) <= Len(log)
      BY <1>0
    <3> QED
      BY <3>1, <3>2, <3>4, <3>5, <3>6 DEF IndexInv
  <2>9. ASSUME NEW d \in up, NEW n \in 0 .. Len(log), NEW keys \in SUBSET Client,
               log' = log, up' = up, seen' = [seen EXCEPT ![d] = n],
               byKey' = [byKey EXCEPT ![d] = @ \cup keys],
               \A i \in seen[d] + 1 .. n : log[i].by = c /\ log[i].keyed => c \in keys
        PROVE  IndexInv(c)'
    <3>1. seen'[d] = n /\ byKey'[d] = byKey[d] \cup keys /\ n \in Nat /\ n <= Len(log')
      BY <1>0, <2>9
    <3>2. ASSUME pc[c] \notin Ended, NEW i \in 1 .. n, log[i].by = c, log[i].keyed
          PROVE  c \in byKey'[d]
      <4>1. CASE i \in 1 .. seen[d]
        BY <1>i, <3>1, <3>2, <4>1 DEF Folded
      <4>2. CASE i \notin 1 .. seen[d]
        <5>1. seen[d] \in Nat
          BY <1>0
        <5>2. i \in seen[d] + 1 .. n
          BY <3>1, <4>2, <5>1
        <5> QED
          BY <2>9, <3>1, <3>2, <5>2
      <4> QED
        BY <4>1, <4>2
    <3>3. Folded(c, d)'
      BY <1>e, <2>9, <3>1, <3>2 DEF Folded
    <3>4. \A b \in up : b # d => seen'[b] = seen[b] /\ byKey'[b] = byKey[b]
      BY <1>0, <2>9
    <3> QED
      BY <2>3, <2>9, <3>1, <3>3, <3>4 DEF IndexInv
  <2>10. ASSUME NEW b \in Client, NEW d \in Daemon, Dispatch(b, d) PROVE IndexInv(c)'
    <3>1. /\ log' = log /\ up' = up /\ d \in up /\ seen' = [seen EXCEPT ![d] = Len(log)]
          /\ byKey' = [byKey EXCEPT ![d] = @ \cup KeysFrom(seen[d] + 1)]
      BY <2>10 DEF Dispatch
    <3>2. KeysFrom(seen[d] + 1) \subseteq Client
      <4>1. seen[d] + 1 \in Nat /\ 1 <= seen[d] + 1
        BY <1>0
      <4> QED
        BY <1>0, <4>1, IndexProperties
    <3>3. \A i \in seen[d] + 1 .. Len(log) :
             log[i].by = c /\ log[i].keyed => c \in KeysFrom(seen[d] + 1)
      BY DEF KeysFrom
    <3>4. Len(log) \in 0 .. Len(log)
      BY <1>0
    <3> QED
      BY <2>9, <3>1, <3>2, <3>3, <3>4
  <2>11. ASSUME NEW b \in Client, NEW d \in Daemon, Note(b, d) PROVE IndexInv(c)'
    <3> DEFINE keys == {log[i].by : i \in {j \in seen[d] + 1 .. Mine(b) : log[j].keyed}}
    <3>1. /\ work[b] = "applied" /\ log' = log /\ up' = up /\ d \in up
          /\ seen' = [seen EXCEPT ![d] = Mine(b)] /\ byKey' = [byKey EXCEPT ![d] = @ \cup keys]
      BY <2>11 DEF Note, Mine
    <3>2. Mine(b) \in 0 .. Len(log)
      <4>1. Mine(b) \in Nat /\ Mine(b) <= Len(log)
        BY <3>1, MineIsThere
      <4> QED
        BY <1>0, <4>1
    <3>3. keys \subseteq Client
      <4>1. \A j \in seen[d] + 1 .. Mine(b) : j \in DOMAIN log
        BY <1>0, <3>2
      <4>2. \A j \in DOMAIN log : log[j].by \in Client
        BY <1>0, IndexProperties DEF Op
      <4> QED
        BY <4>1, <4>2
    <3>4. \A i \in seen[d] + 1 .. Mine(b) : log[i].by = c /\ log[i].keyed => c \in keys
      OBVIOUS
    <3> HIDE DEF keys
    <3> QED
      BY <2>9, <3>1, <3>2, <3>3, <3>4
  <2> QED
    BY <1>2, <2>5, <2>6, <2>7, <2>8, <2>10, <2>11 DEF Next, WorkerStep
<1> QED
  BY <1>1, <1>2

\* The first operation of a client is its only one.
LEMMA OneMore ==
    ASSUME TypeOK, NEW c \in Client, ~Applied(c), NEW e \in Op, log' = Append(log, e)
    PROVE  /\ Once(c)'
           /\ \A i \in DOMAIN log' : log'[i] = e \/ (i \in DOMAIN log /\ log'[i] = log[i])
<1>1. log \in Seq(Op)
  BY DEF TypeOK
<1> DEFINE n == Len(log) + 1
<1>2. /\ log'[n] = e /\ \A i \in DOMAIN log' : i \in DOMAIN log \/ i = n
      /\ \A i \in DOMAIN log : log'[i] = log[i]
  BY <1>1, AppendKeeps
<1> HIDE DEF n
<1>3. \A i \in DOMAIN log : log[i].by # c
  BY DEF Applied
<1>4. Once(c)'
  BY <1>2, <1>3 DEF Once
<1> QED
  BY <1>2, <1>4

\* Every step applies the command of a client that carries its id at most once.
LEMMA StepOnce ==
    ASSUME DaemonAssumption, RunInv, Next, NEW c \in Keyed, IndexInv(c), OnceInv(c)
    PROVE  OnceInv(c)'
<1>0. /\ TypeOK /\ RequestInv /\ None \notin Daemon /\ c \in Client /\ up \subseteq Daemon
      /\ log \in Seq(Op) /\ Len(log) \in Nat /\ DOMAIN log = 1 .. Len(log)
      /\ pc \in [Client -> Places] /\ work \in [Client -> Stages]
      /\ conn \in [Client -> Daemon \cup {None}] /\ seen \in [Daemon -> Nat]
      /\ byKey \in [Daemon -> SUBSET Client]
  BY IndexProperties DEF RunInv, TypeOK, DaemonAssumption
<1>i. /\ Once(c)
      /\ pc[c] \in {"new", "runDirect"} => ~Applied(c)
      /\ work[c] = "running" /\ conn[c] \in up => ~Applied(c)
      /\ \A i \in DOMAIN log : log[i].by = c /\ ~log[i].keyed => pc[c] = "direct"
  BY DEF OnceInv
<1>e. /\ pc[c] = "direct" => pc'[c] = "direct"
      /\ pc'[c] \in {"new", "runDirect"} => pc[c] \in {"new", "runDirect"}
  BY <1>0, EndedStays
<1> USE DEF store, procs, memory, client, InTurn, Stage, At, Idle
<1>1. CASE PowerLoss
  <2>1. PICK k \in flushed .. Len(log) : log' = SubSeq(log, 1, k)
    BY <1>1 DEF PowerLoss
  <2>2. k \in 0 .. Len(log)
    BY <1>0, <2>1 DEF TypeOK
  <2>3. DOMAIN log' \subseteq DOMAIN log /\ \A i \in DOMAIN log' : log'[i] = log[i]
    BY <1>0, <2>1, <2>2, PrefixKeeps
  <2>4. Once(c)' /\ (Applied(c)' => Applied(c))
    BY <1>i, <2>3 DEF Once, Applied
  <2>5. work'[c] = "none"
    BY <1>0, <1>1 DEF PowerLoss
  <2>6. \A i \in DOMAIN log' : log'[i].by = c /\ ~log'[i].keyed => pc'[c] = "direct"
    BY <1>e, <1>i, <2>3
  <2> QED
    BY <1>e, <1>i, <2>4, <2>5, <2>6 DEF OnceInv
<1>2. ASSUME log' = log,
             work'[c] = "running" /\ conn'[c] \in up'
               => (work[c] = "running" /\ conn[c] \in up) \/ ~Applied(c)
      PROVE  OnceInv(c)'
  <2>1. Once(c)' /\ (Applied(c)' => Applied(c))
    BY <1>i, <1>2 DEF Once, Applied
  <2>2. \A i \in DOMAIN log' : log'[i].by = c /\ ~log'[i].keyed => pc'[c] = "direct"
    BY <1>e, <1>i, <1>2
  <2> QED
    BY <1>e, <1>i, <1>2, <2>1, <2>2 DEF OnceInv
<1>3. ASSUME NEW d \in Daemon, Spawn(d) PROVE OnceInv(c)'
  <2>1. log' = log /\ work' = work /\ conn' = conn /\ up' = up \cup {d} /\ d \notin up \cup dead
    BY <1>3 DEF Spawn
  <2>2. work[c] = "running" => conn[c] \in up \cup dead
    BY <1>0 DEF RequestInv
  <2> QED
    BY <1>2, <2>1, <2>2
<1>4. ASSUME NEW d \in Daemon, Kill(d) PROVE OnceInv(c)'
  BY <1>2, <1>4 DEF Kill
<1>5. ASSUME NEW b \in Client, ClientStep(b), ~RunDirect(b) PROVE OnceInv(c)'
  <2>1. log' = log /\ up' = up
    BY <1>5 DEF ClientStep, Send, FirstNotSent, LaterNotSent, Lose, GiveUp, Receive
  <2>2. work'[c] = "running" => work[c] = "running" /\ conn'[c] = conn[c]
    BY <1>0, <1>5 DEF ClientStep, Send, FirstNotSent, LaterNotSent, Lose, GiveUp, Receive
  <2> QED
    BY <1>2, <2>1, <2>2
<1>6. ASSUME NEW b \in Client, NEW d \in Daemon,
             Refuse(b, d) \/ Note(b, d) \/ Flush(b, d) \/ FlushFails(b, d)
      PROVE  OnceInv(c)'
  <2>1. log' = log /\ up' = up /\ conn' = conn
    BY <1>6 DEF Refuse, Note, Flush, FlushFails
  <2>2. work'[c] = "running" => work[c] = "running"
    BY <1>0, <1>6 DEF Refuse, Note, Flush, FlushFails
  <2> QED
    BY <1>2, <2>1, <2>2
<1>7. ASSUME NEW b \in Client, NEW d \in Daemon, Dispatch(b, d) PROVE OnceInv(c)'
  <2>1. log' = log /\ up' = up /\ conn' = conn /\ d \in up /\ pc[b] = "waiting"
        /\ byKey' = [byKey EXCEPT ![d] = @ \cup KeysFrom(seen[d] + 1)]
    BY <1>7 DEF Dispatch
  <2>2. CASE b # c
    <3>1. work'[c] = work[c]
      BY <1>0, <1>7, <2>2 DEF Dispatch
    <3> QED
      BY <1>2, <2>1, <3>1
  <2>3. CASE b = c
    <3>1. work'[c] = "running" => c \notin byKey'[d]
      BY <1>0, <1>7, <2>3 DEF Dispatch
    <3>2. ASSUME c \notin byKey'[d], NEW i \in DOMAIN log, log[i].by = c PROVE FALSE
      <4>1. c \notin byKey[d] /\ c \notin KeysFrom(seen[d] + 1)
        BY <1>0, <2>1, <3>2
      <4>2. log[i].keyed /\ pc[c] \notin Ended
        BY <1>i, <2>1, <2>3, <3>2 DEF Ended
      <4>3. CASE i \in 1 .. seen[d]
        BY <2>1, <3>2, <4>1, <4>2, <4>3 DEF IndexInv, Folded
      <4>4. CASE i \notin 1 .. seen[d]
        <5>1. seen[d] \in Nat
          BY <1>0, <2>1
        <5>2. i \in seen[d] + 1 .. Len(log)
          BY <1>0, <4>4, <5>1
        <5> QED
          BY <3>2, <4>1, <4>2, <5>2 DEF KeysFrom
      <4> QED
        BY <4>3, <4>4
    <3>3. work'[c] = "running" => ~Applied(c)
      BY <3>1, <3>2 DEF Applied
    <3> QED
      BY <1>2, <2>1, <3>3
  <2> QED
    BY <2>2, <2>3
<1>8. ASSUME NEW e \in Op, e.by = c, ~Applied(c), log' = Append(log, e),
             e.keyed \/ pc'[c] = "direct", pc'[c] \notin {"new", "runDirect"},
             work'[c] # "running", pc[c] # "direct"
      PROVE  OnceInv(c)'
  <2>1. /\ Once(c)'
        /\ \A i \in DOMAIN log' : log'[i] = e \/ (i \in DOMAIN log /\ log'[i] = log[i])
    BY <1>0, <1>8, OneMore
  <2>2. \A i \in DOMAIN log' : log'[i].by = c /\ ~log'[i].keyed => pc'[c] = "direct"
    BY <1>i, <1>8, <2>1
  <2> QED
    BY <1>8, <2>1, <2>2 DEF OnceInv
<1>9. ASSUME NEW e \in Op, e.by # c, log' = Append(log, e), pc'[c] = pc[c], up' = up,
             work'[c] = work[c], conn'[c] = conn[c]
      PROVE  OnceInv(c)'
  <2>1. /\ \A i \in DOMAIN log' : log'[i].by = c => i \in DOMAIN log /\ log'[i] = log[i]
        /\ log \in Seq(Op)
    <3>1. log \in Seq(Op)
      BY <1>0
    <3> DEFINE n == Len(log) + 1
    <3>2. /\ log'[n] = e /\ \A i \in DOMAIN log' : i \in DOMAIN log \/ i = n
          /\ \A i \in DOMAIN log : log'[i] = log[i]
      BY <1>9, <3>1, AppendKeeps
    <3> HIDE DEF n
    <3> QED
      BY <1>9, <3>1, <3>2
  <2>2. Once(c)' /\ (Applied(c)' => Applied(c))
    BY <1>i, <2>1 DEF Once, Applied
  <2> QED
    BY <1>i, <1>9, <2>1, <2>2 DEF OnceInv
<1>10. ASSUME NEW b \in Client, RunDirect(b) PROVE OnceInv(c)'
  <2> DEFINE e == [by |-> b, try |-> 0, keyed |-> FALSE]
  <2>1. e \in Op /\ e.by = b
    BY DEF Op
  <2>2. /\ log' = Append(log, e) /\ pc'[b] = "direct" /\ pc[b] = "runDirect" /\ up' = up
        /\ work' = work /\ conn' = conn /\ \A x \in Client \ {b} : pc'[x] = pc[x]
    BY <1>0, <1>10 DEF RunDirect
  <2> HIDE DEF e
  <2>3. work[b] = "none"
    BY <1>0, <2>2 DEF RequestInv
  <2>4. CASE b = c
    BY <1>8, <1>i, <2>1, <2>2, <2>3, <2>4
  <2>5. CASE b # c
    BY <1>0, <1>9, <2>1, <2>2, <2>5
  <2> QED
    BY <2>4, <2>5
<1>11. ASSUME NEW b \in Client, NEW d \in Daemon, Apply(b, d) PROVE OnceInv(c)'
  <2> DEFINE e == [by |-> b, try |-> tries[b], keyed |-> b \in Keyed]
  <2>1. e \in Op
    <3>1. tries[b] \in Nat
      BY <1>0 DEF TypeOK, DaemonAssumption
    <3> QED
      BY <3>1, SMT DEF Op
  <2>2. e.by = b /\ (e.keyed <=> b \in Keyed)
    OBVIOUS
  <2>3. /\ log' = Append(log, e) /\ pc' = pc /\ pc[b] = "waiting" /\ up' = up /\ conn' = conn
        /\ work'[b] = "applied" /\ \A x \in Client \ {b} : work'[x] = work[x]
        /\ work[b] = "running" /\ conn[b] \in up
    BY <1>0, <1>11 DEF Apply
  <2> HIDE DEF e
  <2>4. CASE b = c
    BY <1>8, <1>i, <2>1, <2>2, <2>3, <2>4
  <2>5. CASE b # c
    BY <1>0, <1>9, <2>1, <2>2, <2>3, <2>5
  <2> QED
    BY <2>4, <2>5
<1> QED
  BY <1>1, <1>3, <1>4, <1>5, <1>6, <1>7, <1>10, <1>11 DEF Next, ClientStep, WorkerStep

\* A command that carries its id takes effect at most once, whatever is lost, however
\* often it is retried, and whatever commands without an id and snapshots of the refs
\* there are besides (serve_write, dispatch, commit_idempotent): unless a snapshot is
\* anchored past its operation while its client still retries, which is where a store
\* opened from that snapshot has lost the id (open).
THEOREM ExactlyOnce ==
    ASSUME DaemonAssumption, NEW c \in Keyed
    PROVE  Spec /\ []Visible(c) => []Once(c)
<1>0. c \in Client
  BY DEF DaemonAssumption
<1>1. Init => IndexInv(c) /\ OnceInv(c)
  <2> SUFFICES ASSUME Init PROVE IndexInv(c) /\ OnceInv(c)
    OBVIOUS
  <2>1. DOMAIN log = {}
    BY DEF Init
  <2> QED
    BY <1>0, <2>1 DEF Init, IndexInv, OnceInv, Once, Applied
<1>2. RunInv /\ Visible(c) /\ IndexInv(c) /\ OnceInv(c) /\ [Next]_vars => (IndexInv(c) /\ OnceInv(c))'
  <2> SUFFICES ASSUME RunInv, Visible(c), IndexInv(c), OnceInv(c), [Next]_vars
               PROVE  (IndexInv(c) /\ OnceInv(c))'
    OBVIOUS
  <2>1. CASE Next
    BY <1>0, <2>1, DaemonAssumption, StepIndex, StepOnce
  <2>2. CASE UNCHANGED vars
    BY <2>2 DEF vars, store, procs, memory, client, IndexInv, Folded, OnceInv, Once, Applied
  <2> QED
    BY <2>1, <2>2
<1>3. OnceInv(c) => Once(c)
  BY DEF OnceInv
<1> QED
  BY <1>1, <1>2, <1>3, RunInvariant, PTL DEF Spec

-----------------------------------------------------------------------------
(* The group commit of a daemon (GroupCommit), for any request threads:    *)
(* what Daemon takes for one step.                                         *)

Waiting == {"await", "asleep"} \cup Flushing

\* What a request relies on was appended before it took its ticket.
WrittenInv ==
    /\ objsFlushed <= objs /\ logFlushed <= Len(written)
    /\ \A t \in Thread : obj[t] <= objs /\ op[t] <= Len(written)

\* A thread holds a ticket exactly from Assign on.
TicketInv ==
    /\ durable <= next_ticket
    /\ \A t \in Thread :
         /\ ticket[t] <= next_ticket
         /\ place[t] \in {"start", "run"} => ticket[t] = 0
         /\ place[t] \in Waiting => ticket[t] > 0

\* The leader is alone; it leads for a ticket no earlier flush covered.
LeaderInv ==
    /\ \A t, u \in Thread : place[t] \in Flushing /\ place[u] \in Flushing => t = u
    /\ \A t \in Thread : place[t] \in Flushing =>
         syncing /\ durable < ticket[t] /\ ticket[t] <= covered[t]
                 /\ covered[t] <= next_ticket
    /\ syncing => \E t \in Thread : place[t] \in Flushing
    /\ \A t \in Thread : place[t] = "asleep" => syncing

Holds(t, top) == ticket[t] # 0 /\ ticket[t] <= top

\* What the leader has flushed so far is on the device for every ticket it
\* covers; what `durable` covers is on the device for good.
CoverInv ==
    /\ \A u \in Thread : Holds(u, durable) => OnDevice(u)
    /\ \A t, u \in Thread : Holds(u, covered[t]) =>
         /\ place[t] = "fsyncLog" => obj[u] <= objsFlushed
         /\ place[t] = "flushed"  => OnDevice(u)

GroupInv ==
    GroupTypeOK /\ WrittenInv /\ TicketInv /\ LeaderInv /\ CoverInv /\ OkIsDurable

\* The invariant holds of a daemon that has served nothing yet (GroupCommit::new).
LEMMA InitGroup == GroupInit => GroupInv
  <1> SUFFICES ASSUME GroupInit PROVE GroupInv
    OBVIOUS
  <1> USE DEF GroupInit, Flushing, Answered
  <1>1. GroupTypeOK
    <2>1. syncing \in BOOLEAN /\ led \in [Thread -> BOOLEAN]
      BY Zenon
    <2>2. written \in Seq(Nat)
      BY SMT
    <2>3. place \in [Thread -> States]
      BY DEF States
    <2> QED
      BY <2>1, <2>2, <2>3 DEF GroupTypeOK
  <1>2. WrittenInv
    BY DEF WrittenInv
  <1>3. TicketInv
    BY DEF TicketInv, Waiting
  <1>4. LeaderInv
    BY DEF LeaderInv
  <1>5. CoverInv /\ OkIsDurable
    BY DEF CoverInv, OkIsDurable, Holds
  <1> QED
    BY <1>1, <1>2, <1>3, <1>4, <1>5 DEF GroupInv

\* Every step of a request thread keeps the invariant: phase 1 of serve() under the
\* store mutex, a round of await_durable_with(), and the two fsyncs of fsync_all().
LEMMA StepGroup == GroupInv /\ [GroupNext]_groupVars => GroupInv'
  <1> USE DEF OnDevice, Holds, States, Flushing, Answered, Waiting,
     Goto, group, local, disk
  <1> SUFFICES ASSUME GroupInv, [GroupNext]_groupVars PROVE GroupInv'
    OBVIOUS
  <1>0. CASE UNCHANGED groupVars
    BY <1>0 DEF groupVars, GroupInv, GroupTypeOK, WrittenInv, TicketInv, LeaderInv, CoverInv,
       OkIsDurable
  <1> SUFFICES ASSUME NEW t \in Thread,
                      Run(t) \/ Await(t) \/ WakeSpuriously(t)
               PROVE  GroupInv'
    BY <1>0 DEF GroupNext
  <1>1. CASE LockStore(t)
    BY <1>1 DEF LockStore, GroupInv, GroupTypeOK, WrittenInv, TicketInv, LeaderInv,
       CoverInv, OkIsDurable
  <1>2. CASE PutObject(t)
    <2>1. GroupTypeOK'
      BY <1>2 DEF PutObject, GroupInv, GroupTypeOK, WrittenInv, TicketInv, LeaderInv,
         CoverInv, OkIsDurable
    <2>2. WrittenInv'
      BY <1>2, SMTT(30) DEF PutObject, GroupInv, GroupTypeOK, WrittenInv, TicketInv,
         LeaderInv, CoverInv, OkIsDurable
    <2>3. TicketInv'
      BY <1>2 DEF PutObject, GroupInv, GroupTypeOK, WrittenInv, TicketInv, LeaderInv,
         CoverInv, OkIsDurable
    <2>4. LeaderInv'
      BY <1>2 DEF PutObject, GroupInv, GroupTypeOK, WrittenInv, TicketInv, LeaderInv,
         CoverInv, OkIsDurable
    <2>5. CoverInv'
      BY <1>2 DEF PutObject, GroupInv, GroupTypeOK, WrittenInv, TicketInv, LeaderInv,
         CoverInv, OkIsDurable
    <2>6. OkIsDurable'
      BY <1>2 DEF PutObject, GroupInv, GroupTypeOK, WrittenInv, TicketInv, LeaderInv,
         CoverInv, OkIsDurable
    <2> QED
      BY <2>1, <2>2, <2>3, <2>4, <2>5, <2>6 DEF GroupInv
  <1>3. CASE AppendOp(t)
    <2>1. GroupTypeOK'
      BY <1>3, SMTT(30) DEF AppendOp, GroupInv, GroupTypeOK, WrittenInv, TicketInv,
         LeaderInv, CoverInv, OkIsDurable
    <2>2. WrittenInv'
      BY <1>3, SMTT(30) DEF AppendOp, GroupInv, GroupTypeOK, WrittenInv, TicketInv,
         LeaderInv, CoverInv, OkIsDurable
    <2>3. TicketInv'
      BY <1>3 DEF AppendOp, GroupInv, GroupTypeOK, WrittenInv, TicketInv, LeaderInv,
         CoverInv, OkIsDurable
    <2>4. LeaderInv'
      BY <1>3 DEF AppendOp, GroupInv, GroupTypeOK, WrittenInv, TicketInv, LeaderInv,
         CoverInv, OkIsDurable
    <2>5. CoverInv'
      BY <1>3 DEF AppendOp, GroupInv, GroupTypeOK, WrittenInv, TicketInv, LeaderInv,
         CoverInv, OkIsDurable
    <2>6. OkIsDurable'
      BY <1>3 DEF AppendOp, GroupInv, GroupTypeOK, WrittenInv, TicketInv, LeaderInv,
         CoverInv, OkIsDurable
    <2> QED
      BY <2>1, <2>2, <2>3, <2>4, <2>5, <2>6 DEF GroupInv
  <1>4. CASE Assign(t)
    <2>1. GroupTypeOK'
      BY <1>4 DEF Assign, Wrote, GroupInv, GroupTypeOK, WrittenInv, TicketInv,
         LeaderInv, CoverInv, OkIsDurable
    <2>2. WrittenInv'
      BY <1>4 DEF Assign, Wrote, GroupInv, GroupTypeOK, WrittenInv, TicketInv,
         LeaderInv, CoverInv, OkIsDurable
    <2>3. TicketInv'
      BY <1>4, SMTT(30) DEF Assign, Wrote, GroupInv, GroupTypeOK, WrittenInv,
         TicketInv, LeaderInv, CoverInv, OkIsDurable
    <2>4. LeaderInv'
      BY <1>4, SMTT(30) DEF Assign, Wrote, GroupInv, GroupTypeOK, WrittenInv,
         TicketInv, LeaderInv, CoverInv, OkIsDurable
    <2>5. CoverInv'
      <3>1. /\ \A u \in Thread : Holds(u, durable)' => Holds(u, durable)
            /\ \A v \in Thread : place'[v] \in Flushing =>
                 /\ place[v] = place'[v]
                 /\ \A u \in Thread : Holds(u, covered[v])' => Holds(u, covered[v])
        BY <1>4, SMTT(30) DEF Assign, GroupInv, GroupTypeOK, TicketInv, LeaderInv
      <3> QED
        BY <1>4, <3>1 DEF Assign, GroupInv, GroupTypeOK, CoverInv
    <2>6. OkIsDurable'
      BY <1>4 DEF Assign, Wrote, GroupInv, GroupTypeOK, WrittenInv, TicketInv,
         LeaderInv, CoverInv, OkIsDurable
    <2> QED
      BY <2>1, <2>2, <2>3, <2>4, <2>5, <2>6 DEF GroupInv
  <1>5. CASE AnswerRead(t)
    BY <1>5 DEF AnswerRead, Wrote, GroupInv, GroupTypeOK, WrittenInv, TicketInv,
       LeaderInv, CoverInv, OkIsDurable
  <1>6. CASE CommandFails(t)
    BY <1>6, SMTT(30) DEF CommandFails, GroupInv, GroupTypeOK, WrittenInv, TicketInv,
       LeaderInv, CoverInv, OkIsDurable
  <1>7. CASE Covered(t)
    <2>1. GroupTypeOK'
      BY <1>7 DEF Covered, GroupInv, GroupTypeOK, WrittenInv, TicketInv, LeaderInv,
         CoverInv, OkIsDurable
    <2>2. WrittenInv'
      BY <1>7 DEF Covered, GroupInv, GroupTypeOK, WrittenInv, TicketInv, LeaderInv,
         CoverInv, OkIsDurable
    <2>3. TicketInv'
      BY <1>7 DEF Covered, GroupInv, GroupTypeOK, WrittenInv, TicketInv, LeaderInv,
         CoverInv, OkIsDurable
    <2>4. LeaderInv'
      BY <1>7 DEF Covered, GroupInv, GroupTypeOK, WrittenInv, TicketInv, LeaderInv,
         CoverInv, OkIsDurable
    <2>5. CoverInv'
      BY <1>7 DEF Covered, GroupInv, GroupTypeOK, WrittenInv, TicketInv, LeaderInv,
         CoverInv, OkIsDurable
    <2>6. OkIsDurable'
      BY <1>7, SMTT(30) DEF Covered, GroupInv, GroupTypeOK, WrittenInv, TicketInv,
         LeaderInv, CoverInv, OkIsDurable
    <2> QED
      BY <2>1, <2>2, <2>3, <2>4, <2>5, <2>6 DEF GroupInv
  <1>8. CASE Sleep(t)
    BY <1>8 DEF Sleep, GroupInv, GroupTypeOK, WrittenInv, TicketInv, LeaderInv,
       CoverInv, OkIsDurable
  <1>9. CASE Lead(t)
    BY <1>9, SMTT(30) DEF Lead, GroupInv, GroupTypeOK, WrittenInv, TicketInv, LeaderInv,
       CoverInv, OkIsDurable
  <1>10. CASE FsyncOdb(t)
    <2>1. GroupTypeOK'
      BY <1>10 DEF FsyncOdb, GroupInv, GroupTypeOK, WrittenInv, TicketInv, LeaderInv,
         CoverInv, OkIsDurable
    <2>2. WrittenInv'
      BY <1>10 DEF FsyncOdb, GroupInv, GroupTypeOK, WrittenInv, TicketInv, LeaderInv,
         CoverInv, OkIsDurable
    <2>3. TicketInv'
      BY <1>10 DEF FsyncOdb, GroupInv, GroupTypeOK, WrittenInv, TicketInv, LeaderInv,
         CoverInv, OkIsDurable
    <2>4. LeaderInv'
      BY <1>10 DEF FsyncOdb, GroupInv, GroupTypeOK, WrittenInv, TicketInv, LeaderInv,
         CoverInv, OkIsDurable
    <2>5. CoverInv'
      BY <1>10 DEF FsyncOdb, GroupInv, GroupTypeOK, WrittenInv, TicketInv, LeaderInv,
         CoverInv, OkIsDurable
    <2>6. OkIsDurable'
      BY <1>10 DEF FsyncOdb, GroupInv, GroupTypeOK, WrittenInv, TicketInv, LeaderInv,
         CoverInv, OkIsDurable
    <2> QED
      BY <2>1, <2>2, <2>3, <2>4, <2>5, <2>6 DEF GroupInv
  <1>11. CASE FsyncLog(t)
    <2>1. GroupTypeOK'
      BY <1>11, SMTT(30) DEF FsyncLog, GroupInv, GroupTypeOK, WrittenInv, TicketInv,
         LeaderInv, CoverInv, OkIsDurable
    <2>2. WrittenInv'
      BY <1>11 DEF FsyncLog, GroupInv, GroupTypeOK, WrittenInv, TicketInv, LeaderInv,
         CoverInv, OkIsDurable
    <2>3. TicketInv'
      BY <1>11 DEF FsyncLog, GroupInv, GroupTypeOK, WrittenInv, TicketInv, LeaderInv,
         CoverInv, OkIsDurable
    <2>4. LeaderInv'
      BY <1>11 DEF FsyncLog, GroupInv, GroupTypeOK, WrittenInv, TicketInv, LeaderInv,
         CoverInv, OkIsDurable
    <2>5. CoverInv'
      BY <1>11 DEF FsyncLog, GroupInv, GroupTypeOK, WrittenInv, TicketInv, LeaderInv,
         CoverInv, OkIsDurable
    <2>6. OkIsDurable'
      BY <1>11 DEF FsyncLog, GroupInv, GroupTypeOK, WrittenInv, TicketInv, LeaderInv,
         CoverInv, OkIsDurable
    <2> QED
      BY <2>1, <2>2, <2>3, <2>4, <2>5, <2>6 DEF GroupInv
  <1>12. CASE FsyncFails(t)
    BY <1>12 DEF FsyncFails, GroupInv, GroupTypeOK, WrittenInv, TicketInv, LeaderInv,
       CoverInv, OkIsDurable
  <1>13. CASE EndFlush(t)
    <2>1. GroupTypeOK'
      <3>1. syncing' \in BOOLEAN
        BY <1>13, Zenon DEF EndFlush
      <3>2. durable' \in Nat /\ fsync_count' \in Nat
        BY <1>13 DEF EndFlush, GroupInv, GroupTypeOK
      <3>3. place' \in [Thread -> States]
        BY <1>13 DEF EndFlush, GroupInv, GroupTypeOK
      <3> QED
        BY <1>13, <3>1, <3>2, <3>3 DEF EndFlush, GroupInv, GroupTypeOK
    <2>2. WrittenInv'
      BY <1>13 DEF EndFlush, GroupInv, GroupTypeOK, WrittenInv, TicketInv, LeaderInv,
         CoverInv, OkIsDurable
    <2>3. TicketInv'
      BY <1>13 DEF EndFlush, GroupInv, GroupTypeOK, WrittenInv, TicketInv, LeaderInv,
         CoverInv, OkIsDurable
    <2>4. LeaderInv'
      BY <1>13 DEF EndFlush, GroupInv, GroupTypeOK, WrittenInv, TicketInv, LeaderInv,
         CoverInv, OkIsDurable
    <2>5. CoverInv'
      BY <1>13 DEF EndFlush, GroupInv, GroupTypeOK, WrittenInv, TicketInv, LeaderInv,
         CoverInv, OkIsDurable
    <2>6. OkIsDurable'
      BY <1>13, SMTT(30) DEF EndFlush, GroupInv, GroupTypeOK, WrittenInv, TicketInv,
         LeaderInv, CoverInv, OkIsDurable
    <2> QED
      BY <2>1, <2>2, <2>3, <2>4, <2>5, <2>6 DEF GroupInv
  <1>14. CASE WakeSpuriously(t)
    BY <1>14 DEF WakeSpuriously, GroupInv, GroupTypeOK, WrittenInv, TicketInv,
       LeaderInv, CoverInv, OkIsDurable
  <1> QED
    BY <1>1, <1>2, <1>3, <1>4, <1>5, <1>6, <1>7, <1>8, <1>9, <1>10, <1>11, <1>12,
       <1>13, <1>14 DEF Run, Await

\* The invariant holds throughout.
LEMMA GroupInvariant == GroupSpec => []GroupInv
  BY InitGroup, StepGroup, PTL DEF GroupSpec

-----------------------------------------------------------------------------
\* The variables keep their types: no ticket, counter or position of the
\* coordinator ever leaves its domain.
THEOREM TypeCorrect == GroupSpec => []GroupTypeOK
  <1>1. GroupInv => GroupTypeOK
    BY DEF GroupInv
  <1> QED
    BY <1>1, GroupInvariant, PTL

\* await_durable's promise, for any number of concurrent requests: a write
\* answered 0 has its operation and its object on the device, whoever led the
\* flush and whatever flushes failed.
THEOREM AnsweredWritesAreDurable == GroupSpec => []OkIsDurable
  <1>1. GroupInv => OkIsDurable
    BY DEF GroupInv
  <1> QED
    BY <1>1, GroupInvariant, PTL

\* The flag `syncing` is a lock: one leader flushes at a time, and the flag is
\* never set without one.
THEOREM LeaderIsAlone == GroupSpec => []OneLeader
  <1>1. GroupInv => OneLeader
    BY DEF GroupInv, LeaderInv, OneLeader
  <1> QED
    BY <1>1, GroupInvariant, PTL

\* No wake-up is lost: while a thread sleeps on the condition variable there is a
\* leader whose notify_all() is still to come.
THEOREM NoLostWakeup == GroupSpec => []SleepersHaveLeader
  <1>1. GroupInv => SleepersHaveLeader
    BY DEF GroupInv, LeaderInv, SleepersHaveLeader
  <1> QED
    BY <1>1, GroupInvariant, PTL

\* Coalescing: a successful flush always covers a ticket that no earlier one did,
\* so N waiting commits never cost N flushes of the same bytes.
THEOREM FlushesAreNeverWasted == GroupSpec => EveryFsyncCounts
  <1> DEFINE Counts == \A t \in Thread : place[t] = "flushed" /\ place'[t] # "flushed"
                         => durable' > durable
  <1>1. GroupInv /\ [GroupNext]_groupVars => [Counts]_groupVars
    <2> SUFFICES ASSUME GroupInv, GroupNext, NEW t \in Thread,
                        place[t] = "flushed", place'[t] # "flushed"
                 PROVE  durable' > durable
      OBVIOUS
    <2>1. PICK u \in Thread : Run(u) \/ Await(u) \/ WakeSpuriously(u)
      BY DEF GroupNext
    <2>2. u = t /\ EndFlush(u)
      BY <2>1 DEF Run, Await, LockStore, PutObject, AppendOp,
         Assign, AnswerRead,
         CommandFails, Covered, Sleep, Lead, FsyncOdb,
            FsyncLog, FsyncFails, EndFlush,
         WakeSpuriously, Goto, GroupInv, GroupTypeOK
    <2>3. durable < covered[t]
      BY DEF GroupInv, GroupTypeOK, LeaderInv, Flushing
    <2> QED
      BY <2>2, <2>3 DEF EndFlush, GroupInv, GroupTypeOK
  <1> QED
    BY <1>1, GroupInvariant, PTL DEF GroupSpec, EveryFsyncCounts

-----------------------------------------------------------------------------
Ticketed == {t \in Thread : ticket[t] # 0}
HasLed   == {t \in Thread : led[t] /\ place[t] \notin Flushing}

\* Each ticket is one thread's, each fsync that has ended one thread's that led, and
\* who leads holds a ticket.
CountInv ==
    /\ IsFiniteSet(Ticketed) /\ Cardinality(Ticketed) = next_ticket
    /\ IsFiniteSet(HasLed) /\ Cardinality(HasLed) = fsync_count
    /\ \A t \in Thread : led[t] => ticket[t] # 0
    /\ \A t \in Thread : place[t] \in Flushing => led[t]

\* At first nobody holds a ticket and nobody has led.
LEMMA InitCount == GroupInit => CountInv
  <1> SUFFICES ASSUME GroupInit PROVE CountInv
    OBVIOUS
  <1>1. Ticketed = {} /\ HasLed = {}
    BY DEF GroupInit, Ticketed, HasLed
  <1> QED
    BY <1>1, FS_EmptySet DEF GroupInit, CountInv, Flushing

\* A ticket is taken by a thread that had none; a flush ends once for each leader.
LEMMA StepCount == GroupInv /\ CountInv /\ [GroupNext]_groupVars => CountInv'
  <1> SUFFICES ASSUME GroupInv, CountInv, [GroupNext]_groupVars PROVE CountInv'
    OBVIOUS
  <1> USE DEF Goto
  <1>0. CASE UNCHANGED groupVars
    BY <1>0 DEF groupVars, local, group, CountInv, Ticketed, HasLed
  <1> SUFFICES ASSUME NEW t \in Thread,
                      Run(t) \/ Await(t) \/ WakeSpuriously(t)
               PROVE  CountInv'
    BY <1>0 DEF GroupNext
  <1>1. GroupTypeOK /\ (place[t] \in {"start", "run"} => ticket[t] = 0)
    BY DEF GroupInv, TicketInv
  <1>2. CASE Assign(t)
    <2>1. ticket'[t] # 0 /\ t \notin Ticketed /\ Ticketed' = Ticketed \cup {t}
      BY <1>1, <1>2 DEF Assign, GroupTypeOK, Ticketed
    <2>2. HasLed' = HasLed
      BY <1>1, <1>2 DEF Assign, GroupTypeOK, HasLed, Flushing
    <2>3. /\ \A u \in Thread : led'[u] => ticket'[u] # 0
          /\ \A u \in Thread : place'[u] \in Flushing => led'[u]
      BY <1>1, <1>2, <2>1 DEF Assign, GroupTypeOK, CountInv, Flushing
    <2> QED
      BY <1>2, <2>1, <2>2, <2>3, FS_AddElement DEF Assign, CountInv
  <1>3. CASE Lead(t)
    <2>1. Ticketed' = Ticketed /\ HasLed' = HasLed
      BY <1>1, <1>3 DEF Lead, GroupTypeOK, Ticketed, HasLed, Flushing
    <2>2. ticket[t] # 0
      BY <1>1, <1>3 DEF Lead, GroupTypeOK
    <2>3. /\ \A u \in Thread : led'[u] => ticket'[u] # 0
          /\ \A u \in Thread : place'[u] \in Flushing => led'[u]
      BY <1>1, <1>3, <2>2 DEF Lead, GroupTypeOK, CountInv
    <2> QED
      BY <1>3, <2>1, <2>3 DEF Lead, CountInv
  <1>4. CASE EndFlush(t)
    <2>1. Ticketed' = Ticketed
      BY <1>4 DEF EndFlush, local, Ticketed
    <2>2. led[t] /\ t \notin HasLed /\ HasLed' = HasLed \cup {t}
      BY <1>1, <1>4 DEF EndFlush, local, GroupTypeOK, HasLed, Flushing,
         CountInv
    <2>3. /\ \A u \in Thread : led'[u] => ticket'[u] # 0
          /\ \A u \in Thread : place'[u] \in Flushing => led'[u]
      BY <1>1, <1>4 DEF EndFlush, local, GroupTypeOK, CountInv, Flushing
    <2> QED
      BY <1>4, <2>1, <2>2, <2>3, FS_AddElement DEF EndFlush, CountInv
  <1>5. CASE ~Assign(t) /\ ~Lead(t) /\ ~EndFlush(t)
    <2>1. /\ UNCHANGED <<ticket, led, next_ticket, fsync_count>>
          /\ \A u \in Thread : place'[u] \in Flushing <=> place[u] \in Flushing
      BY <1>1, <1>5 DEF Run, Await, LockStore, PutObject,
         AppendOp, AnswerRead,
         CommandFails, Covered, Sleep, FsyncOdb, FsyncLog,
            FsyncFails,
         WakeSpuriously, GroupTypeOK, Flushing, local, group
    <2>2. Ticketed' = Ticketed /\ HasLed' = HasLed
      BY <2>1 DEF Ticketed, HasLed
    <2> QED
      BY <2>1, <2>2 DEF CountInv
  <1> QED
    BY <1>2, <1>3, <1>4, <1>5

\* A dead disk is not retried for ever: a thread leads once at most, and only one that
\* holds a ticket, so that fsyncs, the failed ones included, are never more than tickets.
THEOREM FsyncsAreBounded == GroupSpec => []FsyncsBounded
  <1>1. GroupInv /\ CountInv => FsyncsBounded
    <2> SUFFICES ASSUME CountInv PROVE FsyncsBounded
      OBVIOUS
    <2>1. HasLed \subseteq Ticketed
      BY DEF CountInv, HasLed, Ticketed
    <2> QED
      BY <2>1, FS_Subset DEF CountInv, FsyncsBounded
  <1> QED
    BY <1>1, GroupInvariant, InitCount, StepCount, PTL DEF GroupSpec

-----------------------------------------------------------------------------
(* Who owns the socket of a repository's daemon (DaemonBind).              *)

\* A request that was accepted is among those its daemon has not answered, and a
\* daemon that is leaving has none.
WorkersInv ==
    /\ BindTypeOK
    /\ \A c \in Caller : request[c] = "accepted" => peer[c] \in Server /\ c \in workers[peer[c]]
    /\ \A d \in Server : at[d] = "leaving" => workers[d] = {}

\* No daemon, no request (run(), connect_or_spawn() before anything).
LEMMA InitWorkers == BindInit => WorkersInv
BY DEF BindInit, WorkersInv, BindTypeOK

\* Every step of a daemon and of a client keeps it: Accept counts the worker as it
\* takes the request, the idle exit finds none (run() of altd.rs).
LEMMA StepWorkers == BindAssumption /\ WorkersInv /\ [BindNext]_bindVars => WorkersInv'
<1> SUFFICES ASSUME BindAssumption, WorkersInv, [BindNext]_bindVars PROVE WorkersInv'
  OBVIOUS
<1> USE DEF WorkersInv, BindTypeOK, Starting, Listening, Over, Moves, Reachable,
            BindAssumption
<1>1. CASE UNCHANGED bindVars
  BY <1>1 DEF bindVars
<1>2. ASSUME NEW d \in Server, ServerStep(d) PROVE WorkersInv'
  <2>1. CASE TryBind(d) \/ Listen(d) \/ Probe(d) \/ RemoveStale(d) \/ Rebind(d)
    BY <2>1 DEF TryBind, Listen, Probe, RemoveStale, Rebind
  <2>2. CASE IdleExit(d)
    BY <2>2 DEF IdleExit
  <2>3. CASE Leave(d)
    BY <2>3 DEF Leave, Close
  <2>4. ASSUME NEW c \in Caller, Accept(d, c) PROVE WorkersInv'
    BY <2>4 DEF Accept
  <2>5. ASSUME NEW c \in Caller, Answer(d, c) PROVE WorkersInv'
    BY <2>5 DEF Answer
  <2> QED
    BY <1>2, <2>1, <2>2, <2>3, <2>4, <2>5 DEF ServerStep
<1>3. ASSUME NEW d \in Server, SpawnServer(d) PROVE WorkersInv'
  BY <1>3 DEF SpawnServer
<1>4. ASSUME NEW d \in Server, KillServer(d) PROVE WorkersInv'
  BY <1>4 DEF KillServer, Close
<1>5. ASSUME NEW c \in Caller, Connect(c) \/ FallBack(c) \/ Retry(c) PROVE WorkersInv'
  BY <1>5 DEF Connect, FallBack, Retry
<1> QED
  BY <1>1, <1>2, <1>3, <1>4, <1>5 DEF BindNext

\* A request is lost only as the daemon it is at closes its listener, and one that was
\* accepted only when that daemon is killed.
LEMMA OnlyKilled ==
    BindAssumption /\ WorkersInv /\ [BindNext]_bindVars
    => \A c \in Caller : request[c] = "accepted" /\ request'[c] = "lost" => at'[peer[c]] = "killed"
<1> SUFFICES ASSUME BindAssumption, WorkersInv, [BindNext]_bindVars,
                    NEW c \in Caller, request[c] = "accepted", request'[c] = "lost"
             PROVE  at'[peer[c]] = "killed"
  OBVIOUS
<1> USE DEF WorkersInv, BindTypeOK
<1>1. CASE UNCHANGED bindVars
  BY <1>1 DEF bindVars
<1>2. ASSUME NEW d \in Server, ServerStep(d) PROVE FALSE
  <2>1. CASE TryBind(d) \/ Listen(d) \/ Probe(d) \/ RemoveStale(d) \/ Rebind(d)
             \/ IdleExit(d)
    BY <2>1 DEF TryBind, Listen, Probe, RemoveStale, Rebind, IdleExit
  <2>2. CASE Leave(d)
    BY <2>2 DEF Leave, Close
  <2>3. ASSUME NEW e \in Caller, Accept(d, e) \/ Answer(d, e) PROVE FALSE
    BY <2>3 DEF Accept, Answer
  <2> QED
    BY <1>2, <2>1, <2>2, <2>3 DEF ServerStep
<1>3. ASSUME NEW d \in Server, SpawnServer(d) PROVE FALSE
  BY <1>3 DEF SpawnServer
<1>4. ASSUME NEW d \in Server, KillServer(d) PROVE at'[peer[c]] = "killed"
  BY <1>4 DEF KillServer, Close, Moves
<1>5. ASSUME NEW e \in Caller, Connect(e) \/ FallBack(e) \/ Retry(e) PROVE FALSE
  BY <1>5 DEF Connect, FallBack, Retry
<1> QED
  BY <1>1, <1>2, <1>3, <1>4, <1>5 DEF BindNext

\* Whatever daemons start, race for the socket file and leave, an idle exit drops no
\* request that was accepted (run() leaves when `active` is zero).
THEOREM ExitsDropNothing == BindAssumption => (BindSpec => ExitDropsNothing)
<1> SUFFICES ASSUME BindAssumption PROVE BindSpec => ExitDropsNothing
  OBVIOUS
<1>1. BindInit => WorkersInv
  BY InitWorkers
<1>2. WorkersInv /\ [BindNext]_bindVars => WorkersInv'
  BY StepWorkers
<1>3. WorkersInv /\ [BindNext]_bindVars
      => [\A c \in Caller : request[c] = "accepted" /\ request'[c] = "lost" => at'[peer[c]] = "killed"]_bindVars
  BY OnlyKilled
<1> QED
  BY <1>1, <1>2, <1>3, PTL DEF BindSpec, ExitDropsNothing
=============================================================================
