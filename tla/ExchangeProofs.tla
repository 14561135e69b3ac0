--------------------------- MODULE ExchangeProofs ---------------------------
(***************************************************************************)
(* Proofs about Exchange, for any repositories, processes, histories and   *)
(* bounds; and about what goes on in its server while it takes a push,     *)
(* ReceivePack, for any requests, refs, commits and packs.                 *)
(***************************************************************************)
EXTENDS Exchange, ReceivePack, FiniteSetTheorems, SequenceTheorems, TLAPS

-----------------------------------------------------------------------------
(* The inductive invariant.                                                *)

Fetching(p) == cmd[p].at \in {"listed", "saved", "stored"}
AtTold(p) == cmd[p].at = "told"
Sent(n) == n \in 1 .. Len(wire) /\ wire[n] # None

Answerable(n) == \E i \in DOMAIN nonces : nonces[i] = n
Distinct(table) == \A i, j \in DOMAIN table : table[i] = table[j] => i = j

\* A nonce is one command's until that sends its request; one that a push which
\* must be signed may still echo has not been used, and one thread at most uses it.
NonceInv ==
    /\ Distinct(nonces)
    /\ \A p \in Proc : AtTold(p) =>
         /\ cmd[p].nonce \in 1 .. Len(wire) /\ wire[cmd[p].nonce] = None
         /\ \A q \in Proc : AtTold(q) /\ cmd[q].nonce = cmd[p].nonce => q = p
    /\ \A n \in 1 .. Len(wire) : Sent(n) /\ wire[n].must =>
         /\ wire[n].took <= 1
         /\ Answerable(n) => wire[n].took = 0
         /\ \A t \in threads : t.n = n =>
              wire[n].took = 0 /\ ~Answerable(n) /\ \A u \in threads : u.n = n => u = t

\* A thread serves a delivery of its own, beside the one that took effect.
ThreadInv ==
    /\ \A n \in 1 .. Len(wire) : Sent(n) => (wire[n].took > 0 => wire[n].came > 0)
    /\ \A t \in threads :
         /\ Sent(t.n) /\ t.copy < wire[t.n].came
         /\ wire[t.n].took > 0 => wire[t.n].came >= 2
         /\ \A u \in threads : t.n = u.n /\ t.copy = u.copy => t = u

\* What the server was given by the pushes that took effect: all behind what it
\* told anybody of.
Settled == {c \in Commit : \/ c = Root
                           \/ \E n \in 1 .. Len(wire) :
                                Sent(n) /\ wire[n].took > 0 /\ c \in wire[n].pack}

ServedInv ==
    /\ Closed(Commit, Settled)
    /\ Tips(served.refs) \subseteq Settled
    /\ \A p \in Proc : /\ AtTold(p) => Tips(cmd[p].refs) \subseteq Settled
                       /\ Fetching(p) => Tips(cmd[p].new) \subseteq Settled

\* A thread put in what its request brought; no rewind but its own takes that out
\* again, unless another brought it too.
Held(c) == c \in served.odb \/ CameTwice(c)

HeldInv ==
    /\ Root \in served.odb
    /\ \A c \in Settled : Held(c)
    /\ \A t \in threads :
         /\ t.at # "verified" => Root \in t.pre /\ t.post \subseteq t.pre \cup wire[t.n].pack
         /\ t.at = "ingested" => \A c \in wire[t.n].pack : Held(c)

\* Between a repository and what the server was given, no commit that a branch
\* reaches is missing, though it may be missing from the repository.
Between(db, c) == History({c}) \subseteq Settled \cup db

LocalInv ==
    /\ \A r \in Repo : repos[r].made \/ repos[r] = Absent
    /\ \A p \in Proc : Fetching(p) => Here(p).made
    /\ \A r \in Repo : \A c \in Tips(repos[r].heads) \cup Tips(repos[r].remotes) :
         Between(repos[r].odb, c)
    /\ \A p \in Proc : AtTold(p) => Between(Here(p).odb, cmd[p].new)

\* A request brings what the server lacks, and moves a branch forward or is forced.
WireInv ==
    \A n \in 1 .. Len(wire) : Sent(n) =>
        /\ wire[n].pack \subseteq History({wire[n].new})
        /\ Between(wire[n].pack, wire[n].new)
        /\ ~wire[n].force => wire[n].old \in History({wire[n].new})

\* What a repository or a fetch knows of a branch lies behind it.
TrackInv ==
    \/ Forced
    \/ /\ \A r \in Repo, b \in Ref :
            repos[r].remotes[b] # None => repos[r].remotes[b] \in History({served.refs[b]})
       /\ \A p \in Proc, b \in Ref : Fetching(p) =>
            /\ cmd[p].new[b] \in History({served.refs[b]})
            /\ cmd[p].old[b] # None => cmd[p].old[b] \in History({cmd[p].new[b]})

ExchangeInv ==
    /\ TypeOK /\ NonceInv /\ ThreadInv /\ ServedInv /\ HeldInv
    /\ LocalInv /\ WireInv /\ TrackInv

-----------------------------------------------------------------------------
(* What is reached (reachable_objects).                                    *)

\* reachable_objects() ends with everything behind where it started ...
LEMMA ReachIsClosed ==
    ASSUME NEW db, NEW from
    PROVE  /\ Reach(db, from) \subseteq db
           /\ from \cap db \subseteq Reach(db, from)
           /\ Closed(db, Reach(db, from))
<1>1. Reach(db, from) \subseteq db /\ from \cap db \subseteq Reach(db, from)
  BY DEF Reach
<1>2. ASSUME NEW c \in Reach(db, from), NEW d \in Parents[c] \cap db
      PROVE  d \in Reach(db, from)
  BY DEF Reach, Closed
<1> QED
  BY <1>1, <1>2 DEF Closed

\* ... and with nothing else.
LEMMA ReachIsLeast ==
    ASSUME NEW db, NEW from, NEW some,
           from \cap db \subseteq some, Closed(db, some \cap db)
    PROVE  Reach(db, from) \subseteq some
<1>1. some \cap db \in SUBSET db /\ from \cap db \subseteq some \cap db
  OBVIOUS
<1> QED
  BY <1>1 DEF Reach

\* What an odb that lacks commits reaches is part of the history.
LEMMA ReachInHistory ==
    ASSUME NEW db \in SUBSET Commit, NEW from
    PROVE  Reach(db, from) \subseteq History(from)
<1>1. from \cap db \subseteq History(from) /\ Closed(Commit, History(from))
  BY ReachIsClosed DEF History
<1>2. Closed(db, History(from) \cap db)
  BY <1>1 DEF Closed
<1> QED
  BY <1>1, <1>2, ReachIsLeast

\* The history is closed, and in every closed set that has its tips.
LEMMA HistoryIsClosed ==
    ASSUME NEW from
    PROVE  /\ History(from) \subseteq Commit
           /\ from \cap Commit \subseteq History(from)
           /\ Closed(Commit, History(from))
  BY ReachIsClosed DEF History

LEMMA HistoryIsLeast ==
    ASSUME NEW from, NEW some \in SUBSET Commit,
           from \cap Commit \subseteq some, Closed(Commit, some)
    PROVE  History(from) \subseteq some
<1>1. some \cap Commit = some
  OBVIOUS
<1> QED
  BY <1>1, ReachIsLeast DEF History

\* What is behind a commit has no history of its own.
LEMMA HistoryIsTransitive ==
    ASSUME NEW from, NEW c \in History(from)
    PROVE  History({c}) \subseteq History(from)
  BY HistoryIsClosed, HistoryIsLeast

\* A commit and its parents: what Work makes, and where StepBack goes.
LEMMA HistoryOfParents ==
    ASSUME ExchangeAssumption, NEW c \in Commit
    PROVE  /\ \A d \in Parents[c] : History({d}) \subseteq History({c})
           /\ \A some : (\A d \in Parents[c] : History({d}) \subseteq some) /\ c \in some
                       => History({c}) \subseteq some
<1>1. c \in History({c}) /\ Closed(Commit, History({c})) /\ Parents[c] \subseteq Commit
  BY HistoryIsClosed DEF ExchangeAssumption
<1>2. \A d \in Parents[c] : History({d}) \subseteq History({c})
  BY <1>1, HistoryIsTransitive DEF Closed
<1>3. ASSUME NEW some, \A d \in Parents[c] : History({d}) \subseteq some, c \in some
      PROVE  History({c}) \subseteq some
  <2> DEFINE all == {e \in Commit : e = c \/ \E d \in Parents[c] : e \in History({d})}
  <2>1. all \subseteq Commit /\ all \subseteq some
    BY <1>3
  <2>2. \A d \in Parents[c] : d \in History({d}) /\ Closed(Commit, History({d}))
    BY <1>1, HistoryIsClosed
  <2>3. Closed(Commit, all)
    BY <2>2 DEF Closed
  <2>4. History({c}) \subseteq all
    BY <2>1, <2>3, HistoryIsLeast
  <2> QED
    BY <2>1, <2>4
<1> QED
  BY <1>2, <1>3

\* The pack of a push: with what the server has, which has all behind what it
\* told the client of, nothing behind the new commit is missing.
LEMMA PackCompletes ==
    ASSUME NEW known \in SUBSET Commit, Closed(Commit, known),
           NEW have, have \subseteq known,
           NEW mine \in SUBSET Commit, NEW new \in Commit,
           History({new}) \subseteq known \cup mine
    PROVE  /\ Packed(mine, {new}, have) \subseteq History({new})
           /\ History({new}) \subseteq known \cup Packed(mine, {new}, have)
<1> DEFINE out  == Reach(mine, have) \cup have
           pack == Reach(mine \ out, {new})
           all  == {c \in History({new}) : c \in known \/ c \in pack}
<1>1. out \subseteq known
  <2>1. Closed(mine, known \cap mine)
    BY DEF Closed
  <2> QED
    BY <2>1, ReachIsLeast
<1>2. pack \subseteq History({new})
  BY ReachInHistory
<1>3. new \in all
  <2>1. new \in History({new})
    BY HistoryIsClosed
  <2>2. new \in known \/ new \in mine \ out
    BY <2>1, <1>1
  <2> QED
    BY <2>1, <2>2, ReachIsClosed
<1>4. Closed(Commit, all)
  <2> SUFFICES ASSUME NEW c \in all, NEW d \in Parents[c] \cap Commit
               PROVE  d \in all
    BY DEF Closed
  <2>1. d \in History({new})
    BY HistoryIsClosed DEF Closed
  <2>2. c \in known => d \in known
    BY DEF Closed
  <2>3. c \in pack /\ d \notin known => d \in pack
    <3>1. Closed(mine \ out, pack)
      BY ReachIsClosed
    <3>2. d \notin known => d \in mine \ out
      BY <2>1, <1>1
    <3> QED
      BY <3>1, <3>2 DEF Closed
  <2> QED
    BY <2>1, <2>2, <2>3
<1>5. History({new}) \subseteq all
  BY <1>3, <1>4, HistoryIsLeast, HistoryIsClosed, ZenonT(60)
<1> QED
  BY <1>2, <1>5 DEF Packed

-----------------------------------------------------------------------------
(* Type correctness.                                                       *)

\* The fields of a request and of what a command is at (push, fetch).
LEMMA Fields ==
    ASSUME TypeOK
    PROVE  /\ \A n : Sent(n) => wire[n] \in Request
           /\ \A p \in Proc : AtTold(p) => cmd[p] \in Told
           /\ \A p \in Proc : Fetching(p) => cmd[p] \in Fetch
           /\ \A r \in Repo : repos[r] \in Repository
           /\ \A t \in threads : t \in Thread
           /\ Len(wire) \in Nat /\ Len(nonces) \in Nat
<1>1. \A n \in 1 .. Len(wire) : wire[n] \in Request \cup {None}
  BY ElementOfSeq DEF TypeOK
<1>2. \A p \in Proc : cmd[p] \in {Idle, [at |-> "cloned"]} \cup Fetch \cup Told
  BY DEF TypeOK, Command
<1>3. \A c \in {Idle, [at |-> "cloned"]} : c.at \in {"idle", "cloned"}
  BY DEF Idle
<1>4. \A c \in Fetch : c.at \in {"listed", "saved", "stored"}
  BY DEF Fetch
<1>5. \A c \in Told : c.at = "told"
  BY DEF Told
<1>6. \A p \in Proc : (AtTold(p) => cmd[p] \in Told) /\ (Fetching(p) => cmd[p] \in Fetch)
  BY <1>2, <1>3, <1>4, <1>5 DEF AtTold, Fetching
<1>7. Len(wire) \in Nat /\ Len(nonces) \in Nat
  BY LenProperties DEF TypeOK
<1> QED
  BY <1>1, <1>6, <1>7 DEF TypeOK, Sent

\* issue() drops the oldest of a full table and puts the newest at its end ...
LEMMA IssueProperties ==
    ASSUME NEW S, NEW new, NEW table \in Seq(S), ExchangeAssumption
    PROVE  Issued(table, new) \in Seq(S \cup {new})
<1>1. CASE Len(table) >= NonceCap
  <2>1. table # <<>>
    BY <1>1, EmptySeq DEF ExchangeAssumption
  <2>2. Tail(table) \in Seq(S \cup {new})
    BY <2>1, SeqMonotonic
  <2> QED
    BY <1>1, <2>2, AppendProperties DEF Issued
<1>2. CASE ~(Len(table) >= NonceCap)
  <2>1. table \in Seq(S \cup {new})
    BY SeqMonotonic
  <2> QED
    BY <1>2, <2>1, AppendProperties DEF Issued
<1> QED
  BY <1>1, <1>2

\* ... so it holds no nonce twice, and none but the newest and those it had.
LEMMA IssueKeeps ==
    ASSUME NEW S, NEW new, NEW table \in Seq(S), new \notin S, ExchangeAssumption
    PROVE  /\ Distinct(table) => Distinct(Issued(table, new))
           /\ \A i \in DOMAIN Issued(table, new) :
                \/ Issued(table, new)[i] = new
                \/ \E j \in DOMAIN table : Issued(table, new)[i] = table[j]
<1> DEFINE rest == IF Len(table) >= NonceCap THEN Tail(table) ELSE table
<1>1. /\ rest \in Seq(S)
      /\ \A i \in DOMAIN rest : \E j \in DOMAIN table : rest[i] = table[j]
      /\ Distinct(table) => Distinct(rest)
  <2>1. CASE Len(table) >= NonceCap
    <3>1. table # <<>>
      BY <2>1, EmptySeq DEF ExchangeAssumption
    <3>2. /\ Tail(table) \in Seq(S) /\ Len(table) \in Nat
          /\ DOMAIN table = 1 .. Len(table) /\ DOMAIN Tail(table) = 1 .. Len(table) - 1
          /\ \A i \in 1 .. Len(table) - 1 : Tail(table)[i] = table[i + 1]
      BY <3>1
    <3>3. rest = Tail(table)
      BY <2>1
    <3>4. \A i \in DOMAIN Tail(table) : i + 1 \in DOMAIN table /\ Tail(table)[i] = table[i + 1]
      BY <3>2
    <3>5. Distinct(table) => Distinct(Tail(table))
      BY <3>2, <3>4 DEF Distinct
    <3> HIDE DEF rest
    <3> QED
      BY <3>2, <3>3, <3>4, <3>5
  <2>2. CASE ~(Len(table) >= NonceCap)
    BY <2>2
  <2> QED
    BY <2>1, <2>2
<1>2. Issued(table, new) = Append(rest, new)
  BY DEF Issued
<1> HIDE DEF rest
<1>3. /\ Append(rest, new) \in Seq(S \cup {new})
      /\ Len(rest) \in Nat /\ DOMAIN rest = 1 .. Len(rest)
      /\ DOMAIN Append(rest, new) = 1 .. Len(rest) + 1
      /\ \A i \in 1 .. Len(rest) : Append(rest, new)[i] = rest[i]
      /\ Append(rest, new)[Len(rest) + 1] = new
  <2>1. rest \in Seq(S \cup {new})
    BY <1>1, SeqMonotonic
  <2> QED
    BY <2>1, AppendProperties, LenProperties
<1>4. \A i \in 1 .. Len(rest) : rest[i] \in S
  BY <1>1, ElementOfSeq
<1>5. \A i \in DOMAIN Append(rest, new) :
        \/ i = Len(rest) + 1 /\ Append(rest, new)[i] = new
        \/ i \in DOMAIN rest /\ Append(rest, new)[i] = rest[i] /\ rest[i] # new
  BY <1>3, <1>4
<1> QED
  BY <1>1, <1>2, <1>3, <1>5 DEF Distinct

\* Taking one element out of a table moves those after it up.
LEMMA RemoveAtProperties ==
    ASSUME NEW S, NEW s \in Seq(S), NEW m \in 1 .. Len(s)
    PROVE  /\ RemoveAt(s, m) \in Seq(S)
           /\ Len(RemoveAt(s, m)) = Len(s) - 1
           /\ \A i \in 1 .. Len(s) - 1 : RemoveAt(s, m)[i] = s[IF i < m THEN i ELSE i + 1]
<1> DEFINE left == SubSeq(s, 1, m - 1) right == SubSeq(s, m + 1, Len(s))
<1>1. left \in Seq(S) /\ Len(left) = m - 1 /\ \A i \in 1 .. m - 1 : left[i] = s[i]
  OBVIOUS
<1>2. right \in Seq(S) /\ Len(right) = Len(s) - m /\ \A i \in 1 .. Len(s) - m : right[i] = s[m + i]
  OBVIOUS
<1>3. RemoveAt(s, m) = left \o right
  BY DEF RemoveAt
<1> HIDE DEF left, right
<1>4. /\ left \o right \in Seq(S)
      /\ Len(left \o right) = Len(left) + Len(right)
      /\ \A i \in 1 .. Len(left) + Len(right) :
           (left \o right)[i] = (IF i <= Len(left) THEN left[i] ELSE right[i - Len(left)])
  BY <1>1, <1>2, ConcatProperties
<1>5. Len(left) + Len(right) = Len(s) - 1
  BY <1>1, <1>2
<1>6. ASSUME NEW i \in 1 .. Len(s) - 1
      PROVE  (left \o right)[i] = s[IF i < m THEN i ELSE i + 1]
  <2>1. CASE i < m
    BY <1>1, <1>4, <1>5, <2>1
  <2>2. CASE ~(i < m)
    <3>1. i - (m - 1) \in 1 .. Len(s) - m /\ m + (i - (m - 1)) = i + 1 /\ ~(i <= m - 1)
      BY <2>2
    <3>2. right[i - (m - 1)] = s[i + 1]
      BY <1>2, <3>1
    <3>3. (left \o right)[i] = right[i - (m - 1)]
      BY <1>1, <1>4, <1>5, <3>1
    <3> QED
      BY <3>2, <3>3, <2>2
  <2> QED
    BY <2>1, <2>2
<1> QED
  BY <1>3, <1>4, <1>5, <1>6

\* consume() takes a nonce out: it cannot be answered for twice.
LEMMA ConsumeProperties ==
    ASSUME NEW S, NEW table \in Seq(S), NEW n, Distinct(table)
    PROVE  /\ Consumed(table, n) \in Seq(S)
           /\ Distinct(Consumed(table, n))
           /\ \A i \in DOMAIN Consumed(table, n) :
                /\ Consumed(table, n)[i] # n
                /\ \E j \in DOMAIN table : Consumed(table, n)[i] = table[j]
<1> DEFINE at == {i \in DOMAIN table : table[i] = n}
<1>1. CASE at = {}
  BY <1>1 DEF Consumed
<1>2. CASE at # {}
  <2>1. PICK m \in 1 .. Len(table) : table[m] = n /\ Consumed(table, n) = RemoveAt(table, m)
    BY <1>2, LenProperties DEF Consumed
  <2>2. DOMAIN table = 1 .. Len(table) /\ Len(table) \in Nat
    BY LenProperties
  <2> DEFINE from(i) == IF i < m THEN i ELSE i + 1
  <2>3. /\ Consumed(table, n) \in Seq(S)
        /\ DOMAIN Consumed(table, n) = 1 .. Len(table) - 1
        /\ \A i \in 1 .. Len(table) - 1 : Consumed(table, n)[i] = table[from(i)]
    <3>1. /\ RemoveAt(table, m) \in Seq(S) /\ Len(RemoveAt(table, m)) = Len(table) - 1
          /\ \A i \in 1 .. Len(table) - 1 : RemoveAt(table, m)[i] = table[from(i)]
      BY RemoveAtProperties
    <3> HIDE DEF from
    <3> QED
      BY <2>1, <3>1, LenProperties
  <2>4. \A i \in 1 .. Len(table) - 1 : from(i) \in 1 .. Len(table) /\ from(i) # m
    BY <2>2
  <2>5. \A i, j \in 1 .. Len(table) - 1 : from(i) = from(j) => i = j
    BY <2>2
  <2> HIDE DEF from
  <2>6. \A i \in 1 .. Len(table) - 1 : Consumed(table, n)[i] # n
    BY <2>1, <2>2, <2>3, <2>4 DEF Distinct
  <2>7. Distinct(Consumed(table, n))
    BY <2>2, <2>3, <2>4, <2>5, SMTT(30) DEF Distinct
  <2> QED
    BY <2>2, <2>3, <2>4, <2>6, <2>7
<1> QED
  BY <1>1, <1>2

\* Another request in the place of one that was sent leaves all others.
LEMMA RequestReplaced ==
    ASSUME TypeOK, NEW n, Sent(n), NEW req \in Request, req # None,
           wire' = [wire EXCEPT ![n] = req]
    PROVE  /\ wire' \in Seq(Request \cup {None}) /\ Len(wire') = Len(wire)
           /\ wire'[n] = req /\ \A m \in 1 .. Len(wire) : m # n => wire'[m] = wire[m]
           /\ \A m : Sent(m)' <=> Sent(m)
<1>1. wire \in Seq(Request \cup {None}) /\ n \in 1 .. Len(wire)
  BY DEF TypeOK, Sent
<1>2. /\ wire' \in Seq(Request \cup {None}) /\ Len(wire') = Len(wire)
      /\ wire'[n] = req /\ \A m \in 1 .. Len(wire) : m # n => wire'[m] = wire[m]
  BY <1>1, ExceptSeq
<1>3. ASSUME NEW m PROVE Sent(m)' <=> Sent(m)
  BY <1>2 DEF Sent
<1> QED
  BY <1>2, <1>3

\* The values a command, and a repository, may be set to are what they may hold.
LEMMA CommandValues ==
    ASSUME TypeOK
    PROVE  /\ \A mine \in Refs, clone \in BOOLEAN : Listed(mine, clone) \in Command
           /\ \A c \in Fetch, at \in {"listed", "saved", "stored"} : [c EXCEPT !.at = at] \in Command
           /\ Idle \in Command /\ [at |-> "cloned"] \in Command
           /\ \A n \in Nat, b \in Ref, c \in Commit, force \in BOOLEAN :
                [at |-> "told", refs |-> served.refs, nonce |-> n,
                 ref |-> b, new |-> c, force |-> force] \in Command
<1>1. served.refs \in [Ref -> Commit]
  BY DEF TypeOK
<1>2. \A mine \in Refs, clone \in BOOLEAN : Listed(mine, clone) \in Fetch
  BY <1>1 DEF Listed, Fetch
<1>3. \A c \in Fetch, at \in {"listed", "saved", "stored"} : [c EXCEPT !.at = at] \in Fetch
  BY DEF Fetch
<1>4. \A n \in Nat, b \in Ref, c \in Commit, force \in BOOLEAN :
        [at |-> "told", refs |-> served.refs, nonce |-> n,
         ref |-> b, new |-> c, force |-> force] \in Told
  BY <1>1 DEF Told
<1> QED
  BY <1>2, <1>3, <1>4 DEF Command

\* A step sets one command, and one repository.
LEMMA StepSets ==
    ASSUME ExchangeAssumption, TypeOK, NEW p \in Proc, Step(p)
    PROVE  /\ \E c \in Command : cmd' = [cmd EXCEPT ![p] = c]
           /\ \E repo \in Repository : repos' = [repos EXCEPT ![Home[p]] = repo]
<1>1. /\ Here(p) \in Repository /\ repos \in [Repo -> Repository] /\ Home[p] \in Repo
      /\ cmd \in [Proc -> Command]
  BY DEF TypeOK, Here, ExchangeAssumption
<1>2. Len(wire) + 1 \in Nat
  BY Fields
<1>3. /\ Here(p).heads \in Refs /\ Here(p).remotes \in Refs /\ Here(p).odb \in SUBSET Commit
      /\ Here(p).tmp # None => Here(p).tmp \in SUBSET Commit
  BY <1>1 DEF Repository
<1>4. cmd' = cmd => \E c \in Command : cmd' = [cmd EXCEPT ![p] = c]
  BY <1>1
<1>5. repos' = repos => \E repo \in Repository : repos' = [repos EXCEPT ![Home[p]] = repo]
  BY <1>1
<1>6. CASE FetchList(p)
  <2>1. Listed(Here(p).remotes, FALSE) \in Command
    BY <1>3, CommandValues
  <2>2. cmd' = [cmd EXCEPT ![p] = Listed(Here(p).remotes, FALSE)] /\ repos' = repos
    BY <1>6 DEF FetchList, Goto
  <2> QED
    BY <1>5, <2>1, <2>2
<1>7. CASE CloneList(p)
  <2>1. NoRefs \in Refs
    BY DEF NoRefs, Refs
  <2>2. Listed(NoRefs, TRUE) \in Command
    BY <2>1, CommandValues
  <2>3. Empty \in Repository
    BY <2>1 DEF Empty, Repository
  <2>4. cmd' = [cmd EXCEPT ![p] = Listed(NoRefs, TRUE)] /\ repos' = [repos EXCEPT ![Home[p]] = Empty]
    BY <1>7 DEF CloneList, Goto
  <2> QED
    BY <2>2, <2>3, <2>4
<1>8. CASE FetchSave(p)
  <2> DEFINE pack == ServedPack(p)
             tmp == IF pack = {} THEN None ELSE pack
             at == IF pack = {} THEN "stored" ELSE "saved"
  <2>1. pack \in SUBSET Commit
    BY ReachIsClosed DEF ServedPack, Packed, TypeOK
  <2>2. cmd[p] \in Fetch
    <3>1. Fetching(p)
      BY <1>8 DEF FetchSave, Fetching
    <3> QED
      BY <3>1, Fields
  <2>3. /\ cmd' = [cmd EXCEPT ![p] = [cmd[p] EXCEPT !.at = at]]
        /\ repos' = [repos EXCEPT ![Home[p]] = [Here(p) EXCEPT !.tmp = tmp]]
    BY <1>8 DEF FetchSave, Goto, Here
  <2>4. tmp \in (SUBSET Commit) \cup {None} /\ at \in {"listed", "saved", "stored"}
    BY <2>1
  <2> HIDE DEF pack, tmp, at
  <2>5. [cmd[p] EXCEPT !.at = at] \in Command
    BY <2>2, <2>4, CommandValues
  <2>6. [Here(p) EXCEPT !.tmp = tmp] \in Repository
    BY <1>1, <2>4 DEF Repository
  <2> QED
    BY <2>3, <2>5, <2>6
<1>9. CASE FetchStore(p) \/ FetchDies(p)
  <2>1. PICK some \in SUBSET Commit : repos' = [repos EXCEPT ![Home[p]] = Indexed(Here(p), some)]
    BY <1>3, <1>9 DEF FetchStore, FetchDies, Here
  <2>2. Indexed(Here(p), some) \in Repository
    BY <1>1, <1>3 DEF Indexed, Repository
  <2>3. cmd[p] \in Fetch
    <3>1. Fetching(p)
      BY <1>9 DEF FetchStore, FetchDies, Fetching
    <3> QED
      BY <3>1, Fields
  <2>4. [cmd[p] EXCEPT !.at = "stored"] \in Command /\ Idle \in Command
    BY <2>3, CommandValues
  <2>5. cmd' = [cmd EXCEPT ![p] = [cmd[p] EXCEPT !.at = "stored"]] \/ cmd' = [cmd EXCEPT ![p] = Idle]
    BY <1>9 DEF FetchStore, FetchDies, Goto
  <2> QED
    BY <2>1, <2>2, <2>4, <2>5
<1>10. CASE FetchRefs(p)
  <2> DEFINE state == [b \in Ref |-> IF b \in {a \in Ref : cmd[p].old[a] # cmd[p].new[a]}
                                    THEN cmd[p].new[b] ELSE Here(p).remotes[b]]
             next == IF cmd[p].clone THEN [at |-> "cloned"] ELSE Idle
  <2>1. cmd[p].new \in [Ref -> Commit]
    <3>1. Fetching(p)
      BY <1>10 DEF FetchRefs, Fetching
    <3>2. cmd[p] \in Fetch
      BY <3>1, Fields
    <3> QED
      BY <3>2 DEF Fetch
  <2>2. state \in Refs
    BY <1>3, <2>1 DEF Refs
  <2>3. cmd' = [cmd EXCEPT ![p] = next] /\ next \in Command
    BY <1>10, CommandValues DEF FetchRefs, Goto
  <2>4. repos' = [repos EXCEPT ![Home[p]] = [Here(p) EXCEPT !.remotes = state]]
    BY <1>10 DEF FetchRefs, Here
  <2> HIDE DEF state, next
  <2>5. [Here(p) EXCEPT !.remotes = state] \in Repository
    BY <1>1, <2>2 DEF Repository
  <2> QED
    BY <2>3, <2>4, <2>5
<1>11. CASE CloneBranch(p)
  <2>1. PICK b \in Ref :
          repos' = [repos EXCEPT ![Home[p]] = [Here(p) EXCEPT !.heads[b] =
                      IF @ = None THEN Here(p).remotes[b] ELSE @]]
    BY <1>11 DEF CloneBranch, Picked, Here
  <2> DEFINE c == IF Here(p).heads[b] = None THEN Here(p).remotes[b] ELSE Here(p).heads[b]
  <2>2. c \in Commit \cup {None}
    BY <1>3 DEF Refs
  <2> HIDE DEF c
  <2>3. [Here(p) EXCEPT !.heads[b] = c] \in Repository
    BY <1>1, <1>3, <2>2 DEF Repository, Refs
  <2>4. cmd' = [cmd EXCEPT ![p] = Idle] /\ Idle \in Command
    BY <1>11, CommandValues DEF CloneBranch, Goto
  <2> QED
    BY <2>1, <2>3, <2>4 DEF c
<1>12. CASE Work(p)
  <2>1. PICK b \in Ref, c \in Commit :
          repos' = [repos EXCEPT ![Home[p]].heads[b] = c, ![Home[p]].odb = @ \cup {c}]
    BY <1>12 DEF Work
  <2> DEFINE repo == [[Here(p) EXCEPT !.heads[b] = c] EXCEPT !.odb = @ \cup {c}]
  <2>2. repo \in Repository
    BY <1>1, <1>3 DEF Repository, Refs
  <2>3. repos' = [repos EXCEPT ![Home[p]] = repo]
    <3>1. \A r \in Repo : r # Home[p] => repos'[r] = repos[r]
      BY <2>1, <1>1
    <3>2. repos'[Home[p]] = repo
      BY <2>1, <1>1 DEF Here
    <3>3. repos' = [r \in Repo |-> repos'[r]]
      BY <2>1, <1>1
    <3> HIDE DEF repo
    <3> QED
      BY <3>1, <3>2, <3>3, <1>1
  <2> HIDE DEF repo
  <2>4. cmd' = cmd
    BY <1>12 DEF Work
  <2> QED
    BY <1>4, <2>2, <2>3, <2>4
<1>13. CASE StepBack(p)
  <2>1. PICK b \in Ref, c \in Commit :
          repos' = [repos EXCEPT ![Home[p]] = [Here(p) EXCEPT !.heads[b] = c]]
    BY <1>13, <1>3 DEF StepBack, Here
  <2>2. [Here(p) EXCEPT !.heads[b] = c] \in Repository
    BY <1>1, <1>3 DEF Repository, Refs
  <2> QED
    BY <1>4, <1>13, <2>1, <2>2 DEF StepBack
<1>14. CASE PushAsk(p)
  <2>1. PICK b \in Ref, force \in BOOLEAN :
          /\ Here(p).heads[b] # None
          /\ Goto(p, [at |-> "told", refs |-> served.refs, nonce |-> Len(wire) + 1,
                      ref |-> b, new |-> Here(p).heads[b], force |-> force])
    BY <1>14 DEF PushAsk
  <2>2. Here(p).heads[b] \in Commit
    BY <1>3, <2>1 DEF Refs
  <2> DEFINE c == [at |-> "told", refs |-> served.refs, nonce |-> Len(wire) + 1,
                   ref |-> b, new |-> Here(p).heads[b], force |-> force]
  <2>4. c \in Command
    BY <1>2, <2>2, CommandValues
  <2>5. cmd' = [cmd EXCEPT ![p] = c] /\ repos' = repos
    BY <1>14, <2>1 DEF PushAsk, Goto
  <2> QED
    BY <1>5, <2>4, <2>5
<1>15. CASE PushSend(p) \/ Fail(p)
  BY <1>5, <1>15, CommandValues DEF PushSend, Fail, Goto
<1> QED
  BY <1>6, <1>7, <1>8, <1>9, <1>10, <1>11, <1>12, <1>13, <1>14, <1>15 DEF Step

\* What a step leaves of the others, and where a command comes to be fetching or told.
LEMMA StepEffects ==
    ASSUME ExchangeAssumption, TypeOK, NEW p \in Proc, Step(p)
    PROVE  /\ served' = served
           /\ \A q \in Proc \ {p} : cmd'[q] = cmd[q]
           /\ \A r \in Repo \ {Home[p]} : repos'[r] = repos[r]
           /\ AtTold(p)' => PushAsk(p) \/ (AtTold(p) /\ cmd'[p] = cmd[p])
           /\ Fetching(p)' =>
                \/ /\ FetchList(p) \/ CloneList(p)
                   /\ cmd'[p].new = served.refs
                   /\ cmd'[p].old = IF FetchList(p) THEN Here(p).remotes ELSE NoRefs
                \/ /\ Fetching(p)
                   /\ cmd'[p].new = cmd[p].new /\ cmd'[p].old = cmd[p].old
           /\ threads' = threads
           /\ \/ PushAsk(p)
              \/ PushSend(p) /\ nonces' = nonces
              \/ wire' = wire /\ nonces' = nonces
<1>1. /\ \A q \in Proc \ {p} : cmd'[q] = cmd[q]
      /\ \A r \in Repo \ {Home[p]} : repos'[r] = repos[r]
  BY StepSets, SMTT(30) DEF TypeOK
<1>2. served' = served /\ threads' = threads
  BY DEF Step, FetchList, CloneList, FetchSave, FetchStore, FetchDies, FetchRefs, CloneBranch,
         PushAsk, PushSend, Fail, Work, StepBack
<1>3. \/ PushAsk(p)
      \/ PushSend(p) /\ nonces' = nonces
      \/ wire' = wire /\ nonces' = nonces
  BY DEF Step, FetchList, CloneList, FetchSave, FetchStore, FetchDies, FetchRefs, CloneBranch,
         PushSend, Fail, Work, StepBack
<1>4. cmd \in [Proc -> Command] /\ \A to : Goto(p, to) => cmd'[p] = to
  BY DEF TypeOK, Goto
<1>5. /\ FetchList(p) => cmd'[p] = Listed(Here(p).remotes, FALSE)
      /\ CloneList(p) => cmd'[p] = Listed(NoRefs, TRUE)
      /\ FetchDies(p) \/ PushSend(p) \/ CloneBranch(p) \/ Fail(p) => cmd'[p] = Idle
      /\ FetchRefs(p) => cmd'[p] \in {Idle, [at |-> "cloned"]}
      /\ Work(p) \/ StepBack(p) => cmd'[p] = cmd[p]
      /\ FetchSave(p) \/ FetchStore(p) =>
           \E at \in {"listed", "saved", "stored"} : cmd'[p] = [cmd[p] EXCEPT !.at = at]
  BY <1>4 DEF FetchList, CloneList, FetchSave, FetchStore, FetchDies, FetchRefs, CloneBranch,
              PushSend, Fail, Work, StepBack
<1>6. FetchSave(p) \/ FetchStore(p) => Fetching(p) /\ cmd[p] \in Fetch
  BY Fields DEF FetchSave, FetchStore, Fetching
<1>7. \A c \in Fetch, at \in {"listed", "saved", "stored"} :
        /\ [c EXCEPT !.at = at].at = at
        /\ [c EXCEPT !.at = at].new = c.new /\ [c EXCEPT !.at = at].old = c.old
  BY DEF Fetch
<1>8. FetchSave(p) \/ FetchStore(p) =>
        /\ Fetching(p) /\ cmd'[p].at \in {"listed", "saved", "stored"}
        /\ cmd'[p].new = cmd[p].new /\ cmd'[p].old = cmd[p].old
  <2> SUFFICES ASSUME FetchSave(p) \/ FetchStore(p)
               PROVE  /\ cmd'[p].at \in {"listed", "saved", "stored"}
                      /\ cmd'[p].new = cmd[p].new /\ cmd'[p].old = cmd[p].old
    BY <1>6
  <2>1. PICK at \in {"listed", "saved", "stored"} : cmd'[p] = [cmd[p] EXCEPT !.at = at]
    BY <1>5
  <2> QED
    BY <1>6, <1>7, <2>1
<1>9. FetchList(p) \/ CloneList(p) =>
        /\ cmd'[p].at = "listed" /\ cmd'[p].new = served.refs
        /\ cmd'[p].old = IF FetchList(p) THEN Here(p).remotes ELSE NoRefs
  <2>1. CloneList(p) => ~FetchList(p)
    BY DEF CloneList, FetchList
  <2> QED
    BY <1>5, <2>1 DEF Listed
<1>10. FetchDies(p) \/ PushSend(p) \/ CloneBranch(p) \/ Fail(p) \/ FetchRefs(p)
         => cmd'[p].at \in {"idle", "cloned"}
  BY <1>5 DEF Idle
<1>11. PushAsk(p) => cmd'[p].at = "told"
  BY <1>4 DEF PushAsk
<1>12. AtTold(p)' => PushAsk(p) \/ (AtTold(p) /\ cmd'[p] = cmd[p])
  <2>1. CASE Work(p) \/ StepBack(p)
    BY <1>5, <2>1 DEF AtTold
  <2>2. CASE ~(Work(p) \/ StepBack(p) \/ PushAsk(p))
    BY <1>8, <1>9, <1>10, <2>2 DEF AtTold, Step
  <2> QED
    BY <2>1, <2>2
<1>13. ASSUME Fetching(p)'
       PROVE  \/ /\ FetchList(p) \/ CloneList(p)
                 /\ cmd'[p].new = served.refs
                 /\ cmd'[p].old = IF FetchList(p) THEN Here(p).remotes ELSE NoRefs
              \/ /\ Fetching(p)
                 /\ cmd'[p].new = cmd[p].new /\ cmd'[p].old = cmd[p].old
  <2>1. FetchList(p) \/ CloneList(p) \/ FetchSave(p) \/ FetchStore(p) \/ Work(p) \/ StepBack(p)
    BY <1>10, <1>11, <1>13 DEF Fetching, Step
  <2>2. CASE Work(p) \/ StepBack(p)
    BY <1>5, <1>13, <2>2 DEF Fetching
  <2> QED
    BY <1>8, <1>9, <2>1, <2>2
<1> QED
  BY <1>1, <1>2, <1>3, <1>12, <1>13

\* An advertisement is one more nonce, the newest, of a request that is not sent
\* yet (push, NonceTable::issue).
LEMMA AskProperties ==
    ASSUME ExchangeAssumption, TypeOK, NEW p \in Proc, PushAsk(p)
    PROVE  /\ wire' \in Seq(Request \cup {None}) /\ Len(wire') = Len(wire) + 1
           /\ wire'[Len(wire) + 1] = None
           /\ \A n \in 1 .. Len(wire) : wire'[n] = wire[n]
           /\ nonces' = Issued(nonces, Len(wire) + 1) /\ repos' = repos
           /\ cmd'[p].refs = served.refs /\ cmd'[p].nonce = Len(wire) + 1
           /\ \E b \in Ref : cmd'[p].new = Here(p).heads[b] /\ Here(p).heads[b] # None
<1>1. wire \in Seq(Request \cup {None}) /\ wire' = Append(wire, None)
  BY DEF TypeOK, PushAsk
<1>2. /\ wire' \in Seq(Request \cup {None}) /\ Len(wire') = Len(wire) + 1
      /\ wire'[Len(wire) + 1] = None
      /\ \A n \in 1 .. Len(wire) : wire'[n] = wire[n]
  BY <1>1, AppendProperties
<1>3. cmd \in [Proc -> Command] /\ \A to : Goto(p, to) => cmd'[p] = to
  BY DEF TypeOK, Goto
<1> QED
  BY <1>2, <1>3 DEF PushAsk

\* The request takes the place of its nonce; what it asks for is checked on what
\* the client was told (ensure_fast_forward, push()).
LEMMA SendProperties ==
    ASSUME ExchangeAssumption, TypeOK, NonceInv, NEW p \in Proc, PushSend(p)
    PROVE  LET n == cmd[p].nonce
           IN  /\ AtTold(p) /\ cmd[p] \in Told /\ n \in 1 .. Len(wire) /\ wire[n] = None
               /\ wire' \in Seq(Request \cup {None}) /\ Len(wire') = Len(wire)
               /\ \A m \in 1 .. Len(wire) : m # n => wire'[m] = wire[m]
               /\ wire'[n] \in Request /\ wire'[n].took = 0 /\ wire'[n].came = 0
               /\ wire'[n].new = cmd[p].new
               /\ wire'[n].pack = Packed(Here(p).odb, {cmd[p].new}, Tips(cmd[p].refs))
               /\ ~wire'[n].force => FastForward(Here(p).odb, wire'[n].old, cmd[p].new)
               /\ cmd' = [cmd EXCEPT ![p] = Idle] /\ repos' = repos
<1> DEFINE n   == cmd[p].nonce
           old == cmd[p].refs[cmd[p].ref]
           req == [ref |-> cmd[p].ref, old |-> old, new |-> cmd[p].new,
                   pack |-> Packed(Here(p).odb, {cmd[p].new}, Tips(cmd[p].refs)),
                   force |-> cmd[p].force,
                   signed |-> Home[p] \in Signs, must |-> Home[p] \in MustSign,
                   came |-> 0, took |-> 0]
<1>1. AtTold(p)
  BY DEF PushSend, AtTold
<1>2. cmd[p] \in Told /\ n \in 1 .. Len(wire) /\ wire[n] = None
  BY <1>1, Fields DEF NonceInv
<1>3. /\ wire' = [wire EXCEPT ![n] = req] /\ cmd' = [cmd EXCEPT ![p] = Idle] /\ repos' = repos
      /\ (~cmd[p].force /\ old # None) => FastForward(Here(p).odb, old, cmd[p].new)
  BY DEF PushSend, Goto
<1>4. /\ old \in Commit /\ cmd[p].new \in Commit /\ cmd[p].ref \in Ref
      /\ cmd[p].force \in BOOLEAN
  BY <1>2 DEF Told
<1>5. req.pack \in SUBSET Commit
  <2>1. Here(p).odb \in SUBSET Commit
    BY DEF TypeOK, Here, Repository, ExchangeAssumption
  <2> QED
    BY <2>1, ReachIsClosed DEF Packed
<1>6. /\ req.took = 0 /\ req.came = 0 /\ req.new = cmd[p].new /\ req.old = old
      /\ req.pack = Packed(Here(p).odb, {cmd[p].new}, Tips(cmd[p].refs))
      /\ req.force = cmd[p].force
  OBVIOUS
<1>7. req \in Request
  <2>1. \A signed, must \in BOOLEAN :
          [ref |-> cmd[p].ref, old |-> old, new |-> cmd[p].new, pack |-> req.pack,
           force |-> cmd[p].force, signed |-> signed, must |-> must,
           came |-> 0, took |-> 0] \in Request
    <3> HIDE DEF old, req
    <3> QED
      BY <1>4, <1>5 DEF Request, ExchangeAssumption
  <2>2. (Home[p] \in Signs) \in BOOLEAN /\ (Home[p] \in MustSign) \in BOOLEAN
    BY SMT
  <2> DEFINE signed == Home[p] \in Signs
             must == Home[p] \in MustSign
  <2>3. req = [ref |-> cmd[p].ref, old |-> old, new |-> cmd[p].new, pack |-> req.pack,
               force |-> cmd[p].force, signed |-> signed, must |-> must,
               came |-> 0, took |-> 0]
    OBVIOUS
  <2>4. signed \in BOOLEAN /\ must \in BOOLEAN
    BY <2>2
  <2> HIDE DEF req, old, signed, must
  <2> QED
    BY <2>1, <2>3, <2>4
<1> HIDE DEF req, n, old
<1>8. /\ wire' \in Seq(Request \cup {None}) /\ Len(wire') = Len(wire) /\ wire'[n] = req
      /\ \A m \in 1 .. Len(wire) : m # n => wire'[m] = wire[m]
  BY <1>2, <1>3, <1>7, ExceptSeq DEF TypeOK
<1>9. old # None
  BY <1>4 DEF ExchangeAssumption
<1>10. /\ AtTold(p) /\ cmd[p] \in Told /\ n \in 1 .. Len(wire) /\ wire[n] = None
       /\ wire' \in Seq(Request \cup {None}) /\ Len(wire') = Len(wire)
       /\ \A m \in 1 .. Len(wire) : m # n => wire'[m] = wire[m]
       /\ wire'[n] \in Request /\ wire'[n].took = 0 /\ wire'[n].came = 0
       /\ wire'[n].new = cmd[p].new
       /\ wire'[n].pack = Packed(Here(p).odb, {cmd[p].new}, Tips(cmd[p].refs))
       /\ ~wire'[n].force => FastForward(Here(p).odb, wire'[n].old, cmd[p].new)
       /\ cmd' = [cmd EXCEPT ![p] = Idle] /\ repos' = repos
  BY <1>1, <1>2, <1>3, <1>6, <1>7, <1>8, <1>9
<1> QED
  BY <1>10 DEF n

\* What a delivery and a commit change in a request, field by field.
LEMMA CameOnce ==
    ASSUME NEW r \in Request
    PROVE  LET q == [r EXCEPT !.came = @ + 1]
           IN  /\ q \in Request /\ q.came = r.came + 1 /\ q.took = r.took
               /\ q.ref = r.ref /\ q.old = r.old /\ q.new = r.new /\ q.pack = r.pack
               /\ q.force = r.force /\ q.signed = r.signed /\ q.must = r.must
<1> DEFINE q == [r EXCEPT !.came = @ + 1]
<1>1. r.came \in Nat /\ r.came + 1 \in Nat
  BY DEF Request
<1>2. q \in Request
  BY <1>1 DEF Request
<1>3. q.came = r.came + 1 /\ q.took = r.took
  BY DEF Request
<1>4. q.ref = r.ref /\ q.old = r.old /\ q.new = r.new /\ q.pack = r.pack
  BY DEF Request
<1>5. q.force = r.force /\ q.signed = r.signed /\ q.must = r.must
  BY DEF Request
<1> QED
  BY <1>2, <1>3, <1>4, <1>5

LEMMA TookOnce ==
    ASSUME NEW r \in Request
    PROVE  LET q == [r EXCEPT !.took = @ + 1]
           IN  /\ q \in Request /\ q.took = r.took + 1 /\ q.came = r.came
               /\ q.ref = r.ref /\ q.old = r.old /\ q.new = r.new /\ q.pack = r.pack
               /\ q.force = r.force /\ q.signed = r.signed /\ q.must = r.must
<1> DEFINE q == [r EXCEPT !.took = @ + 1]
<1>1. r.took \in Nat /\ r.took + 1 \in Nat
  BY DEF Request
<1>2. q \in Request
  BY <1>1 DEF Request
<1>3. q.took = r.took + 1 /\ q.came = r.came
  BY DEF Request
<1>4. q.ref = r.ref /\ q.old = r.old /\ q.new = r.new /\ q.pack = r.pack
  BY DEF Request
<1>5. q.force = r.force /\ q.signed = r.signed /\ q.must = r.must
  BY DEF Request
<1> QED
  BY <1>2, <1>3, <1>4, <1>5

\* A delivery is one more that came, and a thread if it is not refused.
LEMMA DeliverProperties ==
    ASSUME ExchangeAssumption, TypeOK, NEW n \in 1 .. Len(wire), Deliver(n)
    PROVE  LET new == [n |-> n, copy |-> wire[n].came, at |-> "verified", pre |-> {}, post |-> {}]
           IN  /\ Sent(n) /\ wire[n] \in Request
               /\ wire' \in Seq(Request \cup {None}) /\ Len(wire') = Len(wire)
               /\ \A m \in 1 .. Len(wire) : m # n => wire'[m] = wire[m]
               /\ \A m : Sent(m)' <=> Sent(m)
               /\ wire'[n] \in Request /\ wire'[n].came = wire[n].came + 1
               /\ wire'[n].took = wire[n].took /\ wire'[n].ref = wire[n].ref
               /\ wire'[n].old = wire[n].old /\ wire'[n].new = wire[n].new
               /\ wire'[n].pack = wire[n].pack /\ wire'[n].force = wire[n].force
               /\ wire'[n].signed = wire[n].signed /\ wire'[n].must = wire[n].must
               /\ nonces' = Checked(n) /\ served' = served /\ repos' = repos /\ cmd' = cmd
               /\ new \in Thread
               /\ \/ Refused(n) /\ threads' = threads
                  \/ ~Refused(n) /\ threads' = threads \cup {new}
<1> DEFINE req == [wire[n] EXCEPT !.came = @ + 1]
           new == [n |-> n, copy |-> wire[n].came, at |-> "verified", pre |-> {}, post |-> {}]
<1>1. /\ Sent(n) /\ wire' = [wire EXCEPT ![n] = req]
      /\ nonces' = Checked(n) /\ served' = served /\ repos' = repos /\ cmd' = cmd
      /\ threads' = IF Refused(n) THEN threads ELSE threads \cup {new}
  BY DEF Deliver, Sent, Delivered
<1>2. wire[n] \in Request /\ wire[n].came \in Nat /\ wire[n].came + 1 \in Nat
  BY <1>1, Fields DEF Request
<1>3. req \in Request /\ req # None
  BY <1>2, CameOnce, ExchangeAssumption DEF ExchangeAssumption
<1>7. /\ req.came = wire[n].came + 1 /\ req.took = wire[n].took
      /\ req.ref = wire[n].ref /\ req.old = wire[n].old /\ req.new = wire[n].new
      /\ req.pack = wire[n].pack /\ req.force = wire[n].force
      /\ req.signed = wire[n].signed /\ req.must = wire[n].must
  BY <1>2, CameOnce
<1>4. new \in Thread
  BY <1>2, Fields DEF Thread
<1> HIDE DEF req, new
<1>5. /\ wire' \in Seq(Request \cup {None}) /\ Len(wire') = Len(wire) /\ wire'[n] = req
      /\ \A m \in 1 .. Len(wire) : m # n => wire'[m] = wire[m]
      /\ \A m : Sent(m)' <=> Sent(m)
  BY <1>1, <1>3, RequestReplaced
<1>6. \/ Refused(n) /\ threads' = threads
      \/ ~Refused(n) /\ threads' = threads \cup {new}
  BY <1>1
<1> QED
  BY <1>1, <1>2, <1>3, <1>4, <1>5, <1>6, <1>7 DEF new

\* An ingest adds to the odb what the request brought, or a part of it.
LEMMA IngestProperties ==
    ASSUME ExchangeAssumption, TypeOK, ThreadInv, NEW t \in threads, Ingest(t)
    PROVE  \E u \in Thread :
             /\ u.n = t.n /\ u.copy = t.copy /\ u.at # "verified"
             /\ u.pre = served.odb /\ u.post = served'.odb
             /\ threads' = (threads \ {t}) \cup {u}
             /\ served' \in [refs : [Ref -> Commit], odb : SUBSET Commit]
             /\ served'.refs = served.refs /\ served.odb \subseteq served'.odb
             /\ served'.odb \subseteq served.odb \cup wire[t.n].pack
             /\ u.at = "ingested" => wire[t.n].pack \subseteq served'.odb
             /\ nonces' = nonces /\ repos' = repos /\ cmd' = cmd /\ wire' = wire
<1>1. t \in Thread /\ wire[t.n] \in Request
  BY Fields DEF ThreadInv
<1>2. served \in [refs : [Ref -> Commit], odb : SUBSET Commit]
  BY DEF TypeOK
<1>3. PICK some \in SUBSET wire[t.n].pack, at \in {"ingested", "failed"} :
        /\ at = "ingested" => some = wire[t.n].pack
        /\ served' = [served EXCEPT !.odb = served.odb \cup some]
        /\ threads' = (threads \ {t}) \cup
                      {[t EXCEPT !.at = at, !.pre = served.odb, !.post = served.odb \cup some]}
        /\ nonces' = nonces /\ repos' = repos /\ cmd' = cmd /\ wire' = wire
  BY DEF Ingest
<1> DEFINE u == [t EXCEPT !.at = at, !.pre = served.odb, !.post = served.odb \cup some]
<1>4. some \in SUBSET Commit
  BY <1>1, <1>3 DEF Request
<1>5. /\ u \in Thread /\ u.n = t.n /\ u.copy = t.copy /\ u.at = at
      /\ u.pre = served.odb /\ u.post = served.odb \cup some
  BY <1>1, <1>2, <1>4 DEF Thread
<1>6. /\ served' \in [refs : [Ref -> Commit], odb : SUBSET Commit]
      /\ served'.refs = served.refs /\ served'.odb = served.odb \cup some
  BY <1>2, <1>3, <1>4
<1>7. threads' = (threads \ {t}) \cup {u}
  BY <1>3
<1> HIDE DEF u
<1>8. /\ u.at # "verified" /\ u.post = served'.odb
      /\ served.odb \subseteq served'.odb /\ served'.odb \subseteq served.odb \cup wire[t.n].pack
      /\ u.at = "ingested" => wire[t.n].pack \subseteq served'.odb
  BY <1>3, <1>5, <1>6
<1> QED
  BY <1>3, <1>5, <1>6, <1>7, <1>8

\* The commit of a push moves the branch it names.
LEMMA CommitProperties ==
    ASSUME ExchangeAssumption, TypeOK, ThreadInv, NEW t \in threads, CommitRef(t)
    PROVE  /\ Sent(t.n) /\ t.n \in 1 .. Len(wire) /\ wire[t.n] \in Request
           /\ t.at = "ingested" /\ Agrees(wire[t.n])
           /\ wire' \in Seq(Request \cup {None}) /\ Len(wire') = Len(wire)
           /\ \A m \in 1 .. Len(wire) : m # t.n => wire'[m] = wire[m]
           /\ \A m : Sent(m)' <=> Sent(m)
           /\ wire'[t.n] \in Request /\ wire'[t.n].took = wire[t.n].took + 1
           /\ wire'[t.n].came = wire[t.n].came /\ wire'[t.n].ref = wire[t.n].ref
           /\ wire'[t.n].old = wire[t.n].old /\ wire'[t.n].new = wire[t.n].new
           /\ wire'[t.n].pack = wire[t.n].pack /\ wire'[t.n].force = wire[t.n].force
           /\ wire'[t.n].signed = wire[t.n].signed /\ wire'[t.n].must = wire[t.n].must
           /\ served' \in [refs : [Ref -> Commit], odb : SUBSET Commit]
           /\ served'.odb = served.odb
           /\ served'.refs = [served.refs EXCEPT ![wire[t.n].ref] = wire[t.n].new]
           /\ threads' = threads \ {t} /\ nonces' = nonces /\ repos' = repos /\ cmd' = cmd
<1> DEFINE req == [wire[t.n] EXCEPT !.took = @ + 1]
<1>1. Sent(t.n) /\ wire[t.n] \in Request
  BY Fields DEF ThreadInv
<1>2. /\ t.at = "ingested" /\ Agrees(wire[t.n]) /\ wire' = [wire EXCEPT ![t.n] = req]
      /\ served' = [served EXCEPT !.refs[wire[t.n].ref] = wire[t.n].new]
      /\ threads' = threads \ {t} /\ nonces' = nonces /\ repos' = repos /\ cmd' = cmd
  BY DEF CommitRef, Ends
<1>3. req \in Request /\ req # None
  BY <1>1, TookOnce, ExchangeAssumption DEF ExchangeAssumption
<1>6. /\ req.took = wire[t.n].took + 1 /\ req.came = wire[t.n].came
      /\ req.ref = wire[t.n].ref /\ req.old = wire[t.n].old /\ req.new = wire[t.n].new
      /\ req.pack = wire[t.n].pack /\ req.force = wire[t.n].force
      /\ req.signed = wire[t.n].signed /\ req.must = wire[t.n].must
  BY <1>1, TookOnce
<1>4. /\ served' \in [refs : [Ref -> Commit], odb : SUBSET Commit]
      /\ served'.odb = served.odb
      /\ served'.refs = [served.refs EXCEPT ![wire[t.n].ref] = wire[t.n].new]
  <2>1. served \in [refs : [Ref -> Commit], odb : SUBSET Commit]
        /\ wire[t.n].ref \in Ref /\ wire[t.n].new \in Commit
    BY <1>1 DEF TypeOK, Request
  <2> QED
    BY <1>2, <2>1
<1> HIDE DEF req
<1>5. /\ wire' \in Seq(Request \cup {None}) /\ Len(wire') = Len(wire) /\ wire'[t.n] = req
      /\ \A m \in 1 .. Len(wire) : m # t.n => wire'[m] = wire[m]
      /\ \A m : Sent(m)' <=> Sent(m)
  BY <1>1, <1>2, <1>3, RequestReplaced
<1> QED
  BY <1>1, <1>2, <1>3, <1>4, <1>5, <1>6 DEF Sent

\* The rewind of a push takes out what the push put in, or nothing.
LEMMA TakeBackProperties ==
    ASSUME ExchangeAssumption, TypeOK, ThreadInv, HeldInv, NEW t \in threads, TakeBack(t)
    PROVE  /\ t \in Thread /\ Sent(t.n) /\ wire[t.n] \in Request
           /\ served' \in [refs : [Ref -> Commit], odb : SUBSET Commit]
           /\ served'.refs = served.refs
           /\ served.odb \subseteq served'.odb \cup wire[t.n].pack /\ Root \in served'.odb
           /\ threads' = threads \ {t}
           /\ nonces' = nonces /\ repos' = repos /\ cmd' = cmd /\ wire' = wire
<1>1. t \in Thread /\ Sent(t.n) /\ wire[t.n] \in Request
  BY Fields DEF ThreadInv
<1>2. PICK db \in RewoundTo(t) : served' = [served EXCEPT !.odb = db]
  BY DEF TakeBack
<1>3. t.at # "verified" /\ Root \in t.pre /\ t.post \subseteq t.pre \cup wire[t.n].pack
  BY DEF TakeBack, HeldInv
<1>4. served \in [refs : [Ref -> Commit], odb : SUBSET Commit] /\ Root \in served.odb
  BY DEF TypeOK, HeldInv
<1>5. db = served.odb \/ (db = t.pre /\ served.odb = t.post)
  BY <1>2 DEF RewoundTo
<1>6. db \in SUBSET Commit /\ Root \in db /\ served.odb \subseteq db \cup wire[t.n].pack
  BY <1>1, <1>3, <1>4, <1>5 DEF Thread
<1>7. /\ served' \in [refs : [Ref -> Commit], odb : SUBSET Commit]
      /\ served'.refs = served.refs /\ served'.odb = db
  BY <1>2, <1>4, <1>6
<1>8. /\ threads' = threads \ {t}
      /\ nonces' = nonces /\ repos' = repos /\ cmd' = cmd /\ wire' = wire
  BY DEF TakeBack, Ends
<1> QED
  BY <1>1, <1>6, <1>7, <1>8

\* Every step keeps the types: a command, a repository, a request or the server
\* is replaced by another.
LEMMA TypeStep ==
    ASSUME ExchangeAssumption, TypeOK, NonceInv, ThreadInv, HeldInv, [Next]_vars
    PROVE  TypeOK'
<1>1. CASE vars' = vars
  BY <1>1 DEF vars, TypeOK
<1>2. ASSUME NEW p \in Proc, Step(p) PROVE TypeOK'
  <2>1. cmd' \in [Proc -> Command]
    <3>1. PICK c \in Command : cmd' = [cmd EXCEPT ![p] = c]
      BY <1>2, StepSets
    <3> QED
      BY <3>1 DEF TypeOK
  <2>2. repos' \in [Repo -> Repository]
    <3>1. PICK repo \in Repository : repos' = [repos EXCEPT ![Home[p]] = repo]
      BY <1>2, StepSets
    <3>2. repos \in [Repo -> Repository]
      BY DEF TypeOK
    <3> QED
      BY <3>1, <3>2
  <2>3. served' \in [refs : [Ref -> Commit], odb : SUBSET Commit]
    <3>1. served' = served
      BY <1>2, StepEffects
    <3> QED
      BY <3>1 DEF TypeOK
  <2>4. wire' \in Seq(Request \cup {None}) /\ nonces' \in Seq(1 .. Len(wire'))
    <3>1. CASE PushAsk(p)
      <4>1. Len(wire) \in Nat /\ nonces \in Seq(1 .. Len(wire))
        BY Fields DEF TypeOK
      <4>2. Issued(nonces, Len(wire) + 1) \in Seq((1 .. Len(wire)) \cup {Len(wire) + 1})
        <5>1. Len(wire) + 1 \notin 1 .. Len(wire)
          BY <4>1
        <5> QED
          BY <4>1, <5>1, IssueProperties
      <4>3. (1 .. Len(wire)) \cup {Len(wire) + 1} = 1 .. Len(wire) + 1
        BY <4>1
      <4> QED
        BY <3>1, <4>2, <4>3, AskProperties
    <3>2. CASE PushSend(p) /\ nonces' = nonces
      BY <3>2, SendProperties DEF TypeOK
    <3>3. CASE wire' = wire /\ nonces' = nonces
      BY <3>3 DEF TypeOK
    <3> QED
      BY <1>2, <3>1, <3>2, <3>3, StepEffects
  <2>5. threads' \in SUBSET Thread
    <3>1. threads' \subseteq threads
      BY <1>2, StepEffects
    <3> QED
      BY <3>1 DEF TypeOK
  <2> QED
    BY <2>1, <2>2, <2>3, <2>4, <2>5 DEF TypeOK
<1>3. ASSUME NEW n \in 1 .. Len(wire), Deliver(n) PROVE TypeOK'
  <2>1. Checked(n) \in Seq(1 .. Len(wire))
    <3>1. nonces \in Seq(1 .. Len(wire)) /\ Distinct(nonces)
      BY DEF TypeOK, NonceInv
    <3> QED
      BY <3>1, ConsumeProperties DEF Checked
  <2>2. threads' \in SUBSET Thread
    <3>1. PICK new \in Thread : threads' = threads \/ threads' = threads \cup {new}
      BY <1>3, DeliverProperties
    <3> QED
      BY <3>1 DEF TypeOK
  <2>3. /\ wire' \in Seq(Request \cup {None}) /\ Len(wire') = Len(wire)
        /\ nonces' = Checked(n) /\ served' = served /\ repos' = repos /\ cmd' = cmd
    BY <1>3, DeliverProperties
  <2> QED
    BY <2>1, <2>2, <2>3 DEF TypeOK
<1>4. ASSUME NEW t \in threads, Ingest(t) \/ CommitRef(t) \/ TakeBack(t) PROVE TypeOK'
  <2>1. CASE Ingest(t)
    <3>1. threads' \in SUBSET Thread
      BY <2>1, IngestProperties DEF TypeOK
    <3> QED
      BY <2>1, <3>1, IngestProperties DEF TypeOK
  <2>2. CASE CommitRef(t)
    <3>1. threads' \in SUBSET Thread
      BY <2>2, CommitProperties DEF TypeOK
    <3> QED
      BY <2>2, <3>1, CommitProperties DEF TypeOK
  <2>3. CASE TakeBack(t)
    <3>1. threads' \in SUBSET Thread
      BY <2>3, TakeBackProperties DEF TypeOK
    <3> QED
      BY <2>3, <3>1, TakeBackProperties DEF TypeOK
  <2> QED
    BY <1>4, <2>1, <2>2, <2>3
<1>5. CASE Restart
  <2>1. <<>> \in Seq(1 .. Len(wire)) /\ {} \in SUBSET Thread
    BY EmptySeq
  <2> QED
    BY <1>5, <2>1 DEF Restart, TypeOK
<1> QED
  BY <1>1, <1>2, <1>3, <1>4, <1>5 DEF Next

-----------------------------------------------------------------------------
(* Every part of the invariant is kept.                                    *)

\* No two commands hold one nonce, and one that may still be answered for has not
\* been (NonceTable, verify_push_signature).
LEMMA NonceStep ==
    ASSUME ExchangeAssumption, TypeOK, NonceInv, ThreadInv, HeldInv, [Next]_vars
    PROVE  NonceInv'
<1> DEFINE Once(n) == /\ wire[n].took <= 1
                      /\ Answerable(n) => wire[n].took = 0
                      /\ \A t \in threads : t.n = n =>
                           wire[n].took = 0 /\ ~Answerable(n) /\ \A u \in threads : u.n = n => u = t
<1>1. CASE vars' = vars
  BY <1>1 DEF vars, NonceInv, Distinct, Answerable, AtTold, Sent
<1>2. ASSUME NEW p \in Proc, Step(p) PROVE NonceInv'
  <2>1. \A q \in Proc : AtTold(q)' => (q = p /\ PushAsk(p)) \/ (AtTold(q) /\ cmd'[q] = cmd[q])
    BY <1>2, StepEffects DEF AtTold
  <2>2. /\ Len(wire) \in Nat /\ nonces \in Seq(1 .. Len(wire))
        /\ DOMAIN nonces = 1 .. Len(nonces) /\ Len(nonces) \in Nat
    BY Fields, LenProperties DEF TypeOK
  <2>3. \A i \in DOMAIN nonces : nonces[i] \in 1 .. Len(wire)
    BY <2>2, ElementOfSeq
  <2>4. CASE PushAsk(p)
    <3> DEFINE k == Len(wire) + 1
    <3>1. /\ Len(wire') = k /\ wire'[k] = None /\ \A n \in 1 .. Len(wire) : wire'[n] = wire[n]
          /\ nonces' = Issued(nonces, k) /\ cmd'[p].nonce = k
      BY <2>4, AskProperties
    <3>2. /\ Distinct(nonces')
          /\ \A i \in DOMAIN nonces' :
               nonces'[i] = k \/ \E j \in DOMAIN nonces : nonces'[i] = nonces[j]
      <4>1. k \notin 1 .. Len(wire)
        BY <2>2
      <4> DEFINE S == 1 .. Len(wire)
      <4>2. nonces \in Seq(S) /\ k \notin S
        BY <2>2, <4>1
      <4> HIDE DEF k, S
      <4>3. Distinct(nonces)
        BY DEF NonceInv
      <4>4. /\ Distinct(Issued(nonces, k))
            /\ \A i \in DOMAIN Issued(nonces, k) :
                 \/ Issued(nonces, k)[i] = k
                 \/ \E j \in DOMAIN nonces : Issued(nonces, k)[i] = nonces[j]
        <5>1. /\ Distinct(nonces) => Distinct(Issued(nonces, k))
              /\ \A i \in DOMAIN Issued(nonces, k) :
                   \/ Issued(nonces, k)[i] = k
                   \/ \E j \in DOMAIN nonces : Issued(nonces, k)[i] = nonces[j]
          BY <4>2, IssueKeeps, ExchangeAssumption
        <5> QED
          BY <4>3, <5>1
      <4>5. nonces' = Issued(nonces, k)
        BY <3>1
      <4> QED
        BY <4>4, <4>5 DEF Distinct
    <3>3. k \in 1 .. k /\ k \notin 1 .. Len(wire) /\ 1 .. Len(wire) \subseteq 1 .. k
          /\ \A n \in 1 .. k : n = k \/ n \in 1 .. Len(wire)
      BY <2>2
    <3> HIDE DEF k
    <3>4. \A n : Sent(n)' => n # k /\ Sent(n) /\ wire'[n] = wire[n]
      BY <3>1, <3>3 DEF Sent
    <3>5. ASSUME NEW q \in Proc, AtTold(q)'
          PROVE  /\ cmd'[q].nonce \in 1 .. Len(wire') /\ wire'[cmd'[q].nonce] = None
                 /\ \A r \in Proc : AtTold(r)' /\ cmd'[r].nonce = cmd'[q].nonce => r = q
      <4>1. CASE q = p
        <5>1. \A r \in Proc : AtTold(r)' /\ r # p => cmd'[r].nonce \in 1 .. Len(wire)
          BY <2>1 DEF NonceInv
        <5> QED
          BY <3>1, <3>3, <4>1, <5>1
      <4>2. CASE q # p
        BY <2>1, <3>1, <3>3, <3>5, <4>2, SMTT(30) DEF NonceInv
      <4> QED
        BY <4>1, <4>2
    <3>6. \A n : Answerable(n)' => n = k \/ Answerable(n)
      BY <3>2 DEF Answerable
    <3>7. \A n : Sent(n)' /\ wire'[n].must => Once(n)'
      BY <1>2, <3>4, <3>6, StepEffects DEF NonceInv, Sent
    <3> QED
      BY <3>2, <3>5, <3>7 DEF NonceInv, AtTold, Distinct
  <2>5. CASE PushSend(p) /\ nonces' = nonces
    <3> DEFINE k == cmd[p].nonce
    <3>1. /\ AtTold(p) /\ k \in 1 .. Len(wire) /\ wire[k] = None /\ Len(wire') = Len(wire)
          /\ \A m \in 1 .. Len(wire) : m # k => wire'[m] = wire[m]
          /\ wire'[k].took = 0 /\ cmd' = [cmd EXCEPT ![p] = Idle]
      BY <2>5, SendProperties
    <3>2. ~AtTold(p)' /\ ~PushAsk(p)
      <4>1. cmd'[p] = Idle
        BY <3>1 DEF TypeOK
      <4>2. ~PushAsk(p)
        BY <3>1 DEF PushAsk, AtTold, Idle
      <4> QED
        BY <4>1, <4>2 DEF AtTold, Idle
    <3>3. \A q \in Proc : AtTold(q)' => AtTold(q) /\ cmd'[q] = cmd[q] /\ cmd[q].nonce # k
      BY <2>1, <3>1, <3>2 DEF NonceInv
    <3> HIDE DEF k
    <3>5. \A n : Answerable(n)' => Answerable(n)
      BY <2>5 DEF Answerable
    <3>6. \A n : Sent(n)' /\ wire'[n].must => Once(n)'
      <4>1. threads' = threads /\ ~Sent(k) /\ \A t \in threads : Sent(t.n)
        BY <1>2, <3>1, StepEffects DEF Sent, ThreadInv
      <4>2. \A n : Sent(n)' /\ n # k => Sent(n) /\ wire'[n] = wire[n]
        BY <3>1 DEF Sent
      <4>3. ASSUME NEW n, Sent(n)', wire'[n].must PROVE Once(n)'
        <5>1. CASE n = k
          BY <3>1, <4>1, <5>1
        <5>2. CASE n # k
          BY <3>5, <4>1, <4>2, <4>3, <5>2 DEF NonceInv, Sent
        <5> QED
          BY <5>1, <5>2
      <4> QED
        BY <4>3
    <3>7. \A q \in Proc : AtTold(q)' =>
            /\ cmd'[q].nonce \in 1 .. Len(wire') /\ wire'[cmd'[q].nonce] = None
            /\ \A r \in Proc : AtTold(r)' /\ cmd'[r].nonce = cmd'[q].nonce => r = q
      BY <3>1, <3>3 DEF NonceInv
    <3> QED
      BY <2>5, <3>6, <3>7 DEF NonceInv, AtTold, Distinct
  <2>6. CASE wire' = wire /\ nonces' = nonces /\ ~PushAsk(p)
    BY <1>2, <2>1, <2>6, StepEffects DEF NonceInv, Sent, Answerable, Distinct
  <2> QED
    BY <1>2, <2>4, <2>5, <2>6, StepEffects
<1>3. ASSUME NEW n \in 1 .. Len(wire), Deliver(n) PROVE NonceInv'
  <2> DEFINE new == [n |-> n, copy |-> wire[n].came, at |-> "verified", pre |-> {}, post |-> {}]
  <2>1. /\ Sent(n) /\ wire[n] \in Request /\ Len(wire') = Len(wire)
        /\ \A m \in 1 .. Len(wire) : m # n => wire'[m] = wire[m]
        /\ \A m : Sent(m)' <=> Sent(m)
        /\ wire'[n].took = wire[n].took /\ wire'[n].must = wire[n].must
        /\ nonces' = Checked(n) /\ cmd' = cmd
        /\ \/ Refused(n) /\ threads' = threads
           \/ ~Refused(n) /\ threads' = threads \cup {new}
    BY <1>3, DeliverProperties
  <2>2. /\ Distinct(nonces')
        /\ \A m : Answerable(m)' => Answerable(m)
        /\ wire[n].signed => ~Answerable(n)'
    <3> DEFINE S == 1 .. Len(wire)
    <3>1. nonces \in Seq(S) /\ Distinct(nonces)
      BY DEF TypeOK, NonceInv
    <3> HIDE DEF S
    <3>2. /\ Distinct(Checked(n))
          /\ \A i \in DOMAIN Checked(n) : \E j \in DOMAIN nonces : Checked(n)[i] = nonces[j]
          /\ wire[n].signed => \A i \in DOMAIN Checked(n) : Checked(n)[i] # n
      BY <3>1, ConsumeProperties DEF Checked
    <3> QED
      BY <2>1, <3>2 DEF Answerable, Distinct
  <2>3. \A q \in Proc : AtTold(q)' =>
          /\ cmd'[q].nonce \in 1 .. Len(wire') /\ wire'[cmd'[q].nonce] = None
          /\ \A r \in Proc : AtTold(r)' /\ cmd'[r].nonce = cmd'[q].nonce => r = q
    BY <2>1 DEF NonceInv, AtTold, Sent
  <2>4. ASSUME NEW m, Sent(m)', wire'[m].must
        PROVE  Once(m)'
    <3>1. Sent(m) /\ m \in 1 .. Len(wire) /\ wire'[m].took = wire[m].took /\ wire[m].must
      BY <2>1, <2>4 DEF Sent
    <3>2. Once(m)
      BY <3>1 DEF NonceInv
    <3>3. CASE threads' = threads \/ m # n
      <4>1. \A t \in threads' : t.n = m => t \in threads
        BY <2>1, <3>3
      <4> QED
        BY <2>2, <3>1, <3>2, <4>1
    <3>4. CASE m = n /\ ~Refused(n) /\ threads' = threads \cup {new}
      <4>1. wire[n].signed /\ \E i \in 1 .. Len(nonces) : nonces[i] = n
        BY <3>1, <3>4 DEF Refused, Verified
      <4>2. Answerable(n)
        BY <4>1, LenProperties DEF TypeOK, Answerable
      <4>3. \A t \in threads' : t.n = n => t = new
        BY <3>2, <3>4, <4>2
      <4>4. wire[n].took = 0 /\ ~Answerable(n)'
        BY <2>2, <3>2, <3>4, <4>1, <4>2
      <4> HIDE DEF new
      <4> QED
        BY <3>1, <3>4, <4>3, <4>4
    <3> QED
      BY <2>1, <3>3, <3>4
  <2> HIDE DEF new
  <2> QED
    BY <2>2, <2>3, <2>4 DEF NonceInv, AtTold, Distinct
<1>4. ASSUME NEW t \in threads, Ingest(t) \/ TakeBack(t) PROVE NonceInv'
  <2>1. /\ nonces' = nonces /\ cmd' = cmd /\ wire' = wire
        /\ \/ threads' = threads \ {t}
           \/ \E u : u.n = t.n /\ threads' = (threads \ {t}) \cup {u}
    BY <1>4, IngestProperties, TakeBackProperties
  <2>2. ASSUME NEW n, Sent(n), wire[n].must PROVE Once(n)'
    <3>1. Once(n)
      BY <2>2 DEF NonceInv, Sent
    <3>2. CASE threads' = threads \ {t}
      BY <2>1, <3>1, <3>2 DEF Answerable
    <3>3. ASSUME NEW u, u.n = t.n, threads' = (threads \ {t}) \cup {u} PROVE Once(n)'
      <4>1. CASE t.n = n
        <5>1. \A v \in threads' : v.n = n => v = u
          BY <3>1, <3>3, <4>1
        <5> QED
          BY <2>1, <3>1, <4>1, <5>1 DEF Answerable
      <4>2. CASE t.n # n
        <5>1. \A v \in threads' : v.n = n => v \in threads
          BY <3>3, <4>2
        <5> QED
          BY <2>1, <3>1, <5>1 DEF Answerable
      <4> QED
        BY <4>1, <4>2
    <3> QED
      BY <2>1, <3>2, <3>3
  <2> QED
    BY <2>1, <2>2 DEF NonceInv, AtTold, Distinct, Sent
<1>5. ASSUME NEW t \in threads, CommitRef(t) PROVE NonceInv'
  <2>1. /\ Sent(t.n) /\ wire[t.n] \in Request /\ Len(wire') = Len(wire)
        /\ \A m \in 1 .. Len(wire) : m # t.n => wire'[m] = wire[m]
        /\ \A m : Sent(m)' <=> Sent(m)
        /\ wire'[t.n].took = wire[t.n].took + 1 /\ wire'[t.n].must = wire[t.n].must
        /\ nonces' = nonces /\ cmd' = cmd /\ threads' = threads \ {t}
    BY <1>5, CommitProperties
  <2>2. ASSUME NEW m, Sent(m)', wire'[m].must PROVE Once(m)'
    <3>1. Sent(m) /\ m \in 1 .. Len(wire) /\ wire[m].must /\ (m # t.n => wire'[m] = wire[m])
      BY <2>1, <2>2 DEF Sent
    <3>2. Once(m)
      BY <3>1 DEF NonceInv
    <3>3. CASE m # t.n
      BY <2>1, <3>1, <3>2, <3>3 DEF Answerable
    <3>4. CASE m = t.n
      <4>1. wire[m].took = 0 /\ ~Answerable(m) /\ \A u \in threads' : u.n # m
        BY <2>1, <3>2, <3>4
      <4> QED
        BY <2>1, <3>4, <4>1 DEF Answerable
    <3> QED
      BY <3>3, <3>4
  <2>3. \A q \in Proc : AtTold(q)' =>
          /\ cmd'[q].nonce \in 1 .. Len(wire') /\ wire'[cmd'[q].nonce] = None
          /\ \A r \in Proc : AtTold(r)' /\ cmd'[r].nonce = cmd'[q].nonce => r = q
    BY <2>1 DEF NonceInv, AtTold, Sent
  <2> QED
    BY <2>1, <2>2, <2>3 DEF NonceInv, AtTold, Distinct
<1>6. CASE Restart
  BY <1>6 DEF Restart, NonceInv, Distinct, Answerable, AtTold, Sent
<1> QED
  BY <1>1, <1>2, <1>3, <1>4, <1>5, <1>6 DEF Next

\* A request that was sent stays as it is, but for its deliveries.
LEMMA RequestStays ==
    ASSUME ExchangeAssumption, TypeOK, NonceInv, ThreadInv, HeldInv, [Next]_vars
    PROVE  /\ Len(wire) \in Nat /\ Len(wire') \in Nat /\ Len(wire) <= Len(wire')
           /\ \A n : Sent(n) =>
                /\ Sent(n)' /\ wire[n] \in Request /\ wire'[n] \in Request
                /\ wire'[n].pack = wire[n].pack /\ wire'[n].old = wire[n].old
                /\ wire'[n].new = wire[n].new /\ wire'[n].force = wire[n].force
                /\ wire[n].came <= wire'[n].came /\ wire[n].took <= wire'[n].took
           /\ \A n : Sent(n)' /\ ~Sent(n) => wire'[n].took = 0 /\ wire'[n].came = 0
           /\ (\E t \in threads : CommitRef(t)) \/ \A n : Sent(n) => wire'[n].took = wire[n].took
<1>1. Len(wire) \in Nat /\ \A n : Sent(n) => wire[n] \in Request /\ n \in 1 .. Len(wire)
  BY Fields DEF Sent
<1>2. \A n : Sent(n) => wire[n].came \in Nat /\ wire[n].took \in Nat
  BY <1>1 DEF Request
<1>3. CASE wire' = wire
  BY <1>1, <1>2, <1>3 DEF Sent
<1>4. ASSUME NEW p \in Proc, PushAsk(p)
      PROVE  /\ Len(wire') = Len(wire) + 1
             /\ \A n : Sent(n)' <=> Sent(n)
             /\ \A n : Sent(n) => wire'[n] = wire[n]
  <2>1. /\ Len(wire') = Len(wire) + 1 /\ wire'[Len(wire) + 1] = None
        /\ \A n \in 1 .. Len(wire) : wire'[n] = wire[n]
    BY <1>4, AskProperties
  <2>2. \A n : n \in 1 .. Len(wire) + 1 <=> n \in 1 .. Len(wire) \/ n = Len(wire) + 1
    BY <1>1
  <2> QED
    BY <2>1, <2>2 DEF Sent
<1>5. ASSUME NEW p \in Proc, PushSend(p)
      PROVE  /\ Len(wire') = Len(wire)
             /\ \A n : Sent(n) => Sent(n)' /\ wire'[n] = wire[n]
             /\ \A n : Sent(n)' /\ ~Sent(n) => wire'[n].took = 0 /\ wire'[n].came = 0
  BY <1>5, SendProperties DEF Sent
<1>6. ASSUME NEW n \in 1 .. Len(wire), Deliver(n)
      PROVE  /\ Len(wire') = Len(wire) /\ \A m : Sent(m)' <=> Sent(m)
             /\ \A m : Sent(m) /\ m # n => wire'[m] = wire[m]
             /\ wire'[n] \in Request /\ Sent(n)
             /\ wire'[n].pack = wire[n].pack /\ wire'[n].old = wire[n].old
             /\ wire'[n].new = wire[n].new /\ wire'[n].force = wire[n].force
             /\ wire'[n].came = wire[n].came + 1 /\ wire'[n].took = wire[n].took
  BY <1>6, DeliverProperties DEF Sent
<1>7. ASSUME NEW t \in threads, CommitRef(t)
      PROVE  /\ Len(wire') = Len(wire) /\ \A m : Sent(m)' <=> Sent(m)
             /\ \A m : Sent(m) /\ m # t.n => wire'[m] = wire[m]
             /\ wire'[t.n] \in Request /\ Sent(t.n)
             /\ wire'[t.n].pack = wire[t.n].pack /\ wire'[t.n].old = wire[t.n].old
             /\ wire'[t.n].new = wire[t.n].new /\ wire'[t.n].force = wire[t.n].force
             /\ wire'[t.n].came = wire[t.n].came /\ wire'[t.n].took = wire[t.n].took + 1
  BY <1>7, CommitProperties DEF Sent
<1>8. ASSUME NEW t \in threads, Ingest(t) \/ TakeBack(t) PROVE wire' = wire
  BY <1>8, IngestProperties, TakeBackProperties
<1>9. CASE \E p \in Proc : PushAsk(p)
  BY <1>1, <1>2, <1>4, <1>9
<1>10. CASE \E p \in Proc : PushSend(p)
  BY <1>1, <1>2, <1>5, <1>10
<1>11. CASE \E n \in 1 .. Len(wire) : Deliver(n)
  <2>1. PICK n \in 1 .. Len(wire) : Deliver(n)
    BY <1>11
  <2>2. /\ Len(wire') = Len(wire) /\ \A m : Sent(m)' <=> Sent(m)
        /\ \A m : Sent(m) /\ m # n => wire'[m] = wire[m]
    BY <1>6, <2>1
  <2>3. /\ wire[n].came <= wire'[n].came /\ wire[n].took <= wire'[n].took
        /\ wire'[n] \in Request /\ wire'[n].took = wire[n].took
        /\ wire'[n].pack = wire[n].pack /\ wire'[n].old = wire[n].old
        /\ wire'[n].new = wire[n].new /\ wire'[n].force = wire[n].force
    BY <1>2, <1>6, <2>1
  <2>4. \A m : Sent(m) => wire[m].came <= wire[m].came /\ wire[m].took <= wire[m].took
    BY <1>2
  <2> QED
    BY <1>1, <2>2, <2>3, <2>4
<1>12. CASE \E t \in threads : CommitRef(t)
  BY <1>1, <1>2, <1>7, <1>12
<1> QED
  <2>1. ASSUME NEW p \in Proc, Step(p) PROVE PushAsk(p) \/ PushSend(p) \/ wire' = wire
    BY <2>1, StepEffects
  <2> QED
    BY <1>3, <1>8, <1>9, <1>10, <1>11, <1>12, <2>1 DEF Next, vars, Restart

\* Whether a thread is a delivery of its own is not changed by what it does.
LEMMA ThreadStep ==
    ASSUME ExchangeAssumption, TypeOK, NonceInv, ThreadInv, HeldInv, [Next]_vars
    PROVE  ThreadInv'
<1>1. /\ \A n : Sent(n) =>
           /\ Sent(n)' /\ wire[n] \in Request /\ wire'[n] \in Request
           /\ wire[n].came <= wire'[n].came /\ wire[n].took <= wire'[n].took
      /\ \A n : Sent(n)' /\ ~Sent(n) => wire'[n].took = 0 /\ wire'[n].came = 0
      /\ (\E t \in threads : CommitRef(t)) \/ \A n : Sent(n) => wire'[n].took = wire[n].took
  BY RequestStays
<1>2. /\ \A t \in threads : t.copy \in Nat
      /\ \A n : Sent(n) => wire[n].came \in Nat /\ wire[n].took \in Nat
      /\ \A n : Sent(n) => wire'[n].came \in Nat /\ wire'[n].took \in Nat
  BY <1>1, Fields DEF ExchangeAssumption, Thread, Request
<1>3. \A n : Sent(n) => n \in 1 .. Len(wire)
  BY DEF Sent
<1> DEFINE Fits(t) ==
      /\ Sent(t.n) /\ t.copy < wire[t.n].came
      /\ wire[t.n].took > 0 => wire[t.n].came >= 2
<1>4. \A t \in threads : Fits(t) /\ \A u \in threads : t.n = u.n /\ t.copy = u.copy => t = u
  BY DEF ThreadInv
<1>5. CASE \A t \in threads : ~CommitRef(t)
  <2>1. \A n : Sent(n)' => (wire'[n].took > 0 => wire'[n].came > 0)
    <3> SUFFICES ASSUME NEW n, Sent(n)'
                 PROVE  (wire'[n].took > 0 => wire'[n].came > 0)
      OBVIOUS
    <3>1. CASE Sent(n)
      <4>1. (wire[n].took > 0 => wire[n].came > 0)
        BY <1>3, <3>1 DEF ThreadInv
      <4> QED
        BY <1>1, <1>2, <1>5, <3>1, <4>1
    <3> QED
      BY <1>1, <1>2, <3>1
  <2>2. \A t \in threads : Fits(t)'
    <3> SUFFICES ASSUME NEW t \in threads PROVE Fits(t)'
      OBVIOUS
    <3> QED
      BY <1>1, <1>2, <1>4, <1>5
  <2>3. CASE threads' \subseteq threads
    BY <1>4, <2>1, <2>2, <2>3 DEF ThreadInv
  <2>4. ASSUME NEW t \in threads, NEW u, u.n = t.n, u.copy = t.copy,
               threads' = (threads \ {t}) \cup {u}
        PROVE  ThreadInv'
    <3>1. Fits(u)'
      BY <2>2, <2>4
    <3>2. \A v, w \in threads' : v.n = w.n /\ v.copy = w.copy => v = w
      BY <1>4, <2>4
    <3> HIDE DEF Fits
    <3>3. \A v \in threads' : Fits(v)'
      BY <2>2, <2>4, <3>1
    <3> USE DEF Fits
    <3> QED
      BY <2>1, <3>2, <3>3 DEF ThreadInv
  <2>5. ASSUME NEW n \in 1 .. Len(wire), Deliver(n) PROVE ThreadInv'
    <3>1. PICK new :
          /\ new = [n |-> n, copy |-> wire[n].came, at |-> "verified", pre |-> {}, post |-> {}]
          /\ Sent(n) /\ Sent(n)'
          /\ wire'[n].came = wire[n].came + 1 /\ wire'[n].took = wire[n].took
          /\ threads' = threads \/ threads' = threads \cup {new}
      BY <2>5, DeliverProperties
    <3>3. (wire[n].took > 0 => wire[n].came > 0)
      BY <3>1 DEF ThreadInv
    <3>4. new.n = n /\ new.copy = wire[n].came
      BY <3>1
    <3>5. Fits(new)'
      BY <1>1, <1>2, <3>1, <3>3, <3>4
    <3>6. ASSUME NEW t \in threads, t.n = n PROVE t.copy # wire[n].came
      <4>1. t.copy < wire[n].came
        BY <1>4, <3>6
      <4> QED
        BY <1>2, <3>1, <4>1
    <3> HIDE DEF Fits
    <3>7. \A v \in threads' : Fits(v)'
      BY <2>2, <3>1, <3>5
    <3>8. ASSUME NEW v \in threads', NEW w \in threads', v.n = w.n, v.copy = w.copy
          PROVE  v = w
      <4>1. v \in threads \cup {new} /\ w \in threads \cup {new}
        BY <3>1, <3>8
      <4>2. CASE v = new \/ w = new
        BY <3>4, <3>6, <3>8, <4>1, <4>2
      <4>3. CASE v \in threads /\ w \in threads
        BY <1>4, <3>8, <4>3
      <4> QED
        BY <4>1, <4>2, <4>3
    <3> USE DEF Fits
    <3> QED
      BY <2>1, <3>7, <3>8 DEF ThreadInv
  <2>6. ASSUME NEW t \in threads, Ingest(t)
        PROVE  \E u : u.n = t.n /\ u.copy = t.copy /\ threads' = (threads \ {t}) \cup {u}
    BY <2>6, IngestProperties
  <2>7. ASSUME NEW t \in threads, TakeBack(t) PROVE threads' \subseteq threads
    BY <2>7, TakeBackProperties
  <2>8. ASSUME NEW p \in Proc, Step(p) PROVE threads' \subseteq threads
    BY <2>8, StepEffects
  <2>9. Restart \/ vars' = vars => threads' \subseteq threads
    BY DEF Restart, vars
  <2> HIDE DEF Fits
  <2> QED
    BY <1>5, <2>3, <2>4, <2>5, <2>6, <2>7, <2>8, <2>9 DEF Next
<1>6. ASSUME NEW t \in threads, CommitRef(t) PROVE ThreadInv'
  <2>1. /\ Sent(t.n) /\ \A m : Sent(m)' <=> Sent(m)
        /\ \A m \in 1 .. Len(wire) : m # t.n => wire'[m] = wire[m]
        /\ wire'[t.n].came = wire[t.n].came
        /\ threads' = threads \ {t}
    BY <1>6, CommitProperties
  <2>2. wire'[t.n].came = wire[t.n].came
    BY <2>1
  <2>3. \A n : Sent(n)' => (wire'[n].took > 0 => wire'[n].came > 0)
    <3> SUFFICES ASSUME NEW n, Sent(n)
                 PROVE  (wire'[n].took > 0 => wire'[n].came > 0)
      BY <2>1
    <3>1. CASE n = t.n
      BY <1>2, <1>4, <2>2, <3>1
    <3>2. CASE n # t.n
      BY <1>3, <2>1, <3>2 DEF ThreadInv
    <3> QED
      BY <3>1, <3>2
  <2>4. ASSUME NEW u \in threads' PROVE Fits(u)'
    <3>1. u \in threads /\ u # t
      BY <2>1
    <3>2. CASE u.n = t.n
      <4>1. u.copy # t.copy /\ u.copy < wire[t.n].came
            /\ t.copy < wire[t.n].came
        BY <1>4, <3>1, <3>2
      <4> QED
        BY <1>2, <2>1, <2>2, <3>1, <3>2, <4>1
    <3>3. CASE u.n # t.n
      BY <1>3, <1>4, <2>1, <3>1, <3>3
    <3> QED
      BY <3>2, <3>3
  <2>5. \A v, w \in threads' : v.n = w.n /\ v.copy = w.copy => v = w
    BY <1>4, <2>1
  <2> QED
    BY <2>3, <2>4, <2>5 DEF ThreadInv
<1> QED
  BY <1>5, <1>6

\* What the server was given stays given, and comes with all behind it
\* (handle_receive_pack; what is ingested is put before a ref moves).
LEMMA SettledGrows ==
    ASSUME ExchangeAssumption, TypeOK, NonceInv, ThreadInv, ServedInv, HeldInv, WireInv, [Next]_vars
    PROVE  /\ Settled \subseteq Settled' /\ Closed(Commit, Settled')
           /\ (\A t \in threads : ~CommitRef(t)) => Settled' = Settled
           /\ \A t \in threads : CommitRef(t) =>
                Settled' = Settled \cup wire[t.n].pack
<1>1. /\ Len(wire) \in Nat /\ Len(wire') \in Nat /\ Len(wire) <= Len(wire')
      /\ \A n : Sent(n) =>
           /\ Sent(n)' /\ wire[n] \in Request /\ wire'[n] \in Request
           /\ wire'[n].pack = wire[n].pack /\ wire[n].took <= wire'[n].took
      /\ \A n : Sent(n)' /\ ~Sent(n) => wire'[n].took = 0
      /\ (\E t \in threads : CommitRef(t)) \/ \A n : Sent(n) => wire'[n].took = wire[n].took
  BY RequestStays
<1>2. \A n : Sent(n) => wire[n].took \in Nat /\ wire'[n].took \in Nat
  BY <1>1 DEF Request
<1>3. \A n : (Sent(n) => n \in 1 .. Len(wire)) /\ (Sent(n)' => n \in 1 .. Len(wire'))
  BY DEF Sent
<1>4. ASSUME NEW c \in Settled PROVE c \in Settled'
  <2>1. CASE c = Root
    BY <2>1, <1>4 DEF Settled
  <2>2. ASSUME NEW n \in 1 .. Len(wire), Sent(n), wire[n].took > 0, c \in wire[n].pack
        PROVE  c \in Settled'
    BY <1>1, <1>2, <1>3, <1>4, <2>2 DEF Settled
  <2> QED
    BY <1>4, <2>1, <2>2 DEF Settled
<1>5. ASSUME \A t \in threads : ~CommitRef(t) PROVE Settled' = Settled
  <2>1. ASSUME NEW c \in Settled' PROVE c \in Settled
    <3>1. CASE c = Root
      BY <2>1, <3>1 DEF Settled
    <3>2. ASSUME NEW n \in 1 .. Len(wire'), Sent(n)', wire'[n].took > 0, c \in wire'[n].pack
          PROVE  c \in Settled
      <4>1. Sent(n)
        BY <1>1, <3>2
      <4> QED
        BY <1>1, <1>3, <1>5, <2>1, <3>2, <4>1 DEF Settled
    <3> QED
      BY <2>1, <3>1, <3>2 DEF Settled
  <2> QED
    BY <1>4, <2>1
<1>6. ASSUME NEW t \in threads, CommitRef(t)
      PROVE  Settled' = Settled \cup wire[t.n].pack
  <2>1. /\ Sent(t.n) /\ t.n \in 1 .. Len(wire) /\ wire[t.n] \in Request
        /\ Len(wire') = Len(wire) /\ \A m : Sent(m)' <=> Sent(m)
        /\ \A m \in 1 .. Len(wire) : m # t.n => wire'[m] = wire[m]
        /\ wire'[t.n].took = wire[t.n].took + 1 /\ wire'[t.n].pack = wire[t.n].pack
    BY <1>6, CommitProperties
  <2>2. wire[t.n].pack \subseteq Commit /\ wire'[t.n].took > 0
    BY <1>2, <2>1 DEF Request
  <2>3. wire[t.n].pack \subseteq Settled'
    BY <2>1, <2>2 DEF Settled
  <2>4. ASSUME NEW c \in Settled', c \notin wire[t.n].pack PROVE c \in Settled
    <3>1. CASE c = Root
      BY <2>4, <3>1 DEF Settled
    <3>2. ASSUME NEW n \in 1 .. Len(wire'), Sent(n)', wire'[n].took > 0, c \in wire'[n].pack
          PROVE  c \in Settled
      <4>1. n # t.n /\ n \in 1 .. Len(wire) /\ Sent(n)
        BY <2>1, <2>4, <3>2
      <4> QED
        BY <2>1, <2>4, <3>2, <4>1 DEF Settled
    <3> QED
      BY <2>4, <3>1, <3>2 DEF Settled
  <2> QED
    BY <1>4, <2>3, <2>4
<1>7. Closed(Commit, Settled')
  <2>1. CASE \A t \in threads : ~CommitRef(t)
    BY <1>5, <2>1 DEF ServedInv
  <2>2. ASSUME NEW t \in threads, CommitRef(t) PROVE Closed(Commit, Settled')
    <3> DEFINE n == t.n
               all == Settled \cup wire[n].pack
    <3>1. Settled' = all /\ Sent(n)
      BY <1>6, <2>2, CommitProperties
    <3>2. /\ wire[n].pack \subseteq History({wire[n].new})
          /\ History({wire[n].new}) \subseteq all
      BY <3>1 DEF WireInv, Between, Sent
    <3>3. Closed(Commit, History({wire[n].new})) /\ Closed(Commit, Settled)
      BY HistoryIsClosed DEF ServedInv
    <3>4. Closed(Commit, all)
      BY <3>2, <3>3 DEF Closed
    <3> HIDE DEF all
    <3> QED
      BY <3>1, <3>4
  <2> QED
    BY <2>1, <2>2
<1> QED
  BY <1>4, <1>5, <1>6, <1>7

\* What came twice has come twice ever after.
LEMMA DoubledStays ==
    ASSUME ExchangeAssumption, TypeOK, NonceInv, ThreadInv, HeldInv, [Next]_vars,
           NEW c, CameTwice(c)
    PROVE  CameTwice(c)'
<1>1. /\ Len(wire) \in Nat /\ Len(wire') \in Nat /\ Len(wire) <= Len(wire')
      /\ \A n : Sent(n) =>
           /\ Sent(n)' /\ wire[n] \in Request /\ wire'[n] \in Request
           /\ wire'[n].pack = wire[n].pack /\ wire[n].came <= wire'[n].came
  BY RequestStays
<1>2. \A n : Sent(n) => wire[n].came \in Nat /\ wire'[n].came \in Nat
  BY <1>1 DEF ExchangeAssumption, Request
<1>3. PICK m, n \in 1 .. Len(wire) :
        /\ Came(m) /\ Came(n) /\ c \in wire[m].pack \cap wire[n].pack
        /\ m # n \/ wire[n].came >= 2
  BY DEF CameTwice
<1>4. Sent(m) /\ Sent(n) /\ m \in 1 .. Len(wire') /\ n \in 1 .. Len(wire')
  BY <1>1, <1>3 DEF Came, Sent
<1>5. Came(m)' /\ Came(n)'
  BY <1>1, <1>2, <1>3, <1>4 DEF Came, Sent
<1>6. c \in wire'[m].pack \cap wire'[n].pack /\ (m # n \/ wire'[n].came >= 2)
  BY <1>1, <1>2, <1>3, <1>4
<1> QED
  BY <1>4, <1>5, <1>6 DEF CameTwice

\* A thread whose push did not take effect, and another that brings the same, or
\* a request that took effect and brought it: it came twice.
LEMMA CameTwiceWith ==
    ASSUME ExchangeAssumption, TypeOK, ThreadInv, NEW t \in threads, NEW c \in wire[t.n].pack,
           \/ \E u \in threads : u # t /\ c \in wire[u.n].pack
           \/ \E n \in 1 .. Len(wire) : Sent(n) /\ wire[n].took > 0 /\ c \in wire[n].pack
    PROVE  CameTwice(c)
<1>1. /\ Sent(t.n) /\ t.n \in 1 .. Len(wire) /\ t.copy < wire[t.n].came
      /\ wire[t.n].took > 0 => wire[t.n].came >= 2
      /\ wire[t.n].came \in Nat /\ t.copy \in Nat
  BY Fields DEF ThreadInv, Sent, ExchangeAssumption, Request, Thread
<1>2. Came(t.n)
  BY <1>1 DEF Came, Sent
<1>3. ASSUME NEW u \in threads, u # t, c \in wire[u.n].pack PROVE CameTwice(c)
  <2>1. /\ Sent(u.n) /\ u.n \in 1 .. Len(wire) /\ u.copy < wire[u.n].came
        /\ wire[u.n].came \in Nat /\ u.copy \in Nat
    BY Fields DEF ThreadInv, Sent, Request, Thread
  <2>2. Came(u.n)
    BY <1>1, <2>1 DEF Came, Sent
  <2>3. CASE u.n # t.n
    BY <1>1, <1>2, <1>3, <2>1, <2>2, <2>3 DEF CameTwice
  <2>4. CASE u.n = t.n
    <3>1. u.copy # t.copy
      BY <1>3, <2>4 DEF ThreadInv
    <3>2. wire[t.n].came >= 2
      BY <1>1, <2>1, <2>4, <3>1
    <3> QED
      BY <1>1, <1>2, <3>2 DEF CameTwice
  <2> QED
    BY <2>3, <2>4
<1>4. ASSUME NEW n \in 1 .. Len(wire), Sent(n), wire[n].took > 0, c \in wire[n].pack
      PROVE  CameTwice(c)
  <2>1. Came(n)
    BY <1>4 DEF Came, Sent, ThreadInv
  <2>2. CASE n = t.n
    BY <1>1, <1>2, <1>4, <2>2 DEF CameTwice
  <2>3. CASE n # t.n
    BY <1>1, <1>2, <1>4, <2>1, <2>3 DEF CameTwice
  <2> QED
    BY <2>2, <2>3
<1> QED
  BY <1>3, <1>4

\* No rewind takes out what another push needs and what came once (rewind(),
\* "so a downstream rewind is guaranteed to drop exactly this push's bytes").
LEMMA HeldStep ==
    ASSUME ExchangeAssumption, TypeOK, NonceInv, ThreadInv, ServedInv, HeldInv, WireInv, [Next]_vars
    PROVE  HeldInv'
<1>1. \A c : CameTwice(c) => CameTwice(c)'
  BY DoubledStays
<1>2. \A n : Sent(n) => wire'[n].pack = wire[n].pack
  BY RequestStays
<1>3. \A t \in threads : Sent(t.n)
  BY DEF ThreadInv
<1> DEFINE Sound(t) == /\ t.at # "verified" => Root \in t.pre /\ t.post \subseteq t.pre \cup wire[t.n].pack
                       /\ t.at = "ingested" => \A c \in wire[t.n].pack : Held(c)
<1>4. Root \in served.odb /\ (\A c \in Settled : Held(c)) /\ \A t \in threads : Sound(t)
  BY DEF HeldInv
<1>5. ASSUME served.odb \subseteq served'.odb, Settled' = Settled, threads' \subseteq threads
      PROVE  HeldInv'
  <2>1. \A c : Held(c) => Held(c)'
    BY <1>1, <1>5 DEF Held
  <2>2. \A t \in threads' : Sound(t)'
    BY <1>2, <1>3, <1>4, <1>5, <2>1
  <2> QED
    BY <1>4, <1>5, <2>1, <2>2 DEF HeldInv
<1>6. (\A t \in threads : ~CommitRef(t)) => Settled' = Settled
  BY SettledGrows
<1>7. ASSUME NEW p \in Proc, Step(p) PROVE HeldInv'
  <2>1. served' = served /\ threads' = threads
    BY <1>7, StepEffects
  <2>2. \A n : Sent(n) /\ Sent(n)' => wire'[n].took = wire[n].took
    <3>1. \A n : Sent(n) => wire'[n] = wire[n]
      <4>1. CASE PushAsk(p)
        BY <4>1, AskProperties DEF Sent
      <4>2. CASE PushSend(p)
        BY <4>2, SendProperties DEF Sent
      <4> QED
        BY <1>7, <4>1, <4>2, StepEffects
    <3> QED
      BY <3>1
  <2>3. Settled' = Settled
    <3>1. /\ \A n : Sent(n) => Sent(n)' /\ wire'[n].pack = wire[n].pack
          /\ \A n : Sent(n)' /\ ~Sent(n) => wire'[n].took = 0
      BY RequestStays
    <3>2. \A n : (Sent(n) => n \in 1 .. Len(wire)) /\ (Sent(n)' => n \in 1 .. Len(wire'))
      BY DEF Sent
    <3>3. \A n : Sent(n) /\ wire[n].took > 0 <=> Sent(n)' /\ wire'[n].took > 0
      BY <2>2, <3>1
    <3>4. ASSUME NEW c PROVE c \in Settled' <=> c \in Settled
      BY <3>1, <3>2, <3>3 DEF Settled
    <3> QED
      BY <3>4
  <2> QED
    BY <1>5, <2>1, <2>3
<1>8. ASSUME NEW n \in 1 .. Len(wire), Deliver(n) PROVE HeldInv'
  <2> DEFINE new == [n |-> n, copy |-> wire[n].came, at |-> "verified", pre |-> {}, post |-> {}]
  <2>1. /\ served' = served /\ (threads' = threads \/ threads' = threads \cup {new})
        /\ Sent(n) /\ \A m \in 1 .. Len(wire) : m # n => wire'[m] = wire[m]
        /\ wire'[n].took = wire[n].took /\ Len(wire') = Len(wire) /\ \A m : Sent(m)' <=> Sent(m)
    BY <1>8, DeliverProperties
  <2>2. Settled' = Settled
    BY <1>2, <2>1 DEF Settled, Sent
  <2>3. \A c : Held(c) => Held(c)'
    BY <1>1, <2>1 DEF Held
  <2>4. new.at = "verified"
    OBVIOUS
  <2> HIDE DEF new
  <2>5. \A t \in threads' : Sound(t)'
    BY <1>2, <1>3, <1>4, <2>1, <2>3, <2>4
  <2> QED
    BY <1>4, <2>1, <2>2, <2>3, <2>5 DEF HeldInv
<1>9. ASSUME NEW t \in threads, Ingest(t) PROVE HeldInv'
  <2>1. PICK u \in Thread :
          /\ u.n = t.n /\ u.pre = served.odb /\ u.post = served'.odb
          /\ threads' = (threads \ {t}) \cup {u} /\ wire' = wire
          /\ served.odb \subseteq served'.odb
          /\ served'.odb \subseteq served.odb \cup wire[t.n].pack
          /\ u.at = "ingested" => wire[t.n].pack \subseteq served'.odb
    BY <1>9, IngestProperties
  <2>2. Settled' = Settled
    BY <2>1 DEF Settled, Sent
  <2>3. \A c : Held(c) => Held(c)'
    BY <1>1, <2>1 DEF Held
  <2>4. Sound(u)'
    BY <1>4, <2>1 DEF Held
  <2>5. \A v \in threads' : Sound(v)'
    <3> SUFFICES ASSUME NEW v \in threads' PROVE Sound(v)'
      OBVIOUS
    <3>1. CASE v = u
      BY <2>4, <3>1
    <3>2. CASE v \in threads
      BY <1>4, <2>1, <2>3, <3>2
    <3> QED
      BY <2>1, <3>1, <3>2
  <2> QED
    BY <1>4, <2>1, <2>2, <2>3, <2>5 DEF HeldInv
<1>10. ASSUME NEW t \in threads, CommitRef(t) PROVE HeldInv'
  <2>1. /\ t.at = "ingested" /\ served'.odb = served.odb /\ threads' = threads \ {t}
        /\ Settled' = Settled \cup wire[t.n].pack
    BY <1>10, CommitProperties, SettledGrows
  <2>2. \A c : Held(c) => Held(c)'
    BY <1>1, <2>1 DEF Held
  <2>3. \A c \in wire[t.n].pack : Held(c)
    BY <1>4, <2>1
  <2>4. \A u \in threads' : Sound(u)'
    BY <1>2, <1>3, <1>4, <2>1, <2>2
  <2> QED
    BY <1>4, <2>1, <2>2, <2>3, <2>4 DEF HeldInv
<1>11. ASSUME NEW t \in threads, TakeBack(t) PROVE HeldInv'
  <2>1. /\ served.odb \subseteq served'.odb \cup wire[t.n].pack /\ Root \in served'.odb
        /\ threads' = threads \ {t} /\ wire' = wire
    BY <1>11, TakeBackProperties
  <2>2. Settled' = Settled
    BY <2>1 DEF Settled, Sent
  <2>3. ASSUME NEW c, Held(c), c \notin wire[t.n].pack \/ CameTwice(c) \/ c = Root
        PROVE  Held(c)'
    BY <1>1, <2>1, <2>3 DEF Held
  <2>4. ASSUME NEW c \in Settled PROVE Held(c)'
    <3>1. c = Root \/ \E n \in 1 .. Len(wire) : Sent(n) /\ wire[n].took > 0 /\ c \in wire[n].pack
      BY <2>4 DEF Settled
    <3>2. c = Root \/ c \notin wire[t.n].pack \/ CameTwice(c)
      BY <3>1, CameTwiceWith
    <3> QED
      BY <1>4, <2>3, <2>4, <3>2
  <2>5. ASSUME NEW u \in threads', u.at = "ingested", NEW c \in wire[u.n].pack PROVE Held(c)'
    <3>1. u \in threads /\ u # t /\ Held(c)
      BY <1>4, <2>1, <2>5
    <3>2. c \notin wire[t.n].pack \/ CameTwice(c)
      BY <2>5, <3>1, CameTwiceWith
    <3> QED
      BY <2>3, <3>1, <3>2
  <2>6. \A u \in threads' : Sound(u)'
    BY <1>4, <2>1, <2>5
  <2> QED
    BY <2>1, <2>2, <2>4, <2>6 DEF HeldInv
<1>12. CASE Restart \/ vars' = vars
  <2>1. served' = served /\ wire' = wire /\ threads' \subseteq threads
    BY <1>12 DEF Restart, vars
  <2>2. Settled' = Settled
    BY <2>1 DEF Settled, Sent
  <2> QED
    BY <1>5, <2>1, <2>2
<1> QED
  BY <1>7, <1>8, <1>9, <1>10, <1>11, <1>12 DEF Next

\* What the server told is there still (info/refs, ls-refs).
LEMMA ServedStep ==
    ASSUME ExchangeAssumption, TypeOK, NonceInv, ThreadInv, ServedInv, HeldInv, WireInv, [Next]_vars
    PROVE  ServedInv'
<1>1. Settled \subseteq Settled' /\ Closed(Commit, Settled')
  BY SettledGrows
<1>2. CASE vars' = vars
  <2>1. served' = served /\ cmd' = cmd
    BY <1>2 DEF vars
  <2> QED
    BY <1>1, <2>1 DEF ServedInv, AtTold, Fetching, Tips
<1>3. ASSUME NEW p \in Proc, Step(p) PROVE ServedInv'
  <2>1. /\ served' = served
        /\ \A q \in Proc \ {p} : cmd'[q] = cmd[q]
        /\ AtTold(p)' => PushAsk(p) \/ (AtTold(p) /\ cmd'[p] = cmd[p])
        /\ Fetching(p)' => cmd'[p].new = served.refs \/ (Fetching(p) /\ cmd'[p].new = cmd[p].new)
    BY <1>3, StepEffects
  <2>2. PushAsk(p) => cmd'[p].refs = served.refs
    BY AskProperties
  <2>3. ASSUME NEW q \in Proc
        PROVE  /\ AtTold(q)' => Tips(cmd'[q].refs) \subseteq Settled'
               /\ Fetching(q)' => Tips(cmd'[q].new) \subseteq Settled'
    <3>1. CASE q = p
      BY <1>1, <2>1, <2>2, <3>1 DEF ServedInv
    <3>2. CASE q # p
      BY <1>1, <2>1, <3>2 DEF ServedInv, AtTold, Fetching
    <3> QED
      BY <3>1, <3>2
  <2> QED
    BY <1>1, <2>1, <2>3 DEF ServedInv, AtTold, Fetching, Tips
<1>4. ASSUME cmd' = cmd, served'.refs = served.refs PROVE ServedInv'
  BY <1>1, <1>4 DEF ServedInv, AtTold, Fetching, Tips
<1>5. ASSUME NEW t \in threads, CommitRef(t) PROVE ServedInv'
  <2>1. /\ Sent(t.n) /\ wire[t.n] \in Request /\ cmd' = cmd
        /\ served'.refs = [served.refs EXCEPT ![wire[t.n].ref] = wire[t.n].new]
        /\ Settled' = Settled \cup wire[t.n].pack
    BY <1>5, CommitProperties, SettledGrows
  <2>2. wire[t.n].new \in Commit /\ wire[t.n].new \in History({wire[t.n].new})
    BY <2>1, HistoryIsClosed DEF Request
  <2>3. wire[t.n].new \in Settled'
    BY <2>1, <2>2 DEF WireInv, Between, Sent
  <2>4. \A b \in Ref : served'.refs[b] \in {served.refs[b], wire[t.n].new}
    BY <2>1 DEF TypeOK
  <2>5. Tips(served'.refs) \subseteq Settled'
    BY <1>1, <2>3, <2>4 DEF ServedInv, Tips
  <2> QED
    BY <1>1, <2>1, <2>5 DEF ServedInv, AtTold, Fetching
<1>6. ASSUME NEW n \in 1 .. Len(wire), Deliver(n) PROVE ServedInv'
  BY <1>4, <1>6, DeliverProperties
<1>7. ASSUME NEW t \in threads, Ingest(t) \/ TakeBack(t) PROVE ServedInv'
  BY <1>4, <1>7, IngestProperties, TakeBackProperties
<1>8. CASE Restart
  BY <1>4, <1>8 DEF Restart
<1> QED
  BY <1>2, <1>3, <1>5, <1>6, <1>7, <1>8 DEF Next

\* A request is made to bring all the server lacks (push(), build_pack_for_push).
LEMMA WireStep ==
    ASSUME ExchangeAssumption, TypeOK, NonceInv, ThreadInv, ServedInv, HeldInv, LocalInv, WireInv,
           [Next]_vars
    PROVE  WireInv'
<1>1. Settled \subseteq Settled'
  BY SettledGrows
<1>2. ASSUME NEW n, Sent(n)', Sent(n),
             wire'[n].pack = wire[n].pack, wire'[n].old = wire[n].old,
             wire'[n].new = wire[n].new, wire'[n].force = wire[n].force
      PROVE  /\ wire'[n].pack \subseteq History({wire'[n].new})
             /\ History({wire'[n].new}) \subseteq Settled' \cup wire'[n].pack
             /\ ~wire'[n].force => wire'[n].old \in History({wire'[n].new})
  BY <1>1, <1>2 DEF WireInv, Sent, Between
<1>3. CASE wire' = wire
  BY <1>2, <1>3 DEF WireInv, Sent, Between
<1>4. ASSUME NEW p \in Proc, PushAsk(p) PROVE WireInv'
  <2>1. \A n : Sent(n)' => Sent(n) /\ wire'[n] = wire[n]
    <3>1. /\ Len(wire') = Len(wire) + 1 /\ wire'[Len(wire) + 1] = None /\ Len(wire) \in Nat
          /\ \A n \in 1 .. Len(wire) : wire'[n] = wire[n]
      BY <1>4, AskProperties, Fields
    <3>2. \A n \in 1 .. Len(wire) + 1 : n = Len(wire) + 1 \/ n \in 1 .. Len(wire)
      BY <3>1
    <3> QED
      BY <3>1, <3>2 DEF Sent
  <2> QED
    BY <1>2, <2>1 DEF WireInv, Sent, Between
<1>5. ASSUME NEW p \in Proc, PushSend(p), Step(p) PROVE WireInv'
  <2> DEFINE k == cmd[p].nonce
  <2>1. /\ AtTold(p) /\ cmd[p] \in Told /\ Len(wire') = Len(wire)
        /\ \A m \in 1 .. Len(wire) : m # k => wire'[m] = wire[m]
        /\ wire'[k].new = cmd[p].new
        /\ wire'[k].pack = Packed(Here(p).odb, {cmd[p].new}, Tips(cmd[p].refs))
        /\ ~wire'[k].force => FastForward(Here(p).odb, wire'[k].old, cmd[p].new)
    BY <1>5, SendProperties
  <2>2. Here(p).odb \in SUBSET Commit /\ Settled \in SUBSET Commit /\ cmd[p].new \in Commit
    BY <2>1 DEF TypeOK, Settled, Here, Repository, ExchangeAssumption, Told
  <2>3. /\ Closed(Commit, Settled) /\ Tips(cmd[p].refs) \subseteq Settled
        /\ History({cmd[p].new}) \subseteq Settled \cup Here(p).odb
    BY <2>1 DEF ServedInv, LocalInv, Between
  <2>4. /\ wire'[k].pack \subseteq History({cmd[p].new})
        /\ History({cmd[p].new}) \subseteq Settled \cup wire'[k].pack
    BY <2>1, <2>2, <2>3, PackCompletes
  <2>5. ~wire'[k].force => wire'[k].old \in History({cmd[p].new})
    BY <2>1, <2>2, ReachInHistory DEF FastForward
  <2>6. \A n : Sent(n)' => n = k \/ (Sent(n) /\ wire'[n] = wire[n])
    BY <2>1 DEF Sent
  <2> HIDE DEF k
  <2>7. ASSUME NEW n, Sent(n)'
        PROVE  /\ wire'[n].pack \subseteq History({wire'[n].new})
               /\ History({wire'[n].new}) \subseteq Settled' \cup wire'[n].pack
               /\ ~wire'[n].force => wire'[n].old \in History({wire'[n].new})
    <3>1. CASE n = k
      BY <1>1, <2>1, <2>4, <2>5, <3>1 DEF k
    <3>2. CASE Sent(n) /\ wire'[n] = wire[n]
      BY <1>2, <2>7, <3>2
    <3> QED
      BY <2>6, <2>7, <3>1, <3>2
  <2> QED
    BY <2>7 DEF WireInv, Between
<1>6. ASSUME \A n : Sent(n)' <=> Sent(n) PROVE WireInv'
  <2>1. \A n : Sent(n) => /\ wire'[n].pack = wire[n].pack /\ wire'[n].old = wire[n].old
                          /\ wire'[n].new = wire[n].new /\ wire'[n].force = wire[n].force
    BY RequestStays
  <2> QED
    BY <1>2, <1>6, <2>1 DEF WireInv, Between
<1> QED
  <2>1. ASSUME NEW p \in Proc, Step(p) PROVE WireInv'
    BY <1>3, <1>4, <1>5, <2>1, StepEffects
  <2>2. ASSUME NEW n \in 1 .. Len(wire), Deliver(n) PROVE WireInv'
    BY <1>6, <2>2, DeliverProperties
  <2>3. ASSUME NEW t \in threads, CommitRef(t) PROVE WireInv'
    BY <1>6, <2>3, CommitProperties
  <2>4. ASSUME NEW t \in threads, Ingest(t) \/ TakeBack(t) PROVE WireInv'
    BY <1>3, <2>4, IngestProperties, TakeBackProperties
  <2> QED
    BY <1>3, <2>1, <2>2, <2>3, <2>4 DEF Next, vars, Restart

\* A step leaves its repository made, with what it had, and with no branch of which
\* a commit is neither there nor on the server.
LEMMA RepoStep ==
    ASSUME ExchangeAssumption, TypeOK, ServedInv, LocalInv, NEW p \in Proc, Step(p)
    PROVE  LET new == repos'[Home[p]]
           IN  /\ new.made \/ new = Here(p)
               /\ Here(p).made => new.made
               /\ Here(p).odb \subseteq new.odb
               /\ \A c \in Tips(new.heads) \cup Tips(new.remotes) :
                    History({c}) \subseteq Settled \cup new.odb
<1> DEFINE new == repos'[Home[p]]
           Good(repo) == \A c \in Tips(repo.heads) \cup Tips(repo.remotes) :
                           History({c}) \subseteq Settled \cup repo.odb
<1>1. /\ Home[p] \in Repo /\ Here(p) \in Repository /\ repos \in [Repo -> Repository]
      /\ Here(p).heads \in Refs /\ Here(p).remotes \in Refs /\ Here(p).odb \in SUBSET Commit
  BY DEF TypeOK, Here, Repository, ExchangeAssumption
<1>2. Good(Here(p)) /\ (Here(p).made \/ Here(p) = Absent)
  BY <1>1 DEF LocalInv, Between, Here
<1>3. /\ \A b \in Ref : Absent.heads[b] = None /\ Absent.remotes[b] = None
      /\ Absent.odb = {} /\ ~Absent.made
      /\ Tips(NoRefs) = {} /\ Empty.heads = NoRefs /\ Empty.remotes = NoRefs /\ Empty.made
  BY DEF Absent, Empty, NoRefs, Tips
<1>4. Fetching(p) => Here(p).made /\ cmd[p] \in Fetch
  BY Fields DEF LocalInv
<1>5. \A repo : repos' = [repos EXCEPT ![Home[p]] = repo] => new = repo
  BY <1>1
<1> SUFFICES (new.made \/ new = Here(p)) /\ (Here(p).made => new.made)
             /\ Here(p).odb \subseteq new.odb /\ Good(new)
  OBVIOUS
<1>6. CASE repos' = repos
  BY <1>2, <1>6 DEF Here
<1>7. CASE CloneList(p)
  <2>1. new = Empty /\ ~Here(p).made
    BY <1>5, <1>7 DEF CloneList
  <2> HIDE DEF new
  <2> QED
    BY <1>2, <1>3, <2>1
<1>8. CASE FetchSave(p)
  <2>1. PICK tmp : new = [Here(p) EXCEPT !.tmp = tmp]
    BY <1>1, <1>8 DEF FetchSave, Here
  <2>2. Here(p).made
    BY <1>4, <1>8 DEF FetchSave, Fetching
  <2>3. new.made = Here(p).made /\ new.odb = Here(p).odb
        /\ new.heads = Here(p).heads /\ new.remotes = Here(p).remotes
    BY <1>1, <2>1 DEF Repository
  <2> HIDE DEF new
  <2> QED
    BY <1>2, <2>2, <2>3
<1>9. CASE FetchStore(p) \/ FetchDies(p)
  <2>1. PICK some : new = Indexed(Here(p), some)
    BY <1>1, <1>9 DEF FetchStore, FetchDies, Here
  <2>2. Here(p).made
    BY <1>4, <1>9 DEF FetchStore, FetchDies, Fetching
  <2>3. new.made = Here(p).made /\ new.odb = Here(p).odb \cup some
        /\ new.heads = Here(p).heads /\ new.remotes = Here(p).remotes
    BY <1>1, <2>1 DEF Repository, Indexed
  <2> HIDE DEF new
  <2> QED
    BY <1>2, <2>2, <2>3
<1>10. CASE FetchRefs(p)
  <2> DEFINE state == [b \in Ref |-> IF b \in {a \in Ref : cmd[p].old[a] # cmd[p].new[a]}
                                    THEN cmd[p].new[b] ELSE Here(p).remotes[b]]
  <2>1. new = [Here(p) EXCEPT !.remotes = state]
    BY <1>1, <1>10 DEF FetchRefs, Here
  <2>2. Fetching(p)
    BY <1>10 DEF FetchRefs, Fetching
  <2>3. Tips(state) \subseteq Tips(cmd[p].new) \cup Tips(Here(p).remotes)
    BY DEF Tips
  <2>4. \A c \in Tips(cmd[p].new) : History({c}) \subseteq Settled
    <3>1. Tips(cmd[p].new) \subseteq Settled /\ Closed(Commit, Settled)
          /\ Settled \in SUBSET Commit
      BY <2>2 DEF ServedInv, Settled
    <3> QED
      BY <3>1, HistoryIsLeast
  <2> HIDE DEF state
  <2>5. new.made = Here(p).made /\ new.odb = Here(p).odb
        /\ new.heads = Here(p).heads /\ new.remotes = state
    BY <1>1, <2>1 DEF Repository
  <2> HIDE DEF new
  <2> QED
    BY <1>2, <1>4, <2>2, <2>3, <2>4, <2>5
<1>11. ASSUME NEW b \in Ref, NEW c, new.heads = [Here(p).heads EXCEPT ![b] = c],
              new.made = Here(p).made, new.remotes = Here(p).remotes,
              Here(p).odb \subseteq new.odb, Here(p).made,
              c # None => History({c}) \subseteq Settled \cup new.odb
       PROVE  Here(p).made /\ new.made /\ Good(new)
  <2>1. Tips(new.heads) \subseteq Tips(Here(p).heads) \cup ({c} \ {None})
    BY <1>1, <1>11 DEF Tips, Refs
  <2> HIDE DEF new
  <2> QED
    BY <1>2, <1>11, <2>1
<1>12. CASE CloneBranch(p)
  <2>1. PICK b \in Ref :
          /\ Here(p).remotes[b] # None
          /\ new = [Here(p) EXCEPT !.heads[b] = IF @ = None THEN Here(p).remotes[b] ELSE @]
    BY <1>1, <1>12 DEF CloneBranch, Picked, Here
  <2> DEFINE c == IF Here(p).heads[b] = None THEN Here(p).remotes[b] ELSE Here(p).heads[b]
  <2>2. Here(p).made
    BY <1>2, <1>3, <2>1
  <2>3. new.heads = [Here(p).heads EXCEPT ![b] = c] /\ new.made = Here(p).made
        /\ new.remotes = Here(p).remotes /\ new.odb = Here(p).odb
    BY <1>1, <2>1 DEF Repository, Refs
  <2>4. c \in Tips(Here(p).heads) \cup Tips(Here(p).remotes)
    BY <2>1 DEF Tips
  <2> HIDE DEF c, new
  <2> QED
    BY <1>2, <1>11, <2>2, <2>3, <2>4
<1>13. CASE Work(p)
  <2>1. PICK b \in Ref, c \in Commit :
          /\ Here(p).heads[b] \in Parents[c]
          /\ Parents[c] \subseteq Tips(Here(p).heads) \cup Tips(Here(p).remotes)
          /\ repos' = [repos EXCEPT ![Home[p]].heads[b] = c, ![Home[p]].odb = @ \cup {c}]
    BY <1>13 DEF Work
  <2>2. new.heads = [Here(p).heads EXCEPT ![b] = c] /\ new.made = Here(p).made
        /\ new.remotes = Here(p).remotes /\ new.odb = Here(p).odb \cup {c}
    BY <1>1, <2>1 DEF Here, Repository
  <2>3. Here(p).made
    <3>1. Parents[c] \subseteq Commit /\ None \notin Commit
      BY DEF ExchangeAssumption
    <3> QED
      BY <1>2, <1>3, <2>1, <3>1
  <2> HIDE DEF new
  <2>4. History({c}) \subseteq Settled \cup new.odb
    <3>1. \A d \in Parents[c] : History({d}) \subseteq Settled \cup new.odb
      BY <1>2, <2>1, <2>2
    <3>2. c \in Settled \cup new.odb
      BY <2>2
    <3> QED
      BY <3>1, <3>2, HistoryOfParents, ZenonT(60)
  <2> QED
    BY <1>11, <2>2, <2>3, <2>4
<1>14. CASE StepBack(p)
  <2>1. PICK b \in Ref : /\ Here(p).heads[b] # None
                         /\ \E c \in Parents[Here(p).heads[b]] \cap Here(p).odb :
                              repos' = [repos EXCEPT ![Home[p]].heads[b] = c]
    BY <1>14 DEF StepBack
  <2>2. PICK c \in Parents[Here(p).heads[b]] \cap Here(p).odb :
          repos' = [repos EXCEPT ![Home[p]].heads[b] = c]
    BY <2>1
  <2>3. new.heads = [Here(p).heads EXCEPT ![b] = c] /\ new.made = Here(p).made
        /\ new.remotes = Here(p).remotes /\ new.odb = Here(p).odb
    BY <1>1, <2>2 DEF Here, Repository
  <2>4. Here(p).made /\ Here(p).heads[b] \in Commit
    BY <1>1, <1>2, <1>3, <2>1 DEF Refs
  <2> HIDE DEF new
  <2>5. History({c}) \subseteq Settled \cup new.odb
    <3>1. History({c}) \subseteq History({Here(p).heads[b]})
      BY <2>2, <2>4, HistoryOfParents
    <3>2. Here(p).heads[b] \in Tips(Here(p).heads)
      BY <2>1 DEF Tips
    <3> QED
      BY <1>2, <2>3, <3>1, <3>2
  <2> QED
    BY <1>11, <2>3, <2>4, <2>5
<1>15. FetchList(p) \/ PushAsk(p) \/ PushSend(p) \/ Fail(p) => repos' = repos
  BY DEF FetchList, PushAsk, PushSend, Fail
<1> QED
  BY <1>6, <1>7, <1>8, <1>9, <1>10, <1>12, <1>13, <1>14, <1>15 DEF Step

\* The threads of the server touch no repository and no command.
LEMMA ServerKeeps ==
    ASSUME ExchangeAssumption, TypeOK, ThreadInv, HeldInv
    PROVE  /\ \A n \in 1 .. Len(wire) : Deliver(n) => repos' = repos /\ cmd' = cmd
           /\ \A t \in threads : Ingest(t) \/ CommitRef(t) \/ TakeBack(t)
                => repos' = repos /\ cmd' = cmd
  BY DEF Deliver, Ingest, CommitRef, TakeBack

\* What a branch reaches stays between its repository and the server, whoever
\* commits, fetches, pushes or goes back.
LEMMA LocalStep ==
    ASSUME ExchangeAssumption, TypeOK, NonceInv, ThreadInv, ServedInv, HeldInv, LocalInv, WireInv,
           [Next]_vars
    PROVE  LocalInv'
<1>1. Settled \subseteq Settled'
  BY SettledGrows
<1>2. ASSUME repos' = repos, cmd' = cmd PROVE LocalInv'
  BY <1>1, <1>2 DEF LocalInv, Between, Here, AtTold, Fetching
<1>3. ASSUME NEW p \in Proc, Step(p) PROVE LocalInv'
  <2> DEFINE new == repos'[Home[p]]
  <2>1. /\ new.made \/ new = Here(p)
        /\ Here(p).made => new.made
        /\ Here(p).odb \subseteq new.odb
        /\ \A c \in Tips(new.heads) \cup Tips(new.remotes) :
             History({c}) \subseteq Settled \cup new.odb
    BY <1>3, RepoStep
  <2>2. /\ \A q \in Proc \ {p} : cmd'[q] = cmd[q]
        /\ \A r \in Repo \ {Home[p]} : repos'[r] = repos[r]
        /\ AtTold(p)' => PushAsk(p) \/ (AtTold(p) /\ cmd'[p] = cmd[p])
        /\ Fetching(p)' => FetchList(p) \/ CloneList(p) \/ Fetching(p)
    BY <1>3, StepEffects
  <2>3. Home \in [Proc -> Repo] /\ repos \in [Repo -> Repository]
    BY DEF ExchangeAssumption, TypeOK
  <2>4. \A r \in Repo : /\ repos'[r].made \/ repos'[r] = repos[r]
                        /\ repos[r].made => repos'[r].made
                        /\ repos[r].odb \subseteq repos'[r].odb
    BY <2>1, <2>2 DEF Here
  <2>5. \A r \in Repo : repos'[r].made \/ repos'[r] = Absent
    BY <2>4 DEF LocalInv
  <2>6. ASSUME NEW q \in Proc, Fetching(q)' PROVE repos'[Home[q]].made
    <3>1. CASE q = p /\ FetchList(p)
      BY <2>1, <3>1 DEF FetchList
    <3>2. CASE q = p /\ CloneList(p)
      BY <2>3, <3>2 DEF CloneList, Empty
    <3>3. CASE Fetching(q)
      BY <2>3, <2>4, <3>3 DEF LocalInv, Here
    <3> QED
      BY <2>2, <2>6, <3>1, <3>2, <3>3 DEF Fetching
  <2>7. ASSUME NEW r \in Repo, NEW c \in Tips(repos'[r].heads) \cup Tips(repos'[r].remotes)
        PROVE  History({c}) \subseteq Settled' \cup repos'[r].odb
    <3>1. CASE r = Home[p]
      BY <1>1, <2>1, <2>7, <3>1
    <3>2. CASE r # Home[p]
      BY <1>1, <2>2, <2>7, <3>2 DEF LocalInv, Between
    <3> QED
      BY <3>1, <3>2
  <2>8. ASSUME NEW q \in Proc, AtTold(q)'
        PROVE  History({cmd'[q].new}) \subseteq Settled' \cup repos'[Home[q]].odb
    <3>1. CASE q = p /\ PushAsk(p)
      <4>1. PICK b \in Ref : cmd'[p].new = Here(p).heads[b] /\ Here(p).heads[b] # None
        BY <3>1, AskProperties
      <4>2. cmd'[p].new \in Tips(repos[Home[p]].heads) /\ Home[p] \in Repo
        BY <2>3, <4>1 DEF Tips, Here
      <4> QED
        BY <1>1, <2>4, <3>1, <4>2 DEF LocalInv, Between
    <3>2. CASE AtTold(q) /\ cmd'[q] = cmd[q]
      BY <1>1, <2>3, <2>4, <3>2 DEF LocalInv, Between, Here
    <3> QED
      BY <2>2, <2>8, <3>1, <3>2 DEF AtTold
  <2> HIDE DEF new
  <2> QED
    BY <2>5, <2>6, <2>7, <2>8 DEF LocalInv, Between, Here, Tips, AtTold, Fetching, Absent, Empty, NoRefs
<1> QED
  BY <1>2, <1>3, ServerKeeps DEF Next, vars, Restart

\* A request is never unsent, nor forgotten to be forced.
LEMMA ForcedStays ==
    ASSUME ExchangeAssumption, TypeOK, NonceInv, ThreadInv, HeldInv, [Next]_vars, Forced
    PROVE  Forced'
<1>1. PICK n \in 1 .. Len(wire) : Sent(n) /\ wire[n].force
  BY DEF Forced, Sent
<1>2. Sent(n)' /\ wire'[n].force
  BY <1>1, RequestStays
<1> QED
  BY <1>2 DEF Forced, Sent

\* A tracking ref moves from what the fetch read to what the server answered
\* (fetch(): a compare-and-set for every ref that differs).
LEMMA RemoteMoves ==
    ASSUME ExchangeAssumption, TypeOK, LocalInv, NEW p \in Proc, Step(p), NEW b \in Ref
    PROVE  \/ repos'[Home[p]].remotes[b] = Here(p).remotes[b]
           \/ /\ Fetching(p)
              /\ Here(p).remotes[b] = cmd[p].old[b]
              /\ repos'[Home[p]].remotes[b] = cmd[p].new[b]
<1> DEFINE new == repos'[Home[p]]
<1>1. /\ Home[p] \in Repo /\ Here(p) \in Repository /\ repos \in [Repo -> Repository]
      /\ Here(p).made \/ Here(p) = Absent
  BY DEF TypeOK, Here, Repository, ExchangeAssumption, LocalInv
<1>2. CASE FetchRefs(p)
  <2> DEFINE moved == {a \in Ref : cmd[p].old[a] # cmd[p].new[a]}
             state == [a \in Ref |-> IF a \in moved THEN cmd[p].new[a] ELSE Here(p).remotes[a]]
  <2>1. Fetching(p) /\ (b \in moved => Here(p).remotes[b] = cmd[p].old[b])
    BY <1>2 DEF FetchRefs, Fetching
  <2>2. new = [Here(p) EXCEPT !.remotes = state]
    BY <1>1, <1>2 DEF FetchRefs, Here
  <2>3. state[b] = IF b \in moved THEN cmd[p].new[b] ELSE Here(p).remotes[b]
    OBVIOUS
  <2> HIDE DEF state, moved
  <2>4. new.remotes = state
    BY <1>1, <2>2 DEF Repository
  <2> QED
    BY <2>1, <2>3, <2>4
<1>3. CASE CloneList(p)
  <2>1. new = Empty /\ ~Here(p).made
    BY <1>1, <1>3 DEF CloneList
  <2> QED
    BY <1>1, <2>1 DEF Absent, Empty
<1>4. CASE repos' = repos
  BY <1>4 DEF Here
<1>5. FetchList(p) \/ PushAsk(p) \/ PushSend(p) \/ Fail(p) => repos' = repos
  BY DEF FetchList, PushAsk, PushSend, Fail
<1>6. CASE FetchSave(p)
  <2>1. PICK tmp : new = [Here(p) EXCEPT !.tmp = tmp]
    BY <1>1, <1>6 DEF FetchSave, Here
  <2> QED
    BY <1>1, <2>1 DEF Repository
<1>7. CASE FetchStore(p) \/ FetchDies(p)
  <2>1. PICK some : new = Indexed(Here(p), some)
    BY <1>1, <1>7 DEF FetchStore, FetchDies, Here
  <2> QED
    BY <1>1, <2>1 DEF Repository, Indexed
<1>8. CASE CloneBranch(p)
  <2>1. PICK a \in Ref :
          new = [Here(p) EXCEPT !.heads[a] = IF @ = None THEN Here(p).remotes[a] ELSE @]
    BY <1>1, <1>8 DEF CloneBranch, Picked, Here
  <2> QED
    BY <1>1, <2>1 DEF Repository
<1>9. CASE Work(p)
  <2>1. PICK a \in Ref, c \in Commit :
          repos' = [repos EXCEPT ![Home[p]].heads[a] = c, ![Home[p]].odb = @ \cup {c}]
    BY <1>9 DEF Work
  <2> QED
    BY <1>1, <2>1 DEF Here, Repository
<1>10. CASE StepBack(p)
  <2>1. PICK a \in Ref : \E c : repos' = [repos EXCEPT ![Home[p]].heads[a] = c]
    BY <1>10 DEF StepBack
  <2> QED
    BY <1>1, <2>1 DEF Here, Repository
<1> QED
  BY <1>2, <1>3, <1>4, <1>5, <1>6, <1>7, <1>8, <1>9, <1>10 DEF Step

\* Unless a push is forced, the server's branches only move forward
\* (ensure_fast_forward on the client, commit_ref_updates on the server).
LEMMA ServedAdvances ==
    ASSUME ExchangeAssumption, TypeOK, NonceInv, ThreadInv, HeldInv, WireInv, [Next]_vars, NEW b \in Ref
    PROVE  \/ served'.refs[b] = served.refs[b]
           \/ \E n \in 1 .. Len(wire) :
                /\ Sent(n) /\ wire'[n] # wire[n]
                /\ wire[n].force \/ served.refs[b] \in History({served'.refs[b]})
<1>1. ASSUME NEW t \in threads, CommitRef(t), served'.refs[b] # served.refs[b]
      PROVE  /\ t.n \in 1 .. Len(wire) /\ Sent(t.n) /\ wire'[t.n] # wire[t.n]
             /\ wire[t.n].force \/ served.refs[b] \in History({served'.refs[b]})
  <2>1. /\ Sent(t.n) /\ t.n \in 1 .. Len(wire) /\ wire[t.n] \in Request /\ Agrees(wire[t.n])
        /\ wire'[t.n].took = wire[t.n].took + 1
        /\ served'.refs = [served.refs EXCEPT ![wire[t.n].ref] = wire[t.n].new]
    BY <1>1, CommitProperties
  <2>2. wire[t.n].ref = b /\ served'.refs[b] = wire[t.n].new /\ served.refs[b] = wire[t.n].old
    BY <1>1, <2>1 DEF TypeOK, Agrees
  <2>3. wire'[t.n].took # wire[t.n].took
    BY <2>1 DEF Request
  <2> QED
    BY <2>1, <2>2, <2>3 DEF WireInv
<1>2. ASSUME NEW p \in Proc, Step(p) PROVE served' = served
  BY <1>2, StepEffects
<1>3. ASSUME NEW n \in 1 .. Len(wire), Deliver(n) PROVE served' = served
  BY <1>3, DeliverProperties
<1>4. ASSUME NEW t \in threads, Ingest(t) \/ TakeBack(t) PROVE served'.refs = served.refs
  BY <1>4, IngestProperties, TakeBackProperties
<1> QED
  BY <1>1, <1>2, <1>3, <1>4 DEF Next, vars, Restart

\* What anybody knows of a branch of the server lies behind it.
LEMMA TrackStep ==
    ASSUME ExchangeAssumption, TypeOK, NonceInv, ThreadInv, HeldInv, LocalInv, WireInv, TrackInv,
           [Next]_vars
    PROVE  TrackInv'
<1> SUFFICES ASSUME ~Forced
             PROVE  TrackInv'
  BY ForcedStays DEF TrackInv
<1>1. \A b \in Ref : served.refs[b] \in History({served'.refs[b]})
  <2> SUFFICES ASSUME NEW b \in Ref PROVE served.refs[b] \in History({served'.refs[b]})
    OBVIOUS
  <2>1. served.refs[b] \in History({served.refs[b]})
    BY HistoryIsClosed DEF TypeOK
  <2> QED
    BY <2>1, ServedAdvances DEF Forced, Sent
<1>2. \A c, b : b \in Ref /\ c \in History({served.refs[b]}) => c \in History({served'.refs[b]})
  BY <1>1, HistoryIsTransitive
<1>3. /\ \A r \in Repo, b \in Ref :
           repos[r].remotes[b] # None => repos[r].remotes[b] \in History({served.refs[b]})
      /\ \A p \in Proc, b \in Ref : Fetching(p) =>
           /\ cmd[p].new[b] \in History({served.refs[b]})
           /\ cmd[p].old[b] # None => cmd[p].old[b] \in History({cmd[p].new[b]})
  BY DEF TrackInv
<1>4. ASSUME repos' = repos, cmd' = cmd PROVE TrackInv'
  BY <1>2, <1>3, <1>4 DEF TrackInv, Fetching
<1>5. ASSUME NEW p \in Proc, Step(p) PROVE TrackInv'
  <2>1. /\ \A q \in Proc \ {p} : cmd'[q] = cmd[q]
        /\ \A r \in Repo \ {Home[p]} : repos'[r] = repos[r]
        /\ Fetching(p)' =>
             \/ /\ FetchList(p) \/ CloneList(p)
                /\ cmd'[p].new = served.refs
                /\ cmd'[p].old = IF FetchList(p) THEN Here(p).remotes ELSE NoRefs
             \/ /\ Fetching(p)
                /\ cmd'[p].new = cmd[p].new /\ cmd'[p].old = cmd[p].old
    BY <1>5, StepEffects
  <2>2. ASSUME NEW r \in Repo, NEW b \in Ref, repos'[r].remotes[b] # None
        PROVE  repos'[r].remotes[b] \in History({served'.refs[b]})
    <3>1. CASE r # Home[p] \/ repos'[r].remotes[b] = repos[r].remotes[b]
      BY <1>2, <1>3, <2>1, <2>2, <3>1, ZenonT(60)
    <3>2. CASE r = Home[p] /\ Fetching(p) /\ repos'[r].remotes[b] = cmd[p].new[b]
      BY <1>2, <1>3, <3>2
    <3> QED
      BY <1>5, <3>1, <3>2, RemoteMoves DEF Here
  <2>3. ASSUME NEW q \in Proc, NEW b \in Ref, Fetching(q)'
        PROVE  /\ cmd'[q].new[b] \in History({served'.refs[b]})
               /\ cmd'[q].old[b] # None => cmd'[q].old[b] \in History({cmd'[q].new[b]})
    <3>1. CASE Fetching(q) /\ cmd'[q].new = cmd[q].new /\ cmd'[q].old = cmd[q].old
      BY <1>2, <1>3, <3>1
    <3>2. CASE /\ q = p /\ cmd'[p].new = served.refs
               /\ cmd'[p].old = IF FetchList(p) THEN Here(p).remotes ELSE NoRefs
      <4>1. NoRefs[b] = None /\ Home[p] \in Repo
        BY DEF NoRefs, ExchangeAssumption
      <4> QED
        BY <1>1, <1>3, <3>2, <4>1 DEF Here
    <3> QED
      BY <2>1, <2>3, <3>1, <3>2 DEF Fetching
  <2> QED
    BY <2>2, <2>3 DEF TrackInv, Fetching
<1> QED
  BY <1>4, <1>5, ServerKeeps DEF Next, vars, Restart

-----------------------------------------------------------------------------
(* The theorems.                                                           *)

\* The invariant holds when the server has one commit and the clones have it.
LEMMA ExchangeInit ==
    ASSUME ExchangeAssumption, Init
    PROVE  ExchangeInv
<1>1. Root \in Commit /\ Root # None /\ NoRefs \in Refs
  BY DEF ExchangeAssumption, NoRefs, Refs
<1> DEFINE clone == [Empty EXCEPT !.heads = served.refs, !.remotes = served.refs, !.odb = {Root}]
<1>2. /\ served = [refs |-> [b \in Ref |-> Root], odb |-> {Root}]
      /\ nonces = <<>> /\ wire = <<>> /\ threads = {} /\ cmd = [p \in Proc |-> Idle]
      /\ repos = [r \in Repo |-> IF r \in Clones THEN clone ELSE Absent]
  BY DEF Init
<1> HIDE DEF clone
<1>3. clone \in Repository /\ clone.heads = served.refs /\ clone.remotes = served.refs
      /\ clone.odb = {Root} /\ clone.made
  BY <1>1, <1>2 DEF clone, Empty, Repository, Refs
<1>4. Absent \in Repository /\ Absent.heads = NoRefs /\ Absent.remotes = NoRefs
  BY <1>1 DEF Absent, Empty, Repository
<1>5. served.refs = [b \in Ref |-> Root] /\ served.odb = {Root} /\ Len(wire) = 0
      /\ \A r \in Repo : repos[r] = clone \/ repos[r] = Absent
  BY <1>2
<1>6. TypeOK
  <2>1. served \in [refs : [Ref -> Commit], odb : SUBSET Commit]
    BY <1>1, <1>2
  <2>2. cmd \in [Proc -> Command]
    BY <1>2 DEF Command
  <2>3. repos \in [Repo -> Repository]
    BY <1>2, <1>3, <1>4
  <2>4. <<>> \in Seq(1 .. Len(wire)) /\ <<>> \in Seq(Request \cup {None})
    BY EmptySeq
  <2> QED
    BY <1>2, <2>1, <2>2, <2>3, <2>4 DEF TypeOK
<1>7. \A p \in Proc : ~AtTold(p) /\ ~Fetching(p)
  BY <1>2 DEF AtTold, Fetching, Idle
<1>8. \A n : ~Sent(n)
  BY <1>5 DEF Sent
<1>9. NonceInv
  BY <1>2, <1>7, <1>8 DEF NonceInv, Distinct
<1>10. Closed(Commit, {Root}) /\ Tips(served.refs) \subseteq {Root} /\ Tips(NoRefs) = {}
  BY <1>5 DEF Closed, Tips, NoRefs, ExchangeAssumption
<1>11. /\ Settled = {Root} /\ ThreadInv /\ HeldInv /\ ServedInv
  <2>1. Settled = {Root}
    BY <1>1, <1>8 DEF Settled
  <2>2. threads = {} /\ Root \in served.odb
    BY <1>2
  <2> QED
    BY <1>7, <1>8, <1>10, <2>1, <2>2 DEF ServedInv, ThreadInv, HeldInv, Held
<1>12. LocalInv
  <2>1. ASSUME NEW r \in Repo, NEW c \in Tips(repos[r].heads) \cup Tips(repos[r].remotes)
        PROVE  Between(repos[r].odb, c)
    <3>1. c = Root
      BY <1>3, <1>4, <1>5, <1>10, <2>1
    <3>2. History({Root}) \subseteq {Root}
      BY <1>1, <1>10, HistoryIsLeast
    <3> QED
      BY <1>11, <3>1, <3>2 DEF Between
  <2>2. \A r \in Repo : repos[r].made \/ repos[r] = Absent
    BY <1>3, <1>5
  <2> QED
    BY <1>7, <2>1, <2>2 DEF LocalInv
<1>13. WireInv
  BY <1>8 DEF WireInv
<1>14. TrackInv
  <2>1. ASSUME NEW r \in Repo, NEW b \in Ref, repos[r].remotes[b] # None
        PROVE  repos[r].remotes[b] \in History({served.refs[b]})
    <3>1. repos[r].remotes[b] = Root /\ served.refs[b] = Root
      BY <1>3, <1>4, <1>5, <2>1 DEF NoRefs
    <3> QED
      BY <1>1, <3>1, HistoryIsClosed
  <2> QED
    BY <1>7, <2>1 DEF TrackInv
<1> QED
  BY <1>6, <1>9, <1>11, <1>12, <1>13, <1>14 DEF ExchangeInv

LEMMA ExchangeStep ==
    ASSUME ExchangeAssumption, ExchangeInv, [Next]_vars
    PROVE  ExchangeInv'
  BY TypeStep, NonceStep, ThreadStep, ServedStep, HeldStep, LocalStep, WireStep, TrackStep
  DEF ExchangeInv

\* The invariant is reached by every behaviour.
THEOREM ExchangeInvariant == Spec => []ExchangeInv
<1>1. Init => ExchangeInv
  BY ExchangeAssumption, ExchangeInit
<1>2. ExchangeInv /\ [Next]_vars => ExchangeInv'
  BY ExchangeAssumption, ExchangeStep
<1> QED
  BY <1>1, <1>2, PTL DEF Spec

\* What a command holds, and a request carries, is of its type.
THEOREM ExchangeTypes == Spec => []TypeOK
<1>1. ExchangeInv => TypeOK
  BY DEF ExchangeInv
<1> QED
  BY <1>1, ExchangeInvariant, PTL

\* However often a signed request arrives, in whatever order and with whatever
\* restarts of the server between, it takes effect once (NonceTable).
THEOREM SignedPushesTakeOnce == Spec => []SignedOnce
<1>1. ExchangeInv => SignedOnce
  BY DEF ExchangeInv, NonceInv, SignedOnce, Sent
<1> QED
  BY <1>1, ExchangeInvariant, PTL

\* What is behind a branch of the server is on the server, unless it came twice:
\* no rewind takes what one push brought alone and a ref needs, and no pack leaves
\* out what the server was not given (build_pack_for_push, handle_receive_pack).
THEOREM LossNeedsDoubling == Spec => []OnlyTheDoubledIsLost
<1>1. ASSUME ExchangeInv PROVE OnlyTheDoubledIsLost
  <2>1. /\ Settled \in SUBSET Commit /\ Closed(Commit, Settled)
        /\ Tips(served.refs) \subseteq Settled /\ \A c \in Settled : Held(c)
    BY <1>1 DEF ExchangeInv, ServedInv, HeldInv, Settled
  <2>2. History(Tips(served.refs)) \subseteq Settled
    BY <2>1, HistoryIsLeast
  <2> QED
    BY <2>1, <2>2 DEF OnlyTheDoubledIsLost, Held
<1> QED
  BY <1>1, ExchangeInvariant, PTL

\* A push that is not forced loses no commit of the branch, however the advertised
\* tip has gone stale (ensure_fast_forward, commit_ref_updates).
THEOREM NoUpdateIsLost == Spec => NoLostUpdate
<1>1. ASSUME ExchangeInv, [Next]_vars, NEW b \in Ref
      PROVE  \/ served'.refs[b] = served.refs[b]
             \/ served.refs[b] \in History({served'.refs[b]})
             \/ \E n \in 1 .. Len(wire) : wire[n] # None /\ wire[n].force /\ wire'[n] # wire[n]
  BY <1>1, ServedAdvances, ExchangeAssumption DEF ExchangeInv, Sent
<1>2. ExchangeInv /\ [Next]_vars =>
        [\A b \in Ref :
           \/ served'.refs[b] = served.refs[b]
           \/ served.refs[b] \in History({served'.refs[b]})
           \/ \E n \in 1 .. Len(wire) : wire[n] # None /\ wire[n].force /\ wire'[n] # wire[n]]_vars
  BY <1>1
<1> QED
  BY <1>2, ExchangeInvariant, PTL DEF Spec, NoLostUpdate

\* Overlapping fetches of one repository never take a tracking ref back (fetch()).
THEOREM TrackingNeverGoesBack == Spec => TrackingAdvances
<1>1. ASSUME ExchangeInv, [Next]_vars, NEW r \in Repo, NEW b \in Ref
      PROVE  LET was == repos[r].remotes[b]
             IN  was \in {None, repos'[r].remotes[b]} \/ Forced \/ was \in History({repos'[r].remotes[b]})
  <2>1. ASSUME NEW p \in Proc, Step(p)
        PROVE  LET was == repos[r].remotes[b]
               IN  was \in {None, repos'[r].remotes[b]} \/ Forced \/ was \in History({repos'[r].remotes[b]})
    <3>1. CASE r = Home[p]
      <4>1. \/ repos'[r].remotes[b] = repos[r].remotes[b]
            \/ /\ Fetching(p)
               /\ repos[r].remotes[b] = cmd[p].old[b]
               /\ repos'[r].remotes[b] = cmd[p].new[b]
        BY <1>1, <2>1, <3>1, RemoteMoves, ExchangeAssumption DEF ExchangeInv, Here
      <4> QED
        BY <1>1, <4>1 DEF ExchangeInv, TrackInv
    <3>2. CASE r # Home[p]
      BY <1>1, <2>1, <3>2, StepEffects, ExchangeAssumption DEF ExchangeInv
    <3> QED
      BY <3>1, <3>2
  <2>2. /\ \A n \in 1 .. Len(wire) : Deliver(n) => repos' = repos
        /\ \A t \in threads : Ingest(t) \/ CommitRef(t) \/ TakeBack(t) => repos' = repos
    BY <1>1, ServerKeeps, ExchangeAssumption DEF ExchangeInv
  <2> QED
    BY <1>1, <2>1, <2>2 DEF Next, vars, Restart
<1>2. ExchangeInv /\ [Next]_vars =>
        [\A r \in Repo, b \in Ref :
           LET was == repos[r].remotes[b]
           IN  was \in {None, repos'[r].remotes[b]} \/ Forced \/ was \in History({repos'[r].remotes[b]})]_vars
  BY <1>1
<1> QED
  BY <1>2, ExchangeInvariant, PTL DEF Spec, TrackingAdvances

-----------------------------------------------------------------------------
(* ReceivePack: what the proofs ask of the pushes.                         *)

\* A push has put objects in and its fate is open.
Waiting == {"ingested", "gated", "rejected"}
Holding == Waiting \cup {"ingesting"}

\* No two pushes whose fate is open at one time have an object in common.
Apart ==
    \A r, s \in Req :
        r # s /\ pc[r] \in Holding /\ pc[s] \in Holding => Pack(r) \cap Pack(s) = {}

\* No push is rejected that brought a decomposed object: its rewind would fail.
Plain == \A r \in Req : pc[r] = "rejected" => pre[r].tier1 = post[r].tier1

-----------------------------------------------------------------------------
(* The inductive invariant.                                                *)

Tier1s == [file : Seq(Prismatic \cup {Nil}), at : Nat, len : Nat, known : SUBSET Prismatic]
Odbs == [pack : 0 .. MaxRolls, blobs : Seq(Object), map : Seq(Object), tier1 : Tier1s]
States == {"start", "told", "ingesting", "ingested", "gated", "committed", "rejected", "done"}

\* The checkpoints of a push come one after the other; and one request at a time
\* ingests, and has not lost the place where it began.
PlacedWell(r) ==
    /\ pc[r] \in Waiting =>
         /\ pre[r] \in Places /\ post[r] \in Places
         /\ pre[r].map <= post[r].map /\ pre[r].blobs <= post[r].blobs
    /\ pc[r] = "ingesting" =>
         /\ Free(r) /\ pre[r] \in Places
         /\ pre[r].map <= Len(odb.map) /\ pre[r].blobs <= Len(odb.blobs)

TypeInv ==
    /\ odb \in Odbs /\ IsInjective(odb.blobs) /\ IsInjective(odb.map)
    /\ refs \in [RefName -> Tip \cup {Nil}] /\ pc \in [Req -> States]
    /\ seen \in [Req -> [RefName -> Tip \cup {Nil}]]
    /\ pre \in [Req -> Places \cup {Nil}] /\ post \in [Req -> Places \cup {Nil}]
    /\ todo \in [Req -> SUBSET Object] /\ reply \in [Req -> {"ok", "ng", Nil}]
    /\ \A r \in Req : PlacedWell(r)

\* The content and the identities are the same objects; tier1 is in step with its
\* handle and names mapped objects only.
StoreInv ==
    /\ odb.blobs = odb.map
    /\ LET t == odb.tier1
       IN  /\ t.at = Len(t.file) /\ t.len = Len(t.file)
           /\ t.known = Elements(t.file) /\ t.known \subseteq Mapped

\* The checkpoints of a push are of such a store, and what was decomposed since the
\* first one was counted since.
CheckOf(r) ==
    /\ pc[r] \in Holding =>
         /\ pre[r].blobs = pre[r].map /\ pre[r].tier1 <= odb.tier1.len
         /\ pre[r].tier1 = odb.tier1.len =>
              \A i \in DOMAIN odb.map : odb.map[i] \in odb.tier1.known => i <= pre[r].map
    /\ pc[r] \in Waiting => post[r].blobs = post[r].map /\ post[r].tier1 <= odb.tier1.len

\* What a rewind of r would take out of the map.
Takes(r, i) ==
    \/ pc[r] = "ingesting" /\ pre[r].map < i
    \/ pc[r] \in Waiting /\ pre[r].map < i /\ i <= post[r].map

\* A rewind takes objects of the push's own pack.
OwnOf(r) == \A i \in DOMAIN odb.map : Takes(r, i) => odb.map[i] \in Pack(r)

\* The places a push added to the map are within it, as long as they are any, and
\* apart from those of others.
PutNothing(r) == pre[r].map = post[r].map
RangeOf(r) == pc[r] \in Waiting => PutNothing(r) \/ post[r].map <= Len(odb.map)
OrderOf(r, s) ==
    /\ pc[r] \in Waiting /\ pc[s] = "ingesting" => PutNothing(r) \/ post[r].map <= pre[s].map
    /\ pc[r] \in Waiting /\ pc[s] \in Waiting =>
         \/ PutNothing(r) \/ PutNothing(s)
         \/ post[r].map <= pre[s].map \/ post[s].map <= pre[r].map

RewindInv ==
    /\ \A r \in Req : CheckOf(r) /\ OwnOf(r) /\ RangeOf(r)
    /\ \A r \in Req : \A s \in Req \ {r} : OrderOf(r, s)

\* An object is mapped where no rewind of a push outside S can take it.
Kept(o, S) ==
    \E i \in DOMAIN odb.map : odb.map[i] = o /\ \A r \in Req \ S : ~Takes(r, i)

\* No rewind takes what the refs need; what a push was told the server has; or, its
\* own apart, what it has put in or found.
Heard(s) == NeededBy(seen[s])
RefPin(b) == refs[b] # Nil => \A o \in Needs[refs[b]] : Kept(o, {})
PushPin(s) ==
    /\ pc[s] \in {"told", "ingesting", "ingested", "gated"} =>
          \A o \in Heard(s) : Kept(o, {})
    /\ pc[s] \in {"ingesting", "ingested", "gated"} =>
          \A o \in Pack(s) \ todo[s] : Kept(o, {s})
    /\ pc[s] \in {"ingested", "gated"} => todo[s] = {}
    /\ pc[s] = "ingesting" => todo[s] \subseteq Pack(s)
PinInv == (\A b \in RefName : RefPin(b)) /\ \A s \in Req : PushPin(s)

ReceiveInv == TypeInv /\ StoreInv /\ RewindInv /\ PinInv

-----------------------------------------------------------------------------
(* Sequences.                                                              *)

\* What appending one record does to a file.
LEMMA Longer ==
    ASSUME NEW S, NEW s \in Seq(S), NEW e \in S
    PROVE  /\ Append(s, e) \in Seq(S) /\ Len(Append(s, e)) = Len(s) + 1 /\ Len(s) \in Nat
           /\ DOMAIN s = 1 .. Len(s) /\ DOMAIN Append(s, e) = 1 .. Len(s) + 1
           /\ Append(s, e)[Len(s) + 1] = e /\ \A i \in DOMAIN s : Append(s, e)[i] = s[i]
           /\ Elements(Append(s, e)) = Elements(s) \cup {e}
           /\ IsInjective(s) /\ e \notin Elements(s) => IsInjective(Append(s, e))
<1> DEFINE t == Append(s, e)
<1>1. /\ t \in Seq(S) /\ Len(t) = Len(s) + 1 /\ Len(s) \in Nat
      /\ t[Len(s) + 1] = e /\ \A i \in 1 .. Len(s) : t[i] = s[i]
  BY AppendProperties, LenProperties
<1>2. DOMAIN s = 1 .. Len(s)
  BY LenProperties
<1> HIDE DEF t
<1>3. DOMAIN t = 1 .. Len(s) + 1
  BY <1>1, LenProperties
<1>4. \A i \in DOMAIN t : \/ i \in DOMAIN s /\ t[i] = s[i]
                          \/ i = Len(s) + 1 /\ t[i] = e
  BY <1>1, <1>2, <1>3
<1>5. \A i \in DOMAIN s : i \in DOMAIN t /\ t[i] = s[i] /\ i # Len(s) + 1
  BY <1>1, <1>2, <1>3
<1>6. Len(s) + 1 \in DOMAIN t
  BY <1>1, <1>3
<1>7. Elements(t) = Elements(s) \cup {e}
  BY <1>1, <1>4, <1>5, <1>6 DEF Elements
<1>8. ASSUME IsInjective(s), e \notin Elements(s) PROVE IsInjective(t)
  BY <1>4, <1>8 DEF IsInjective, Elements
<1> QED
  BY <1>1, <1>2, <1>3, <1>5, <1>7, <1>8 DEF t

\* What cutting a file to a length does to it.
LEMMA Shorter ==
    ASSUME NEW S, NEW s \in Seq(S), NEW n \in 0 .. Len(s)
    PROVE  /\ SubSeq(s, 1, n) \in Seq(S) /\ Len(SubSeq(s, 1, n)) = n /\ Len(s) \in Nat /\ n \in Nat
           /\ DOMAIN s = 1 .. Len(s) /\ DOMAIN SubSeq(s, 1, n) = 1 .. n
           /\ \A i \in 1 .. n : i \in DOMAIN s /\ SubSeq(s, 1, n)[i] = s[i]
           /\ IsInjective(s) => IsInjective(SubSeq(s, 1, n))
<1> DEFINE t == SubSeq(s, 1, n)
<1>1. Len(s) \in Nat /\ n \in Nat /\ DOMAIN s = 1 .. Len(s)
  BY LenProperties
<1>2. t \in Seq(S) /\ Len(t) = n /\ \A i \in 1 .. n : i \in DOMAIN s /\ t[i] = s[i]
  BY <1>1
<1> HIDE DEF t
<1>3. DOMAIN t = 1 .. n
  BY <1>2, LenProperties
<1>4. IsInjective(s) => IsInjective(t)
  BY <1>2, <1>3 DEF IsInjective
<1> QED
  BY <1>1, <1>2, <1>3, <1>4 DEF t

-----------------------------------------------------------------------------
(* The store.                                                              *)

\* The invariant says of the types what the model does.
LEMMA TypesHold == TypeInv => ReceiveTypeOK
BY DEF TypeInv, PlacedWell, ReceiveTypeOK, Odbs, Tier1s, States, Waiting

\* What the type says of the files.
LEMMA FilesAre ==
    ASSUME ReceivePackAssumption, TypeInv
    PROVE  /\ odb \in Odbs /\ odb.pack \in 0 .. MaxRolls /\ MaxRolls \in Nat
           /\ odb.blobs \in Seq(Object) /\ odb.map \in Seq(Object) /\ odb.tier1 \in Tier1s
           /\ Len(odb.blobs) \in Nat /\ Len(odb.map) \in Nat /\ odb.tier1.len \in Nat
           /\ DOMAIN odb.map = 1 .. Len(odb.map) /\ DOMAIN odb.blobs = 1 .. Len(odb.blobs)
           /\ IsInjective(odb.map) /\ IsInjective(odb.blobs)
           /\ Cursor \in Places
<1>1. /\ odb \in Odbs /\ MaxRolls \in Nat /\ IsInjective(odb.map) /\ IsInjective(odb.blobs)
  BY DEF TypeInv, ReceivePackAssumption
<1>2. /\ odb.pack \in 0 .. MaxRolls /\ odb.blobs \in Seq(Object) /\ odb.map \in Seq(Object)
      /\ odb.tier1 \in Tier1s
  BY <1>1 DEF Odbs
<1>3. odb.tier1.len \in Nat
  BY <1>2 DEF Tier1s
<1>4. /\ Len(odb.blobs) \in Nat /\ Len(odb.map) \in Nat
      /\ DOMAIN odb.map = 1 .. Len(odb.map) /\ DOMAIN odb.blobs = 1 .. Len(odb.blobs)
  BY <1>2, LenProperties
<1> QED
  BY <1>1, <1>2, <1>3, <1>4 DEF Cursor, Places

\* A tier1 record goes to the handle's place (Tier1Map::append).
LEMMA Tier1Longer ==
    ASSUME NEW t \in Tier1s, NEW o \in Prismatic
    PROVE  /\ Tier1Append(t, o) \in Tier1s
           /\ Tier1Append(t, o).len = t.len + 1
           /\ Tier1Append(t, o).known = t.known \cup {o}
           /\ t.at = Len(t.file) => /\ Tier1Append(t, o).at = Len(t.file) + 1
                                    /\ Tier1Append(t, o).file = Append(t.file, o)
<1>1. /\ t.file \in Seq(Prismatic \cup {Nil}) /\ t.at \in Nat /\ t.len \in Nat
      /\ t.known \in SUBSET Prismatic
  BY DEF Tier1s
<1>2. Len(t.file) \in Nat /\ DOMAIN t.file = 1 .. Len(t.file)
  BY <1>1, LenProperties
<1> DEFINE file == IF t.at < Len(t.file) THEN [t.file EXCEPT ![t.at + 1] = o] ELSE Append(t.file, o)
<1>3. file \in Seq(Prismatic \cup {Nil})
  <2>1. CASE t.at < Len(t.file)
    <3>1. [t.file EXCEPT ![t.at + 1] = o] \in Seq(Prismatic \cup {Nil})
      BY <1>1, <1>2, <2>1, ExceptSeq
    <3> QED
      BY <2>1, <3>1
  <2>2. CASE ~(t.at < Len(t.file))
    BY <1>1, <2>2, Longer
  <2> QED
    BY <2>1, <2>2
<1>4. t.at = Len(t.file) => file = Append(t.file, o)
  BY <1>2
<1> HIDE DEF file
<1>5. Tier1Append(t, o) = [file |-> file, at |-> t.at + 1, len |-> t.len + 1,
                           known |-> t.known \cup {o}]
  BY DEF Tier1Append, file
<1>6. t.at + 1 \in Nat /\ t.len + 1 \in Nat /\ t.known \cup {o} \in SUBSET Prismatic
  BY <1>1
<1> QED
  BY <1>3, <1>4, <1>5, <1>6 DEF Tier1s

\* What putting an object does to the files: nothing if it is mapped; else its
\* identity follows, and where they are not there its content and its record.
LEMMA PutIs ==
    ASSUME ReceivePackAssumption, TypeInv, NEW o \in Object
    PROVE  /\ Put(odb, o) \in Odbs /\ Put(odb, o).pack = odb.pack
           /\ o \in Mapped => Put(odb, o) = odb
           /\ o \notin Mapped =>
                /\ Put(odb, o).map = Append(odb.map, o)
                /\ Put(odb, o).blobs =
                     IF Stored(odb, o) \/ o \in Elements(odb.blobs) THEN odb.blobs
                     ELSE Append(odb.blobs, o)
                /\ Put(odb, o).tier1 =
                     IF Stored(odb, o) \/ o \notin Prismatic THEN odb.tier1
                     ELSE Tier1Append(odb.tier1, o)
<1> DEFINE blobs == IF Stored(odb, o) \/ o \in Elements(odb.blobs) THEN odb.blobs
                    ELSE Append(odb.blobs, o)
           tier1 == IF Stored(odb, o) \/ o \notin Prismatic THEN odb.tier1
                    ELSE Tier1Append(odb.tier1, o)
           map == Append(odb.map, o)
           stored == Stored(odb, o)
<1>0. /\ odb \in Odbs /\ odb.blobs \in Seq(Object) /\ odb.map \in Seq(Object)
      /\ odb.tier1 \in Tier1s /\ odb.pack \in 0 .. MaxRolls
  BY FilesAre
<1>1. blobs \in Seq(Object) /\ map \in Seq(Object)
  BY <1>0, Longer
<1>2. tier1 \in Tier1s
  BY <1>0, Tier1Longer
<1>3. ASSUME o \notin Mapped
      PROVE  Put(odb, o) = [pack |-> odb.pack, blobs |-> blobs, map |-> map, tier1 |-> tier1]
  <2>1. Put(odb, o) = [PutBlob(odb, o) EXCEPT !.map = Append(@, o)]
    BY <1>3 DEF Put, Mapped
  <2>2. odb = [pack |-> odb.pack, blobs |-> odb.blobs, map |-> odb.map, tier1 |-> odb.tier1]
    BY <1>0 DEF Odbs
  <2>3. PutBlob(odb, o) = [pack |-> odb.pack, blobs |-> blobs, map |-> odb.map, tier1 |-> tier1]
    <3>1. CASE stored
      <4>1. PutBlob(odb, o) = odb /\ blobs = odb.blobs /\ tier1 = odb.tier1
        BY <3>1 DEF PutBlob
      <4> QED
        BY <2>2, <4>1
    <3>2. CASE ~stored
      <4>1. PutBlob(odb, o) =
              [odb EXCEPT !.blobs = IF o \in Elements(@) THEN @ ELSE Append(@, o),
                          !.tier1 = IF o \in Prismatic THEN Tier1Append(@, o) ELSE @]
        BY <3>2 DEF PutBlob
      <4>2. /\ blobs = IF o \in Elements(odb.blobs) THEN odb.blobs ELSE Append(odb.blobs, o)
            /\ tier1 = IF o \in Prismatic THEN Tier1Append(odb.tier1, o) ELSE odb.tier1
        BY <3>2
      <4> HIDE DEF blobs, tier1
      <4> QED
        BY <1>0, <4>1, <4>2 DEF Odbs
    <3> QED
      BY <3>1, <3>2
  <2> HIDE DEF blobs, tier1
  <2>4. PutBlob(odb, o).map = odb.map
    BY <2>3
  <2>5. Put(odb, o) = [PutBlob(odb, o) EXCEPT !.map = map]
    BY <2>1, <2>4
  <2> HIDE DEF map
  <2> QED
    BY <2>3, <2>5
<1>4. o \in Mapped => Put(odb, o) = odb
  BY DEF Put, Mapped
<1> HIDE DEF blobs, tier1, map
<1>5. o \notin Mapped => Put(odb, o) \in Odbs
  BY <1>0, <1>1, <1>2, <1>3 DEF Odbs
<1>6. Put(odb, o).pack = odb.pack
  BY <1>0, <1>3, <1>4
<1>7. ASSUME o \notin Mapped
      PROVE  Put(odb, o).map = map /\ Put(odb, o).blobs = blobs /\ Put(odb, o).tier1 = tier1
  BY <1>3, <1>7
<1> QED
  BY <1>0, <1>4, <1>5, <1>6, <1>7 DEF blobs, tier1, map


\* A rewind cuts each file to its length in the checkpoint, unless the pack has
\* rolled; it leaves the map if it fails at tier1 (NativeOdb::rewind).
LEMMA RewoundIs ==
    ASSUME ReceivePackAssumption, TypeInv, NEW c \in Places,
           c.map <= Len(odb.map), c.blobs <= Len(odb.blobs)
    PROVE  /\ Rewound(odb, c) \in Odbs
           /\ RolledSince(odb, c) => Rewound(odb, c) = odb
           /\ ~RolledSince(odb, c) =>
                /\ Rewound(odb, c).blobs = SubSeq(odb.blobs, 1, c.blobs)
                /\ Rewound(odb, c).map = IF Tier1Fails(odb, c) THEN odb.map
                                         ELSE SubSeq(odb.map, 1, c.map)
                /\ Rewound(odb, c).tier1 = IF Tier1Fails(odb, c)
                                           THEN [odb.tier1 EXCEPT !.at = c.tier1]
                                           ELSE Tier1Cut(odb.tier1, c)
<1> DEFINE blobs == SubSeq(odb.blobs, 1, c.blobs)
           map == SubSeq(odb.map, 1, c.map)
           cut == Tier1Cut(odb.tier1, c)
           left == [odb.tier1 EXCEPT !.at = c.tier1]
<1>0. /\ odb \in Odbs /\ odb.blobs \in Seq(Object) /\ odb.map \in Seq(Object)
      /\ odb.tier1 \in Tier1s /\ odb.pack \in 0 .. MaxRolls
      /\ c.map \in 0 .. Len(odb.map) /\ c.blobs \in 0 .. Len(odb.blobs) /\ c.tier1 \in Nat
  BY FilesAre DEF Places
<1>1. blobs \in Seq(Object) /\ map \in Seq(Object)
  BY <1>0, Shorter
<1>2. left \in Tier1s
  BY <1>0 DEF Tier1s
<1>3. cut \in Tier1s
  <2> DEFINE S == Prismatic \cup {Nil}
             e(i) == IF i <= Len(odb.tier1.file) THEN odb.tier1.file[i] ELSE Nil
             file == [i \in 1 .. c.tier1 |-> e(i)]
  <2>1. odb.tier1.file \in Seq(S) /\ Len(odb.tier1.file) \in Nat
        /\ DOMAIN odb.tier1.file = 1 .. Len(odb.tier1.file)
    BY <1>0, LenProperties DEF Tier1s
  <2>2. \A i \in 1 .. c.tier1 : e(i) \in S
    <3>1. \A i \in 1 .. c.tier1 : i <= Len(odb.tier1.file) => i \in 1 .. Len(odb.tier1.file)
      BY <1>0, <2>1
    <3>2. \A i \in 1 .. Len(odb.tier1.file) : odb.tier1.file[i] \in S
      <4> HIDE DEF S
      <4> QED
        BY <2>1, ElementOfSeq
    <3> QED
      BY <3>1, <3>2
  <2>3. file \in Seq(S)
    <3> HIDE DEF S, e
    <3>1. PICK n \in Nat : n = c.tier1
      BY <1>0
    <3>2. file = [i \in 1 .. n |-> e(i)] /\ \A i \in 1 .. n : e(i) \in S
      BY <2>2, <3>1
    <3> HIDE DEF file
    <3> QED
      BY <3>2
  <2>4. cut = [odb.tier1 EXCEPT !.file = file, !.at = c.tier1]
    BY DEF Tier1Cut
  <2> HIDE DEF file
  <2> QED
    BY <1>0, <2>3, <2>4 DEF Tier1s
<1>4. RolledSince(odb, c) => Rewound(odb, c) = odb
  BY DEF Rewound
<1>5. ASSUME ~RolledSince(odb, c), Tier1Fails(odb, c)
      PROVE  /\ Rewound(odb, c) \in Odbs /\ Rewound(odb, c).blobs = blobs
             /\ Rewound(odb, c).map = odb.map /\ Rewound(odb, c).tier1 = left
  <2>1. Rewound(odb, c) = [odb EXCEPT !.blobs = blobs, !.tier1 = left]
    <3>1. Rewound(odb, c) = [odb EXCEPT !.blobs = SubSeq(@, 1, c.blobs), !.tier1.at = c.tier1]
      BY <1>5 DEF Rewound
    <3> QED
      BY <1>0, <3>1 DEF Odbs, Tier1s
  <2> HIDE DEF blobs, left
  <2> QED
    BY <1>0, <1>1, <1>2, <2>1 DEF Odbs
<1>6. ASSUME ~RolledSince(odb, c), ~Tier1Fails(odb, c)
      PROVE  /\ Rewound(odb, c) \in Odbs /\ Rewound(odb, c).blobs = blobs
             /\ Rewound(odb, c).map = map /\ Rewound(odb, c).tier1 = cut
  <2>1. Rewound(odb, c) = [odb EXCEPT !.blobs = blobs, !.tier1 = cut, !.map = map]
    BY <1>6 DEF Rewound
  <2> HIDE DEF blobs, cut, map
  <2> QED
    BY <1>0, <1>1, <1>3, <2>1 DEF Odbs
<1> HIDE DEF blobs, cut, map, left
<1>7. Rewound(odb, c) \in Odbs
  BY <1>0, <1>4, <1>5, <1>6
<1>8. ~RolledSince(odb, c) =>
                /\ Rewound(odb, c).blobs = blobs
                /\ Rewound(odb, c).map = IF Tier1Fails(odb, c) THEN odb.map ELSE map
                /\ Rewound(odb, c).tier1 = IF Tier1Fails(odb, c) THEN left ELSE cut
  BY <1>5, <1>6
<1> QED
  BY <1>4, <1>7, <1>8 DEF blobs, cut, map, left

-----------------------------------------------------------------------------
(* Every step keeps the types.                                             *)


\* A step that leaves the files alone and makes no push hold or ingest keeps the types.
LEMMA QuietTypes ==
    ASSUME TypeInv, NEW r \in Req, NEW from \in States, NEW to \in States,
           pc[r] = from, pc' = [pc EXCEPT ![r] = to],
           to # "ingesting", to \in Waiting => from \in Waiting,
           odb' = odb, pre' = pre, post' = post,
           refs' \in [RefName -> Tip \cup {Nil}],
           seen' \in [Req -> [RefName -> Tip \cup {Nil}]],
           todo' \in [Req -> SUBSET Object], reply' \in [Req -> {"ok", "ng", Nil}]
    PROVE  TypeInv'
<1>1. pc' \in [Req -> States] /\ pc'[r] = to /\ \A q \in Req \ {r} : pc'[q] = pc[q]
  BY DEF TypeInv
<1>2. ASSUME NEW q \in Req PROVE PlacedWell(q)'
  <2>1. PlacedWell(q)
    BY DEF TypeInv
  <2>2. pc'[q] \in Waiting => pc[q] \in Waiting
    BY <1>1
  <2>3. pc'[q] = "ingesting" => pc[q] = "ingesting"
    BY <1>1
  <2>4. pc'[q] = "ingesting" => Free(q)'
    <3>1. pc[q] = "ingesting" => \A s \in Req \ {q} : pc[s] # "ingesting"
      BY <2>1 DEF PlacedWell, Free
    <3>2. \A s \in Req : pc'[s] = "ingesting" => pc[s] = "ingesting"
      BY <1>1
    <3> QED
      BY <2>3, <3>1, <3>2 DEF Free
  <2> QED
    BY <2>1, <2>2, <2>3, <2>4 DEF PlacedWell
<1> QED
  BY <1>1, <1>2 DEF TypeInv

\* The pack of a push is of objects.
LEMMA PackIs ==
    ASSUME ReceivePackAssumption, NEW r \in Req
    PROVE  Pack(r) \in SUBSET Object
BY DEF ReceivePackAssumption, Pack

\* Every step keeps the types.
LEMMA StepTypes ==
    ASSUME ReceivePackAssumption, TypeInv, ReceiveNext
    PROVE  TypeInv'
<1>0. /\ odb \in Odbs /\ IsInjective(odb.blobs) /\ IsInjective(odb.map)
      /\ refs \in [RefName -> Tip \cup {Nil}] /\ pc \in [Req -> States]
      /\ seen \in [Req -> [RefName -> Tip \cup {Nil}]]
      /\ pre \in [Req -> Places \cup {Nil}] /\ post \in [Req -> Places \cup {Nil}]
      /\ todo \in [Req -> SUBSET Object] /\ reply \in [Req -> {"ok", "ng", Nil}]
      /\ \A q \in Req : PlacedWell(q)
  BY DEF TypeInv
<1>f. /\ Cursor \in Places /\ Cursor.map = Len(odb.map) /\ Cursor.blobs = Len(odb.blobs)
      /\ Len(odb.map) \in Nat /\ Len(odb.blobs) \in Nat
  BY FilesAre DEF Cursor
<1>s. \A w \in States : w \in States
  OBVIOUS
<1>1. ASSUME NEW r \in Req, Advertise(r) PROVE TypeInv'
  <2>1. /\ pc[r] = "start" /\ pc' = [pc EXCEPT ![r] = "told"] /\ odb' = odb /\ pre' = pre
        /\ post' = post /\ refs' = refs /\ todo' = todo /\ reply' = reply
        /\ seen' = [seen EXCEPT ![r] = refs]
    BY <1>1 DEF Advertise, Proceed
  <2>2. seen' \in [Req -> [RefName -> Tip \cup {Nil}]]
    BY <1>0, <2>1
  <2>3. "told" \in States /\ "start" \in States /\ "told" \notin Waiting
    BY DEF States, Waiting
  <2> QED
    BY <1>0, <2>1, <2>2, <2>3, QuietTypes
<1>2. ASSUME NEW r \in Req,
             CommitGate(r) \/ CommitGateOpen(r) \/ RefuseRefs(r) \/ CommitRefs(r) \/ Await(r)
      PROVE  TypeInv'
  <2>1. /\ odb' = odb /\ pre' = pre /\ post' = post /\ seen' = seen /\ todo' = todo
    BY <1>2 DEF CommitGate, CommitGateOpen, RefuseRefs, CommitRefs, Await
  <2>2. refs' \in [RefName -> Tip \cup {Nil}]
    <3>1. CASE CommitRefs(r)
      <4>1. Push[r].ref \in RefName /\ Push[r].new \in Tip \cup {Nil}
        BY DEF ReceivePackAssumption
      <4> QED
        BY <1>0, <3>1, <4>1 DEF CommitRefs
    <3>2. CASE ~CommitRefs(r)
      <4>1. refs' = refs
        BY <1>2, <3>2 DEF CommitGate, CommitGateOpen, RefuseRefs, Await
      <4> QED
        BY <1>0, <4>1
    <3> QED
      BY <3>1, <3>2
  <2>3. reply' \in [Req -> {"ok", "ng", Nil}]
    <3>1. CASE Await(r)
      BY <1>0, <3>1 DEF Await
    <3>2. CASE ~Await(r)
      <4>1. reply' = reply
        BY <1>2, <3>2 DEF CommitGate, CommitGateOpen, RefuseRefs, CommitRefs
      <4> QED
        BY <1>0, <4>1
    <3> QED
      BY <3>1, <3>2
  <2>4. \E from, to \in States : /\ pc[r] = from /\ pc' = [pc EXCEPT ![r] = to]
                                 /\ to # "ingesting"
                                 /\ to \in Waiting => from \in Waiting
    <3>1. \E to \in {"gated", "rejected", "committed", "done"} :
             /\ pc[r] \in {"ingested", "gated", "committed"} /\ pc' = [pc EXCEPT ![r] = to]
             /\ to \in {"gated", "rejected"} => pc[r] \in {"ingested", "gated"}
      <4>1. CASE CommitGate(r) \/ CommitGateOpen(r)
        BY <4>1 DEF CommitGate, CommitGateOpen, Proceed
      <4>2. CASE RefuseRefs(r) \/ CommitRefs(r)
        BY <4>2 DEF RefuseRefs, CommitRefs, Proceed
      <4>3. CASE Await(r)
        BY <4>3 DEF Await, Proceed
      <4> QED
        BY <1>2, <4>1, <4>2, <4>3
    <3> QED
      BY <3>1 DEF States, Waiting
  <2> QED
    BY <1>0, <2>1, <2>2, <2>3, <2>4, QuietTypes
<1>3. ASSUME NEW r \in Req, SignatureBlock(r) PROVE TypeInv'
  <2>1. /\ pc' = [pc EXCEPT ![r] = "rejected"] /\ odb' = odb /\ refs' = refs /\ seen' = seen
        /\ pre' = [pre EXCEPT ![r] = Cursor] /\ post' = [post EXCEPT ![r] = Cursor]
        /\ todo' = todo /\ reply' = reply /\ pc[r] = "told"
    BY <1>3 DEF SignatureBlock, Proceed
  <2>2. /\ pc' \in [Req -> States] /\ pre' \in [Req -> Places \cup {Nil}]
        /\ post' \in [Req -> Places \cup {Nil}] /\ pc'[r] = "rejected"
        /\ pre'[r] = Cursor /\ post'[r] = Cursor
        /\ \A q \in Req \ {r} : pc'[q] = pc[q] /\ pre'[q] = pre[q] /\ post'[q] = post[q]
    <3>1. "rejected" \in States
      BY DEF States
    <3> QED
      BY <1>0, <1>f, <2>1, <3>1
  <2>3. PlacedWell(r)'
    <3>1. Cursor.map <= Cursor.map /\ Cursor.blobs <= Cursor.blobs
      BY <1>f
    <3> QED
      BY <1>f, <2>2, <3>1 DEF PlacedWell
  <2>4. ASSUME NEW q \in Req \ {r} PROVE PlacedWell(q)'
    <3>1. PlacedWell(q) /\ (Free(q) => Free(q)')
      BY <1>0, <2>2 DEF Free
    <3> QED
      BY <2>1, <2>2, <3>1 DEF PlacedWell
  <2> QED
    BY <1>0, <2>1, <2>2, <2>3, <2>4 DEF TypeInv
<1>4. ASSUME NEW r \in Req, StartIngest(r) PROVE TypeInv'
  <2>1. /\ pc' = [pc EXCEPT ![r] = "ingesting"] /\ odb' = odb /\ refs' = refs /\ seen' = seen
        /\ pre' = [pre EXCEPT ![r] = Cursor] /\ post' = post /\ reply' = reply
        /\ todo' = [todo EXCEPT ![r] = Pack(r)] /\ Free(r)
    BY <1>4 DEF StartIngest, Proceed
  <2>2. /\ pc' \in [Req -> States] /\ pre' \in [Req -> Places \cup {Nil}]
        /\ pc'[r] = "ingesting" /\ pre'[r] = Cursor /\ todo' \in [Req -> SUBSET Object]
        /\ \A q \in Req \ {r} : pc'[q] = pc[q] /\ pre'[q] = pre[q]
    <3>1. "ingesting" \in States
      BY DEF States
    <3>2. Pack(r) \in SUBSET Object
      BY PackIs
    <3> QED
      BY <1>0, <1>f, <2>1, <3>1, <3>2
  <2>3. PlacedWell(r)'
    <3>1. Cursor.map <= Len(odb.map) /\ Cursor.blobs <= Len(odb.blobs)
      BY <1>f
    <3>2. Free(r)'
      BY <2>1, <2>2 DEF Free
    <3> QED
      BY <1>f, <2>1, <2>2, <3>1, <3>2 DEF PlacedWell, Waiting
  <2>4. ASSUME NEW q \in Req \ {r} PROVE PlacedWell(q)'
    <3>1. PlacedWell(q) /\ pc'[q] # "ingesting"
      BY <1>0, <2>1, <2>2 DEF Free
    <3> QED
      BY <2>1, <2>2, <3>1 DEF PlacedWell
  <2> QED
    BY <1>0, <2>1, <2>2, <2>3, <2>4 DEF TypeInv
<1>5. ASSUME NEW r \in Req, PutNext(r) PROVE TypeInv'
  <2>1. PICK o \in todo[r], pack \in {odb.pack, odb.pack + 1} :
           /\ pack <= MaxRolls
           /\ odb' = [Put(odb, o) EXCEPT !.pack = pack] /\ todo' = [todo EXCEPT ![r] = @ \ {o}]
    BY <1>5 DEF PutNext
  <2>2. /\ pc[r] = "ingesting" /\ pc' = pc /\ refs' = refs /\ seen' = seen /\ pre' = pre
        /\ post' = post /\ reply' = reply
    BY <1>5 DEF PutNext
  <2>3. o \in Object /\ todo' \in [Req -> SUBSET Object] /\ pack \in 0 .. MaxRolls
    <3>1. odb.pack \in 0 .. MaxRolls /\ MaxRolls \in Nat
      BY FilesAre
    <3> QED
      BY <1>0, <2>1, <3>1
  <2>4. /\ odb' \in Odbs /\ odb'.blobs = Put(odb, o).blobs /\ odb'.map = Put(odb, o).map
    <3>1. Put(odb, o) \in Odbs
      BY <2>3, PutIs
    <3> QED
      BY <2>1, <2>3, <3>1 DEF Odbs
  <2>5. /\ IsInjective(odb'.map) /\ Len(odb.map) <= Len(odb'.map)
        /\ IsInjective(odb'.blobs) /\ Len(odb.blobs) <= Len(odb'.blobs)
    <3>1. odb.map \in Seq(Object) /\ odb.blobs \in Seq(Object)
      BY FilesAre
    <3>2. CASE o \in Mapped
      BY <1>0, <1>f, <2>3, <2>4, <3>2, PutIs
    <3>3. CASE o \notin Mapped
      <4>1. /\ odb'.map = Append(odb.map, o)
            /\ \/ odb'.blobs = odb.blobs
               \/ o \notin Elements(odb.blobs) /\ odb'.blobs = Append(odb.blobs, o)
        BY <2>3, <2>4, <3>3, PutIs
      <4>2. IsInjective(Append(odb.map, o)) /\ Len(Append(odb.map, o)) = Len(odb.map) + 1
        BY <1>0, <2>3, <3>1, <3>3, Longer DEF Mapped
      <4>3. o \notin Elements(odb.blobs) => /\ IsInjective(Append(odb.blobs, o))
                                            /\ Len(Append(odb.blobs, o)) = Len(odb.blobs) + 1
        BY <1>0, <2>3, <3>1, Longer
      <4>4. IsInjective(odb'.map) /\ Len(odb.map) <= Len(odb'.map)
        BY <1>f, <4>1, <4>2
      <4>5. IsInjective(odb'.blobs) /\ Len(odb.blobs) <= Len(odb'.blobs)
        <5>1. CASE odb'.blobs = odb.blobs
          BY <1>0, <1>f, <5>1
        <5>2. CASE o \notin Elements(odb.blobs) /\ odb'.blobs = Append(odb.blobs, o)
          <6>1. IsInjective(odb'.blobs) /\ Len(odb'.blobs) = Len(odb.blobs) + 1
            BY <4>3, <5>2
          <6> QED
            BY <1>f, <6>1
        <5> QED
          BY <4>1, <5>1, <5>2
      <4> QED
        BY <4>4, <4>5
    <3> QED
      BY <3>2, <3>3
  <2>6. Len(odb'.map) \in Nat /\ Len(odb'.blobs) \in Nat
    <3>1. odb'.map \in Seq(Object) /\ odb'.blobs \in Seq(Object)
      BY <2>4 DEF Odbs
    <3> QED
      BY <3>1, LenProperties
  <2>7. ASSUME NEW q \in Req PROVE PlacedWell(q)'
    <3>1. PlacedWell(q) /\ (Free(q) => Free(q)')
      BY <1>0, <2>2 DEF Free
    <3>2. pc[q] = "ingesting" => /\ pre[q].map \in Nat /\ pre[q].blobs \in Nat
                                 /\ pre[q].map <= Len(odb.map) /\ pre[q].blobs <= Len(odb.blobs)
      BY <3>1 DEF PlacedWell, Places
    <3>3. pc[q] = "ingesting" => pre[q].map <= Len(odb'.map) /\ pre[q].blobs <= Len(odb'.blobs)
      BY <1>f, <2>5, <2>6, <3>2
    <3> QED
      BY <2>2, <3>1, <3>3 DEF PlacedWell
  <2> QED
    BY <1>0, <2>2, <2>3, <2>4, <2>5, <2>7 DEF TypeInv
<1>6. ASSUME NEW r \in Req, EndIngest(r) PROVE TypeInv'
  <2>1. /\ pc[r] = "ingesting" /\ odb' = odb /\ refs' = refs /\ seen' = seen /\ pre' = pre
        /\ post' = [post EXCEPT ![r] = Cursor] /\ todo' = [todo EXCEPT ![r] = {}] /\ reply' = reply
        /\ \E to \in {"ingested", "rejected"} : pc' = [pc EXCEPT ![r] = to]
    BY <1>6 DEF EndIngest, Proceed
  <2>2. /\ pc' \in [Req -> States] /\ post' \in [Req -> Places \cup {Nil}]
        /\ pc'[r] \in Waiting /\ post'[r] = Cursor /\ todo' \in [Req -> SUBSET Object]
        /\ \A q \in Req \ {r} : pc'[q] = pc[q] /\ post'[q] = post[q]
    <3>1. "rejected" \in States \cap Waiting /\ "ingested" \in States \cap Waiting
      BY DEF States, Waiting
    <3> QED
      BY <1>0, <1>f, <2>1, <3>1
  <2>3. PlacedWell(r)'
    <3>1. PlacedWell(r) /\ "ingesting" \notin Waiting
      BY <1>0 DEF Waiting
    <3> QED
      BY <1>f, <2>1, <2>2, <3>1 DEF PlacedWell
  <2>4. ASSUME NEW q \in Req \ {r} PROVE PlacedWell(q)'
    <3>1. PlacedWell(q) /\ pc'[q] # "ingesting"
      <4>1. PlacedWell(r)
        BY <1>0
      <4> QED
        BY <1>0, <2>1, <2>2, <4>1 DEF PlacedWell, Free
    <3> QED
      BY <2>1, <2>2, <3>1 DEF PlacedWell
  <2> QED
    BY <1>0, <2>1, <2>2, <2>3, <2>4 DEF TypeInv
<1>7. ASSUME NEW r \in Req, RollBack(r) PROVE TypeInv'
  <2>1. /\ pc[r] = "rejected" /\ pc' = [pc EXCEPT ![r] = "done"] /\ Free(r)
        /\ odb' = IF Cursor = post[r] THEN Rewound(odb, pre[r]) ELSE odb
        /\ reply' = [reply EXCEPT ![r] = "ng"] /\ refs' = refs /\ seen' = seen
        /\ pre' = pre /\ post' = post /\ todo' = todo
    BY <1>7 DEF RollBack, Proceed
  <2>2. /\ pc' \in [Req -> States] /\ pc'[r] = "done" /\ reply' \in [Req -> {"ok", "ng", Nil}]
        /\ \A q \in Req \ {r} : pc'[q] = pc[q]
    <3>1. "done" \in States
      BY DEF States
    <3> QED
      BY <1>0, <2>1, <3>1
  <2>3. odb' \in Odbs /\ IsInjective(odb'.map) /\ IsInjective(odb'.blobs)
    <3>1. CASE Cursor = post[r]
      <4>1. /\ pre[r] \in Places /\ pre[r].map <= Len(odb.map) /\ pre[r].blobs <= Len(odb.blobs)
        BY <1>0, <1>f, <2>1, <3>1 DEF PlacedWell, Waiting
      <4>2. /\ odb.map \in Seq(Object) /\ odb.blobs \in Seq(Object)
            /\ pre[r].map \in 0 .. Len(odb.map) /\ pre[r].blobs \in 0 .. Len(odb.blobs)
        BY <4>1, FilesAre DEF Places
      <4>3. /\ IsInjective(SubSeq(odb.map, 1, pre[r].map))
            /\ IsInjective(SubSeq(odb.blobs, 1, pre[r].blobs))
        BY <1>0, <4>2, Shorter
      <4>4. /\ odb' \in Odbs
            /\ odb' = odb \/ /\ odb'.blobs = SubSeq(odb.blobs, 1, pre[r].blobs)
                             /\ \/ odb'.map = odb.map
                                \/ odb'.map = SubSeq(odb.map, 1, pre[r].map)
        BY <2>1, <3>1, <4>1, RewoundIs
      <4> QED
        BY <1>0, <4>3, <4>4
    <3> QED
      BY <1>0, <2>1, <3>1
  <2>4. ASSUME NEW q \in Req PROVE PlacedWell(q)'
    <3>1. PlacedWell(q) /\ pc'[q] # "ingesting" /\ (pc'[q] \in Waiting => pc[q] \in Waiting)
      BY <1>0, <2>1, <2>2 DEF Free, Waiting
    <3> QED
      BY <2>1, <3>1 DEF PlacedWell
  <2> QED
    BY <1>0, <2>1, <2>2, <2>3, <2>4 DEF TypeInv
<1>8. ASSUME RestartServer PROVE TypeInv'
  <2>1. /\ refs' = refs /\ seen' = seen /\ pre' = pre /\ post' = post /\ reply' = reply
        /\ todo' = [r \in Req |-> {}]
        /\ pc' = [r \in Req |-> IF pc[r] = "start" THEN "start" ELSE "done"]
        /\ odb' = [odb EXCEPT !.tier1.at = Len(odb.tier1.file),
                          !.tier1.len = Len(odb.tier1.file),
                          !.tier1.known = Elements(odb.tier1.file) \ {Nil}]
    BY <1>8 DEF RestartServer
  <2>2. /\ pc' \in [Req -> States] /\ todo' \in [Req -> SUBSET Object]
        /\ \A q \in Req : pc'[q] # "ingesting" /\ pc'[q] \notin Waiting
    BY <2>1 DEF States, Waiting
  <2>3. odb' \in Odbs /\ odb'.map = odb.map /\ odb'.blobs = odb.blobs
    <3>1. /\ odb.tier1.file \in Seq(Prismatic \cup {Nil})
          /\ Len(odb.tier1.file) \in Nat /\ DOMAIN odb.tier1.file = 1 .. Len(odb.tier1.file)
      BY <1>0, LenProperties DEF Odbs, Tier1s
    <3>2. Elements(odb.tier1.file) \ {Nil} \in SUBSET Prismatic
      <4>1. \A i \in DOMAIN odb.tier1.file : odb.tier1.file[i] \in Prismatic \cup {Nil}
        BY <3>1, ElementOfSeq
      <4> QED
        BY <4>1 DEF Elements
    <3> DEFINE n == Len(odb.tier1.file)
               known == Elements(odb.tier1.file) \ {Nil}
               t == [odb.tier1 EXCEPT !.at = n, !.len = n, !.known = known]
    <3>3. n \in Nat /\ known \in SUBSET Prismatic
      BY <3>1, <3>2
    <3>4. odb' = [odb EXCEPT !.tier1 = t]
      BY <1>0, <2>1 DEF Odbs, Tier1s
    <3> HIDE DEF n, known
    <3>5. t \in Tier1s
      BY <1>0, <3>3 DEF Odbs, Tier1s
    <3> HIDE DEF t
    <3> QED
      BY <1>0, <3>4, <3>5 DEF Odbs
  <2>4. \A q \in Req : PlacedWell(q)'
    BY <2>2 DEF PlacedWell
  <2> QED
    BY <1>0, <2>1, <2>2, <2>3, <2>4 DEF TypeInv
<1> QED
  BY <1>1, <1>2, <1>3, <1>4, <1>5, <1>6, <1>7, <1>8 DEF ReceiveNext, Handle


-----------------------------------------------------------------------------
(* What steps leave as it is.                                              *)

\* The pack and the news of a push are fixed once it has asked (the client's side).
LEMMA PackSame ==
    ASSUME NEW r \in Req, seen'[r] = seen[r]
    PROVE  Pack(r)' = Pack(r) /\ Heard(r)' = Heard(r)
BY DEF Pack, Heard, NeededBy

\* What no push outside S could take stays, and none of them can take it now.
Calm(S) ==
    \A i \in DOMAIN odb.map : (\A r \in Req \ S : ~Takes(r, i)) =>
        /\ i \in DOMAIN odb'.map /\ odb'.map[i] = odb.map[i]
        /\ \A r \in Req \ S : ~Takes(r, i)'

\* Under a calm step what is kept is kept.
LEMMA KeptStays ==
    ASSUME NEW S, Calm(S), NEW o, Kept(o, S)
    PROVE  Kept(o, S)'
<1>1. PICK i \in DOMAIN odb.map : odb.map[i] = o /\ \A r \in Req \ S : ~Takes(r, i)
  BY DEF Kept
<1>2. i \in DOMAIN odb'.map /\ odb'.map[i] = o /\ \A r \in Req \ S : ~Takes(r, i)'
  BY <1>1 DEF Calm
<1> QED
  BY <1>2 DEF Kept

\* The refs that do not move keep what they need.
LEMMA RefPinStays ==
    ASSUME Calm({}), NEW b \in RefName, RefPin(b), refs'[b] = refs[b]
    PROVE  RefPin(b)'
<1>1. \A o : Kept(o, {}) => Kept(o, {})'
  BY KeptStays
<1> QED
  BY <1>1 DEF RefPin

\* So does a push that does not move.
LEMMA PushPinStays ==
    ASSUME NEW s \in Req, PushPin(s), pc'[s] = pc[s], seen'[s] = seen[s], todo'[s] = todo[s],
           Calm({}), Calm({s})
    PROVE  PushPin(s)'
<1>1. \A o : (Kept(o, {}) => Kept(o, {})') /\ (Kept(o, {s}) => Kept(o, {s})')
  BY KeptStays
<1>2. Pack(s)' = Pack(s) /\ Heard(s)' = Heard(s)
  BY PackSame
<1> QED
  BY <1>1, <1>2 DEF PushPin

\* A push that ends, or passes a gate, leaves the files and the checkpoints alone.
LEMMA QuietStep ==
    ASSUME TypeInv, StoreInv, RewindInv, NEW r \in Req, NEW to,
           odb' = odb, pre' = pre, post' = post, pc' = [pc EXCEPT ![r] = to],
           to # "ingesting", to \in Waiting => pc[r] \in Waiting,
           \A q \in Req : pc[q] \in Holding => seen'[q] = seen[q]
    PROVE  StoreInv' /\ RewindInv' /\ \A S : Calm(S)
<1>1. /\ \A q \in Req : pc'[q] \in Waiting => pc[q] \in Waiting
      /\ \A q \in Req : pc'[q] = "ingesting" => pc[q] = "ingesting"
      /\ \A q \in Req : pc'[q] \in Holding => pc[q] \in Holding
  BY DEF TypeInv, Holding
<1>2. StoreInv'
  BY DEF StoreInv, Mapped
<1>3. \A q \in Req : \A i \in DOMAIN odb.map : Takes(q, i)' => Takes(q, i)
  BY <1>1 DEF Takes
<1>4. \A S : Calm(S)
  BY <1>3 DEF Calm
<1>5. ASSUME NEW q \in Req PROVE CheckOf(q)'
  <2>1. CheckOf(q)
    BY DEF RewindInv
  <2> QED
    BY <1>1, <2>1 DEF CheckOf
<1>6. ASSUME NEW q \in Req PROVE OwnOf(q)'
  <2>1. OwnOf(q)
    BY DEF RewindInv
  <2>2. ASSUME NEW i \in DOMAIN odb.map, Takes(q, i)' PROVE odb.map[i] \in Pack(q)'
    <3>1. Takes(q, i) /\ pc[q] \in Holding
      BY <1>3, <2>2 DEF Takes, Holding
    <3>2. Pack(q)' = Pack(q)
      BY <3>1, PackSame
    <3> QED
      BY <2>1, <2>2, <3>1, <3>2 DEF OwnOf
  <2> QED
    BY <2>2 DEF OwnOf
<1>7. ASSUME NEW q \in Req PROVE RangeOf(q)'
  <2>1. RangeOf(q)
    BY DEF RewindInv
  <2> QED
    BY <1>1, <2>1 DEF RangeOf, PutNothing
<1>8. ASSUME NEW q \in Req, NEW s \in Req \ {q} PROVE OrderOf(q, s)'
  <2>1. OrderOf(q, s)
    BY DEF RewindInv
  <2> QED
    BY <1>1, <2>1 DEF OrderOf, PutNothing
<1> QED
  BY <1>2, <1>4, <1>5, <1>6, <1>7, <1>8 DEF RewindInv

\* What is pinned is in the store (the content with the identity).
LEMMA KeptIsThere ==
    ASSUME StoreInv, NEW o, NEW S, Kept(o, S)
    PROVE  o \in Mapped /\ HasContent(o)
BY DEF StoreInv, Kept, Mapped, HasContent, Elements

-----------------------------------------------------------------------------
(* Every step keeps the invariant, while the pushes are apart and plain.    *)

\* The pins hold after a calm step that moves one request and no ref, if they hold
\* of that request.
LEMMA PinsStay ==
    ASSUME PinInv, NEW r \in Req, PushPin(r)', refs' = refs, Calm({}),
           \A s \in Req \ {r} : /\ pc'[s] = pc[s] /\ seen'[s] = seen[s] /\ todo'[s] = todo[s]
                                /\ Calm({s})
    PROVE  PinInv'
<1>1. ASSUME NEW b \in RefName PROVE RefPin(b)'
  BY RefPinStays DEF PinInv
<1>2. ASSUME NEW s \in Req \ {r} PROVE PushPin(s)'
  BY PushPinStays DEF PinInv
<1> QED
  BY <1>1, <1>2 DEF PinInv

\* Being told of the refs: what they need is kept.
LEMMA AdvertiseKeeps ==
    ASSUME TypeInv, StoreInv, RewindInv, PinInv, NEW r \in Req, Advertise(r)
    PROVE  StoreInv' /\ RewindInv' /\ PinInv'
<1>1. /\ pc[r] = "start" /\ pc' = [pc EXCEPT ![r] = "told"] /\ odb' = odb /\ pre' = pre
      /\ post' = post /\ refs' = refs /\ todo' = todo /\ seen' = [seen EXCEPT ![r] = refs]
  BY DEF Advertise, Proceed
<1>2. /\ pc'[r] = "told" /\ seen'[r] = refs
      /\ \A s \in Req \ {r} : pc'[s] = pc[s] /\ seen'[s] = seen[s]
  BY <1>1 DEF TypeInv
<1>3. \A q \in Req : pc[q] \in Holding => seen'[q] = seen[q]
  BY <1>1, <1>2 DEF Holding, Waiting
<1>4. "told" # "ingesting" /\ "told" \notin Waiting
  BY DEF Waiting
<1>5. StoreInv' /\ RewindInv' /\ \A S : Calm(S)
  BY <1>1, <1>3, <1>4, QuietStep
<1>6. ASSUME NEW o \in Heard(r)' PROVE Kept(o, {})'
  <2>1. PICK b \in RefName : refs[b] # Nil /\ o \in Needs[refs[b]]
    BY <1>2 DEF Heard, NeededBy
  <2>2. Kept(o, {})
    BY <2>1 DEF PinInv, RefPin
  <2> QED
    BY <1>5, <2>2, KeptStays
<1>7. PushPin(r)'
  BY <1>2, <1>6 DEF PushPin
<1> QED
  BY <1>1, <1>2, <1>5, <1>7, PinsStay

\* The gates, a refused compare-and-set and the answer.
LEMMA GatesKeep ==
    ASSUME TypeInv, StoreInv, RewindInv, PinInv, NEW r \in Req,
           CommitGate(r) \/ CommitGateOpen(r) \/ RefuseRefs(r) \/ Await(r)
    PROVE  StoreInv' /\ RewindInv' /\ PinInv'
<1>1. /\ odb' = odb /\ pre' = pre /\ post' = post /\ seen' = seen /\ todo' = todo /\ refs' = refs
  BY DEF CommitGate, CommitGateOpen, RefuseRefs, Await
<1>2. PICK to \in {"gated", "rejected", "done"} :
         /\ pc' = [pc EXCEPT ![r] = to]
         /\ to # "done" => pc[r] \in {"ingested", "gated"}
         /\ to = "gated" => pc[r] = "ingested"
  <2>1. CASE CommitGate(r) \/ CommitGateOpen(r)
    BY <2>1 DEF CommitGate, CommitGateOpen, Proceed
  <2>2. CASE RefuseRefs(r)
    BY <2>2 DEF RefuseRefs, Proceed
  <2>3. CASE Await(r)
    BY <2>3 DEF Await, Proceed
  <2> QED
    BY <2>1, <2>2, <2>3
<1>3. pc'[r] = to /\ \A s \in Req \ {r} : pc'[s] = pc[s]
  BY <1>2 DEF TypeInv
<1>4. to # "ingesting" /\ (to \in Waiting => pc[r] \in Waiting)
  BY <1>2 DEF Waiting
<1>5. StoreInv' /\ RewindInv' /\ \A S : Calm(S)
  BY <1>1, <1>2, <1>4, QuietStep
<1>6. PushPin(r)'
  <2>1. PushPin(r)
    BY DEF PinInv
  <2>2. Pack(r)' = Pack(r) /\ Heard(r)' = Heard(r)
    BY <1>1, PackSame
  <2>3. \A o : (Kept(o, {}) => Kept(o, {})') /\ (Kept(o, {r}) => Kept(o, {r})')
    BY <1>5, KeptStays
  <2> QED
    BY <1>1, <1>2, <1>3, <2>1, <2>2, <2>3 DEF PushPin
<1> QED
  BY <1>1, <1>3, <1>5, <1>6, PinsStay

\* The ref moves to a commit whose needs the push was told of or has put in itself:
\* from now on no rewind takes them.
LEMMA CommitKeeps ==
    ASSUME ReceivePackAssumption, TypeInv, StoreInv, RewindInv, PinInv,
           NEW r \in Req, CommitRefs(r)
    PROVE  StoreInv' /\ RewindInv' /\ PinInv'
<1>1. /\ odb' = odb /\ pre' = pre /\ post' = post /\ seen' = seen /\ todo' = todo
      /\ pc[r] = "gated" /\ pc' = [pc EXCEPT ![r] = "committed"]
      /\ refs' = [refs EXCEPT ![Push[r].ref] = Push[r].new]
  BY DEF CommitRefs, Proceed
<1>2. pc'[r] = "committed" /\ \A s \in Req \ {r} : pc'[s] = pc[s]
  BY <1>1 DEF TypeInv
<1>3. StoreInv' /\ RewindInv' /\ \A S : Calm(S)
  <2>1. "committed" # "ingesting" /\ "committed" \notin Waiting
    BY DEF Waiting
  <2> QED
    BY <1>1, <2>1, QuietStep
<1>4. PushPin(r)'
  BY <1>2 DEF PushPin
<1>5. ASSUME NEW s \in Req PROVE PushPin(s)'
  <2>1. CASE s = r
    BY <1>4, <2>1
  <2>2. CASE s # r
    <3>1. PushPin(s)
      BY DEF PinInv
    <3> QED
      BY <1>1, <1>2, <1>3, <2>2, <3>1, PushPinStays
  <2> QED
    BY <2>1, <2>2
<1>6. ASSUME NEW b \in RefName PROVE RefPin(b)'
  <2>1. CASE b # Push[r].ref
    <3>1. refs'[b] = refs[b] /\ RefPin(b)
      BY <1>1, <2>1 DEF PinInv, TypeInv
    <3> QED
      BY <1>3, <3>1, RefPinStays
  <2>2. CASE b = Push[r].ref
    <3>1. refs'[b] = Push[r].new
      BY <1>1, <2>2 DEF TypeInv
    <3>2. ASSUME Push[r].new # Nil, NEW o \in Needs[Push[r].new] PROVE Kept(o, {})'
      <4>1. CASE o \in Heard(r)
        <5>1. Kept(o, {})
          BY <1>1, <4>1 DEF PinInv, PushPin
        <5> QED
          BY <1>3, <5>1, KeptStays
      <4>2. CASE o \notin Heard(r)
        <5>1. o \in Pack(r) \ todo[r]
          BY <1>1, <3>2, <4>2 DEF Pack, Heard, PinInv, PushPin
        <5>2. Kept(o, {r})
          BY <1>1, <5>1 DEF PinInv, PushPin
        <5>3. Kept(o, {r})'
          BY <1>3, <5>2, KeptStays
        <5>4. PICK i \in DOMAIN odb'.map : odb'.map[i] = o /\ \A q \in Req \ {r} : ~Takes(q, i)'
          BY <5>3 DEF Kept
        <5>5. ~Takes(r, i)'
          BY <1>2 DEF Takes, Waiting
        <5> QED
          BY <5>4, <5>5 DEF Kept
      <4> QED
        BY <4>1, <4>2
    <3> QED
      BY <3>1, <3>2 DEF RefPin
  <2> QED
    BY <2>1, <2>2
<1> QED
  BY <1>3, <1>5, <1>6 DEF PinInv

\* A push whose checkpoint is taken now, whatever it does next: there is nothing
\* that a rewind to it could take yet.
LEMMA FreshCheck ==
    ASSUME ReceivePackAssumption, TypeInv, StoreInv, RewindInv, NEW r \in Req, Free(r),
           pc[r] = "told", odb' = odb, seen' = seen, pre' = [pre EXCEPT ![r] = Cursor],
           \/ pc' = [pc EXCEPT ![r] = "ingesting"] /\ post' = post
           \/ pc' = [pc EXCEPT ![r] = "rejected"] /\ post' = [post EXCEPT ![r] = Cursor]
    PROVE  StoreInv' /\ RewindInv' /\ \A S : Calm(S)
<1>1. /\ pc'[r] \in {"ingesting", "rejected"} /\ pre'[r] = Cursor
      /\ pc'[r] = "rejected" => post'[r] = Cursor
      /\ \A q \in Req \ {r} : pc'[q] = pc[q] /\ pre'[q] = pre[q] /\ post'[q] = post[q]
  BY DEF TypeInv
<1>2. /\ Cursor.map = Len(odb.map) /\ Cursor.blobs = Len(odb.map) /\ Cursor.tier1 = odb.tier1.len
      /\ Len(odb.map) \in Nat /\ odb.tier1.len \in Nat /\ DOMAIN odb.map = 1 .. Len(odb.map)
  BY FilesAre DEF Cursor, StoreInv
<1>3. \A i \in DOMAIN odb.map : ~Takes(r, i)'
  BY <1>1, <1>2 DEF Takes, Waiting
<1>4. \A q \in Req \ {r} : \A i \in DOMAIN odb.map : Takes(q, i)' => Takes(q, i)
  BY <1>1 DEF Takes
<1>5. \A S : Calm(S)
  BY <1>3, <1>4 DEF Calm
<1>6. StoreInv'
  BY DEF StoreInv, Mapped
<1>7. ASSUME NEW q \in Req PROVE CheckOf(q)' /\ OwnOf(q)' /\ RangeOf(q)'
  <2>1. CheckOf(q) /\ OwnOf(q) /\ RangeOf(q)
    BY DEF RewindInv
  <2>2. Pack(q)' = Pack(q)
    BY PackSame
  <2>3. CASE q = r
    <3>1. CheckOf(r)'
      BY <1>1, <1>2 DEF CheckOf, Holding, Waiting
    <3>2. OwnOf(r)'
      BY <1>3 DEF OwnOf
    <3>3. RangeOf(r)'
      BY <1>1 DEF RangeOf, PutNothing, Waiting
    <3> QED
      BY <2>3, <3>1, <3>2, <3>3
  <2>4. CASE q # r
    <3>1. CheckOf(q)'
      BY <1>1, <2>1, <2>4 DEF CheckOf
    <3>2. OwnOf(q)'
      BY <1>4, <2>1, <2>2, <2>4 DEF OwnOf
    <3>3. RangeOf(q)'
      BY <1>1, <2>1, <2>4 DEF RangeOf, PutNothing
    <3> QED
      BY <3>1, <3>2, <3>3
  <2> QED
    BY <2>3, <2>4
<1>8. ASSUME NEW q \in Req, NEW s \in Req \ {q} PROVE OrderOf(q, s)'
  <2>1. OrderOf(q, s) /\ RangeOf(q)
    BY DEF RewindInv
  <2>2. CASE q # r /\ s # r
    BY <1>1, <2>1, <2>2 DEF OrderOf, PutNothing
  <2>3. CASE q = r
    BY <1>1, <2>3 DEF OrderOf, PutNothing, Waiting
  <2>4. CASE s = r
    <3>1. pc'[q] \in Waiting => PutNothing(q)' \/ post'[q].map <= pre'[r].map
      BY <1>1, <1>2, <2>1, <2>4 DEF RangeOf, PutNothing
    <3>2. pc'[r] \in Waiting => PutNothing(r)'
      BY <1>1 DEF PutNothing, Waiting
    <3> QED
      BY <2>4, <3>1, <3>2 DEF OrderOf
  <2> QED
    BY <2>2, <2>3, <2>4
<1> QED
  BY <1>5, <1>6, <1>7, <1>8 DEF RewindInv

\* The block of an unsigned push.
LEMMA BlockKeeps ==
    ASSUME ReceivePackAssumption, TypeInv, StoreInv, RewindInv, PinInv,
           NEW r \in Req, SignatureBlock(r)
    PROVE  StoreInv' /\ RewindInv' /\ PinInv'
<1>1. /\ odb' = odb /\ seen' = seen /\ todo' = todo /\ refs' = refs /\ Free(r) /\ pc[r] = "told"
      /\ pre' = [pre EXCEPT ![r] = Cursor] /\ post' = [post EXCEPT ![r] = Cursor]
      /\ pc' = [pc EXCEPT ![r] = "rejected"]
  BY DEF SignatureBlock, Proceed
<1>2. StoreInv' /\ RewindInv' /\ \A S : Calm(S)
  BY <1>1, FreshCheck
<1>3. pc'[r] = "rejected" /\ \A s \in Req \ {r} : pc'[s] = pc[s]
  BY <1>1 DEF TypeInv
<1>4. PushPin(r)'
  BY <1>3 DEF PushPin
<1> QED
  BY <1>1, <1>2, <1>3, <1>4, PinsStay

\* The start of an ingest: what the push was told of is still kept, and all of its
\* pack is to be put.
LEMMA StartKeeps ==
    ASSUME ReceivePackAssumption, TypeInv, StoreInv, RewindInv, PinInv,
           NEW r \in Req, StartIngest(r)
    PROVE  StoreInv' /\ RewindInv' /\ PinInv'
<1>1. /\ odb' = odb /\ seen' = seen /\ post' = post /\ refs' = refs /\ Free(r) /\ pc[r] = "told"
      /\ pre' = [pre EXCEPT ![r] = Cursor] /\ pc' = [pc EXCEPT ![r] = "ingesting"]
      /\ todo' = [todo EXCEPT ![r] = Pack(r)]
  BY DEF StartIngest, Proceed
<1>2. StoreInv' /\ RewindInv' /\ \A S : Calm(S)
  BY <1>1, FreshCheck
<1>3. /\ pc'[r] = "ingesting" /\ todo'[r] = Pack(r)
      /\ \A s \in Req \ {r} : pc'[s] = pc[s] /\ todo'[s] = todo[s]
  BY <1>1 DEF TypeInv
<1>4. PushPin(r)'
  <2>1. \A o : Kept(o, {}) => Kept(o, {})'
    BY <1>2, KeptStays
  <2>2. Pack(r)' = Pack(r) /\ Heard(r)' = Heard(r)
    BY <1>1, PackSame
  <2>3. \A o \in Heard(r) : Kept(o, {})
    BY <1>1 DEF PinInv, PushPin
  <2> QED
    BY <1>3, <2>1, <2>2, <2>3 DEF PushPin
<1> QED
  BY <1>1, <1>2, <1>3, <1>4, PinsStay

\* The end of an ingest: the second checkpoint is where the files end now.
LEMMA EndKeeps ==
    ASSUME ReceivePackAssumption, TypeInv, StoreInv, RewindInv, PinInv,
           NEW r \in Req, EndIngest(r)
    PROVE  StoreInv' /\ RewindInv' /\ PinInv'
<1>1. /\ odb' = odb /\ seen' = seen /\ pre' = pre /\ refs' = refs /\ pc[r] = "ingesting"
      /\ post' = [post EXCEPT ![r] = Cursor] /\ todo' = [todo EXCEPT ![r] = {}]
  BY DEF EndIngest
<1>2. PICK to \in {"ingested", "rejected"} : /\ pc' = [pc EXCEPT ![r] = to]
                                             /\ to = "ingested" => todo[r] = {}
  BY DEF EndIngest, Proceed
<1>3. /\ pc'[r] = to /\ to \in Waiting /\ "ingesting" \notin Waiting /\ post'[r] = Cursor
      /\ todo'[r] = {}
      /\ \A q \in Req \ {r} : pc'[q] = pc[q] /\ post'[q] = post[q] /\ todo'[q] = todo[q]
  BY <1>1, <1>2 DEF TypeInv, Waiting
<1>4. /\ Cursor.map = Len(odb.map) /\ Cursor.blobs = Len(odb.map)
      /\ Cursor.tier1 = odb.tier1.len /\ odb.tier1.len \in Nat
      /\ Len(odb.map) \in Nat /\ DOMAIN odb.map = 1 .. Len(odb.map)
  BY FilesAre DEF Cursor, StoreInv
<1>5. ASSUME NEW q \in Req, NEW i \in DOMAIN odb.map, Takes(q, i)' PROVE Takes(q, i)
  <2>1. CASE q = r
    BY <1>1, <1>3, <1>5, <2>1 DEF Takes
  <2>2. CASE q # r
    BY <1>1, <1>3, <1>5, <2>2 DEF Takes
  <2> QED
    BY <2>1, <2>2
<1>6. \A S : Calm(S)
  BY <1>1, <1>5 DEF Calm
<1>7. StoreInv'
  BY <1>1 DEF StoreInv, Mapped
<1>8. ASSUME NEW q \in Req PROVE CheckOf(q)' /\ OwnOf(q)' /\ RangeOf(q)'
  <2>1. CheckOf(q) /\ OwnOf(q) /\ RangeOf(q)
    BY DEF RewindInv
  <2>2. Pack(q)' = Pack(q)
    BY <1>1, PackSame
  <2>3. OwnOf(q)'
    BY <1>1, <1>5, <2>1, <2>2 DEF OwnOf
  <2>4. CheckOf(q)'
    <3>1. CASE q = r
      BY <1>1, <1>3, <1>4, <2>1, <3>1 DEF CheckOf, Holding
    <3>2. CASE q # r
      BY <1>1, <1>3, <2>1, <3>2 DEF CheckOf
    <3> QED
      BY <3>1, <3>2
  <2>5. RangeOf(q)'
    <3>1. CASE q = r
      BY <1>1, <1>3, <1>4, <3>1 DEF RangeOf
    <3>2. CASE q # r
      BY <1>1, <1>3, <2>1, <3>2 DEF RangeOf, PutNothing
    <3> QED
      BY <3>1, <3>2
  <2> QED
    BY <2>3, <2>4, <2>5
<1>9. ASSUME NEW q \in Req, NEW s \in Req \ {q} PROVE OrderOf(q, s)'
  <2>1. OrderOf(q, s) /\ OrderOf(s, q)
    BY DEF RewindInv
  <2>2. \A p \in Req : pc'[p] # "ingesting"
    <3>1. Free(r)
      BY <1>1 DEF TypeInv, PlacedWell
    <3> QED
      BY <1>2, <1>3, <3>1 DEF Free
  <2>3. CASE q # r /\ s # r
    BY <1>1, <1>3, <2>1, <2>3 DEF OrderOf, PutNothing
  <2>4. CASE q = r
    <3>1. pc[s] \in Waiting => PutNothing(s) \/ post[s].map <= pre[q].map
      BY <1>1, <2>1, <2>4 DEF OrderOf
    <3> QED
      BY <1>1, <1>3, <2>2, <2>4, <3>1 DEF OrderOf, PutNothing
  <2>5. CASE s = r
    <3>1. pc[q] \in Waiting => PutNothing(q) \/ post[q].map <= pre[s].map
      BY <1>1, <2>1, <2>5 DEF OrderOf
    <3> QED
      BY <1>1, <1>3, <2>2, <2>5, <3>1 DEF OrderOf, PutNothing
  <2> QED
    BY <2>3, <2>4, <2>5
<1>10. PushPin(r)'
  <2>1. PushPin(r)
    BY DEF PinInv
  <2>2. Pack(r)' = Pack(r) /\ Heard(r)' = Heard(r)
    BY <1>1, PackSame
  <2>3. \A o : (Kept(o, {}) => Kept(o, {})') /\ (Kept(o, {r}) => Kept(o, {r})')
    BY <1>6, KeptStays
  <2> QED
    BY <1>1, <1>2, <1>3, <2>1, <2>2, <2>3 DEF PushPin
<1> QED
  BY <1>1, <1>3, <1>6, <1>7, <1>8, <1>9, <1>10, PinsStay DEF RewindInv

\* What putting an object does to a store whose files are in step.
LEMMA PutInStep ==
    ASSUME ReceivePackAssumption, TypeInv, StoreInv, NEW o \in Object,
           NEW pack, odb' = [Put(odb, o) EXCEPT !.pack = pack]
    PROVE  /\ StoreInv'
           /\ o \in Mapped => odb'.map = odb.map /\ odb'.tier1 = odb.tier1
           /\ o \notin Mapped =>
                /\ odb'.map = Append(odb.map, o)
                /\ \/ odb'.tier1 = odb.tier1
                   \/ odb'.tier1.len = odb.tier1.len + 1
<1>0. /\ Put(odb, o) \in Odbs /\ odb'.map = Put(odb, o).map /\ odb'.blobs = Put(odb, o).blobs
      /\ odb'.tier1 = Put(odb, o).tier1
  BY PutIs DEF Odbs
<1>1. CASE o \in Mapped
  <2>1. odb'.map = odb.map /\ odb'.tier1 = odb.tier1 /\ odb'.blobs = odb.blobs
    BY <1>0, <1>1, PutIs
  <2> QED
    BY <1>1, <2>1 DEF StoreInv, Mapped
<1>2. CASE o \notin Mapped
  <2>1. ~Stored(odb, o) /\ o \notin Elements(odb.blobs)
    BY <1>2 DEF Stored, StoreInv, Mapped
  <2>2. /\ odb'.map = Append(odb.map, o) /\ odb'.blobs = Append(odb.map, o)
        /\ odb'.tier1 = IF o \notin Prismatic THEN odb.tier1 ELSE Tier1Append(odb.tier1, o)
    BY <1>0, <1>2, <2>1, PutIs DEF StoreInv
  <2>3. Mapped' = Mapped \cup {o}
    <3>1. Elements(Append(odb.map, o)) = Elements(odb.map) \cup {o}
      BY FilesAre, Longer
    <3> QED
      BY <2>2, <3>1 DEF Mapped, Elements
  <2>4. CASE o \notin Prismatic
    <3>1. odb'.tier1 = odb.tier1
      BY <2>2, <2>4
    <3>2. StoreInv'
      BY <2>2, <2>3, <3>1 DEF StoreInv
    <3> QED
      BY <1>2, <2>2, <3>1, <3>2
  <2>5. CASE o \in Prismatic
    <3> DEFINE t == odb.tier1
               u == odb'.tier1
    <3>1. /\ t \in Tier1s /\ t.file \in Seq(Prismatic \cup {Nil}) /\ t.len \in Nat
          /\ t.at = Len(t.file) /\ t.len = Len(t.file) /\ t.known = Elements(t.file)
          /\ t.known \subseteq Mapped
      BY FilesAre DEF Tier1s, StoreInv
    <3>2. /\ u.len = t.len + 1 /\ u.known = t.known \cup {o} /\ u.at = Len(t.file) + 1
          /\ u.file = Append(t.file, o)
      <4>1. u = Tier1Append(t, o)
        BY <2>2, <2>5
      <4> HIDE DEF t, u
      <4> QED
        BY <2>5, <3>1, <4>1, Tier1Longer
    <3>3. Len(u.file) = Len(t.file) + 1 /\ Elements(u.file) = Elements(t.file) \cup {o}
      <4> DEFINE S == Prismatic \cup {Nil}
      <4>1. t.file \in Seq(S) /\ o \in S /\ u.file = Append(t.file, o)
        BY <2>5, <3>1, <3>2
      <4> HIDE DEF t, u, S
      <4> QED
        BY <4>1, Longer
    <3>4. StoreInv'
      BY <2>2, <2>3, <3>1, <3>2, <3>3 DEF StoreInv
    <3> QED
      BY <1>2, <2>2, <3>2, <3>4
  <2> QED
    BY <2>4, <2>5
<1> QED
  BY <1>1, <1>2

\* The next object of a pack: it is new, or it is there already where, the pushes
\* being apart, only this one could take it away.
LEMMA PutKeeps ==
    ASSUME ReceivePackAssumption, TypeInv, StoreInv, RewindInv, PinInv, Apart,
           NEW r \in Req, PutNext(r)
    PROVE  StoreInv' /\ RewindInv' /\ PinInv'
<1>1. PICK o \in todo[r], pack \in {odb.pack, odb.pack + 1} :
         /\ odb' = [Put(odb, o) EXCEPT !.pack = pack]
         /\ todo' = [todo EXCEPT ![r] = @ \ {o}]
  BY DEF PutNext
<1>2. /\ pc[r] = "ingesting" /\ pc' = pc /\ refs' = refs /\ seen' = seen /\ pre' = pre
      /\ post' = post
  BY DEF PutNext
<1>3. o \in Object /\ o \in Pack(r) /\ todo'[r] = todo[r] \ {o}
      /\ \A s \in Req \ {r} : todo'[s] = todo[s] /\ pc[s] # "ingesting"
  BY <1>1, <1>2 DEF TypeInv, PinInv, PushPin, PlacedWell, Free
<1>4. /\ StoreInv'
      /\ o \in Mapped => odb'.map = odb.map /\ odb'.tier1 = odb.tier1
      /\ o \notin Mapped => /\ odb'.map = Append(odb.map, o)
                            /\ odb'.tier1 = odb.tier1 \/ odb'.tier1.len = odb.tier1.len + 1
  BY <1>1, <1>3, PutInStep
<1>5. /\ odb.map \in Seq(Object) /\ Len(odb.map) \in Nat /\ DOMAIN odb.map = 1 .. Len(odb.map)
      /\ odb.tier1.len \in Nat
  BY FilesAre
<1>6. \A i \in DOMAIN odb.map : i \in DOMAIN odb'.map /\ odb'.map[i] = odb.map[i]
  BY <1>3, <1>4, <1>5, Longer
<1>7. /\ Len(odb'.map) \in Nat /\ Len(odb.map) <= Len(odb'.map)
      /\ DOMAIN odb'.map = 1 .. Len(odb'.map)
      /\ \A i \in DOMAIN odb'.map :
           \/ i \in DOMAIN odb.map
           \/ o \notin Mapped /\ i = Len(odb.map) + 1 /\ odb'.map[i] = o
  <2>1. CASE o \in Mapped
    BY <1>4, <1>5, <2>1
  <2>2. CASE o \notin Mapped
    <3>1. /\ odb'.map = Append(odb.map, o)
          /\ DOMAIN odb'.map = 1 .. Len(odb.map) + 1 /\ Len(odb'.map) = Len(odb.map) + 1
          /\ odb'.map[Len(odb.map) + 1] = o
      BY <1>3, <1>4, <1>5, <2>2, Longer
    <3> QED
      BY <1>5, <2>2, <3>1
  <2> QED
    BY <2>1, <2>2
<1>8. \A q \in Req : \A i : Takes(q, i)' <=> Takes(q, i)
  BY <1>2 DEF Takes
<1>9. \A S : Calm(S)
  BY <1>6, <1>8 DEF Calm
<1>10. \A q \in Req \ {r} : ~Takes(q, Len(odb.map) + 1)
  <2>1. TAKE q \in Req \ {r}
  <2>2. pc[q] # "ingesting" /\ RangeOf(q) /\ PlacedWell(q)
    BY <1>3 DEF RewindInv, TypeInv
  <2>3. pc[q] \in Waiting => post[q].map \in Nat /\ pre[q].map \in Nat
    BY <2>2 DEF PlacedWell, Places
  <2> QED
    BY <1>5, <2>2, <2>3 DEF Takes, RangeOf, PutNothing
<1>11. Kept(o, {r})'
  <2>1. CASE o \in Mapped
    <3>1. PICK i \in DOMAIN odb.map : odb.map[i] = o
      BY <2>1 DEF Mapped, Elements
    <3>2. \A q \in Req \ {r} : ~Takes(q, i)
      <4>1. SUFFICES ASSUME NEW q \in Req \ {r}, Takes(q, i) PROVE FALSE
        OBVIOUS
      <4>2. o \in Pack(q)
        BY <3>1, <4>1 DEF RewindInv, OwnOf
      <4>3. pc[q] \in Holding /\ pc[r] \in Holding
        BY <1>2, <4>1 DEF Takes, Holding
      <4> QED
        BY <1>3, <4>2, <4>3 DEF Apart
    <3> QED
      BY <1>6, <1>8, <3>1, <3>2 DEF Kept
  <2>2. CASE o \notin Mapped
    <3>1. Len(odb.map) + 1 \in DOMAIN odb'.map /\ odb'.map[Len(odb.map) + 1] = o
      BY <1>3, <1>4, <1>5, <2>2, Longer
    <3> QED
      BY <1>8, <1>10, <3>1 DEF Kept
  <2> QED
    BY <2>1, <2>2
<1>12. ASSUME NEW q \in Req PROVE CheckOf(q)'
  <2>1. CheckOf(q)
    BY DEF RewindInv
  <2>2. /\ pc[q] \in Holding => pre[q].tier1 \in Nat
        /\ pc[q] \in Waiting => post[q].tier1 \in Nat
    BY DEF TypeInv, PlacedWell, Holding, Places
  <2>3. CASE odb'.tier1 = odb.tier1
    <3>1. ASSUME pc[q] \in Holding, pre[q].tier1 = odb.tier1.len,
                 NEW i \in DOMAIN odb'.map, odb'.map[i] \in odb.tier1.known
          PROVE  i <= pre[q].map
      <4>1. i \in DOMAIN odb.map
        BY <1>7, <3>1 DEF StoreInv
      <4> QED
        BY <1>6, <2>1, <3>1, <4>1 DEF CheckOf
    <3> QED
      BY <1>2, <2>1, <2>3, <3>1 DEF CheckOf
  <2>4. CASE odb'.tier1.len = odb.tier1.len + 1
    BY <1>2, <1>5, <2>1, <2>2, <2>4 DEF CheckOf
  <2> QED
    BY <1>4, <2>3, <2>4
<1>13. ASSUME NEW q \in Req PROVE OwnOf(q)' /\ RangeOf(q)'
  <2>1. OwnOf(q) /\ RangeOf(q) /\ PlacedWell(q)
    BY DEF RewindInv, TypeInv
  <2>2. Pack(q)' = Pack(q)
    BY <1>2, PackSame
  <2>3. ASSUME NEW i \in DOMAIN odb'.map, Takes(q, i) PROVE odb'.map[i] \in Pack(q)
    <3>1. CASE i \in DOMAIN odb.map
      BY <1>6, <2>1, <2>3, <3>1 DEF OwnOf
    <3>2. CASE i = Len(odb.map) + 1 /\ odb'.map[i] = o
      BY <1>3, <1>10, <2>3, <3>2
    <3> QED
      BY <1>7, <3>1, <3>2
  <2>4. OwnOf(q)'
    BY <1>8, <2>2, <2>3 DEF OwnOf
  <2>5. RangeOf(q)'
    <3>1. pc[q] \in Waiting => post[q].map \in Nat
      BY <2>1 DEF PlacedWell, Places
    <3> QED
      BY <1>2, <1>5, <1>7, <2>1, <3>1 DEF RangeOf, PutNothing
  <2> QED
    BY <2>4, <2>5
<1>14. ASSUME NEW q \in Req, NEW s \in Req \ {q} PROVE OrderOf(q, s)'
  <2>1. OrderOf(q, s)
    BY DEF RewindInv
  <2> QED
    BY <1>2, <2>1 DEF OrderOf, PutNothing
<1>15. PushPin(r)'
  <2>1. PushPin(r)
    BY DEF PinInv
  <2>2. Pack(r)' = Pack(r) /\ Heard(r)' = Heard(r)
    BY <1>2, PackSame
  <2>3. \A x : (Kept(x, {}) => Kept(x, {})') /\ (Kept(x, {r}) => Kept(x, {r})')
    BY <1>9, KeptStays
  <2>4. \A x \in Pack(r) \ todo'[r] : x = o \/ x \in Pack(r) \ todo[r]
    BY <1>3
  <2>5. /\ \A x \in Heard(r) : Kept(x, {})
        /\ \A x \in Pack(r) \ todo[r] : Kept(x, {r})
        /\ todo[r] \subseteq Pack(r)
    BY <1>2, <2>1 DEF PushPin
  <2>6. \A x \in Pack(r)' \ todo'[r] : Kept(x, {r})'
    BY <1>11, <2>2, <2>3, <2>4, <2>5
  <2>7. \A x \in Heard(r)' : Kept(x, {})'
    BY <2>2, <2>3, <2>5
  <2>8. todo[r]' \subseteq Pack(r)' /\ pc[r]' = "ingesting"
    BY <1>2, <1>3, <2>2, <2>5
  <2> QED
    BY <2>6, <2>7, <2>8 DEF PushPin
<1> QED
  BY <1>2, <1>3, <1>4, <1>9, <1>12, <1>13, <1>14, <1>15, PinsStay DEF RewindInv

\* What a rewind that is carried out does: the map and the content end where the push
\* began, and tier1 stays, since the push added nothing to it.
LEMMA RewindCuts ==
    ASSUME ReceivePackAssumption, TypeInv, StoreInv, RewindInv, Plain, NEW r \in Req,
           pc[r] = "rejected", Cursor = post[r], odb' = Rewound(odb, pre[r])
    PROVE  \/ odb' = odb
           \/ /\ pre[r].map \in 0 .. Len(odb.map) /\ post[r].map = Len(odb.map)
              /\ odb'.map = SubSeq(odb.map, 1, pre[r].map) /\ odb'.blobs = odb'.map
              /\ odb'.tier1 = odb.tier1
              /\ \A i \in DOMAIN odb.map : odb.map[i] \in odb.tier1.known => i <= pre[r].map
<1> DEFINE c == pre[r]
           t == odb.tier1
<1>1. /\ pc[r] \in Waiting /\ pc[r] \in Holding /\ c \in Places /\ c.map <= post[r].map
      /\ c.blobs <= post[r].blobs
  BY DEF TypeInv, PlacedWell, Waiting, Holding
<1>2. /\ post[r].map = Len(odb.map) /\ post[r].blobs = Len(odb.blobs)
      /\ c.tier1 = t.len /\ Len(odb.map) \in Nat /\ Len(odb.blobs) \in Nat
  <2>1. c.tier1 = post[r].tier1
    BY DEF Plain
  <2> QED
    BY <2>1, FilesAre DEF Cursor
<1>3. /\ c.map \in 0 .. Len(odb.map) /\ c.blobs = c.map
      /\ \A i \in DOMAIN odb.map : odb.map[i] \in t.known => i <= c.map
  BY <1>1, <1>2 DEF CheckOf, Places, RewindInv
<1>4. ~Tier1Fails(odb, c)
  BY <1>2, FilesAre DEF Tier1Fails
<1>5. CASE RolledSince(odb, c)
  BY <1>1, <1>2, <1>5, RewoundIs
<1>6. CASE ~RolledSince(odb, c)
  <2>1. /\ odb'.map = SubSeq(odb.map, 1, c.map) /\ odb'.blobs = SubSeq(odb.blobs, 1, c.blobs)
        /\ odb'.tier1 = Tier1Cut(t, c)
    BY <1>1, <1>2, <1>4, <1>6, RewoundIs
  <2>2. odb'.blobs = odb'.map
    BY <1>3, <2>1 DEF StoreInv
  <2>3. Tier1Cut(t, c) = t
    <3>1. /\ t \in Tier1s /\ t.file \in Seq(Prismatic \cup {Nil}) /\ t.at = Len(t.file)
          /\ t.len = Len(t.file)
      BY FilesAre DEF Tier1s, StoreInv
    <3>2. /\ DOMAIN t.file = 1 .. Len(t.file) /\ Len(t.file) \in Nat
          /\ t.file = [i \in DOMAIN t.file |-> t.file[i]]
      BY <3>1, LenProperties
    <3>3. PICK n \in Nat : n = Len(t.file) /\ c.tier1 = n
      BY <1>2, <3>1, <3>2
    <3>4. [i \in 1 .. n |-> IF i <= Len(t.file) THEN t.file[i] ELSE Nil] = t.file
      <4>1. \A i \in 1 .. n : i <= Len(t.file)
        BY <3>3
      <4> QED
        BY <3>2, <3>3, <4>1
    <3>5. Tier1Cut(t, c) = [t EXCEPT !.file = t.file, !.at = t.at]
      BY <3>1, <3>3, <3>4 DEF Tier1Cut
    <3> QED
      BY <3>1, <3>5 DEF Tier1s
  <2> QED
    BY <1>2, <1>3, <2>1, <2>2, <2>3
<1> QED
  BY <1>5, <1>6

\* The rollback of a rejected push: what it takes is its own, and what others began
\* or ended before it stays in its place.
LEMMA RollBackKeeps ==
    ASSUME ReceivePackAssumption, TypeInv, StoreInv, RewindInv, PinInv, Plain,
           NEW r \in Req, RollBack(r)
    PROVE  StoreInv' /\ RewindInv' /\ PinInv'
<1>1. /\ pc[r] = "rejected" /\ pc' = [pc EXCEPT ![r] = "done"] /\ refs' = refs /\ seen' = seen
      /\ pre' = pre /\ post' = post /\ todo' = todo /\ Free(r)
      /\ odb' = IF Cursor = post[r] THEN Rewound(odb, pre[r]) ELSE odb
  BY DEF RollBack, Proceed
<1>2. /\ pc'[r] = "done" /\ \A s \in Req \ {r} : pc'[s] = pc[s]
      /\ \A s \in Req : pc'[s] # "ingesting" /\ pc[s] # "ingesting"
  BY <1>1 DEF TypeInv, Free
<1>3. PushPin(r)'
  BY <1>2 DEF PushPin
<1>4. CASE odb' = odb
  <2>1. "done" # "ingesting" /\ "done" \notin Waiting
    BY DEF Waiting
  <2>2. StoreInv' /\ RewindInv' /\ \A S : Calm(S)
    BY <1>1, <1>4, <2>1, QuietStep
  <2> QED
    BY <1>1, <1>2, <1>3, <2>2, PinsStay
<1>5. CASE odb' # odb
  <2> DEFINE n == pre[r].map
  <2>1. /\ n \in 0 .. Len(odb.map) /\ post[r].map = Len(odb.map)
        /\ odb'.map = SubSeq(odb.map, 1, n) /\ odb'.blobs = odb'.map /\ odb'.tier1 = odb.tier1
        /\ \A i \in DOMAIN odb.map : odb.map[i] \in odb.tier1.known => i <= n
    BY <1>1, <1>5, RewindCuts
  <2>2. /\ odb.map \in Seq(Object) /\ Len(odb.map) \in Nat /\ DOMAIN odb.map = 1 .. Len(odb.map)
    BY FilesAre
  <2>3. /\ DOMAIN odb'.map = 1 .. n /\ Len(odb'.map) = n /\ n \in Nat
        /\ \A i \in 1 .. n : i \in DOMAIN odb.map /\ odb'.map[i] = odb.map[i]
    BY <2>1, <2>2, Shorter
  <2> HIDE DEF n
  <2>4. \A s \in Req : \A i : Takes(s, i)' <=> s # r /\ Takes(s, i)
    <3>1. \A s \in Req : \A i : s # r => (Takes(s, i)' <=> Takes(s, i))
      BY <1>1, <1>2 DEF Takes
    <3>2. \A i : ~Takes(r, i)'
      BY <1>2 DEF Takes, Waiting
    <3> QED
      BY <3>1, <3>2
  <2>5. \A i \in DOMAIN odb.map : ~Takes(r, i) => i \in 1 .. n
    BY <1>1, <2>1, <2>2, <2>3 DEF Takes, Waiting, n
  <2>6. ASSUME NEW S, r \notin S PROVE Calm(S)
    BY <2>3, <2>4, <2>5, <2>6 DEF Calm
  <2>7. StoreInv'
    <3>1. odb.tier1.known \subseteq Mapped'
      <4>1. ASSUME NEW o \in odb.tier1.known PROVE \E i \in DOMAIN odb'.map : odb'.map[i] = o
        <5>1. PICK i \in DOMAIN odb.map : odb.map[i] = o
          BY ZenonT(60) DEF StoreInv, Mapped, Elements
        <5>2. i \in 1 .. n
          BY <2>1, <2>2, <2>3, <5>1
        <5> QED
          BY <2>3, <5>1, <5>2
      <4> QED
        BY <4>1 DEF Mapped, Elements
    <3> QED
      BY <2>1, <3>1 DEF StoreInv
  <2>8. ASSUME NEW s \in Req PROVE CheckOf(s)' /\ OwnOf(s)' /\ RangeOf(s)'
    <3>1. CheckOf(s) /\ OwnOf(s) /\ RangeOf(s) /\ PlacedWell(s)
      BY DEF RewindInv, TypeInv
    <3>2. Pack(s)' = Pack(s)
      BY <1>1, PackSame
    <3>3. pc'[s] \in Waiting => s # r /\ pc[s] \in Waiting
      BY <1>2 DEF Waiting
    <3>4. CheckOf(s)'
      BY <1>1, <1>2, <2>1, <2>3, <3>1, <3>3 DEF CheckOf, Holding
    <3>5. OwnOf(s)'
      <4>1. ASSUME NEW i \in DOMAIN odb'.map, Takes(s, i) PROVE odb'.map[i] \in Pack(s)
        BY <2>3, <3>1, <4>1 DEF OwnOf
      <4> QED
        BY <2>4, <3>2, <4>1 DEF OwnOf
    <3>6. RangeOf(s)'
      <4>1. SUFFICES ASSUME s # r, pc[s] \in Waiting, ~PutNothing(s)
                     PROVE  post[s].map <= n
        BY <1>1, <2>3, <3>3 DEF RangeOf, PutNothing
      <4>2. /\ pre[s].map \in Nat /\ post[s].map \in Nat /\ pre[s].map < post[s].map
            /\ post[s].map <= Len(odb.map)
        BY <3>1, <4>1, SMTT(30) DEF PlacedWell, Places, RangeOf, PutNothing
      <4>3. \/ PutNothing(r) \/ post[r].map <= pre[s].map \/ post[s].map <= pre[r].map
        BY <1>1, <4>1 DEF RewindInv, OrderOf, Waiting
      <4> QED
        BY <2>1, <2>2, <2>3, <4>2, <4>3 DEF PutNothing, n
    <3> QED
      BY <3>4, <3>5, <3>6
  <2>9. ASSUME NEW q \in Req, NEW s \in Req \ {q} PROVE OrderOf(q, s)'
    <3>1. OrderOf(q, s)
      BY DEF RewindInv
    <3>2. /\ pc'[q] \in Waiting => pc[q] \in Waiting
          /\ pc'[s] \in Waiting => pc[s] \in Waiting
      BY <1>2 DEF Waiting
    <3> QED
      BY <1>1, <1>2, <3>1, <3>2 DEF OrderOf, PutNothing
  <2> QED
    BY <1>1, <1>2, <1>3, <2>6, <2>7, <2>8, <2>9, PinsStay DEF RewindInv
<1> QED
  BY <1>4, <1>5

\* The end of the server: no request is left that could be rolled back, and tier1 is
\* read back as it was.
LEMMA RestartKeeps ==
    ASSUME ReceivePackAssumption, TypeInv, StoreInv, RewindInv, PinInv, RestartServer
    PROVE  StoreInv' /\ RewindInv' /\ PinInv'
<1>1. /\ refs' = refs /\ odb' = [odb EXCEPT !.tier1.at = Len(odb.tier1.file),
                                            !.tier1.len = Len(odb.tier1.file),
                                            !.tier1.known = Elements(odb.tier1.file) \ {Nil}]
      /\ pc' = [r \in Req |-> IF pc[r] = "start" THEN "start" ELSE "done"]
  BY DEF RestartServer
<1>2. \A r \in Req : pc'[r] \in {"start", "done"} /\ pc'[r] \notin Waiting /\ pc'[r] \notin Holding
  BY <1>1 DEF Waiting, Holding
<1>3. odb' = odb
  <2>1. /\ odb \in Odbs /\ odb.tier1 \in Tier1s /\ odb.tier1.at = Len(odb.tier1.file)
        /\ odb.tier1.len = Len(odb.tier1.file) /\ odb.tier1.known = Elements(odb.tier1.file)
    BY FilesAre DEF StoreInv
  <2>2. Elements(odb.tier1.file) \ {Nil} = Elements(odb.tier1.file)
    BY <2>1 DEF Tier1s, ReceivePackAssumption
  <2> DEFINE k == Elements(odb.tier1.file)
             l == Len(odb.tier1.file)
  <2>3. odb' = [odb EXCEPT !.tier1.at = l, !.tier1.len = l, !.tier1.known = k]
    BY <1>1, <2>2
  <2>4. odb.tier1.at = l /\ odb.tier1.len = l /\ odb.tier1.known = k
    BY <2>1
  <2> DEFINE t == [odb.tier1 EXCEPT !.at = l, !.len = l, !.known = k]
  <2>5. odb' = [odb EXCEPT !.tier1 = t]
    <3> HIDE DEF k, l
    <3> QED
      BY <2>1, <2>3 DEF Odbs, Tier1s
  <2>6. t = odb.tier1
    <3> HIDE DEF k, l
    <3> QED
      BY <2>1, <2>4 DEF Tier1s
  <2> HIDE DEF t
  <2> QED
    BY <2>1, <2>5, <2>6 DEF Odbs
<1>4. \A r \in Req : \A i : ~Takes(r, i)'
  BY <1>2 DEF Takes
<1>5. Calm({})
  BY <1>3, <1>4 DEF Calm
<1>6. StoreInv'
  BY <1>3 DEF StoreInv, Mapped
<1>7. RewindInv'
  BY <1>2, <1>4 DEF RewindInv, CheckOf, OwnOf, RangeOf, OrderOf
<1>8. PinInv'
  <2>1. ASSUME NEW b \in RefName PROVE RefPin(b)'
    BY <1>1, <1>5, RefPinStays DEF PinInv
  <2>2. ASSUME NEW s \in Req PROVE PushPin(s)'
    BY <1>2 DEF PushPin
  <2> QED
    BY <2>1, <2>2 DEF PinInv
<1> QED
  BY <1>6, <1>7, <1>8

\* Every step keeps the invariant.
LEMMA StepKeeps ==
    ASSUME ReceivePackAssumption, ReceiveInv, Apart, Plain, [ReceiveNext]_receiveVars
    PROVE  ReceiveInv'
<1>1. TypeInv /\ StoreInv /\ RewindInv /\ PinInv
  BY DEF ReceiveInv
<1>2. CASE ReceiveNext
  <2>1. TypeInv'
    BY <1>1, <1>2, StepTypes
  <2>2. StoreInv' /\ RewindInv' /\ PinInv'
    BY <1>1, <1>2, AdvertiseKeeps, BlockKeeps, StartKeeps, PutKeeps, EndKeeps, GatesKeep,
       CommitKeeps, RollBackKeeps, RestartKeeps DEF ReceiveNext, Handle
  <2> QED
    BY <2>1, <2>2 DEF ReceiveInv
<1>3. CASE UNCHANGED receiveVars
  <2>0. /\ refs' = refs /\ odb' = odb /\ pc' = pc /\ seen' = seen /\ pre' = pre /\ post' = post
        /\ todo' = todo /\ reply' = reply
    BY <1>3 DEF receiveVars
  <2>1. TypeInv'
    BY <1>1, <2>0 DEF TypeInv, PlacedWell, Free
  <2>2. StoreInv'
    BY <1>1, <2>0 DEF StoreInv, Mapped
  <2>3. RewindInv'
    <3>1. \A q \in Req : CheckOf(q)' /\ RangeOf(q)'
      BY <1>1, <2>0 DEF RewindInv, CheckOf, RangeOf, PutNothing
    <3>2. \A q \in Req : OwnOf(q)'
      <4>1. \A q \in Req : Pack(q)' = Pack(q)
        BY <2>0, PackSame
      <4> QED
        BY <1>1, <2>0, <4>1 DEF RewindInv, OwnOf, Takes
    <3>3. \A q \in Req : \A s \in Req \ {q} : OrderOf(q, s)'
      BY <1>1, <2>0 DEF RewindInv, OrderOf, PutNothing
    <3> QED
      BY <3>1, <3>2, <3>3 DEF RewindInv
  <2>4. PinInv'
    <3>1. Calm({}) /\ \A s \in Req : Calm({s})
      BY <2>0 DEF Calm, Takes
    <3>2. \A b \in RefName : RefPin(b)'
      BY <1>1, <2>0, <3>1, RefPinStays DEF PinInv
    <3>3. \A s \in Req : PushPin(s)'
      BY <1>1, <2>0, <3>1, PushPinStays DEF PinInv
    <3> QED
      BY <3>2, <3>3 DEF PinInv
  <2> QED
    BY <2>1, <2>2, <2>3, <2>4 DEF ReceiveInv
<1> QED
  BY <1>2, <1>3

\* The invariant holds at the start: nothing is stored and no push has begun.
LEMMA InitHolds == ReceivePackAssumption /\ ReceiveInit => ReceiveInv
<1> SUFFICES ASSUME ReceivePackAssumption, ReceiveInit PROVE ReceiveInv
  OBVIOUS
<1>1. /\ refs = [b \in RefName |-> Nil] /\ seen = [r \in Req |-> refs]
      /\ odb = [pack |-> 0, blobs |-> <<>>, map |-> <<>>,
                tier1 |-> [file |-> <<>>, at |-> 0, len |-> 0, known |-> {}]]
      /\ pc = [r \in Req |-> "start"] /\ todo = [r \in Req |-> {}]
      /\ pre = [r \in Req |-> Nil] /\ post = [r \in Req |-> Nil] /\ reply = [r \in Req |-> Nil]
  BY DEF ReceiveInit
<1>2. /\ <<>> \in Seq(Object) /\ <<>> \in Seq(Prismatic \cup {Nil}) /\ Len(<<>>) = 0
      /\ DOMAIN <<>> = {}
  OBVIOUS
<1>3. \A r \in Req : pc[r] = "start" /\ pc[r] \notin Waiting /\ pc[r] \notin Holding
  BY <1>1 DEF Waiting, Holding
<1>4. TypeInv
  <2>1. MaxRolls \in Nat /\ 0 \in 0 .. MaxRolls
    BY DEF ReceivePackAssumption
  <2>2. odb \in Odbs
    BY <1>1, <1>2, <2>1 DEF Odbs, Tier1s
  <2>3. IsInjective(odb.blobs) /\ IsInjective(odb.map)
    BY <1>1, <1>2 DEF IsInjective
  <2> QED
    BY <1>1, <1>3, <2>2, <2>3 DEF TypeInv, PlacedWell, States
<1>5. StoreInv
  BY <1>1, <1>2 DEF StoreInv, Mapped, Elements
<1>6. RewindInv
  BY <1>3 DEF RewindInv, CheckOf, OwnOf, Takes, RangeOf, OrderOf, Holding
<1>7. PinInv
  BY <1>1, <1>3 DEF PinInv, RefPin, PushPin
<1> QED
  BY <1>4, <1>5, <1>6, <1>7 DEF ReceiveInv

-----------------------------------------------------------------------------
(* The theorems.                                                           *)

\* The files and the requests keep their types, no object is stored or mapped twice,
\* and the checkpoints of a push come one after the other, whatever is pushed.
THEOREM ReceiveTypes == ReceiveSpec => []ReceiveTypeOK
<1>1. ReceiveInit => TypeInv
  BY InitHolds, ReceivePackAssumption DEF ReceiveInv
<1>2. TypeInv /\ [ReceiveNext]_receiveVars => TypeInv'
  <2>1. TypeInv /\ ReceiveNext => TypeInv'
    BY StepTypes, ReceivePackAssumption
  <2>2. TypeInv /\ UNCHANGED receiveVars => TypeInv'
    BY DEF TypeInv, PlacedWell, Free, receiveVars
  <2> QED
    BY <2>1, <2>2
<1>3. TypeInv => ReceiveTypeOK
  BY TypesHold
<1> QED
  BY <1>1, <1>2, <1>3, PTL DEF ReceiveSpec

\* Only a rollback takes identities out of the map.
LEMMA OthersAdd ==
    ASSUME ReceivePackAssumption, TypeInv, ReceiveNext, \A r \in Req : ~RollBack(r)
    PROVE  Mapped \subseteq Mapped'
<1>1. CASE odb'.map = odb.map
  BY <1>1 DEF Mapped, Elements
<1>2. ASSUME NEW r \in Req, PutNext(r) PROVE Mapped \subseteq Mapped'
  <2>1. PICK o \in todo[r], pack \in {odb.pack, odb.pack + 1} : odb' = [Put(odb, o) EXCEPT !.pack = pack]
    BY <1>2 DEF PutNext
  <2>2. o \in Object /\ odb.map \in Seq(Object)
    BY <2>1, FilesAre DEF TypeInv
  <2>3. odb'.map = Put(odb, o).map
    BY <2>1, <2>2, PutIs DEF Odbs
  <2>4. CASE o \in Mapped
    BY <1>1, <2>2, <2>3, <2>4, PutIs
  <2>5. CASE o \notin Mapped
    <3>1. odb'.map = Append(odb.map, o)
      BY <2>2, <2>3, <2>5, PutIs
    <3>2. Elements(odb.map) \subseteq Elements(Append(odb.map, o))
      BY <2>2, Longer
    <3> QED
      BY <3>1, <3>2, SMTT(30) DEF Mapped, Elements
  <2> QED
    BY <2>4, <2>5
<1>3. CASE RestartServer
  <2>1. odb'.map = odb.map
    BY <1>3 DEF RestartServer, TypeInv, Odbs
  <2> QED
    BY <1>1, <2>1
<1>4. ASSUME NEW r \in Req, odb' = odb PROVE Mapped \subseteq Mapped'
  BY <1>1, <1>4
<1>5. ASSUME NEW r \in Req, Handle(r) PROVE Mapped \subseteq Mapped'
  BY <1>2, <1>4, <1>5 DEF Handle, Advertise, SignatureBlock, StartIngest, EndIngest,
     CommitGate, CommitGateOpen, CommitRefs, RefuseRefs, Await
<1> QED
  BY <1>3, <1>5 DEF ReceiveNext

\* A rejected push takes nothing out of the map but what was put between its two
\* checkpoints, and nothing else does; whoever else is at work (the comment of
\* apply_pack_into_store).
THEOREM RewindsTakeOwn == ReceiveSpec => RewindTakesOwn
<1> DEFINE Own == \A o \in Mapped \ Mapped' :
                     \E r \in Req :
                         /\ pc[r] = "rejected" /\ pc'[r] = "done"
                         /\ o \in Elements(SubSeq(odb.map, pre[r].map + 1, post[r].map))
<1>1. TypeInv /\ [ReceiveNext]_receiveVars => [Own]_receiveVars
  <2> SUFFICES ASSUME TypeInv, ReceiveNext, NEW o \in Mapped \ Mapped'
               PROVE  \E r \in Req :
                         /\ pc[r] = "rejected" /\ pc'[r] = "done"
                         /\ o \in Elements(SubSeq(odb.map, pre[r].map + 1, post[r].map))
    OBVIOUS
  <2>1. PICK r \in Req : RollBack(r)
    BY OthersAdd, ReceivePackAssumption
  <2>2. pc[r] = "rejected" /\ pc'[r] = "done"
    BY <2>1 DEF RollBack, Proceed, TypeInv
  <2>3. /\ Cursor = post[r] /\ odb' = Rewound(odb, pre[r])
    BY <2>1 DEF RollBack, Mapped
  <2>4. /\ pre[r] \in Places /\ pre[r].map <= post[r].map /\ pre[r].blobs <= post[r].blobs
        /\ post[r].map = Len(odb.map) /\ post[r].blobs = Len(odb.blobs)
        /\ odb.map \in Seq(Object) /\ Len(odb.map) \in Nat /\ DOMAIN odb.map = 1 .. Len(odb.map)
    BY <2>2, <2>3, FilesAre, ReceivePackAssumption DEF TypeInv, PlacedWell, Waiting, Cursor
  <2>5. odb'.map = odb.map \/ odb'.map = SubSeq(odb.map, 1, pre[r].map)
    BY <2>3, <2>4, RewoundIs, ReceivePackAssumption
  <2>6. odb'.map = SubSeq(odb.map, 1, pre[r].map)
    BY <2>5 DEF Mapped, Elements
  <2>7. PICK i \in DOMAIN odb.map : odb.map[i] = o
    BY DEF Mapped, Elements
  <2>8. pre[r].map \in 0 .. Len(odb.map)
    BY <2>4 DEF Places
  <2>9. pre[r].map < i /\ i <= post[r].map /\ i \in Nat
    <3>1. SUFFICES ASSUME i <= pre[r].map PROVE FALSE
      BY <2>4, <2>7, <2>8
    <3>2. i \in DOMAIN odb'.map /\ odb'.map[i] = o
      BY <2>4, <2>6, <2>7, <2>8, <3>1, Shorter
    <3> QED
      BY <3>2 DEF Mapped, Elements
  <2>10. o \in Elements(SubSeq(odb.map, pre[r].map + 1, post[r].map))
    <3> DEFINE m == pre[r].map + 1
               n == post[r].map
               t == SubSeq(odb.map, m, n)
    <3>1. PICK a \in Nat, b \in Nat :
             a = m /\ b = n /\ 1 <= a /\ a <= i /\ i <= b /\ b <= Len(odb.map)
      <4>1. m \in Nat /\ n \in Nat
        BY <2>4, <2>8
      <4>2. 1 <= m /\ m <= i /\ i <= n /\ n <= Len(odb.map)
        BY <2>4, <2>8, <2>9
      <4> HIDE DEF m, n
      <4> QED
        BY <4>1, <4>2
    <3>2. t = SubSeq(odb.map, a, b)
      BY <3>1
    <3>3. i - a + 1 \in DOMAIN t /\ t[i - a + 1] = odb.map[i]
      <4> HIDE DEF m, n, t
      <4> QED
        BY <2>4, <2>9, <3>1, <3>2, SMTT(30)
    <3> QED
      BY <2>7, <3>3 DEF Elements
  <2> QED
    BY <2>2, <2>10
<1>2. ReceiveInit => TypeInv
  BY InitHolds, ReceivePackAssumption DEF ReceiveInv
<1>3. TypeInv /\ [ReceiveNext]_receiveVars => TypeInv'
  <2>1. TypeInv /\ ReceiveNext => TypeInv'
    BY StepTypes, ReceivePackAssumption
  <2>2. TypeInv /\ UNCHANGED receiveVars => TypeInv'
    BY DEF TypeInv, PlacedWell, Free, receiveVars
  <2> QED
    BY <2>1, <2>2
<1> QED
  BY <1>1, <1>2, <1>3, PTL DEF ReceiveSpec, RewindTakesOwn

\* What a ref points at is in the map with its content.
LEMMA PinnedIsComplete == ReceiveInv => RefsComplete
<1>1. ReceiveInv => \A o : Kept(o, {}) => o \in Mapped /\ HasContent(o)
  BY KeptIsThere DEF ReceiveInv
<1> QED
  BY <1>1 DEF ReceiveInv, PinInv, RefPin, RefsComplete

\* What refs point at is complete, as long as pushes that are at work at one time
\* have no object in common and none that brought a decomposed object is rejected
\* (handle_receive_pack; without either a rollback can take a ref's objects away).
THEOREM RefsStayComplete == ReceiveSpec /\ []Apart /\ []Plain => []RefsComplete
<1>1. ReceiveInit => ReceiveInv
  BY InitHolds, ReceivePackAssumption
<1>2. ReceiveInv /\ Apart /\ Plain /\ [ReceiveNext]_receiveVars => ReceiveInv'
  BY StepKeeps, ReceivePackAssumption
<1>3. ReceiveInv => RefsComplete
  BY PinnedIsComplete
<1> QED
  BY <1>1, <1>2, <1>3, PTL DEF ReceiveSpec
=============================================================================
