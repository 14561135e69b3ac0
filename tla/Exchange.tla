------------------------------- MODULE Exchange -------------------------------
(***************************************************************************)
(* Clones, fetches and pushes between repositories and one altd-server     *)
(* (crates/alt-cli/src/native.rs, src/bin/altd_server.rs, alt-repo): what  *)
(* the two sides send each other, decide from it, and store.  A process is *)
(* one alt command; processes of one repository share its refs, its odb    *)
(* and the file a fetch saves its pack in, and hold no lock between steps. *)
(*                                                                         *)
(* A commit stands for itself and its tree.  The server serves each push   *)
(* on a thread of its own, which holds the mutex of the store while it     *)
(* ingests, while it commits and while it rolls back, and not in between;  *)
(* the single puts are module ReceivePack's, a transaction RefStore's.     *)
(***************************************************************************)
EXTENDS Integers, Sequences, FiniteSets, SequencesExt

CONSTANTS
    Repo,         \* the repositories of the clients
    Proc,         \* the processes
    Home,         \* the repository each works in
    Fetchers,     \* the processes that fetch
    Pushers,      \* ... that commit and push
    Forcers,      \* ... that also go back and push with -f
    Ref,          \* branch names
    Commit,       \* all commits there may be
    Parents,      \* the parents of each
    Author,       \* the repository each is made in
    Root,         \* the commit the server starts with
    Clones,       \* the repositories that are clones of it already
    Signs,        \* the repositories that sign their pushes
    MustSign,     \* ... and those of which the policy asks it (require_signed)
    NonceCap,     \* 1024
    MaxAdverts,   \* bound: push advertisements
    MaxCopies,    \* bound: deliveries of a push request, by whether it is forced
    MaxDoubled,   \* bound: requests delivered more than once
    None

\* What a repository, a command that fetches or pushes, and a request hold.
Refs == [Ref -> Commit \cup {None}]
Repository == [made : BOOLEAN, heads : Refs, remotes : Refs, odb : SUBSET Commit,
               tmp : (SUBSET Commit) \cup {None}]
Fetch == [at : {"listed", "saved", "stored"}, old : Refs, new : [Ref -> Commit], clone : BOOLEAN]
Told == [at : {"told"}, refs : [Ref -> Commit], nonce : Nat, ref : Ref, new : Commit,
         force : BOOLEAN]
Request == [ref : Ref, old : Commit, new : Commit, pack : SUBSET Commit, force : BOOLEAN,
            signed : BOOLEAN, must : BOOLEAN, came : Nat, took : Nat]

\* A thread of the server: the request, which of its deliveries it is, and the
\* odb before and after the ingest.
Thread == [n : Nat, copy : Nat, at : {"verified", "ingested", "failed"},
           pre : SUBSET Commit, post : SUBSET Commit]

ASSUME ExchangeAssumption ==
    /\ Fetchers \subseteq Proc /\ Pushers \subseteq Proc /\ Forcers \subseteq Pushers
    /\ Home \in [Proc -> Repo] /\ Author \in [Commit -> Repo]
    /\ Root \in Commit /\ Parents \in [Commit -> SUBSET Commit] /\ Parents[Root] = {}
    /\ Clones \subseteq Repo
    /\ Signs \subseteq Repo /\ MustSign \subseteq Repo
    /\ NonceCap \in Nat \ {0} /\ MaxAdverts \in Nat /\ MaxCopies \in [BOOLEAN -> Nat]
    /\ MaxDoubled \in Nat
    /\ None \notin Commit \cup Request

VARIABLES
    served,  \* the server's refs and odb
    nonces,  \* its NonceTable, oldest first
    repos,   \* each repository: heads, remote-tracking refs, odb, incoming pack
    cmd,     \* what each process is at
    wire,    \* the push requests sent, by nonce, with how often each took effect
    threads  \* the pushes the server is at

vars == <<served, nonces, repos, cmd, wire, threads>>

NoRefs == [b \in Ref |-> None]
Idle == [at |-> "idle"]
Empty == [made |-> TRUE, heads |-> NoRefs, remotes |-> NoRefs, odb |-> {}, tmp |-> None]
Absent == [Empty EXCEPT !.made = FALSE]

-----------------------------------------------------------------------------
Tips(state) == {state[b] : b \in Ref} \ {None}

\* Every parent that is there is among them too.
Closed(db, some) == \A c \in some : Parents[c] \cap db \subseteq some

\* reachable_objects(): what is not in the odb is passed over, with all behind it.
\* What is reached is in every closed set with the starting points.
Reach(db, from) ==
    {c \in db : \A some \in SUBSET db : from \cap db \subseteq some /\ Closed(db, some)
                                           => c \in some}

History(from) == Reach(Commit, from)

\* The excluded walk, then the wanted one, which stops at what is excluded.
Packed(db, want, have) ==
    LET out == Reach(db, have) \cup have
    IN  Reach(db \ out, want)

\* try_is_ancestor(): both must be there.
FastForward(db, old, new) == {old, new} \subseteq db /\ old \in Reach(db, {new})

-----------------------------------------------------------------------------
\* The server has one commit on every branch.
Init ==
    /\ served = [refs |-> [b \in Ref |-> Root], odb |-> {Root}]
    /\ nonces = <<>>
    /\ repos = [r \in Repo |->
         IF r \in Clones
         THEN [Empty EXCEPT !.heads = served.refs, !.remotes = served.refs, !.odb = {Root}]
         ELSE Absent]
    /\ cmd = [p \in Proc |-> Idle]
    /\ wire = <<>>
    /\ threads = {}

Here(p) == repos[Home[p]]
Goto(p, to) == cmd' = [cmd EXCEPT ![p] = to]

(***************************************************************************)
(* fetch(): the refs are read when the command opens the repository, and   *)
(* `old` comes from them; ls-refs then says what the server has.           *)
(***************************************************************************)
Listed(mine, clone) ==
    [at |-> "listed", old |-> mine, new |-> served.refs, clone |-> clone]

\* build_pack_for_fetch(): what is wanted, less what the client has.
ServedPack(p) == Packed(served.odb, Tips(cmd[p].new), Tips(cmd[p].old))

FetchList(p) ==
    /\ p \in Fetchers /\ cmd[p] = Idle /\ Here(p).made
    /\ Goto(p, Listed(Here(p).remotes, FALSE))
    /\ UNCHANGED <<served, nonces, repos, wire, threads>>

\* clone(): init(), remote_add(), and a fetch.
CloneList(p) ==
    /\ p \in Fetchers /\ cmd[p] = Idle /\ ~Here(p).made
    /\ repos' = [repos EXCEPT ![Home[p]] = Empty]
    /\ Goto(p, Listed(NoRefs, TRUE))
    /\ UNCHANGED <<served, nonces, wire, threads>>

\* The request and its answer; the pack goes to
\* pack/fetch-<remote>-incoming.pack, whatever is there.  An empty one is
\* removed and not indexed.
FetchSave(p) ==
    /\ cmd[p].at = "listed"
    /\ LET pack == ServedPack(p)
       IN  /\ repos' = [repos EXCEPT ![Home[p]].tmp = IF pack = {} THEN None ELSE pack]
           /\ Goto(p, [cmd[p] EXCEPT !.at = IF pack = {} THEN "stored" ELSE "saved"])
    /\ UNCHANGED <<served, nonces, wire, threads>>

\* index_pack() names the objects in the file, and renames it.
Indexed(repo, some) == [repo EXCEPT !.odb = @ \cup some, !.tmp = None]

\* The objects of the pack are put and flushed.
FetchStore(p) ==
    /\ cmd[p].at = "saved" /\ Here(p).tmp # None
    /\ repos' = [repos EXCEPT ![Home[p]] = Indexed(@, @.tmp)]
    /\ Goto(p, [cmd[p] EXCEPT !.at = "stored"])
    /\ UNCHANGED <<served, nonces, wire, threads>>

\* Killed between two puts.
FetchDies(p) ==
    /\ cmd[p].at = "saved" /\ Here(p).tmp # None
    /\ \E some \in (SUBSET Here(p).tmp) \ {Here(p).tmp} :
         repos' = [repos EXCEPT ![Home[p]] = Indexed(@, some)]
    /\ Goto(p, Idle)
    /\ UNCHANGED <<served, nonces, wire, threads>>

\* Mutant: the tracking refs are set to what was listed.
FetchRefsBlind(p) ==
    /\ cmd[p].at = "stored"
    /\ repos' = [repos EXCEPT ![Home[p]].remotes = cmd[p].new]
    /\ Goto(p, IF cmd[p].clone THEN [at |-> "cloned"] ELSE Idle)
    /\ UNCHANGED <<served, nonces, wire, threads>>

\* One transaction with a compare-and-set for every tracking ref that differs.
FetchRefs(p) ==
    /\ cmd[p].at = "stored"
    /\ LET moved == {b \in Ref : cmd[p].old[b] # cmd[p].new[b]}
           mine  == Here(p).remotes
       IN  /\ \A b \in moved : mine[b] = cmd[p].old[b]
           /\ repos' = [repos EXCEPT ![Home[p]].remotes =
                          [b \in Ref |-> IF b \in moved THEN cmd[p].new[b] ELSE mine[b]]]
    /\ Goto(p, IF cmd[p].clone THEN [at |-> "cloned"] ELSE Idle)
    /\ UNCHANGED <<served, nonces, wire, threads>>

\* pick_clone_branch(): by the server's HEAD, or by name.
Picked(remotes) == {b \in Ref : remotes[b] # None}

\* create_branch_at(), point_head_at().
CloneBranch(p) ==
    /\ cmd[p].at = "cloned"
    /\ \E b \in Picked(Here(p).remotes) :
         /\ repos' = [repos EXCEPT ![Home[p]].heads[b] =
                        IF @ = None THEN Here(p).remotes[b] ELSE @]
    /\ Goto(p, Idle)
    /\ UNCHANGED <<served, nonces, wire, threads>>

\* A command that is refused, has an error or is killed between two steps.
Fail(p) ==
    /\ cmd[p] # Idle
    /\ Goto(p, Idle)
    /\ UNCHANGED <<served, nonces, repos, wire, threads>>

-----------------------------------------------------------------------------
\* The other commands move branches: a commit or a merge on top of what is
\* there, and an undo or a reset back to a parent.
Work(p) ==
    /\ p \in Pushers /\ cmd[p] = Idle
    /\ \E b \in Ref, c \in Commit :
         /\ Author[c] = Home[p] /\ c \notin Here(p).odb
         /\ Here(p).heads[b] \in Parents[c]
         /\ Parents[c] \subseteq Here(p).odb
         /\ Parents[c] \subseteq Tips(Here(p).heads) \cup Tips(Here(p).remotes)
         /\ repos' = [repos EXCEPT ![Home[p]].heads[b] = c, ![Home[p]].odb = @ \cup {c}]
    /\ UNCHANGED <<served, nonces, cmd, wire, threads>>

StepBack(p) ==
    /\ p \in Forcers /\ cmd[p] = Idle
    /\ \E b \in Ref : /\ Here(p).heads[b] # None
                      /\ \E c \in Parents[Here(p).heads[b]] \cap Here(p).odb :
                           repos' = [repos EXCEPT ![Home[p]].heads[b] = c]
    /\ UNCHANGED <<served, nonces, cmd, wire, threads>>

(***************************************************************************)
(* NonceTable: issue() drops the oldest of a full table, consume() answers *)
(* once.                                                                   *)
(***************************************************************************)
Issued(table, n) ==
    Append(IF Len(table) >= NonceCap THEN Tail(table) ELSE table, n)

\* Mutant: a nonce that is looked up stays.
ConsumedNot(table, n) == table

Consumed(table, n) ==
    LET at == {i \in DOMAIN table : table[i] = n}
    IN  IF at = {} THEN table ELSE RemoveAt(table, CHOOSE i \in at : TRUE)

\* push(): info/refs gives the server's refs and a nonce.  `new` was read when
\* the command opened the repository.
PushAsk(p) ==
    /\ p \in Pushers /\ cmd[p] = Idle /\ Len(wire) < MaxAdverts
    /\ \E b \in Ref, force \in BOOLEAN :
         /\ force => p \in Forcers
         /\ Here(p).heads[b] # None
         /\ Goto(p, [at |-> "told", refs |-> served.refs, nonce |-> Len(wire) + 1,
                     ref |-> b, new |-> Here(p).heads[b], force |-> force])
    /\ nonces' = Issued(nonces, Len(wire) + 1)
    /\ wire' = Append(wire, None)
    /\ UNCHANGED <<served, repos, threads>>

\* Not up to date, a fast-forward of what was advertised unless forced; the pack
\* leaves out what any advertised ref reaches.
PushSend(p) ==
    /\ cmd[p].at = "told"
    /\ LET old  == cmd[p].refs[cmd[p].ref]
           mine == Here(p).odb
       IN  /\ cmd[p].new # old
           /\ (~cmd[p].force /\ old # None) => FastForward(mine, old, cmd[p].new)
           /\ wire' = [wire EXCEPT ![cmd[p].nonce] =
                 [ref |-> cmd[p].ref, old |-> old, new |-> cmd[p].new,
                  pack |-> Packed(mine, {cmd[p].new}, Tips(cmd[p].refs)),
                  force |-> cmd[p].force,
                  signed |-> Home[p] \in Signs, must |-> Home[p] \in MustSign,
                  came |-> 0, took |-> 0]]
    /\ Goto(p, Idle)
    /\ UNCHANGED <<served, nonces, repos, threads>>

-----------------------------------------------------------------------------
\* A delivery of the n-th request.
Delivered(n) == [wire EXCEPT ![n].came = @ + 1]

\* verify_push_signature(): the nonce a signed push echoes must be there, and
\* is consumed.  (A client that echoes none is older than the nonces.)
Verified(n) == wire[n].signed /\ \E i \in 1 .. Len(nonces) : nonces[i] = n

\* require_signed refuses what is not verified.
Refused(n) == wire[n].must /\ ~Verified(n)

Checked(n) == IF wire[n].signed THEN Consumed(nonces, n) ELSE nonces

\* Bounds: how often it comes, and how many come more than once.
MayCome(n) ==
    /\ wire[n].came < MaxCopies[wire[n].force]
    /\ wire[n].came > 0 =>
         Cardinality({m \in 1 .. Len(wire) : wire[m] # None /\ wire[m].came > 1}) < MaxDoubled

\* handle_receive_pack(): one that is refused reads no pack and takes none back.
Deliver(n) ==
    /\ wire[n] # None /\ MayCome(n)
    /\ nonces' = Checked(n)
    /\ wire' = Delivered(n)
    /\ threads' = IF Refused(n) THEN threads
                  ELSE threads \cup {[n |-> n, copy |-> wire[n].came, at |-> "verified",
                                      pre |-> {}, post |-> {}]}
    /\ UNCHANGED <<served, repos, cmd>>

Ends(t) == threads' = threads \ {t}

\* The first section under the mutex: the cursor, the puts, the cursor.  A pack
\* that fails half way leaves what went in before.
Ingest(t) ==
    /\ t.at = "verified"
    /\ \E some \in SUBSET wire[t.n].pack, at \in {"ingested", "failed"} :
         LET db == served.odb \cup some
         IN  /\ at = "ingested" => some = wire[t.n].pack
             /\ served' = [served EXCEPT !.odb = db]
             /\ threads' = (threads \ {t}) \cup
                             {[t EXCEPT !.at = at, !.pre = served.odb, !.post = db]}
    /\ UNCHANGED <<nonces, repos, cmd, wire>>

\* Mutant: the update is not compared with what the branch is at.
AgreesAlways(m) == TRUE

\* commit_ref_updates(): the compare-and-set.
Agrees(m) == served.refs[m.ref] = m.old

\* The second: the ref moves.
CommitRef(t) ==
    /\ t.at = "ingested" /\ Agrees(wire[t.n])
    /\ served' = [served EXCEPT !.refs[wire[t.n].ref] = wire[t.n].new]
    /\ wire' = [wire EXCEPT ![t.n].took = @ + 1]
    /\ Ends(t)
    /\ UNCHANGED <<nonces, repos, cmd>>

\* Mutant: the rewind does not ask whether others wrote since.
RewoundToAlways(t) == {t.pre}

\* rewind(): where nobody wrote since; a pack that was rolled refuses it.
RewoundTo(t) == IF served.odb = t.post THEN {t.pre, served.odb} ELSE {served.odb}

\* The third, of a push that its pack, a gate or the compare-and-set rejects.
TakeBack(t) ==
    /\ t.at \in {"ingested", "failed"}
    /\ \E db \in RewoundTo(t) : served' = [served EXCEPT !.odb = db]
    /\ Ends(t)
    /\ UNCHANGED <<nonces, repos, cmd, wire>>

\* The server ends, with its threads, and is started again.
Restart ==
    /\ nonces' = <<>> /\ threads' = {}
    /\ UNCHANGED <<served, repos, cmd, wire>>

Step(p) ==
    \/ FetchList(p) \/ CloneList(p) \/ FetchSave(p) \/ FetchStore(p) \/ FetchDies(p)
    \/ FetchRefs(p) \/ CloneBranch(p) \/ PushAsk(p) \/ PushSend(p) \/ Fail(p)
    \/ Work(p) \/ StepBack(p)

Next ==
    \/ \E p \in Proc : Step(p)
    \/ \E n \in 1 .. Len(wire) : Deliver(n)
    \/ \E t \in threads : Ingest(t) \/ CommitRef(t) \/ TakeBack(t)
    \/ Restart

Spec == Init /\ [][Next]_vars

-----------------------------------------------------------------------------
\* The types of what a command holds and of the requests in flight (fetch, push).
Command == {Idle, [at |-> "cloned"]} \cup Fetch \cup Told
TypeOK ==
    /\ served \in [refs : [Ref -> Commit], odb : SUBSET Commit]
    /\ nonces \in Seq(1 .. Len(wire))
    /\ repos \in [Repo -> Repository]
    /\ cmd \in [Proc -> Command]
    /\ wire \in Seq(Request \cup {None})
    /\ threads \in SUBSET Thread

\* A branch of the server only loses commits to a push that was forced: the
\* check for a fast-forward is made by the client, on what it was told, and the
\* server only compares (ensure_fast_forward, commit_ref_updates).
NoLostUpdate ==
    [][\A b \in Ref :
         \/ served'.refs[b] = served.refs[b]
         \/ served.refs[b] \in History({served'.refs[b]})
         \/ \E n \in 1 .. Len(wire) : wire[n] # None /\ wire[n].force /\ wire'[n] # wire[n]]_vars

Forced == \E n \in 1 .. Len(wire) : wire[n] # None /\ wire[n].force

\* While nobody forces, a tracking ref never goes back to an earlier answer of
\* the server, however many fetches of one repository overlap (fetch()).
TrackingAdvances ==
    [][\A r \in Repo, b \in Ref :
         LET was == repos[r].remotes[b]
         IN  was \in {None, repos'[r].remotes[b]} \/ Forced \/ was \in History({repos'[r].remotes[b]})]_vars

\* A push that must be signed takes effect once, however often its request
\* arrives and wherever the branch has been since (NonceTable, maybe_sign_push).
SignedOnce ==
    \A n \in 1 .. Len(wire) : wire[n] # None /\ wire[n].must => wire[n].took <= 1

\* A commit that came twice: in two requests, or in one that was delivered twice.
Came(n) == wire[n] # None /\ wire[n].came > 0
CameTwice(c) ==
    \E m, n \in 1 .. Len(wire) :
        /\ Came(m) /\ Came(n) /\ c \in wire[m].pack \cap wire[n].pack
        /\ m # n \/ wire[n].came >= 2

\* Of what a ref of the server points at, with all behind it, nothing is missing
\* but what came twice: the rewind of a rejected push takes nothing that another
\* brought, and what a client leaves out of a pack is there (handle_receive_pack,
\* push(), reachable_objects).
OnlyTheDoubledIsLost ==
    \A c \in History(Tips(served.refs)) \ served.odb : CameTwice(c)

\* What a tracking ref points at is in its repository with all behind it, so that
\* what the next fetch says it has is true (fetch(), collect_haves; index_pack:
\* "we hold the only handle").
TrackedComplete ==
    \A r \in Repo : History(Tips(repos[r].remotes)) \subseteq repos[r].odb
=============================================================================
