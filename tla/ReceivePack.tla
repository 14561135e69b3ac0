---------------------------- MODULE ReceivePack ----------------------------
(***************************************************************************)
(* git-receive-pack of crates/alt-cli/src/bin/altd_server.rs: concurrent   *)
(* pushes into one store.  A push puts its pack's objects into the odb,    *)
(* passes the gates, and moves its ref in one compare-and-set transaction; *)
(* one that is rejected rewinds the odb to where it was before the pack.   *)
(* The pack goes in object by object, all under the store's mutex: between *)
(* two of them only the end of the server can come.                        *)
(*                                                                         *)
(* A push is the ref and what it is to point at.  What a signature is, and *)
(* what the policy says of it, is a choice: every gate may pass or reject. *)
(* How a flush waits for the device is module GroupCommit's.               *)
(***************************************************************************)
EXTENDS Integers, Sequences, FiniteSets, Functions

CONSTANTS
    Req,        \* the requests, each on a thread of its own
    RefName,    \* the ref names
    Tip,        \* the objects refs point at
    Object,     \* all objects
    Needs,      \* what each commit needs: itself, its tree, its history
    Prismatic,  \* the objects a prism decomposes
    Push,       \* what each request pushes: a ref, and a commit or Nil
    MaxRolls,   \* bound: pack rolls over the whole behaviour
    Nil         \* no commit, no checkpoint, no reply, a hole in a file

ASSUME ReceivePackAssumption ==
    /\ Tip \subseteq Object /\ Prismatic \subseteq Object /\ Nil \notin Object
    /\ Needs \in [Tip -> SUBSET Object] /\ \A c \in Tip : c \in Needs[c]
    /\ Push \in [Req -> [ref : RefName, new : Tip \cup {Nil}]]
    /\ MaxRolls \in Nat

VARIABLES
    refs,   \* the refs of the store
    odb,    \* the append files, as the one process that writes them has them
    pc,     \* where each request is
    seen,   \* the refs it was told of, when it asked (info/refs)
    pre,    \* ingest_ckpt
    post,   \* post_ingest_ckpt
    todo,   \* the objects of its pack that are still to be put
    reply   \* what its client is told

receiveVars == <<refs, odb, pc, seen, pre, post, todo, reply>>

\* The refs before the first push, and the store with no object.
ReceiveInit ==
    /\ refs = [b \in RefName |-> Nil]
    /\ odb = [pack |-> 0, blobs |-> <<>>, map |-> <<>>,
              tier1 |-> [file |-> <<>>, at |-> 0, len |-> 0, known |-> {}]]
    /\ pc = [r \in Req |-> "start"]
    /\ seen = [r \in Req |-> refs]
    /\ pre = [r \in Req |-> Nil] /\ post = [r \in Req |-> Nil]
    /\ todo = [r \in Req |-> {}]
    /\ reply = [r \in Req |-> Nil]

Proceed(r, where) == pc' = [pc EXCEPT ![r] = where]

\* Nobody else is in the middle of an ingest with the store's mutex.
Free(r) == \A s \in Req \ {r} : pc[s] # "ingesting"

Elements(s) == {s[i] : i \in DOMAIN s}

\* cursor(): the active pack and how far each append file reaches.
Cursor == [pack |-> odb.pack, blobs |-> Len(odb.blobs),
           tier1 |-> odb.tier1.len, map |-> Len(odb.map)]

(***************************************************************************)
(* put(): content, then for a decomposed object its tier1 record, then the *)
(* identity.  `blobs` holds what an object is stored as, its content or    *)
(* the record of its parts.                                                *)
(***************************************************************************)
Stored(db, o) ==
    o \in db.tier1.known \/ (o \notin Prismatic /\ o \in Elements(db.blobs))

\* The tier1 file is written at the handle's position.
Tier1Append(t, o) ==
    [file  |-> IF t.at < Len(t.file) THEN [t.file EXCEPT ![t.at + 1] = o]
               ELSE Append(t.file, o),
     at    |-> t.at + 1,
     len   |-> t.len + 1,
     known |-> t.known \cup {o}]

\* Mutant: every object gets a tier1 record.
PutBlobDecomposed(db, o) ==
    IF Stored(db, o) THEN db
    ELSE [db EXCEPT !.blobs = IF o \in Elements(@) THEN @ ELSE Append(@, o),
                    !.tier1 = Tier1Append(@, o)]

PutBlob(db, o) ==
    IF Stored(db, o) THEN db
    ELSE [db EXCEPT !.blobs = IF o \in Elements(@) THEN @ ELSE Append(@, o),
                    !.tier1 = IF o \in Prismatic THEN Tier1Append(@, o) ELSE @]

Put(db, o) ==
    IF o \in Elements(db.map) THEN db ELSE [PutBlob(db, o) EXCEPT !.map = Append(@, o)]

(***************************************************************************)
(* rewind(): chunks and blobmap, then tier1, then the map, each cut to its *)
(* length in the checkpoint; the first that fails ends it.                 *)
(***************************************************************************)
\* Sealed packs are not cut: a roll since the checkpoint refuses the rewind.
RolledSince(db, c) == c.pack # db.pack

\* The records to drop are read back through a handle opened to write only.
Tier1Fails(db, c) == db.tier1.len > c.tier1

Tier1Cut(t, c) ==
    [t EXCEPT !.file = [i \in 1 .. c.tier1 |-> IF i <= Len(@) THEN @[i] ELSE Nil],
              !.at = c.tier1]

\* Mutant: the identities are left in the map.
RewoundButMap(db, c) ==
    IF RolledSince(db, c) THEN db ELSE [db EXCEPT !.blobs = SubSeq(@, 1, c.blobs)]

Rewound(db, c) ==
    IF RolledSince(db, c) THEN db
    ELSE IF Tier1Fails(db, c)
    THEN [db EXCEPT !.blobs = SubSeq(@, 1, c.blobs), !.tier1.at = c.tier1]
    ELSE [db EXCEPT !.blobs = SubSeq(@, 1, c.blobs),
                    !.tier1 = Tier1Cut(@, c),
                    !.map   = SubSeq(@, 1, c.map)]

-----------------------------------------------------------------------------
\* GET info/refs.  From the answer the client knows the old value of its ref
\* and which objects the server has: what those refs need is not sent.
Advertise(r) ==
    /\ pc[r] = "start"
    /\ seen' = [seen EXCEPT ![r] = refs]
    /\ Proceed(r, "told")
    /\ UNCHANGED <<refs, odb, pre, post, todo, reply>>

NeededBy(state) == UNION {Needs[state[b]] : b \in {b \in RefName : state[b] # Nil}}

Pack(r) ==
    IF Push[r].new = Nil THEN {} ELSE Needs[Push[r].new] \ NeededBy(seen[r])

\* A push that must be signed and is not: no pack is read, and both
\* checkpoints are the cursor.
SignatureBlock(r) ==
    /\ pc[r] = "told" /\ Free(r)
    /\ pre' = [pre EXCEPT ![r] = Cursor]
    /\ post' = [post EXCEPT ![r] = Cursor]
    /\ Proceed(r, "rejected")
    /\ UNCHANGED <<refs, odb, seen, todo, reply>>

\* The mutex is taken for the whole of the ingest.
StartIngest(r) ==
    /\ pc[r] = "told" /\ Free(r)
    /\ pre' = [pre EXCEPT ![r] = Cursor]
    /\ todo' = [todo EXCEPT ![r] = Pack(r)]
    /\ Proceed(r, "ingesting")
    /\ UNCHANGED <<refs, odb, seen, post, reply>>

\* apply_pack_into_store(): the next object of the pack; what is appended may
\* roll the pack.
PutNext(r) ==
    /\ pc[r] = "ingesting"
    /\ \E o \in todo[r], pack \in {odb.pack, odb.pack + 1} :
         /\ pack <= MaxRolls
         /\ pack # odb.pack => Put(odb, o).blobs # odb.blobs
         /\ odb' = [Put(odb, o) EXCEPT !.pack = pack]
         /\ todo' = [todo EXCEPT ![r] = @ \ {o}]
    /\ UNCHANGED <<refs, pc, seen, pre, post, reply>>

\* All objects are in; or one cannot be read or is not what it claims, or the
\* flush at the end fails, and what went in before stays.
EndIngest(r) ==
    /\ pc[r] = "ingesting"
    /\ post' = [post EXCEPT ![r] = Cursor]
    /\ \/ todo[r] = {} /\ Proceed(r, "ingested")
       \/ Proceed(r, "rejected")
    /\ todo' = [todo EXCEPT ![r] = {}]
    /\ UNCHANGED <<refs, odb, seen, pre, reply>>

HasContent(o) == o \in Elements(odb.blobs)

NewCommits(r) == Tip \cap Pack(r)

\* require_signed_commits_block(): passes, or blocks the push.
CommitGate(r) ==
    /\ pc[r] = "ingested" /\ Free(r)
    /\ \A c \in NewCommits(r) : HasContent(c)
    /\ \E where \in {"gated", "rejected"} : Proceed(r, where)
    /\ UNCHANGED <<refs, odb, seen, pre, post, todo, reply>>

\* ... or skips, where the policy asks for no signature and reads nothing.
CommitGateOpen(r) ==
    /\ pc[r] = "ingested" /\ Free(r)
    /\ Proceed(r, "gated")
    /\ UNCHANGED <<refs, odb, seen, pre, post, todo, reply>>

\* commit_ref_updates() under the mutex: the compare-and-set, then the ticket.
CommitRefs(r) ==
    /\ pc[r] = "gated" /\ Free(r)
    /\ refs[Push[r].ref] = seen[r][Push[r].ref]
    /\ refs' = [refs EXCEPT ![Push[r].ref] = Push[r].new]
    /\ Proceed(r, "committed")
    /\ UNCHANGED <<odb, seen, pre, post, todo, reply>>

\* The ref has moved, or the policy keeps the principal from it.
RefuseRefs(r) ==
    /\ pc[r] = "gated" /\ Free(r)
    /\ Proceed(r, "rejected")
    /\ UNCHANGED <<refs, odb, seen, pre, post, todo, reply>>

\* await_durable(), which may fail; the refs stay moved.
Await(r) ==
    /\ pc[r] = "committed"
    /\ \E answer \in {"ok", "ng"} : reply' = [reply EXCEPT ![r] = answer]
    /\ Proceed(r, "done")
    /\ UNCHANGED <<refs, odb, seen, pre, post, todo>>

\* Mutant: the rewind does not ask whether others wrote since.
RollBackAlways(r) ==
    /\ pc[r] = "rejected" /\ Free(r)
    /\ odb' = IF Len(odb.map) >= pre[r].map THEN Rewound(odb, pre[r]) ELSE odb
    /\ reply' = [reply EXCEPT ![r] = "ng"]
    /\ Proceed(r, "done")
    /\ UNCHANGED <<refs, seen, pre, post, todo>>

\* Under the mutex: if nobody's bytes follow this push's, the rewind; otherwise
\* what it ingested stays.
RollBack(r) ==
    /\ pc[r] = "rejected" /\ Free(r)
    /\ odb' = IF Cursor = post[r] THEN Rewound(odb, pre[r]) ELSE odb
    /\ reply' = [reply EXCEPT ![r] = "ng"]
    /\ Proceed(r, "done")
    /\ UNCHANGED <<refs, seen, pre, post, todo>>

\* The server ends with its requests, and is started again: tier1 is read back.
RestartServer ==
    /\ pc' = [r \in Req |-> IF pc[r] = "start" THEN "start" ELSE "done"]
    /\ odb' = [odb EXCEPT !.tier1.at = Len(odb.tier1.file),
                          !.tier1.len = Len(odb.tier1.file),
                          !.tier1.known = Elements(odb.tier1.file) \ {Nil}]
    /\ todo' = [r \in Req |-> {}]
    /\ UNCHANGED <<refs, seen, pre, post, reply>>

Handle(r) ==
    \/ Advertise(r) \/ SignatureBlock(r) \/ StartIngest(r) \/ PutNext(r) \/ EndIngest(r)
    \/ CommitGate(r) \/ CommitGateOpen(r) \/ CommitRefs(r) \/ RefuseRefs(r) \/ Await(r)
    \/ RollBack(r)

ReceiveNext == RestartServer \/ \E r \in Req : Handle(r)

ReceiveSpec == ReceiveInit /\ [][ReceiveNext]_receiveVars

-----------------------------------------------------------------------------
Places == [pack : 0 .. MaxRolls, blobs : Nat, tier1 : Nat, map : Nat]

\* The types; no object is stored or mapped twice; and a checkpoint is never
\* behind the one taken before it (OdbCheckpoint).
ReceiveTypeOK ==
    /\ refs \in [RefName -> Tip \cup {Nil}]
    /\ odb \in [pack : 0 .. MaxRolls, blobs : Seq(Object), map : Seq(Object),
               tier1 : [file : Seq(Prismatic \cup {Nil}), at : Nat, len : Nat,
                        known : SUBSET Prismatic]]
    /\ IsInjective(odb.blobs) /\ IsInjective(odb.map)
    /\ pc \in [Req -> {"start", "told", "ingesting", "ingested", "gated", "committed",
                       "rejected", "done"}]
    /\ seen \in [Req -> [RefName -> Tip \cup {Nil}]]
    /\ pre \in [Req -> Places \cup {Nil}] /\ post \in [Req -> Places \cup {Nil}]
    /\ \A r \in Req :
         pc[r] \in {"ingested", "gated", "rejected"} =>
             /\ pre[r] \in Places /\ post[r] \in Places
             /\ pre[r].map <= post[r].map /\ pre[r].blobs <= post[r].blobs
    /\ todo \in [Req -> SUBSET Object] /\ reply \in [Req -> {"ok", "ng", Nil}]

Mapped == Elements(odb.map)

\* What a ref of the store points at is there, with all it needs: no other
\* push's rejection takes anything of it away (handle_receive_pack, "roll the
\* odb back").
RefsComplete ==
    \A b \in RefName : refs[b] # Nil => \A o \in Needs[refs[b]] : o \in Mapped /\ HasContent(o)

\* An object that is in the map can be read: the content goes in before the
\* identity, and a rewind takes out both (NativeOdb::put, rewind).
MappedHasContent == \A o \in Mapped : HasContent(o)

\* A rewind drops only what the rejected push itself put there (the comment of
\* apply_pack_into_store).
RewindTakesOwn ==
    [][\A o \in Mapped \ Mapped' :
         \E r \in Req :
             /\ pc[r] = "rejected" /\ pc'[r] = "done"
             /\ o \in Elements(SubSeq(odb.map, pre[r].map + 1, post[r].map))]_receiveVars
=============================================================================
