# alt: a verification project

`alt` is a version-control system in Rust that keeps its own store (an append-only
operation log, a content-addressed object database, refs that are replayed from the
log) and speaks git's formats and wire protocol. This directory holds TLA+ modules
of the parts where processes, threads, crashes and retries meet, and of the algorithms
and formats between them; TLC configurations that check them on small instances; and
TLAPS proofs, for every size, of what matters most about the operation log, the ref
store, the group commit, the object database, the daemon, the server's receive-pack, the
exchange of clients with it, and the workspaces.

Paths below are relative to `src/crates/`. `PROJECT.json` maps every modelled
definition to its lines and lists runs, mutants, hazards and theorems.

## The system

| Part | Keeps | Operations | Talks to |
|---|---|---|---|
| operation log, `alt-oplog` | file `log` of hash-chained records, `durable` marker, each process's replayed copy | open/repair, `append_checked`, `refresh`, `sync` (inline or deferred) | flock on `log` and `sync.lock`; every process of a repository |
| ref store, `alt-refs` | a map replayed from the log, snapshot file, idempotency index | `commit_idempotent`, `record_op`, `refresh`, `snapshot` | the log; a `RefPolicy` |
| object database, `alt-odb` over `alt-store` | packs, blobmap, `tier1`, `map.alt`, `odb.durable` | `put`, `put_blob`, `flush`, `checkpoint`, `rewind`, `refresh` | flock on `odb.lock`, `odb.sync.lock` |
| chunk store, `alt-store` | sealed and active packs, blobmap, lineage deltas | append, seal, compact, rewind | used by the odb only |
| group commit, `alt-cli/src/group_commit.rs` | tickets, `durable`, `syncing`, a condition variable | `assign`, `await_durable` | the sink of `native.rs` that fsyncs odb and log |
| daemon `altd` and its client, `bin/altd.rs`, `client.rs` | a warm store, write epoch, index of applied ids, socket file | serve in two phases, idle exit; connect, spawn, retry, fall back | Unix socket; group commit; ref store |
| HTTP server, `bin/altd_server.rs` | one store behind a mutex, nonce table, ACL, policy | advertise, receive-pack with gates and rewind, upload-pack | odb, ref store, group commit, git clients |
| workspaces and branch commands, `native.rs`, `native/workspace.rs`, `commit.rs`, `add.rs`, `alt-flow` | a HEAD, an index and a working tree per workspace; refs and log shared | workspace add and rm, switch, branch, add, commit, flow, undo | ref store, odb, other workspaces |
| commands that stop half way, `native/merge.rs`, `rebase.rs`, `revert.rs`, `cherry_pick.rs`, `bisect.rs` | state files, scratch refs, unmerged index entries | start, continue, skip, abort, mark | working tree, refs |
| exchange with a server, `fetch`, `push`, `clone` in `native.rs`, `alt-wire` | tracking refs, a temporary pack; the server's nonces | negotiate, send, store, move refs | HTTP; odb; refs |
| algorithms and formats, `alt-diff`, `alt-merge`, `alt-worktree`, `alt-cdc`, `alt-git-*`, `alt-repo` | none | diff, merge, scan, parse, write, walk | the commands |
| prism codecs, import/export, rendering, web | none of their own | encode, decode, walk | |

What is hard here: one set of append-only files is written by several processes that
each hold a copy in memory; fsyncs are coalesced between processes through markers
that are read without the lock; a daemon answers one client on another's flush; a
lost answer is retried against a process that may have restarted; a rejected push
cuts files that other pushes rely on; and the whole must survive a power loss at any
byte.

What makes each part correct:

- **log**: one chain, every in-memory copy a prefix of it, no acknowledged operation lost;
- **refs**: one history of atomic compare-and-set transactions, whatever snapshot or failed sync a process starts from;
- **odb**: an identity never without its content, in the files, in memory and on the device;
- **group commit**: an answer of 0 only over durable bytes, no lost wake-up, no wasted flush, everyone answered;
- **daemon**: a write takes effect once, however often it is retried; an idle exit drops nothing accepted;
- **server**: a ref has everything it needs, but for what was sent twice; a rejected push takes back only its own;
- **chunk store**: every indexed chunk can be read, through any chain of deltas, roll, compaction or crash; the rewind of a push takes only what that push put first;
- **workspaces**: a branch has one holder, a workspace's files are those of its HEAD, two undos cancel out, a finished topic is merged before its branch goes;
- **commands that stop**: a rebased branch loses no change, an abort restores everything, a bisect names the culprit;
- **exchange**: no branch loses a commit to a stale push, no ref an object but one sent twice, a signed push is taken once, tracking refs follow the server;
- **algorithms and formats**: what is written reads back; a diff applied gives the other text; a merge takes what one side changed; a pattern matches what its grammar means.

## The modules

| Module | Models | State and actions |
|---|---|---|
| `OpChain` | the promise of the log: a chain that grows at the end and never loses a promised operation | abstract |
| `OpLog` | `alt-oplog/src/lib.rs` | `disk`, `torn`, `flushed`, `marker` are the files and the device; `mem`, `lenBytes` are `ops` and `len_bytes`. Locked sections are split where the lock is released or another lock's holder can act; the write is atomic or torn; a repair may fail (`OpenRepairFails`), and a catch-up fail before it has changed anything (`CatchUpFails`) or after its records have joined the view (`CutFails`) |
| `RefHistory` | the promise of the ref store: one history, readers move forward in it | abstract |
| `RefStore` | `alt-refs/src/lib.rs`, `undo` of `native.rs` | `refs`, `applied`, `since` are the fields of `RefStore`; `Commit` is validation and append under the flock, `SyncOk` the rest of `commit_idempotent` |
| `GroupCommit` | `group_commit.rs`, the two phases of `serve`, `StoreSink` | sections under the coordinator's mutex are one action; the two fsyncs are two |
| `Daemon` | `client.rs` `serve_write`, `altd.rs` `serve`/`dispatch`, the idempotency index | a daemon process lives once; the request's progress (`work`) outlives the client's interest |
| `DaemonBind` | `altd.rs` `run`/`bind`, `client.rs` `connect_or_spawn` | `bind(2)`, the probe, the removal and the second `bind` are four steps |
| `Odb` | `alt-odb/src/lib.rs`, `tier1.rs`, `map.rs`, the pack of `alt-store` | a file is its sequence of records, `view` is what a process has read, each append and each fsync is an action; `use` is how the store is used, chosen at first |
| `ReceivePack` | `handle_receive_pack`, `NativeOdb::checkpoint`/`rewind` | a pack is ingested object by object under the store mutex, every other section under it is one action; the gates reject or pass by choice |
| `WorkTree` | trees, index, working tree, commit graph, the merge of trees: `alt-worktree`, `native/merge.rs` | operators used by the next two |
| `Sequencer` | `native/merge.rs`, `rebase.rs`, `revert.rs`, `cherry_pick.rs`, `bisect.rs` and the commits, adds and edits between | a running command is its plan, the sequence of writes it still has to make; a write (a ref transaction, a checkout, the index, a state file) is an action, and so is dying before it |
| `Workspaces` | workspaces, `switch`, `branch`, `commit`, flow, `undo`, `index_tx.rs` | plans as above, one per workspace, interleaved write by write (processes) or whole (a daemon); a server's pushes |
| `Exchange` | `clone`, `fetch`, `push` of `native.rs`, upload-pack, receive-pack and the nonces of `altd_server.rs` | a command stands at a point between its requests; a request may be delivered twice or not at all. The server's threads (`threads`) ingest, commit and take back under its mutex in three sections, interleaved with each other (`Ingest`, `CommitRef`, `TakeBack`) |
| `ContentStore` | the promise of a chunk store: a crash takes only what no flush has reported, and the rewind of a push only what that push brought | abstract |
| `ChunkStore` | `alt-store/src/lib.rs` under the lock of `alt-odb`, and the cursors of `handle_receive_pack` | `packs` are the files with what the device has of each, `view` a process's index, active pack and lengths; a roll and a compaction are several steps. `flush` gives the lock up (`Flush`) and fsyncs after it (`Sync`, also the daemon's sink). `ckpt` has the two cursors of each push: `Begin` and `Ingested` take them, `Rewind` cuts, none of them under the lock |

The others are functions of their arguments, with no state. What they should do is in
`ASSUME`s over all small inputs, which TLC evaluates in the runs of the module that
extends them:

| Module | Translates | Stated of it | Evaluated with |
|---|---|---|---|
| `Access` | `policy.rs`, the gates of `native.rs`, users, scopes and routes of `altd_server.rs` | globs match what they mean, a push needs the right to write, where the gates of a write and of a push differ | `MCExchange` |
| `TextMerge` | `alt-diff` histogram and hunks, `alt-merge` | edits rebuild the text, hunks stand apart, a side alone is taken, sides are equal, a change is applied once | `MCSequencer` |
| `Blame` | `blame.rs` over `TextMerge` | a line goes to its commit and was there, renames are followed | `MCSequencer` |
| `WorkScan` | ignore rules, scan, tree building and status of `alt-worktree`, `native/add.rs` | globs are git's, rules hide only untracked files, trees read back, every change once, `add .` leaves nothing | `MCRefStore` |
| `History` | `log_cmd.rs`, `meta.rs`, `native/notes.rs` over `WorkScan` | the changes of a commit, notes read back and stay with their commit | `MCRefStore` |
| `IndexFile` | `alt-git-index`, `index_tx.rs`, `alt-lfs`, `native/lfs.rs` | index and change list read back, an edit is seen, pointers round trip, a fetched content is whole | `MCReceivePack` |
| `GitConfig` | `alt-git-config`, `config_cmd.rs` | values and subsections read back, setting keeps the rest, include cycles fail, patterns and conditions mean what they say | `MCChunkStore` |
| `Revisions` | `alt-git-refs`, `alt-repo`, names in `native.rs` | symref loops end, the nearest repository wins, `~` is carets, walks show all, packs are differences, names stay inside | `MCGroupCommit` |
| `Wire` | `alt-wire`, filters of `altd_server.rs` | both sides read what the other writes, a pack arrives whole or not, a signature names its push | `MCGroupCommit` |
| `StructDiff` | `alt-diff` structured, part-aware and binary | a difference is told where values differ, JSON reads back, cuts are within characters, parts are their bytes | `MCOpLog` |
| `Packs` | `alt-git-pack` | sizes, distances and deltas read back, what resolves is grounded, what is indexed is read | `MCWorkspaces` |
| `Blobs` | `alt-cdc`, `alt-store` blob and blobmap, `alt-prism`, `alt-odb` reading and statistics | chunks are bounded, blobs and files read back, corruption is found, a torn record is dropped, a rewind keeps the rest | `MCOdb` |

A constant of theirs stands for a larger one of the code, named beside it: `MaxChain` 2
(64), `MaxName` 3 (0xFFF), `PathModulus` 4 (2^16), `MaxIncludeDepth` 2 (10),
`MaxSymrefDepth` 2 (5), `Base` 2 (128), `MaxPayload` 6 (65516), `Budget` 2 (64), `Exact`
4 (2^53), `Nibble` 2 (16), `Septet` 3 (128), `Byte` 2 (256), `LargeOffset` 2 (2^31),
chunk sizes 1, 2, 3 (16, 64, 256 KiB), `Word` 8 (2^64), `Fanout` 2 (4096), so that every
boundary is crossed by inputs of a few elements.

Composition is by promise: `RefStore` works on a log that behaves as `OpChain` says
(which `OpLog` is shown to implement), `Daemon` on refs that are appended once
(`RefStore`) and on a flush that `GroupCommit` takes apart, `ReceivePack` on one
process's odb, whose sharing between processes is `Odb`'s, and `Odb` on a pack that
`ChunkStore` takes apart. `Workspaces` and `Sequencer` commit to refs as `RefHistory`
says; `Exchange` takes an ingest as one step, which `ReceivePack` takes apart object by object, and
`ReceivePack` a rewind of the files, of which `ChunkStore` takes the packs apart.

Inside the modules, an operator under a `Mutant:` comment is a plausible bug of the
definition after it. `PROJECT.json` pairs each with the property it must break.

## The runs

All of them finish within five minutes on two workers.

| Run | Question | Bounds, and why they are enough |
|---|---|---|
| `oplog_torn` | Is the file one chain and every copy a prefix when writes may be torn, and who is refused its tail? | 2 processes (one deferring its fsync), 2 appends, record sizes 1 and 2, fragments of 1 byte: two writers with stale views, a torn tail under each, a marker ahead or behind; sizes differ so that a fragment need not be a whole record |
| `oplog_durable` | Without torn writes, is an acknowledged operation safe, and is the log `OpChain`? | 3 processes, 2 appends: a writer, one that syncs on its behalf, one that repairs |
| `refstore` | Are the refs one history of atomic transactions? | 2 processes, 2 refs, 3 operations, a snapshot after 2: a snapshot whose operation is lost and other operations in its place need three |
| `group_commit` | Durability before the answer, one leader, no lost wake-up, no wasted flush, everyone answered | 3 threads: a leader, a follower it covers, one it does not |
| `daemon` | Exactly once, true and durable answers, clients end | 2 keyed clients, 2 daemons that may both be up, 3 attempts |
| `bind` | Does an idle exit drop a request? Does an orphan end? | 3 daemons, 2 clients: owner, usurper and a late starter |
| `odb` | Identities, content, views, the device, with two writers and with a daemon | 2 processes that flush through the marker, an object and a content, within one pack: one that skips its fsync on the other's word, at each of the two places it may; and 1 daemon, 3 objects of which 2 prismatic, a pack sealed at 2: with two writers, or with the marker, these fail, see below |
| `receive` | Do refs stay complete when pushes are rejected and rewound? | 3 pushes, two on one ref, one roll of the pack; no object in two packs, see below |
| `sequencer` | Is a change lost by a rebase, does an abort restore, does a bisect find? | 2 files of 3 contents, three histories, with a conflict, a deletion and a fork, and the commands used on each, todo lists of 2 actions, 6 commits: a conflict, a meld into it, a crash and one more round |
| `workspaces` | Who holds a branch, what do a workspace's files describe, what does undo undo? | 2 workspaces, one file of 2 contents, a feature, a hotfix, a plain branch, 5 commits, 3 to 5 commands from each of four starts: every pair of commands whose writes can meet |
| `exchange` | Does a stale advertisement or a repeated request lose a commit, an object or a signature's singleness? Do overlapping fetches take a tracking ref back? | 2 repositories, a pusher in each, one of whom forces and fetches too, beside one more that fetches there; 2 commits that diverge, 2 requests, of which one that does not force may come twice, so that three threads may be at work; a table of 1 nonce, so that one asked for drops the other; restarts. A loss needs one push between another's cursors: two of them. A tracking ref goes back between two fetches of one repository |
| `chunks` | Can every indexed chunk be read, and is the store `ContentStore`? | 2 processes, 2 chunks (one the base of the other, either way), 2 pushes at one time, packs sealed at 3 records, 5 packs: a roll or a compaction and what follows it, between the cursors of one push and beside another's |

`CHECK_DEADLOCK FALSE` stands where requests are finite and the system comes to rest:
`group_commit`, `daemon`, `bind`, `workspaces`. In the others deadlock is checked.

Bounds in the modules: `MaxOps` (appends in `OpLog` and `RefStore`), `MaxTorn`
(`OpLog`), `MaxTries` (`Daemon`), `MaxRolls` (`ReceivePack`), `MaxCommits` (`Sequencer`,
`Workspaces`), `MaxAdverts`, `MaxCopies` and `MaxDoubled` (`Exchange`), `MaxSeq` (`ChunkStore`);
`SealAt` (`sealAt` in `Odb`), `SnapshotEvery`, `MaxDepth` and `NonceCap` are the code's own limits made small.

**Fairness.** `GroupCommit` and `Daemon` assume that a thread that can take a step
takes one: commands end, fsyncs return (with success or without), a client's retry
loop runs. `DaemonBind` assumes it of daemons only; its idle window ends when no
worker is active, and it takes workers to end: one that panics leaves `active` as it is
(`bin/altd.rs:123`), and its daemon would never be idle again. No fairness is asked of crashes, kills, power losses, new requests,
spurious wake-ups, of whether a lock is won, or of an fsync succeeding. The other modules
state safety only: a user may stop typing, and a client may never come back.

## What the models show of the code

Where the code does not do what it, or its comment, says. Each can be seen with TLC: take
the module's configuration, make the changes named, and put the property in the place of
its properties. It ends in the counterexample.

| Configuration | What happens |
|---|---|
| `MCDaemon` with `SPECIFICATION Spec`, `SnapshotEvery = 1`, `MaxTries = 2`, `AppliedOnce` | The operation that triggers the ref snapshot is the one it is anchored to; a restarted daemon indexes keys after the anchor only, so a retry of that very write runs twice (`alt-refs/src/lib.rs:326`) |
| `MCReceivePack` with `Req = {r1, r2}`, `Tip = {c1}`, `Object = {c1, t1}`, `Needs <- OneNeeds`, `Push <- RetriedPush`, `MaxRolls = 0`, `RefsComplete` | A push is repeated; the repetition finds all objects and commits; the first is then rejected, sees no growth since its own ingest and rewinds the objects the ref now needs (`bin/altd_server.rs:1335`). In `Exchange` the two are deliveries of one request, or one commit in two requests: `OnlyTheDoubledIsLost` without its `CameTwice` is false |
| `MCChunkStore`, with `~Changed(p)` not asked of `Begin`, `ImplementsContentStore` | The server takes its first cursor from memory, without the lock, "because the server is the only writer to this store" (`bin/altd_server.rs:1222`). Where another `alt` command has written there, the cursor is behind what that command had reported, the ingest catches up with it, and the rewind of the rejected push cuts it |
| `MCOpLogTorn`, with `CatchUpNeverRefused == \A p \in Proc : pc[p] = "locked" /\ ~UpToDate(p) => \E k \in 0 .. Len(disk) : Continues(p, k)` | `catch_up` pushes what it has replayed before it cuts a torn record off; if the cut or its fsync fails, `len_bytes` stays where it was (`alt-oplog/src/lib.rs:517`). The next catch-up replays the same records against the new head and ends in "oplog chain broken", and so does every later one of that process, until it opens the log again |
| `MCWorkspaces`, property `FlowInitSwitches` | `flow init` points HEAD at a new develop at main and says it switches to it (`native.rs:2253`), but checks nothing out: run from another branch, the files stay that branch's and the next commit brings them into develop |
| `MCExchange`, invariant `TrackedComplete` | Two fetches of one remote save their packs under one name (`native.rs:3201`); one indexes what the other is writing and moves its refs over half the objects. The packs of a push and `PackWriter`'s own temporary name are shared in the same way |
| `MCSequencer` with `Histories <- ToBisect`, `Todos <- OneTodo`, `BisectDies = TRUE`, `BisectFindsCulprit` | A bisect that dies between its checkout and its ref transaction tests a commit it does not name, and then names the wrong culprit (`native/bisect.rs:227`) |
| the second of these (a repeated push) with `Prismatic = {t1}`, `MappedHasContent` | A rewind that drops `tier1` records reads them through a write-only handle and fails, after the content was cut and before the map is (`alt-odb/src/tier1.rs:170`) |
| `MCOdb` with `Uses <- BarePrismatic`, `MappedHasContent` | `acquire` reconciles blobs and map but not `tier1`; a process with a stale cursor overwrites another's record, and the object of that record can no longer be read (`alt-odb/src/lib.rs:266`) |
| `MCOdb` with `Uses <- Rolling`, `AckedDurable` | After a roll the marker compares lengths of different packs and a flush skips its fsync (`alt-odb/src/lib.rs:642`); a compaction does the same |
| `MCOdb` with `Uses <- PrismaticContent`, `AckedDurable` | `tier1` is not in the marker because it is "unconditionally" synced (`alt-odb/src/lib.rs:639`), but a flush that the marker covers returns before it: a `tier1` record written after a crash left its blob is reported durable and is not |
| `MCOdb` with `Uses <- Bare`, `DurableIdentityHasContent`; `MCGroupCommit` with two threads, `SPECIFICATION GroupSpec`, `DurableOpHasObject` | Files are flushed one after the other while appends go on: an identity (an operation) that lands in between is durable without its content (object) (`alt-odb/src/lib.rs:654`, `native.rs:193`) |
| `MCOdb` with `Uses <- BareMixed`, `IdleHoldsNoLock` | A command that fails after a `put` never flushes, and the daemon keeps `odb.lock` (`alt-odb/src/lib.rs:288`) |
| `MCOpLogTorn` with `Daemons = {}`, `AckedDurable` | The marker is set to a file length that includes torn bytes; a record written over them counts as covered and its fsync is skipped (`alt-oplog/src/lib.rs:603`) |
| `MCDaemon` with `SPECIFICATION Spec`, `MaxTries = 2`, `Keyed = {c1}`, `AppliedOnce` | Operations recorded without a key (`add`, undo of an `add`) run again on a retry (`native.rs:2786`) |
| `MCDaemon` with `SPECIFICATION Spec`, `MaxTries = 2`, `AcksAreDurable` | A retry is acknowledged from the index while the first attempt still waits for its fsync (`bin/altd.rs:289`) |
| `DaemonBind` with `SPECIFICATION BindSpec`, `OneDaemon` | Two starters probe the same stale socket file; the second removes the first's, and both serve (`bin/altd.rs:176`) |
| `MCRefStore` with `Change <- MCUndoChange`, `UndoInvertsLast` | `undo` picks the transaction to invert before it takes the lock; another process's transaction on another ref is then the latest (`native.rs:2699`) |
| `MCSequencer` with `Histories <- Both`, `Todos <- OneTodo`, `ConflictsAreResolved` | `add` of any path drops the unmerged entries of all others, so the conflict is forgotten and a commit goes through (`native/add.rs:30`) |
| `MCSequencer` with `Histories <- ToRebase`, `RebaseLandsOnBase` | A todo list that begins with a fixup melds the change into the base commit, which the rebased branch then no longer contains (`native/rebase.rs:256`) |
| `MCSequencer` with `Histories <- ToRebase`, `StateHasScratch` | A rebase that dies between leaving its scratch ref and removing its state file can be neither continued nor aborted (`native/rebase.rs:188`) |
| `MCWorkspaces`, property `RefusalCostsNothing` | A denied transaction "costs no on-disk state" (`native.rs:848`), but switch and flow start ask after the checkout: the workspace is left with the files of a branch it is not on |

`MCDaemon` with three daemons, `SPECIFICATION Spec` and `SYMMETRY Symmetry`, `MCOdb` with
`Uses <- Mixed`, and `MCOdb` with `Uses <- OneDaemon` and `DurableIdentityHasContent` pass.

The passing runs are instances in which these cannot happen: a snapshot interval never
reached (`daemon`), with two writers no prismatic object and one pack (`odb`), no objects
shared between pushes (`receive`), a server alone in its store (`chunks`), a bisect that does
not die between its two writes (`sequencer`). They show that nothing else goes wrong; the hazards that are thereby left open have a note
in `PROJECT.json`.

What the algorithm modules state as it is, though a reader of the code may expect
otherwise:

- `EditsDuringAddAreLost` (`IndexFile`): a file edited between its read and its stat looks
  clean (`native.rs:1076`). `LongPathsAreLost`: a path of 2^16 bytes in the change list.
  `AddForgetsSubmodules` (`WorkScan`): `add .` drops a submodule's entry.
- `StarForgetsStars` (`Access`), `GapIsFinal` (`WorkScan`): after a `**` the matcher does not
  come back to a `*` before it. `StarsNeedNoSlash`: `a/**/b` matches `ab`.
- `SilenceIsSuccess` (`Wire`): a report that does not name a ref counts as its success. The
  advertisement's version-1 delimiter ends it without an error where a comment has it "bail
  loudly" (`alt-wire/src/push.rs:281`).
- `ShortNamesDisagree`, `TopicsAreNoBranches`, `NestedNamesAreNotExported` (`Revisions`): a
  name that is a tag and a branch means one to some commands and the other to the rest; the
  names that flow, branch and export accept differ.
- `NeighboursAreShownToo`, `DecisionsAreFew` (`History`): `log` compares names bytewise where
  trees are in git's order and so shows entries that did not change; an amended commit
  carries more decisions than its limit (`meta.rs:28`).
- `RepeatsCountAsOverlap` (`Blame`): a line repeated in one file counts each time toward the
  80 percent that make a rename.
- `LargeNumbersLookAlike`, `WalksThroughValuesPanic` (`StructDiff`): integers past 2^53 are
  told equal; a TOML table below a value panics (`structured.rs:617`) where the file
  promises no summary.
- `TwiceMayBeEndless` (`Packs`): a pack with an object both whole and in a circle of deltas is
  indexed, and `read_at` goes round it for ever.
- `VisitedOnceOrTwice` (`Blobs`): `for_each_object_unverified` meets an object twice that is
  Tier 1 and also a one-chunk part of another, where each should come "exactly once"
  (`alt-odb/src/lib.rs:463`); an export of it then fails its count. `StatsDependOnOrder`: the
  storage statistics depend on the order of objects and leave manifests out. `SyncMap` drops
  good records after a bad one, where `OpenMap` reports corruption (`blobmap.rs:3`).

## What is proved

`OpLogProofs`, over the assumptions `ProcAssumption` and `SizeAssumption` (positive
record sizes and header), for any processes, sizes and bounds:

- `TypeCorrect`, `ChainIsLinear`, `ViewsArePrefixes`, `RefusedOnlyBehind`, `LogOnlyGrows`, with torn writes of any length, repairs that fail and catch-ups that fail on the way. `ChainLinear` alone is not inductive: that an append lands at the end of the chain needs that the writer, once caught up, has exactly the file's records (`LockInv`), which needs that every copy is a prefix (`ViewIsPrefix`) and that distinct record counts have distinct byte lengths (`EndsInv`), so that comparing lengths is comparing records. A process whose cut of a torn record failed has a replayed length behind its view; `ViewIsPrefix` says that it is the end of some record all the same, and of the last one in a process that may write, and `RefusedOnlyBehind` that such a process, and no other, is refused its tail: ids are not used twice (`IdsInv`), so what follows a record does not follow an earlier one. `ChainInv` is their conjunction, with the header's presence (`HeaderInv`).
- `AckedOpsAreDurable` and `LogImplementsChain`, under `MaxTorn = 0`. `DurableInv` adds that bytes after the last record exist only while nobody has the log open (`TornQuiet`), that whatever the marker claims is on the device (`DurableUpTo`), and the same of the length a process has read between its fsync and its marker (`SyncInv`). Without `MaxTorn = 0` the statement is false (see above).

`DaemonProofs` covers the three modules of a daemon. Of the group commit, over
`ThreadAssumption`, for any number of threads: `TypeCorrect`, `AnsweredWritesAreDurable`, `LeaderIsAlone`, `NoLostWakeup`,
`FlushesAreNeverWasted`, `FsyncsAreBounded`. The invariant `GroupInv` relates a thread's ticket to what it
appended: tickets are handed out under the store mutex after the append, so a leader that
reads `next_ticket` before its fsyncs covers every ticket up to it (`CoverInv`), and it
leads for a ticket that was not covered (`LeaderInv`). `CountInv` counts tickets and ended
fsyncs as the threads that hold one and that have led.

Of the socket (`DaemonBind`), over `BindAssumption`, for any daemons and clients:
`ExitsDropNothing`. `WorkersInv` says that an accepted request is among the workers of the
daemon it is at, and that a daemon about to close its listener has none, so that of the two
steps that lose requests only the kill can meet one.

`RefStoreProofs`, over `RefStoreAssumption` (in it: a transaction changes what it names),
for any processes, refs, transactions, access and snapshot interval:

- `RefStoreTypes`, `MapsAreReplays`, `NoReplayDiverges`. `Replay` is a fold; `ReplayNothing` and `ReplayStep` show that it is the closed form `StateAt` (each ref has what the last operation on it left) wherever the log does not diverge, and the proof speaks of that. `LogInv` says that ids are not used twice and that each operation's old values are those before it; `SnapshotInv` that a snapshot is the state after the operation it names, if the log still has that one (a power loss may take it, and others come in its place); `MapInv` that a process's map is the state of the log at the length it has folded, and that what it has just appended follows there.
- `RefStoreIsHistory`: `RefStore` implements `RefHistory`. It needs `AskedInv`: all that is in the log was asked for, or takes back something that was. `UndoInvertsLast` is not a theorem, see above.

`OdbProofs`, over `OdbAssumption`, for any processes, objects and uses:

- `OdbTypes`, `MappedObjectsHaveContent`, `ViewsHaveContent`, `FilesGrow`, under `OneWriterOfPrisms`: in each use, no object is prismatic or one process writes. `FileInv` says that who holds the lock has read every file to its end, so that its next record goes where it thinks; that blob and prism are in before the identity; and what the lock protects at each place of a batch. Without the hypothesis the statement is false (`BarePrismatic`, above).
- `AcknowledgedIsDurable`, with `MarkerSuffices` besides: all flush for themselves, or no content is prismatic and a pack does not fill. `DurableInv` says that the device has what the marker claims (`MarkerInv`) and, fsync by fsync, the lengths of which a process is about to make the marker (`EofInv`) and its batch (`SyncInv`), and that a batch that waits for a marker lies within the lengths it waits for (`TargetInv`). `Rolling` and `PrismaticContent`, above, are why each half is needed. The uses of `MCOdb` satisfy both.

Of the retries (`Daemon`, in `DaemonProofs`), over `DaemonAssumption`, for any clients, daemons, attempts and losses:
`DaemonTypes`, `AcksAreAboutTheLog`, `ServedSurvives` hold as they stand (`RunInv`: a request
is at one daemon, under its mutex; what it applied or found in the index is in the log, and
what it answers after a flush is on the device). `ExactlyOnce` is of
a command that carries an id, among others that may carry none and snapshots that may be
taken at any interval: it takes effect once, as long as no snapshot is anchored past its
operation while its client may still send it again (`Visible`). Where that is the case, and
for a command without an id, it is false: the first and third counterexamples on `MCDaemon`
above. A snapshot after the client has its answer does no harm, and the theorem allows it.
`IndexInv` says that while the client is at it the index of a daemon that has read the log
to a length holds its id if its operation is below, `OnceInv` that a command whose lookup
found nothing is not in the log until it is appended.

`ChunkStoreProofs`, over `ChunkStoreAssumption` (chunks are finitely many, every limit is
at least one), for any processes, chunks, pushes at one time and limits: `StoreAlways`,
`IndexedAlwaysResolves`, `StoreRefines`. That every indexed chunk can be read
(`IndexedResolves`) speaks of a process's index as it is; that it stays so needs `StoreInv`:

- `GoodFiles`: wherever behind the synced length the active pack is cut by a power loss, the bases of what is left are left too, no chain of them comes back to itself
  (a chunk has a rank above its base's), and what a flush has reported is there.
- `OkView`: a process whose pack numbers and active length are those of the files, which is
  all that `disk_changed()` compares, has in its index what the files tell.
- `OkWriter`: what the holder of the lock has at each step of a roll or a compaction, so
  that no chunk is only in the packs that a compaction removes.
- `MarksInv`: between the two cursors of a push, in the active pack, lie only records of chunks
  that push put first, and re-encodings of chunks that were there before; the stretches of two pushes do not overlap, and
  while one ingests it is at the end of the pack. Cut at the first cursor, the pack is grounded.
  This is what `rewind()` relies on, since when it compares the cursor behind its ingest with
  the live one, pushes that began and ended between may have grown and shrunk the pack.
- `BusyInv`: no push began in a pack that is being compacted into, and an altidx knows of
  nothing behind a cursor, so that a load after a rewind finds what is left.

`StoreRefines` shows that each step does one thing a `ContentStore` may do (`HeldStep`): put
one chunk, lose some that no flush reported, report some, or take back what one push
brought. That a flush has reported a chunk does not keep it from being taken back by the
push that put it first, also where another push has relied on it since: this is the repeated
push of above. Chains of bases, `Records` and
`Live` are recursive functions; what they compute is related to a step's changes by the
lemmas before `GoodFiles`, and `GroundedIsWithin` shows that a chain in grounded files is
never longer than the number of chunks, by counting those it has passed.

`ExchangeProofs`, over `ExchangeAssumption`, for any repositories, processes, histories
(any `Parents`; only the root has to have none), table size, deliveries and restarts:
`ExchangeTypes`, `SignedPushesTakeOnce`, `LossNeedsDoubling`, `NoUpdateIsLost`,
`TrackingNeverGoesBack`. `History` is replaced by closed sets, of which it is the least.
`ExchangeInv` says that a nonce in the table was used by no request, and that of a push that
must be signed one thread at most is at work (`NonceInv`); that a thread serves a delivery of
its own (`ThreadInv`); that what the pushes that took effect have brought (`Settled`) is closed
under parents and has all that the server ever told anyone of (`ServedInv`); that of it the
server lacks nothing but what came twice, and of what a thread has ingested neither (`HeldInv`);
that of what a client's branch needs nothing is missing from client and `Settled` together
(`LocalInv`), nor from a request and `Settled` (`WireInv`); and that what a fetch was told is
behind what the server has, unless someone forces (`TrackInv`). `Settled` is what keeps the
argument apart from rewinds: it only grows, while the server's odb does not. The clients need
not be complete for it, and are not (`TrackedComplete`, above).

Of the server while it takes a push (`ReceivePack`, also in `ExchangeProofs`), over
`ReceivePackAssumption`, for any pushes and rolls:

- `ReceiveTypes` and `RewindsTakeOwn`, of any pushes whatever.
- `RefsStayComplete`: `RefsComplete` holds as long as pushes open at one time have no object in common (`Apart`) and none that decomposed one is rejected (`Plain`). The two are of states, so the theorem covers pushes that share objects and come one after the other. In the run `receive` they cannot fail. Counterexamples without either are above (a repeated push, and the same with a prismatic object). `ReceiveInv` is the types, that map and blobs hold the same objects (`StoreInv`), that what a rollback may still cut is its own push's and the checkpoints of two pushes do not cross (`RewindInv`), and that what a ref or an open push needs is mapped where no rollback of another push will cut (`PinInv`).

`WorkspacesProofs`, over `WorkspacesAssumption` and `StartsAssumption` (names of topics are
none of `main`, `develop`, features are not releases; at first each HEAD is on a branch with
a commit, no two on one), for any workspaces, branches, trees, number of commands and
interleaving: `WorkspacesTypes`, `OneWorkspacePerBranch`, `FinishedTopicsAreKept`,
`FilesDescribeTheHead`, `UndoneTwiceIsAsBefore`. `OneHolder`
is not inductive by itself: the rule that a transaction is held against (`Taken`) looks at
one changed HEAD and one holder, and is enough because no plan has a transaction that moves
two HEADs, nor has the log one for `undo` to invert (`OneHead`). `FinishInv` says that a
finish comes first in its plan, that the commit it moves the target to already has the
topic behind it, and, while no one else has moved anything, the one in develop too.
`AloneInv` says that under a daemon one plan at most is under way. `IsAncestor` is a
recursive function over the commits; `ReachIsAbove` shows it equal to the least closed set,
by induction over the commits. `FilesDescribeHead` holds between commands only, so its
invariant, `FilesInv`, speaks of what is left of a plan. While v works, each workspace that is not
excused is where its HEAD is (`Now`), or is v, or has its files as the last write of v's plan
(`Arrives`), or is about to go (`Departs`); and v's plan, unless it removes v or is an undo's,
ends with one commit both at v's HEAD and given to its index (`Will`). `Shape` is what holds of
every plan, daemon or not: a transaction that moves another's HEAD is followed by the write
that removes or fills that workspace, and if it is refused that workspace's name goes back.
`Advances` is the step on: what a plan promises, its tail does after its first write; the
rule `Taken` is what keeps a transaction off the branches of the others (`Apartness`).

`SequencerProofs`, over the two assumptions of `WorkTree` and `Sequencer`, for any paths and
contents, first history, todo lists, and whatever commands follow each other, stop and die in
whatever order: `AbortsRestore`. An abort is some five writes, and what they bring back was
read when it began, from a state file an earlier command left; so `AbortInv` speaks of the
plan. `AbortLeft`: an abort that has its end before it has brought files, index and HEAD back
already, or has each of the writes that will still in its plan, and each such write
(`BringsBack`, `GoesBack`) fits what is there now. That a rebase is aborted to the commit its
branch is at comes from `Waits`: the branch stays at the state file's `orig` for as long as
HEAD is away, since only transactions of HEAD's own ref are made (`Stays`), but for one that
comes back from a scratch ref and drops it (`Returns`) and one that leaves for a new one
(`Departs`), which is first in its plan and needs that nothing is in progress (`StepsWritten`).
A scratch ref therefore exists only while HEAD is at it (`ScratchAtHead`). The
theorem mixes all commands, which the run `sequencer` keeps apart for its size, and lets a
bisect die (`BisectDies`). A rebase that dies after it left the branch and before its state
file is written leaves HEAD at the scratch ref; a revert begun there and aborted ends there,
which is why `AbortRestores` allows a scratch ref that HEAD was at.

`BisectsFind` is about the other half of `Sequencer`: that a bisect which names a commit names
the culprit (`BisectFindsCulprit`). It holds if the process does not die between the checkout
of a commit and the move of the scratch ref to it (`~BisectDies`, see above), and if
`BisectsAlone` does, which TLC evaluates on the histories of the run: in the history where
`bisect` is used, commits are numbered after their parents and have well-formed trees
(`Numbered`, `Trees`), two commits with the same files both have the culprit or both have not
(`Tells`: that is what a test of the files can tell), and nothing but `bisect`, `edit`, `add`
and `commit` is used beside it; the model's user edits files in conflict only, and a bisect
leaves none. The other histories of the same instance are free; of
them the proof shows that nothing they plan ends with a commit found (`Tame`).
`BisectInv` has:

- `Knows`: in every state that is saved, or about to be, the culprit is an ancestor of the bad
  commit and of no good one. A verdict adds the commit at the scratch ref, so it is right only
  if the files judged are that commit's.
- `Still` and `Moving`: between commands files and index are HEAD's (`AtHead`); within a
  move they are, write by write, on the way to those of one commit, the one the last write of
  the plan gives to HEAD (`OnTheWay`). This is why there is never anything to add or to commit.
- That from this the right commit is named: `CandidatesAre` has culprit and bad commit both
  among the candidates, so that a single one is both. It needs that an ancestor's ancestor is
  an ancestor (`AncestorsAre`, from `WalkIs`, by the least number that would break it). The
  commit to test exists, since the scores are numbers and the last tie is broken by the
  commit's own (`ToTestIs`); `Ancestry` and `Reach` follow parents by recursive functions, and
  `WalkExists` shows that there are such functions.

Induction over data is done where the thing shown is membership in a set, as a set without a
least counterexample (`EveryNumber` in `WorkspacesProofs` and `ChunkStoreProofs`,
`LeastNumber` in `SequencerProofs`, from the library's well-founded minimum): the library's induction rules themselves take an operator, which the installed
provers cannot instantiate.

**Only model-checked**: the liveness properties (`EveryRequestAnswered`,
`EveryClientEnds`, `OrphansEnd`), which are out of this prover's reach; and of `Sequencer`
the one that speaks of the whole history: `RebaseKeepsChanges` needs that each change of the
branch is, after every round, in the scratch ref's history, in the todo list, under way in the
conflict, or excused, with the order of commits that `SetToSortSeq` chooses; the library has
no facts about it. The algorithm modules are mostly recursive operators, which the prover does
not take.

## Abstractions

- Hashes are identities that are never reused; a record's bytes are its length.
- A failed fsync leaves the device as it was, and a later one may succeed; what a kernel
  does to dirty pages after a failure is not modelled.
- Torn records are in `OpLog` only. `Odb` works with whole records: its files drop a torn
  tail the way the log does.
- `Odb` stores an object as one blob; the blobmap of multi-chunk blobs is appended to and
  caught up with as `map.alt` is.
- The policy, signatures and ACLs are a choice of verdict, except that a verdict on new
  commits reads them back.
- Pids and their reuse, permissions, full disks and clocks are left out; time-outs are
  steps that may be taken at any moment.

- A state file written plainly is not torn; a command's write is whole or not made.
- Files hold one line in `WorkTree`, so that two different changes to one always conflict;
  what a merge does within a file is `TextMerge`'s. In `Sequencer` a user edits conflicted
  paths only.
- Notes refs and `ALT_PROTECTED_OVERRIDE` are left out of the commands; other commands
  than those named come in as `Work` and `StepBack`.
- `Exchange` stores a pack in one step, whole or in part, and compares positions in the server's
  files as sets of commits. A signed push echoes its nonce, as every client that was given one
  does; the branch for older clients, which sign without one, is left out of `Verified`
  (`bin/altd_server.rs:1502`).
- `ChunkStore` leaves torn tails to `OpLog`. A process notices another's writes by pack
  numbers and the length of the active pack only; a rewind followed by as many bytes would
  pass unseen, and cannot happen because the server is the only process that has the store
  while a push is at work (`Alone`, `Open`): its code takes that as given, see above. After a
  rewind, what was reported and is gone is no longer counted as reported.
- A cut of the log that was never fsynced may be undone by a power failure; the model lets the
  file keep the cut.
  `NativeOdb::compact` is reached from tests and benches only.
- `TextMerge!AppliedOnce` speaks of a change both sides made where one changed more below
  it. A change further up may pull the same change away: of `a`, with `aa` and `caa`, the
  merge is `caaa`.

**Not modelled**: argument parsing and rendering; the codecs of PNG, ZIP, deflate and
OOXML (bit-level formats with no state); the codecs of git objects; signatures
(cryptography; a verdict is given); the secrets scan and `ci.rs` (lists of patterns and of
shell commands); the HTTP client and server sockets; the web view (read-only); import,
export and verify (one writer that starts over); rename detection in `alt-treediff`; the
perceptual hash. `PROJECT.json` lists each component with its status.

## Plan

What is left is proof, of `Sequencer`: `RebaseKeepsChanges`, from lemmas about ancestry under
one more commit and about the replay order.
