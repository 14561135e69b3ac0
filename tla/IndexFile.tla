------------------------------- MODULE IndexFile -------------------------------
(***************************************************************************)
(* The index as a file: its entries with the stat of the file they were    *)
(* made from, the change list of the operation log, and the large-file     *)
(* pointers that stand in for contents (crates/alt-git-index,              *)
(* alt-cli/src/index_tx.rs, native.rs, native/lfs.rs, alt-lfs).  A file on *)
(* disk is serialized to a sequence of fields; bytes are counted where the *)
(* format counts them.                                                     *)
(***************************************************************************)
EXTENDS Integers, Sequences, FiniteSets
LOCAL INSTANCE SequencesExt
LOCAL INSTANCE FiniteSetsExt

\* The field widths, small here: 0x0FFF for a name in the index, 2^16 for a
\* path in a change list.  An entry has Fixed bytes before its path, two more
\* with extended flags.
MaxName == 3
PathModulus == 4
Fixed == 62
Nul == 0

After(fields, n) == SubSeq(fields, n + 1, Len(fields))
Nothing == <<>>
Some(x) == <<x>>

-----------------------------------------------------------------------------
(***************************************************************************)
(* Index::serialize() and parse_entry().  An entry is                      *)
(* [path, stage, ext, oid], ext being extended flags or Nothing.              *)
(***************************************************************************)
Version(entries) == IF \E e \in entries : e.ext # Nothing THEN 3 ELSE 2

Pad(e) == 8 - ((Fixed + (IF e.ext = Nothing THEN 0 ELSE 2) + Len(e.path)) % 8)

EntryFields(e) ==
    << [stage |-> e.stage, oid |-> e.oid, extended |-> e.ext # Nothing,
        name |-> Min({Len(e.path), MaxName})] >>
      \o e.ext \o e.path \o [i \in 1 .. Pad(e) |-> Nul]

\* Paths are compared by their characters, here numbers; then by stage.
PathLess(x, y) ==
    \/ IsStrictPrefix(x, y)
    \/ \E i \in DOMAIN x \cap DOMAIN y : SubSeq(x, 1, i - 1) = SubSeq(y, 1, i - 1) /\ x[i] < y[i]

Ordered(entries) ==
    SetToSortSeq(entries, LAMBDA x, y : \/ PathLess(x.path, y.path)
                                        \/ x.path = y.path /\ x.stage < y.stage)

Serialized(entries) ==
    LET order == Ordered(entries)
    IN  <<[version |-> Version(entries), count |-> Len(order)]>>
          \o FlattenSeq([i \in DOMAIN order |-> EntryFields(order[i])])

FirstNul(fields) == CHOOSE i \in DOMAIN fields : fields[i] = Nul /\ \A j \in 1 .. i - 1 : fields[j] # Nul

\* One entry of a version 2 or 3 index: <<entry, the fields left>>, or Nothing.
ParsedEntry(version, fields) ==
    LET head == Head(fields)
        ext  == IF head.extended THEN Some(fields[2]) ELSE Nothing
        text == After(fields, 1 + Len(ext))
        size == IF head.name = MaxName THEN FirstNul(text) - 1 ELSE head.name
        e    == [path |-> SubSeq(text, 1, size), stage |-> head.stage, ext |-> ext, oid |-> head.oid]
        nuls == SubSeq(text, size + 1, size + Pad(e))
    IN  IF (head.extended /\ version < 3) \/ size + Pad(e) > Len(text) \/ ToSet(nuls) # {Nul}
        THEN Nothing ELSE <<e, After(text, size + Pad(e))>>

RECURSIVE ParsedEntries(_, _, _)
ParsedEntries(version, count, fields) ==      \* the entries, then what follows; or Nothing
    IF count = 0 THEN <<<<>>, fields>>
    ELSE LET first == ParsedEntry(version, fields)
         IN  IF first = Nothing THEN Nothing
             ELSE LET rest == ParsedEntries(version, count - 1, first[2])
                  IN  IF rest = Nothing THEN Nothing ELSE <<<<first[1]>> \o rest[1], rest[2]>>

Parsed(file) == ParsedEntries(Head(file).version, Head(file).count, Tail(file))

-----------------------------------------------------------------------------
(***************************************************************************)
(* index_tx::encode() and decode(): the change list an add leaves in the   *)
(* operation log.  A length wraps at its width; bytes after the last       *)
(* change are not looked at.                                               *)
(***************************************************************************)
Side(v) == IF v = Nothing THEN <<0>> ELSE <<1, v[1]>>

Encode(changes) ==
    <<"index-tx", "v1", Len(changes)>>
      \o FlattenSeq([i \in DOMAIN changes |->
            <<Len(changes[i].path) % PathModulus>> \o changes[i].path
              \o Side(changes[i].old) \o Side(changes[i].new)])

RECURSIVE DecodeChanges(_, _)
DecodeChanges(count, fields) ==      \* <<changes>>, or Nothing
    LET size  == Head(fields)
        text  == After(fields, 1)
        sides == After(text, size)
        Taken(s) == 1 + s[1]
        Value(s) == IF s[1] = 0 THEN Nothing ELSE Some(s[2])
        Short(s) == s = <<>> \/ (s[1] # 0 /\ Len(s) < 2)
    IN  IF count = 0 THEN <<<<>>>>
        ELSE IF fields = <<>> \/ Len(text) < size \/ Short(sides) \/ Short(After(sides, Taken(sides)))
        THEN Nothing
        ELSE LET second == After(sides, Taken(sides))
                 rest   == DecodeChanges(count - 1, After(second, Taken(second)))
             IN  IF rest = Nothing THEN Nothing
                 ELSE << <<[path |-> SubSeq(text, 1, size), old |-> Value(sides),
                            new |-> Value(second)]>> \o rest[1] >>

Decode(payload) ==
    IF Len(payload) < 3 \/ payload[1] # "index-tx" \/ payload[2] # "v1" THEN Nothing
    ELSE DecodeChanges(payload[3], After(payload, 3))

-----------------------------------------------------------------------------
(***************************************************************************)
(* make_entry(), stat_matches() and save_index(): an entry remembers the   *)
(* last change of its file; one not older than the index itself is given   *)
(* no time at all, since the file may change again within the same tick.   *)
(***************************************************************************)
Never == 0

MadeEntry(oid, file) == [oid |-> oid, mtime |-> file.mtime]
StatMatches(entry, file) == entry.mtime = file.mtime

Smudged(entry, stamp) == IF entry.mtime >= stamp THEN [entry EXCEPT !.mtime = Never] ELSE entry

(***************************************************************************)
(* add: the scan hashes the file, the blob is read again for the store -   *)
(* which looks at its hash only when it does not have the object - and the *)
(* entry takes the stat of a third look.                                   *)
(***************************************************************************)
ScannedId(entry, file) == IF StatMatches(entry, file) THEN entry.oid ELSE file.data

AddEntry(entry, known, scan, read, last, stamp) ==
    LET id == ScannedId(entry, scan)
    IN  IF id \notin known /\ read.data # id THEN Nothing
        ELSE Some(Smudged(MadeEntry(id, last), stamp))

-----------------------------------------------------------------------------
(***************************************************************************)
(* Large files.  A blob is a content or the pointer to one.                *)
(***************************************************************************)
Pointer(c) == [pointer |-> c, plain |-> ""]
Plain(c)   == [pointer |-> "", plain |-> c]
IsPointer(blob) == blob.pointer # ""

\* lfs_clean(): what a scan takes a file for; content that is a pointer stays.
Cleaned(marked, file) == IF marked /\ ~IsPointer(file) THEN Pointer(file.plain) ELSE file

\* materialize(): what a checkout writes, whether .gitattributes marks it or not.
Materialized(blob, has) ==
    IF IsPointer(blob) /\ blob.pointer \in has THEN Plain(blob.pointer) ELSE blob

\* smudge_head(): a file that still is HEAD's pointer becomes the content, and
\* the index entry of its path is restamped with the id it had.
SmudgedFile(head, file, has) ==
    IF file = head /\ IsPointer(head) THEN Materialized(head, has) ELSE file

\* lfs_fetch(): one content that is missing, or does not hash to its pointer,
\* fails the fetch before any is stored.
Fetched(pointers, has, server) ==
    LET missing == {p \in pointers : p \notin has}
    IN  IF \A p \in missing : p \in DOMAIN server /\ server[p] = p THEN has \cup missing ELSE has

\* lfs_store(): the content is durable before the link names it.
StoreSteps == <<"content", "flush", "link">>
Linked(done) == "link" \in ToSet(SubSeq(StoreSteps, 1, done))
Durable(done) == "flush" \in ToSet(SubSeq(StoreSteps, 1, done))

-----------------------------------------------------------------------------
EntriesOver(paths) == [path : paths, stage : {0, 2}, ext : {Nothing, Some("skip")}, oid : {"x"}]
SomePaths == {<<1>>, <<1, 2>>, <<2, 1, 1>>, <<2, 1, 1, 1, 2>>}

\* An index reads back entry for entry, also with names too long for their field,
\* and nothing is left over (serialize, parse_entry; the padding both compute).
ASSUME IndexReadsBack ==
    \A E \in SUBSET EntriesOver({<<1, 2>>, <<2, 1, 1>>}) \cup
             {{x, y} : x, y \in EntriesOver(SomePaths)} :
      (\A x, y \in E : x.path = y.path /\ x.stage = y.stage => x = y)
        => Parsed(Serialized(E)) = <<Ordered(E), <<>>>>

ChangesOver(n) == [path : {[i \in 1 .. k |-> 7] : k \in 1 .. n}, old : {Nothing, Some(0), Some(1)},
                   new : {Nothing, Some(1)}]

\* A change list reads back, and cut short anywhere it is refused rather than read
\* as another list (encode, decode: Truncated).
ASSUME ChangesReadBack ==
    \A a, b \in ChangesOver(PathModulus - 1) : \A list \in {<<a>>, <<a, b>>} :
      LET payload == Encode(list)
      IN  /\ Decode(payload) = <<list>>
          /\ \A n \in 0 .. Len(payload) - 1 : Decode(SubSeq(payload, 1, n)) = Nothing

\* A path as long as the width of its length is not read back (index_tx.rs encode).
ASSUME LongPathsAreLost ==
    \E a \in ChangesOver(PathModulus) : Decode(Encode(<<a>>)) # <<<<a>>>>

Ticks == 1 .. 3
FileAt(t) == [data : {"old", "new"}, mtime : {t}]

\* A file edited after the index was written is seen, also within the tick of both
\* (save_index): the stat of an entry that matches tells the content.
ASSUME EditsAreSeen ==
    \A written, stamp, edited \in Ticks : written <= stamp /\ stamp <= edited =>
      \A file \in FileAt(written) :
        \E entry \in ToSet(AddEntry([oid |-> "old", mtime |-> Never], {}, file, file, file, stamp)) :
          \A later \in FileAt(edited) : ScannedId(entry, later) = later.data

\* A file edited while add runs is not: the entry takes the id of one look and the
\* stat of a later one, and status calls the file unchanged from then on (add and
\* make_entry; scan_worktree_with_index says "a stale stat can never report wrong
\* content").  The store refuses only when it does not have the first content.
ASSUME EditsDuringAddAreLost ==
    /\ \E scan \in FileAt(1), edit \in FileAt(2) :
         \E entry \in ToSet(AddEntry([oid |-> "old", mtime |-> Never], {}, scan, scan, edit, 3)) :
           ScannedId(entry, edit) # edit.data
    /\ \E scan \in FileAt(1), edit \in FileAt(2) :
         /\ AddEntry([oid |-> "old", mtime |-> Never], {}, scan, edit, edit, 3) = Nothing
         /\ \E entry \in ToSet(AddEntry([oid |-> "old", mtime |-> Never], {"old", "new"},
                                        scan, edit, edit, 3)) :
              ScannedId(entry, edit) # edit.data

Blobs == {Plain("c"), Pointer("c"), Plain("d"), Pointer("d")}

\* A marked file reads as what is committed, whether its content is here or not; an
\* unmarked pointer reads as changed once its content is here (materialize, lfs_clean).
ASSUME PointersRoundTrip ==
    \A has \in SUBSET {"c", "d"} :
      /\ \A blob \in {b \in Blobs : IsPointer(b)} : Cleaned(TRUE, Materialized(blob, has)) = blob
      /\ Cleaned(FALSE, Materialized(Pointer("c"), has)) = Pointer("c") <=> "c" \notin has

\* Smudging leaves a file that is not HEAD's pointer alone, and what it writes is what
\* HEAD has; but the entry it restamps keeps the id that was staged (smudge_head).
ASSUME SmudgeKeepsEdits ==
    \A head, file \in Blobs, has \in SUBSET {"c", "d"} :
      \E now \in {SmudgedFile(head, file, has)} :
        /\ now # file => file = head /\ Cleaned(TRUE, now) = head
        /\ IsPointer(now) /\ now = head => head.pointer \notin has

\* A fetch brings every content or none, and none that is not what its pointer names
\* (lfs_fetch, download).
ASSUME FetchIsWhole ==
    \A has \in SUBSET {"c", "d"} :
      \A server \in UNION {[S -> {"c", "d"}] : S \in SUBSET {"c", "d"}} :
        \E got \in {Fetched({"c", "d"}, has, server)} :
          /\ has \subseteq got /\ got \in {has, {"c", "d"}}
          /\ \A p \in got \ has : server[p] = p

\* A process that dies while it stores a content leaves no link without it (lfs_store).
ASSUME LinksHaveContents == \A done \in 0 .. Len(StoreSteps) : Linked(done) => Durable(done)
=============================================================================
