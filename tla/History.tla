------------------------------- MODULE History -------------------------------
(***************************************************************************)
(* What log tells of a commit: its changes (tree_diff in crates/alt-cli/   *)
(* src/log_cmd.rs), and the note kept about it (meta.rs, native/notes.rs). *)
(* A tree is a level as module WorkScan writes it.                         *)
(***************************************************************************)
EXTENDS WorkScan
LOCAL INSTANCE SequencesExt
LOCAL INSTANCE FiniteSetsExt
LOCAL INSTANCE TLC

-----------------------------------------------------------------------------
(***************************************************************************)
(* tree_diff(): two levels walked together by name, which is not the order *)
(* they are in.  A change is <<path, old, new>> with "-" for no file.      *)
(***************************************************************************)
SameEntry(o, n) ==
    o.dir = n.dir /\ IF o.dir THEN Flatten(o.id, <<>>) = Flatten(n.id, <<>>) ELSE o.id = n.id

RECURSIVE TreeDiff(_, _, _)
TreeDiff(old, new, prefix) ==
    LET o == Head(old)
        n == Head(new)
        Path(e) == prefix \o e.name
        Gone(e) == IF e.dir THEN TreeDiff(e.id, <<>>, Path(e) \o <<"/">>) ELSE <<<<Path(e), e.id, "-">>>>
        Come(e) == IF e.dir THEN TreeDiff(<<>>, e.id, Path(e) \o <<"/">>) ELSE <<<<Path(e), "-", e.id>>>>
        here == CASE SameEntry(o, n) -> <<>>
                  [] ~SameEntry(o, n) /\ o.dir /\ n.dir -> TreeDiff(o.id, n.id, Path(o) \o <<"/">>)
                  [] ~SameEntry(o, n) /\ ~o.dir /\ ~n.dir -> <<<<Path(o), o.id, n.id>>>>
                  [] OTHER -> Gone(o) \o Come(n)
    IN  CASE old = <<>> /\ new = <<>> -> <<>>
          [] new = <<>> /\ old # <<>> -> Gone(o) \o TreeDiff(Tail(old), new, prefix)
          [] old = <<>> /\ new # <<>> -> Come(n) \o TreeDiff(old, Tail(new), prefix)
          [] OTHER -> CASE Less(o.name, n.name) -> Gone(o) \o TreeDiff(Tail(old), new, prefix)
                        [] Less(n.name, o.name) -> Come(n) \o TreeDiff(old, Tail(new), prefix)
                        [] OTHER -> here \o TreeDiff(Tail(old), Tail(new), prefix)

-----------------------------------------------------------------------------
(***************************************************************************)
(* Notes.  A note is fields <<key, value>> and perhaps a message; a value  *)
(* and a message are lists of lines, a line a word or a <<key, word>>.     *)
(***************************************************************************)
MaxDecisions == 3
Recordable(key) == key \in {"decision", "x-a"}

\* Meta::render() and Meta::parse(): what follows the first empty line is the message.
Rendered(note) ==
    FlattenSeq([i \in DOMAIN note.fields |->
        <<<<note.fields[i][1], note.fields[i][2][1]>>>> \o Tail(note.fields[i][2])])
      \o (IF note.message = <<>> THEN <<>> ELSE <<<<>>>> \o note.message)

ParsedNote(text) ==
    LET blank  == SelectInSeq(text, LAMBDA l : l = <<>>)
        head   == IF blank = 0 THEN text ELSE SubSeq(text, 1, blank - 1)
        body   == IF blank = 0 THEN <<>> ELSE From(text, blank + 1)
        fields == SelectSeq(head, LAMBDA l : Len(l) = 2)
    IN  [fields  |-> [i \in DOMAIN fields |-> <<fields[i][1], <<fields[i][2]>>>>],
         message |-> IF \A l \in ToSet(body) : l = <<>> THEN <<>> ELSE body]

\* recorded(), derive() and carry_over(); Fail is an error.
NoNote == [fields |-> <<>>, message |-> <<>>]
DecisionsOf(note) == SelectSeq(note.fields, LAMBDA f : f[1] = "decision")
Recorded(given) ==
    /\ Len(SelectSeq(given, LAMBDA f : f[1] = "decision")) <= MaxDecisions
    /\ \A f \in ToSet(given) : Recordable(f[1]) /\ Len(f[2]) = 1
Derived(touched, given) ==
    [fields |-> <<<<"schema", <<"v1">>>>>> \o [i \in DOMAIN touched |-> <<"touched", touched[i]>>] \o given,
     message |-> <<>>]
CarryOver(from, onto) ==
    [fields  |-> onto.fields \o SelectSeq(from.fields, LAMBDA f : Recordable(f[1])),
     message |-> IF onto.message = <<>> THEN from.message ELSE onto.message]
Amended(note, touched, given) == CarryOver(note, Derived(touched, given))

\* meta_set(): decisions are added, a field takes the place of its like.
MetaSet(note, given, message) ==
    LET base == IF note.fields = <<>> THEN <<<<"schema", <<"v1">>>>>> ELSE note.fields
        Put(fields, f) ==
            Append(IF f[1] = "decision" THEN fields ELSE SelectSeq(fields, LAMBDA g : g[1] # f[1]), f)
    IN  IF Len(DecisionsOf(note)) + Len(SelectSeq(given, LAMBDA f : f[1] = "decision")) > MaxDecisions
           \/ ~Recorded(given)
        THEN note
        ELSE [fields |-> FoldLeft(Put, base, given), message |-> IF message = <<>> THEN note.message ELSE message]

(***************************************************************************)
(* find() and store(): ids <<fan, rest>>; a notes tree has entries of its  *)
(* own and fan-out directories of one level.                               *)
(***************************************************************************)
FindNote(tree, id) ==
    IF id \in DOMAIN tree.flat THEN tree.flat[id]
    ELSE IF id[1] \in DOMAIN tree.fan /\ id[2] \in DOMAIN tree.fan[id[1]] THEN tree.fan[id[1]][id[2]] ELSE "-"

StoreNote(tree, id, note) ==
    LET sub == IF id[1] \in DOMAIN tree.fan THEN tree.fan[id[1]] ELSE [r \in {} |-> "-"]
    IN  [flat |-> [i \in DOMAIN tree.flat \ {id} |-> tree.flat[i]],
         fan  |-> id[1] :> (id[2] :> note @@ sub) @@ tree.fan]

-----------------------------------------------------------------------------
Sides == {"-", "x", "y"}
Written(at) == WriteTree({<<p, at[p]>> : p \in {q \in DOMAIN at : at[q] # "-"}})
Forest ==
    {at \in [{<<"a">>, <<"a", "-">>, <<"a", "/", "a">>, <<"a", "-", "/", "a">>, <<"b">>} -> Sides] :
        \A p \in DOMAIN at : at[p] # "-" => \A d \in Parents(p) \cap DOMAIN at : at[d] = "-"}
Truly(old, new) == {<<p, old[p], new[p]>> : p \in {q \in DOMAIN old : old[q] # new[q]}}

\* tree_diff misses no change, and what it says too much is a file taken away and
\* put back; "emitting only the changed leaves" holds where a directory does not
\* sort behind a file whose name goes on after its own, as a- before a/.
ASSUME EveryChangeIsShown ==
    \A old, new \in Forest :
      \E shown \in {ToSet(TreeDiff(Written(old), Written(new), <<>>))} :
        \A p \in DOMAIN old :
          \E here \in {{<<c[2], c[3]>> : c \in {d \in shown : d[1] = p}}} :
            IF old[p] = new[p] THEN here \in {{}, {<<old[p], "-">>, <<"-", new[p]>>}}
            ELSE here \in {{<<old[p], new[p]>>}, {<<old[p], "-">>, <<"-", new[p]>>}}

Aligned == {at \in Forest : at[<<"a", "-">>] = "-" /\ at[<<"a", "-", "/", "a">>] = "-"}
ASSUME OnlyChangesAreShown ==
    \A old, new \in Aligned :
      ToSet(TreeDiff(Written(old), Written(new), <<>>)) =
        Truly(old, new)

\* So a commit that only deletes a- is shown to rewrite every file under a.
ASSUME NeighboursAreShownToo ==
    LET old == {<<<<"a", "-">>, "x">>, <<<<"a", "/", "a">>, "x">>}
        new == {<<<<"a", "/", "a">>, "x">>}
    IN  ToSet(TreeDiff(WriteTree(old), WriteTree(new), <<>>)) =
          {<<<<"a", "-">>, "x", "-">>, <<<<"a", "/", "a">>, "x", "-">>, <<<<"a", "/", "a">>, "-", "x">>}

NoteIds == {"f1", "f2"} \X {"r1", "r2"}
NoteTrees ==
    [flat : UNION {[S -> {"n1"}] : S \in SUBSET NoteIds},
     fan  : UNION {[S -> {"r1" :> "n2", "r2" :> "n2", ("r1" :> "n2") @@ ("r2" :> "n3")}] : S \in SUBSET {"f1", "f2"}}]

\* store, then find: the commit has its new note and every other the one it had,
\* git's own flat entries and those under a shared fan-out directory alike.
ASSUME NotesStayWithTheirCommit ==
    \A tree \in NoteTrees, id \in NoteIds :
      \E stored \in {StoreNote(tree, id, "new")} :
        \A other \in NoteIds : FindNote(stored, other) = IF other = id THEN "new" ELSE FindNote(tree, other)

Values == {<<"v">>, <<"v", <<"decision", "w">>>>, <<"v", <<"w">>>>}
NoteFields == {<<"schema", <<"v1">>>>} \cup ({"touched", "decision", "x-a"} \X Values)
Messages == {<<>>, <<<<"m">>>>, <<<<>>, <<"m">>>>, <<<<"m">>, <<>>, <<"k", "v">>>>}
Recordings == UNION {[1 .. n -> {"decision", "x-a"} \X {<<"v">>}] : n \in 0 .. 3}

\* render and parse are each other's inverse for fields of one line and a message
\* of any lines.  A touched path with a line break in it is read as more fields.
ASSUME NotesReadBack ==
    \A f, g \in NoteFields, message \in Messages :
      LET note == [fields |-> <<f, g>>, message |-> message]
      IN  (ParsedNote(Rendered(note)) = note) <=> (Len(f[2]) = 1 /\ Len(g[2]) = 1)

\* However often "meta set" adds to a note it holds three decisions at most; amends
\* carry the old ones over past the limit ("At most this many recorded decisions
\* per commit"), but lose none and let the message of the first stand.
ASSUME DecisionsAreFew ==
    /\ \A first, second \in Recordings :
         Len(DecisionsOf(MetaSet(MetaSet(NoNote, first, <<>>), second, <<>>))) <= MaxDecisions
    /\ \A first, second \in Recordings :
         LET note == MetaSet(NoNote, first, <<<<"m">>>>)
             next == Amended(note, <<>>, second)
         IN  /\ ToSet(DecisionsOf(note)) \subseteq ToSet(DecisionsOf(next)) /\ next.message = note.message
             /\ Len(DecisionsOf(next)) = Len(DecisionsOf(note)) + Len(SelectSeq(second, LAMBDA f : f[1] = "decision"))
=============================================================================
