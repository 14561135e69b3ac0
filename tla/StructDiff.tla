----------------------------- MODULE StructDiff -----------------------------
(***************************************************************************)
(* Diffs that know the format: of JSON and TOML by key path, of PNG and    *)
(* ZIP files by part, of any bytes by chunk (crates/alt-diff/src/          *)
(* structured.rs, part_aware.rs and binary.rs).  A text is a sequence of   *)
(* characters, a character of two bytes the pair "e1", "e2".               *)
(***************************************************************************)
EXTENDS Integers, Sequences, FiniteSets
LOCAL INSTANCE SequencesExt
LOCAL INSTANCE FiniteSetsExt
LOCAL INSTANCE TLC

Budget == 2             \* bytes of a string that are shown, 64 in the code
Exact == 4              \* integers an f64 tells apart end here, at 2^53 in the code

Rank == [c \in {".", "a", "b", "0", "1", "[", "]", "e1", "e2"} |->
            CASE c = "." -> 1 [] c = "0" -> 2 [] c = "1" -> 3 [] c = "[" -> 4 [] c = "]" -> 5
              [] c = "a" -> 6 [] c = "b" -> 7 [] c = "e1" -> 8 [] c = "e2" -> 9]
KeyLess(x, y) ==
    \/ IsStrictPrefix(x, y)
    \/ \E i \in DOMAIN x \cap DOMAIN y : SubSeq(x, 1, i - 1) = SubSeq(y, 1, i - 1) /\ Rank[x[i]] < Rank[y[i]]

-----------------------------------------------------------------------------
(***************************************************************************)
(* Value: an object is its <<key, value>> entries as they come, an array   *)
(* its values under no key.                                                *)
(***************************************************************************)
Scalar(kind, text, num) == [kind |-> kind, text |-> text, num |-> num, items |-> <<>>]
Text(text) == Scalar("string", text, 0)
Number(n) == Scalar("number", <<>>, IF n < Exact THEN n ELSE 2 * (n \div 2))
Null == Scalar("null", <<>>, 0)
Object(entries) == [kind |-> "object", text |-> <<>>, num |-> 0, items |-> entries]
Array(values) ==
    [kind |-> "array", text |-> <<>>, num |-> 0, items |-> [i \in DOMAIN values |-> <<<<>>, values[i]>>]]
Fail == <<>>            \* None: the caller shows lines

Keys(object) == {e[1] : e \in ToSet(object.items)}
Found(object, key) == object.items[SelectInSeq(object.items, LAMBDA e : e[1] = key)][2]

\* write_repr(): a string is cut at a byte, and the slice panics within a character.
ShortRepr(value) ==
    CASE value.kind = "string" /\ Len(value.text) > Budget -> SubSeq(value.text, 1, Budget) \o <<"...">>
      [] value.kind \in {"object", "array"} -> <<value.kind>>
      [] OTHER -> value.text
ReprPanics(value) == value.kind = "string" /\ Len(value.text) > Budget /\ value.text[Budget] = "e1"

(***************************************************************************)
(* diff_values(): a change is <<path, what, old, new>>.                    *)
(***************************************************************************)
Index(i) == <<"[", <<"0", "1">>[i], "]">>

RECURSIVE DiffValues(_, _, _)
DiffValues(path, old, new) ==
    LET keys   == SetToSortSeq(Keys(old) \cup Keys(new), KeyLess)
        Child(k) == path \o <<".">> \o k
        AtKey(k) == CASE k \notin Keys(old) -> <<<<Child(k), "added", <<>>, ShortRepr(Found(new, k))>>>>
                      [] k \notin Keys(new) -> <<<<Child(k), "removed", ShortRepr(Found(old, k)), <<>>>>>>
                      [] OTHER -> DiffValues(Child(k), Found(old, k), Found(new, k))
        common == Min({Len(old.items), Len(new.items)})
        Rest(value, Change(_, _)) ==
            [i \in 1 .. Len(value.items) - common |-> Change(path \o Index(common + i), ShortRepr(value.items[common + i][2]))]
    IN  CASE old.kind = "object" /\ new.kind = "object" ->
               FlattenSeq([i \in DOMAIN keys |-> AtKey(keys[i])])
          [] old.kind = "array" /\ new.kind = "array" ->
               FlattenSeq([i \in 1 .. common |-> DiffValues(path \o Index(i), old.items[i][2], new.items[i][2])])
                 \o Rest(new, LAMBDA p, r : <<p, "added", <<>>, r>>)
                 \o Rest(old, LAMBDA p, r : <<p, "removed", r, <<>>>>)
          [] OTHER -> IF old = new THEN <<>> ELSE <<<<path, "changed", ShortRepr(old), ShortRepr(new)>>>>

(***************************************************************************)
(* The JSON parser, over tokens: a value and what is left, or Fail.        *)
(***************************************************************************)
RECURSIVE ParseValue(_), ParseItems(_, _, _)
ParseValue(tokens) ==
    IF tokens = <<>> THEN Fail
    ELSE LET t == Head(tokens) rest == Tail(tokens)
         IN  CASE t[1] = "text" -> <<Text(t[2]), rest>>
               [] t[1] = "number" -> <<Number(t[3]), rest>>
               [] t[1] = "null" -> <<Null, rest>>
               [] t[1] \in {"{", "["} ->
                    IF rest # <<>> /\ Head(rest)[1] = (IF t[1] = "{" THEN "}" ELSE "]")
                    THEN <<[Object(<<>>) EXCEPT !.kind = IF t[1] = "{" THEN "object" ELSE "array"], Tail(rest)>>
                    ELSE ParseItems(rest, t[1] = "{", <<>>)
               [] OTHER -> Fail

ParseItems(tokens, object, found) ==
    LET keyed == Len(tokens) > 1 /\ tokens[1][1] = "text" /\ tokens[2][1] = ":"
        value == IF object THEN (IF keyed THEN ParseValue(SubSeq(tokens, 3, Len(tokens))) ELSE Fail)
                 ELSE ParseValue(tokens)
        items == Append(found, <<IF object THEN tokens[1][2] ELSE <<>>, value[1]>>)
        after == value[2]
    IN  IF value = Fail \/ value[2] = <<>> THEN Fail
        ELSE CASE Head(after)[1] = "," -> ParseItems(Tail(after), object, items)
               [] Head(after)[1] = (IF object THEN "}" ELSE "]") ->
                    <<[Object(items) EXCEPT !.kind = IF object THEN "object" ELSE "array"], Tail(after)>>
               [] OTHER -> Fail

ParseJson(tokens) ==
    LET value == ParseValue(tokens) IN IF value = Fail \/ value[2] # <<>> THEN Fail ELSE <<value[1]>>

JsonSummary(old, new) ==
    IF ParseJson(old) = Fail \/ ParseJson(new) = Fail THEN Fail
    ELSE <<DiffValues(<<>>, ParseJson(old)[1], ParseJson(new)[1])>>

(***************************************************************************)
(* parse_toml(): lines <<"table", path>>, <<"array", path>> and            *)
(* <<"set", path, value>>.  walk_to() panics where the path is no table.   *)
(***************************************************************************)
Panic == Scalar("panic", <<>>, 0)
Place(items, key) == SelectInSeq(items, LAMBDA e : e[1] = key)

\* A leaf is what happens at the table a path leads to: <<"table">> nothing,
\* <<"append", key>> a new entry of an array of tables, <<"set", key, value>>.
AtTable(table, leaf) ==
    LET place == Place(table.items, leaf[2])
        items == IF leaf[1] = "append" /\ place = 0 THEN Append(table.items, <<leaf[2], Array(<<>>)>>) ELSE table.items
        at    == Place(items, leaf[2])
    IN  CASE leaf[1] = "table" -> table
          [] leaf[1] = "append" ->
               IF items[at][2].kind = "array"
               THEN [table EXCEPT !.items = [items EXCEPT ![at][2].items = Append(@, <<<<>>, Object(<<>>)>>)]]
               ELSE [table EXCEPT !.items = items]
          [] leaf[1] = "set" ->
               [table EXCEPT !.items = IF place = 0 THEN Append(@, <<leaf[2], leaf[3]>>) ELSE [@ EXCEPT ![place][2] = leaf[3]]]

\* A table on the way is made, and of an array the last entry is meant.
RECURSIVE Descend(_, _, _)
Descend(value, path, leaf) ==
    LET array == value.kind = "array"
        items == IF ~array /\ path # <<>> /\ Place(value.items, Head(path)) = 0
                 THEN Append(value.items, <<Head(path), Object(<<>>)>>) ELSE value.items
        at    == IF array THEN Len(items) ELSE Place(items, Head(path))
        below == Descend(items[at][2], IF array THEN path ELSE Tail(path), leaf)
    IN  CASE value.kind = "object" /\ path = <<>> -> AtTable(value, leaf)
          [] (value.kind = "object" /\ path # <<>>) \/ (array /\ items # <<>> /\ items[at][2].kind = "object") ->
               IF below = Panic THEN Panic ELSE [value EXCEPT !.items = [items EXCEPT ![at] = <<@[1], below>>]]
          [] OTHER -> IF leaf[1] = "table" THEN value ELSE Panic

EnsureTable(root, path) == Descend(root, path, <<"table">>)
EnsureArrayOfTables(root, path) == Descend(root, Front(path), <<"append", Last(path)>>)
InsertInto(root, path, value) == Descend(root, Front(path), <<"set", Last(path), value>>)

RECURSIVE ParseToml(_, _, _)
ParseToml(lines, table, root) ==
    LET line == Head(lines)
    IN  IF lines = <<>> \/ root = Panic THEN root
        ELSE CASE line[1] = "table" -> ParseToml(Tail(lines), line[2], EnsureTable(root, line[2]))
               [] line[1] = "array" -> ParseToml(Tail(lines), line[2], EnsureArrayOfTables(root, line[2]))
               [] line[1] = "set" -> ParseToml(Tail(lines), table, InsertInto(root, table \o line[2], line[3]))
Toml(lines) == ParseToml(lines, <<>>, Object(<<>>))

-----------------------------------------------------------------------------
(***************************************************************************)
(* part_summary(): parts <<name, body>>, those of a name put together; and *)
(* chunk_diff(): the chunks of each side as many times as they come.       *)
(***************************************************************************)
Body(parts, name) == FlattenSeq([i \in DOMAIN parts |-> IF parts[i][1] = name THEN parts[i][2] ELSE <<>>])
Names(parts) == {p[1] : p \in ToSet(parts)}
PartSummary(old, new) ==
    [name \in Names(old) \cup Names(new) |->
        CASE name \notin Names(old) -> "added" [] name \notin Names(new) -> "removed"
          [] OTHER -> IF Body(old, name) = Body(new, name) THEN "same" ELSE "changed"]

Copies(chunks, c) == Cardinality({i \in DOMAIN chunks : chunks[i] = c})
ChunkDiff(old, new) ==
    LET Both == ToSet(old) \cup ToSet(new)
        Shared(c) == Min({Copies(old, c), Copies(new, c)})
    IN  [shared  |-> FoldSet(LAMBDA c, n : n + Shared(c), 0, Both),
         added   |-> FoldSet(LAMBDA c, n : n + Copies(new, c) - Shared(c), 0, Both),
         removed |-> FoldSet(LAMBDA c, n : n + Copies(old, c) - Shared(c), 0, Both)]

-----------------------------------------------------------------------------
LOCAL Leaf == {Null, Number(0), Text(<<"a">>)}
LOCAL Key == {<<"a">>, <<"b">>}
LOCAL Flat == Leaf \cup {Object(e) : e \in SeqOf(Key \X {Null, Number(0)}, 2)} \cup {Array(e) : e \in SeqOf(Leaf, 2)}
LOCAL Deep == Flat \cup {Object(<<<<<<"a">>, v>>, <<<<"b">>, w>>>>) : v \in Flat, w \in {Number(0), Array(<<Null>>)}}
                   \cup {Array(<<v>>) : v \in Flat}

\* The scalars and containers of a value, with the path that leads to each.
RECURSIVE Content(_, _)
LOCAL Below(path, value) ==
    IF value.kind = "object"
    THEN UNION {Content(path \o <<".">> \o k, Found(value, k)) : k \in Keys(value)}
    ELSE UNION {Content(path \o Index(i), value.items[i][2]) : i \in DOMAIN value.items}
Content(path, value) == {<<path, value.kind, value.text, value.num>>} \cup Below(path, value)

\* diff_values() reports where the contents part and nowhere else: every
\* difference is at or under a reported path, and a path is reported once, as
\* high as the kinds differ.  The order of keys and a repetition of a key that
\* find() does not reach are no difference.
ASSUME DiffsAreWhereValuesDiffer ==
    \A old, new \in Deep :
        LET changes == DiffValues(<<>>, old, new)
            Differs == (Content(<<>>, old) \ Content(<<>>, new)) \cup (Content(<<>>, new) \ Content(<<>>, old))
        IN  /\ \A d \in Differs : \E i \in DOMAIN changes : IsPrefix(changes[i][1], d[1])
            /\ \A i \in DOMAIN changes : \E d \in Differs : IsPrefix(changes[i][1], d[1])
            /\ \A i, j \in DOMAIN changes : IsPrefix(changes[i][1], changes[j][1]) => i = j

RECURSIVE Printed(_)
LOCAL Commas(parts) == FlattenSeq([i \in DOMAIN parts |-> (IF i = 1 THEN <<>> ELSE <<<<",">>>>) \o parts[i]])
Printed(value) ==
    CASE value.kind = "string" -> <<<<"text", value.text>>>>
      [] value.kind = "number" -> <<<<"number", <<>>, value.num>>>>
      [] value.kind = "null" -> <<<<"null">>>>
      [] value.kind = "object" ->
           <<<<"{">>>> \o Commas([i \in DOMAIN value.items |->
               <<<<"text", value.items[i][1]>>, <<":">>>> \o Printed(value.items[i][2])]) \o <<<<"}">>>>
      [] value.kind = "array" ->
           <<<<"[">>>> \o Commas([i \in DOMAIN value.items |-> Printed(value.items[i][2])]) \o <<<<"]">>>>

\* parse_json() takes back what a printer writes; a text cut short, one with
\* something after it and one with a comma before the closing bracket are left
\* to the line diff, though the head of the file means to see through a
\* "trailing comma fix" (structured.rs:6).
ASSUME JsonReadsBack ==
    \A v \in Deep :
        LET tokens == Printed(v)
        IN  /\ ParseJson(tokens) = <<v>>
            /\ \A n \in 0 .. Len(tokens) - 1 : ParseJson(SubSeq(tokens, 1, n)) = Fail
            /\ ParseJson(Append(tokens, <<",">>)) = Fail /\ ParseJson(Append(tokens, <<"}">>)) = Fail
            /\ v.items # <<>> => ParseJson(Append(Front(tokens), <<",">>) \o <<Last(tokens)>>) = Fail

\* parse_number() says that a number an f64 cannot hold falls back to its text;
\* every run of digits parses as f64, so two large numbers that differ in the
\* last digit are told semantically unchanged.
ASSUME LargeNumbersLookAlike ==
    \E m, n \in 0 .. 2 * Exact : m # n /\ JsonSummary(<<<<"number", <<>>, m>>>>, <<<<"number", <<>>, n>>>>) = <<<<>>>>

\* write_repr() cuts a long string at a byte: within a character it panics.
ASSUME CutsWithinCharacters == ReprPanics(Text(<<"a", "e1", "e2">>)) /\ ~ReprPanics(Text(<<"e1", "e2">>))

LOCAL A == <<"a">>
LOCAL B == <<"b">>
LOCAL Lines == {<<"table", <<A>>>>, <<"table", <<A, B>>>>, <<"array", <<A>>>>, <<"array", <<A, B>>>>,
                <<"set", <<A>>, Null>>, <<"set", <<B>>, Null>>, <<"set", <<A, B>>, Number(1)>>}
\* parse_toml() takes its own documents, whatever they repeat: the walk panics
\* only when a path runs through a value that is no table, where the file
\* promises None and a line diff for what it cannot read.
ASSUME WalksThroughValuesPanic ==
    /\ Toml(<<<<"set", <<A>>, Null>>, <<"set", <<A, B>>, Number(1)>>>>) = Panic
    /\ Toml(<<<<"set", <<A>>, Array(<<>>)>>, <<"array", <<A, B>>>>>>) = Panic
    /\ \A doc \in SeqOf(Lines, 3) : Toml(doc) = Panic =>
           \E i, j \in DOMAIN doc : i < j /\ doc[i][1] = "set" /\ (Len(doc[j][2]) > 1 \/ doc[j][1] = "set")

\* [[a]] starts a further entry, and what follows goes to the last one.
ASSUME EntriesFollowTheirHeader ==
    \A n \in 1 .. 3 :
        LET lines == FlattenSeq([i \in 1 .. n |-> <<<<"array", <<A>>>>, <<"set", <<B>>, Number(i)>>>>])
        IN  Toml(lines) = Object(<<<<A, Array([i \in 1 .. n |-> Object(<<<<B, Number(i)>>>>)])>>>>)

\* The tables of a document may come in any order: no path is reported.
ASSUME TableOrderIsNoChange ==
    LET First  == <<<<"table", <<A>>>>, <<"set", <<B>>, Number(1)>>>>
        Second == <<<<"table", <<B>>>>, <<"set", <<A, B>>, Number(1)>>>>
        Third  == <<<<"table", <<B, A>>>>, <<"set", <<A>>, Null>>>>
    IN  \A x, y \in {First \o Second \o Third, Second \o First \o Third, Third \o Second \o First, Second \o Third \o First} :
            DiffValues(<<>>, Toml(x), Toml(y)) = <<>>

LOCAL Parts == SeqOf({<<"t", <<1>>>>, <<"t", <<2>>>>, <<"d", <<1>>>>}, 3)
LOCAL AllSame(old, new) == \A n \in Names(old) \cup Names(new) : PartSummary(old, new)[n] = "same"
\* part_summary() accumulates the bodies of a name: parts of different names may
\* change places and a part may be split in two, as a PNG writer splits IDAT,
\* and nothing is told; a part dropped, or two of a name that differ and change
\* places, is always told.
ASSUME PartsAreTheirBytes ==
    \A parts \in Parts : \A i \in 1 .. Len(parts) - 1 :
        LET swapped == [parts EXCEPT ![i] = parts[i + 1], ![i + 1] = parts[i]]
            joined  == ReplaceAt(RemoveAt(parts, i + 1), i, <<parts[i][1], parts[i][2] \o parts[i + 1][2]>>)
        IN  /\ AllSame(parts, swapped) <=> (parts[i][1] # parts[i + 1][1] \/ parts[i] = parts[i + 1])
            /\ parts[i][1] = parts[i + 1][1] => AllSame(parts, joined)
            /\ ~AllSame(parts, RemoveAt(parts, i)) /\ ~AllSame(RemoveAt(parts, i), parts)

\* chunk_diff() counts each chunk as often as it comes: what is shared and what
\* was added is the new file, what is shared and what was removed the old, and
\* the two directions mirror each other.
ASSUME ChunksAddUp ==
    \A old, new \in SeqOf({1, 2, 3}, 3) :
        LET there == ChunkDiff(old, new)
            back  == ChunkDiff(new, old)
        IN  /\ there.shared + there.added = Len(new) /\ there.shared + there.removed = Len(old)
            /\ back = [shared |-> there.shared, added |-> there.removed, removed |-> there.added]
            /\ there.shared = Len(new) /\ there.shared = Len(old)
                   <=> \E p \in Permutations(DOMAIN old) : DOMAIN old = DOMAIN new /\ \A i \in DOMAIN old : new[i] = old[p[i]]
=============================================================================
