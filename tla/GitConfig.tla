------------------------------ MODULE GitConfig ------------------------------
(***************************************************************************)
(* git's config files as alt reads and rewrites them                       *)
(* (crates/alt-git-config, crates/alt-cli/src/config_cmd.rs): the grammar  *)
(* of sections and values, includes and their conditions, lookup, and what *)
(* `alt config` writes back.  A text is a sequence of characters; letters  *)
(* stand for all that need no quoting.                                     *)
(***************************************************************************)
EXTENDS Integers, Sequences, FiniteSets

LOCAL INSTANCE SequencesExt

MaxIncludeDepth == 2          \* MAX_INCLUDE_DEPTH, 10 in the code

Failed == <<>>                \* Err(_): a result is <<value, rest of the text>>
Rest(text, n) == SubSeq(text, n + 1, Len(text))
Lower(c) == IF c = "A" THEN "a" ELSE c
Lowered(text) == [i \in DOMAIN text |-> Lower(text[i])]
Unset == <<"unset">>          \* `[x] flag`, a variable without a value
Valued(text) == <<"is", text>>

\* The characters before the first of `stops`.
Upto(text, stops) ==
    LET ends == {i \in DOMAIN text : text[i] \in stops}
    IN  IF ends = {} THEN Len(text) ELSE (CHOOSE i \in ends : \A j \in ends : i <= j) - 1
SkipLine(text) == Rest(text, Upto(text, {"nl"}))

RECURSIVE SkipBlank(_)        \* skip_inline_ws()
SkipBlank(text) == IF text # <<>> /\ Head(text) = " " THEN SkipBlank(Tail(text)) ELSE text

RECURSIVE SkipGap(_)          \* skip_ws_comments_and_newlines()
SkipGap(text) ==
    CASE text # <<>> /\ Head(text) \in {" ", "nl"} -> SkipGap(Tail(text))
      [] text # <<>> /\ Head(text) = "#" -> SkipGap(SkipLine(text))
      [] OTHER -> text

-----------------------------------------------------------------------------
(***************************************************************************)
(* parse_value(): `gap` is the unquoted whitespace waiting for a character *)
(* after it.                                                               *)
(***************************************************************************)
RECURSIVE ValueOf(_, _, _, _)
ValueOf(text, out, gap, quoted) ==
    IF text = <<>> \/ Head(text) = "nl"
    THEN IF quoted THEN Failed ELSE <<out, text>>
    ELSE LET c == Head(text)
             rest == Tail(text)
         IN  CASE c = "#" /\ ~quoted -> <<out, SkipLine(rest)>>
               [] c = " " /\ ~quoted -> ValueOf(rest, out, IF out = <<>> THEN gap ELSE Append(gap, c), quoted)
               [] c = "\"" -> ValueOf(rest, out \o gap, <<>>, ~quoted)
               [] c = "\\" -> CASE rest = <<>> -> Failed
                                [] rest # <<>> /\ Head(rest) = "nl" -> ValueOf(Tail(rest), out \o gap, <<>>, quoted)
                                [] rest # <<>> /\ Head(rest) = "n" ->
                                     ValueOf(Tail(rest), out \o gap \o <<"nl">>, <<>>, quoted)
                                [] rest # <<>> /\ Head(rest) \in {"\"", "\\"} ->
                                     ValueOf(Tail(rest), out \o gap \o <<Head(rest)>>, <<>>, quoted)
                                [] OTHER -> Failed
               [] OTHER -> ValueOf(rest, out \o gap \o <<c>>, <<>>, quoted)

\* parse_variable().
Variable(text) ==
    LET size == Upto(text, {" ", "nl", "#", "=", "\"", "\\", "[", "]", "."})
        key  == Lowered(SubSeq(text, 1, size))
        rest == SkipBlank(Rest(text, size))
    IN  CASE size = 0 -> Failed
          [] size > 0 /\ (rest = <<>> \/ Head(rest) = "nl") -> <<<<key, Unset>>, rest>>
          [] size > 0 /\ rest # <<>> /\ Head(rest) = "#" -> <<<<key, Unset>>, SkipLine(rest)>>
          [] size > 0 /\ rest # <<>> /\ Head(rest) = "=" ->
               LET value == ValueOf(Tail(rest), <<>>, <<>>, FALSE)
               IN  IF value = Failed THEN Failed ELSE <<<<key, Valued(value[1])>>, value[2]>>
          [] OTHER -> Failed

\* The quoted subsection of a header, of which any character may be escaped.
RECURSIVE Subsection(_, _)
Subsection(text, sub) ==
    CASE text = <<>> \/ (text # <<>> /\ Head(text) = "nl") -> Failed
      [] text # <<>> /\ Head(text) = "\"" -> <<sub, Tail(text)>>
      [] text # <<>> /\ Head(text) = "\\" ->
           IF Len(text) = 1 THEN Failed ELSE Subsection(Rest(text, 2), Append(sub, text[2]))
      [] OTHER -> Subsection(Tail(text), Append(sub, Head(text)))

(***************************************************************************)
(* parse_section_header(), past the "[": <<section, subsection>>.  The old *)
(* form [a.b] is lowercased and split at its first dot.                    *)
(***************************************************************************)
SectionHeader(text) ==
    LET size == Upto(text, {"]", " ", "nl", "#", "=", "\"", "\\", "["})
        name == Lowered(SubSeq(text, 1, size))
        dot  == Upto(name, {"."})
        rest == Rest(text, size)
    IN  CASE rest # <<>> /\ Head(rest) = "]" ->
               IF dot = Len(name) THEN <<<<name, Unset>>, Tail(rest)>>
               ELSE <<<<SubSeq(name, 1, dot), Valued(Rest(name, dot + 1))>>, Tail(rest)>>
          [] rest # <<>> /\ Head(rest) = " " ->
               LET open == SkipBlank(rest)
                   sub  == IF open = <<>> \/ Head(open) # "\"" THEN Failed ELSE Subsection(Tail(open), <<>>)
                   last == IF sub = Failed THEN <<>> ELSE SkipBlank(sub[2])
               IN  IF last = <<>> \/ Head(last) # "]" THEN Failed
                   ELSE <<<<name, Valued(sub[1])>>, Tail(last)>>
          [] OTHER -> Failed

(***************************************************************************)
(* Parser::run(): the entries [section, sub, key, value] of a file, in     *)
(* order, or "error".                                                      *)
(***************************************************************************)
Entry(section, key, value) == [section |-> section[1], sub |-> section[2], key |-> key, value |-> value]
Entries(found) == [ok |-> TRUE, entries |-> found]
Error == [ok |-> FALSE, entries |-> <<>>]

RECURSIVE Parsed(_, _, _)
Parsed(text, section, found) ==
    LET at == SkipGap(text)
    IN  CASE at = <<>> -> Entries(found)
          [] at # <<>> /\ Head(at) = "[" ->
               LET header == SectionHeader(Tail(at))
               IN  IF header = Failed THEN Error ELSE Parsed(header[2], header[1], found)
          [] at # <<>> /\ Head(at) # "[" ->
               LET variable == Variable(at)
               IN  IF section = <<>> \/ variable = Failed THEN Error
                   ELSE Parsed(variable[2], section,
                               Append(found, Entry(section, variable[1][1], variable[1][2])))

ParseFile(text) == Parsed(text, <<>>, <<>>)

-----------------------------------------------------------------------------
(***************************************************************************)
(* Lookup, and what `alt config` does to a file.                           *)
(***************************************************************************)
IsMatch(e, name) == e.section = name.section /\ e.sub = name.sub /\ e.key = name.key

GetAll(entries, name) == SelectSeq(entries, LAMBDA e : IsMatch(e, name))
Get(entries, name) ==         \* the last one, or <<>>
    LET all == GetAll(entries, name) IN IF all = <<>> THEN <<>> ELSE <<Last(all).value>>

SetOne(entries, name, text) ==
    LET new == [section |-> name.section, sub |-> name.sub, key |-> name.key, value |-> Valued(text)]
    IN  IF GetAll(entries, name) = <<>> THEN Append(entries, new)
        ELSE [i \in DOMAIN entries |-> IF IsMatch(entries[i], name) THEN new ELSE entries[i]]

UnsetOne(entries, name) == SelectSeq(entries, LAMBDA e : ~IsMatch(e, name))

Escaped(sub) == FlattenSeq([i \in DOMAIN sub |-> IF sub[i] \in {"\"", "\\"} THEN <<"\\", sub[i]>> ELSE <<sub[i]>>])

\* serialize_entries(): values are written as they are.
Line(e) == e.key \o (IF e.value = Unset THEN <<>> ELSE <<" ", "=", " ">> \o e.value[2]) \o <<"nl">>
HeaderOf(e) ==
    <<"[">> \o e.section
            \o (IF e.sub = Unset THEN <<>> ELSE <<" ", "\"">> \o Escaped(e.sub[2]) \o <<"\"">>)
            \o <<"]", "nl">>
Serialized(entries) ==
    FlattenSeq([i \in DOMAIN entries |->
        (IF i > 1 /\ entries[i - 1].section = entries[i].section /\ entries[i - 1].sub = entries[i].sub
         THEN <<>> ELSE HeaderOf(entries[i])) \o Line(entries[i])])

-----------------------------------------------------------------------------
(***************************************************************************)
(* wildmatch() of include conditions: "*" stays in its segment, and "**"   *)
(* is any number of segments when it is one itself.                        *)
(***************************************************************************)
RECURSIVE WildMatch(_, _, _)
WildMatch(pat, text, start) ==
    IF pat = <<>> THEN text = <<>>
    ELSE CASE Head(pat) = "*" ->
                LET double == Len(pat) > 1 /\ pat[2] = "*"
                    rest   == Rest(pat, IF double THEN 2 ELSE 1)
                IN  IF double /\ start /\ (rest = <<>> \/ Head(rest) = "/")
                    THEN \/ rest = <<>>
                         \/ WildMatch(Tail(rest), text, TRUE)
                         \/ \E i \in DOMAIN text : text[i] = "/" /\ WildMatch(rest, Rest(text, i - 1), FALSE)
                    ELSE \E i \in 0 .. Upto(text, {"/"}) : WildMatch(rest, Rest(text, i), start /\ i = 0)
           [] Head(pat) = "?" -> text # <<>> /\ Head(text) # "/" /\ WildMatch(Tail(pat), Tail(text), FALSE)
           [] OTHER -> text # <<>> /\ Head(text) = Head(pat) /\ WildMatch(Tail(pat), Tail(text), Head(pat) = "/")

EndsWith(text, c) == text # <<>> /\ Last(text) = c
AnyBelow(pat) == IF EndsWith(pat, "/") THEN pat \o <<"*", "*">> ELSE pat
Anywhere(pat) ==
    IF IsPrefix(<<"/">>, pat) \/ IsPrefix(<<"*", "*">>, pat) \/ IsPrefix(<<".", "/">>, pat) THEN pat
    ELSE <<"*", "*", "/">> \o pat

\* condition_holds(): of a kind, a pattern and the facts [git_dir, branch].
ConditionHolds(cond, facts) ==
    CASE cond.kind = "gitdir"   -> facts.git_dir # <<>> /\ WildMatch(AnyBelow(Anywhere(cond.pat)), facts.git_dir, TRUE)
      [] cond.kind = "onbranch" -> facts.branch # <<>> /\ WildMatch(AnyBelow(cond.pat), facts.branch, TRUE)
      [] OTHER -> FALSE

(***************************************************************************)
(* load_into(): files[f] is a sequence of entries, of which those with a   *)
(* `target` are include directives whose condition holds.  The directive   *)
(* stays and its file follows; a missing file is skipped.                  *)
(***************************************************************************)
RECURSIVE LoadInto(_, _, _)
LoadInto(files, f, depth) ==
    IF depth > MaxIncludeDepth THEN Error
    ELSE LET Spliced(e) ==
                 IF e.target \notin DOMAIN files THEN Entries(<<e>>)
                 ELSE LET loaded == LoadInto(files, e.target, depth + 1)
                      IN  IF loaded.ok THEN Entries(<<e>> \o loaded.entries) ELSE Error
             parts == [i \in DOMAIN files[f] |-> Spliced(files[f][i])]
         IN  IF \E i \in DOMAIN parts : ~parts[i].ok THEN Error
             ELSE Entries(FlattenSeq([i \in DOMAIN parts |-> parts[i].entries]))

Load(files, f) == LoadInto(files, f, 0)

-----------------------------------------------------------------------------
(***************************************************************************)
(* What the functions above give, over small files.                        *)
(***************************************************************************)
Texts(chars, n) == UNION {[1 .. k -> chars] : k \in 0 .. n}
Named(section, sub) == [section |-> section, sub |-> sub, key |-> <<"a">>]
Holding(name, value) == [section |-> name.section, sub |-> name.sub, key |-> name.key, value |-> value]
PlainText(text) ==
    /\ \A i \in DOMAIN text : text[i] \notin {"\"", "\\", "#", "nl"}
    /\ text # <<>> => Head(text) # " " /\ Last(text) # " "

\* `alt config` writes values without quoting them (config_cmd.rs,
\* serialize_entries): exactly those that need no quotes are read back.
ASSUME PlainValuesReadBack ==
    \A text \in Texts({"a", " ", "\"", "\\", "#", "nl"}, 3) :
        \E e \in {Holding(Named(<<"a">>, Unset), Valued(text))} :
            (ParseFile(Serialized(<<e>>)) = Entries(<<e>>)) <=> PlainText(text)

\* Subsections are quoted, and all of them are read back.
ASSUME SubsectionsReadBack ==
    \A text \in Texts({"a", "A", "\"", "\\", "#", ".", " ", "]"}, 3) :
        \E e \in {Holding(Named(<<"a">>, Valued(text)), Unset)} :
            ParseFile(Serialized(<<e>>)) = Entries(<<e>>)

Files ==
    LET names == {Named(<<"a">>, Unset), Named(<<"a">>, Valued(<<"A">>)), Named(<<"n">>, Unset)}
        lines == {Holding(name, value) : name \in names,
                    value \in {Unset, Valued(<<>>), Valued(<<"a">>), Valued(<<"a", "#">>)}}
    IN  UNION {[1 .. k -> lines] : k \in 0 .. 2}

\* Setting one variable keeps the others, all of them when a file has no value
\* that was quoted; a quoted one of any other variable is cut (set_one).
ASSUME SettingKeepsPlainFiles ==
    \A entries \in Files :
        \E name \in {Named(<<"a">>, Unset)} : \E set \in {SetOne(entries, name, <<"n">>)} :
            /\ Get(set, name) = <<Valued(<<"n">>)>>
            /\ UnsetOne(set, name) = UnsetOne(entries, name)
            /\ Get(UnsetOne(set, name), name) = <<>>
            /\ (ParseFile(Serialized(set)) = Entries(set))
                 <=> \A e \in ToSet(set) : e.value = Unset \/ PlainText(e.value[2])

RECURSIVE Reached(_, _, _)
Reached(files, at, n) ==      \* the files n includes away
    IF n = 0 THEN at
    ELSE Reached(files, UNION {{e.target : e \in ToSet(files[f])} : f \in at} \cap DOMAIN files, n - 1)

\* Reading ends: files that include each other fail at the depth limit, and
\* nothing else does (load_into).
ASSUME IncludeCyclesFail ==
    \A files \in [{"f", "g"} -> UNION {[1 .. k -> [target : {"none", "f", "g"}]] : k \in 0 .. 2}] :
        Load(files, "f").ok <=> Reached(files, {"f"}, MaxIncludeDepth + 1) = {}

RECURSIVE Split(_)
Split(text) ==
    LET n == Upto(text, {"/"})
    IN  IF n = Len(text) THEN <<text>> ELSE <<SubSeq(text, 1, n)>> \o Split(Rest(text, n + 1))

RECURSIVE InSegment(_, _)
InSegment(pat, text) ==
    IF pat = <<>> THEN text = <<>>
    ELSE IF Head(pat) = "*" THEN \E n \in 0 .. Len(text) : InSegment(Tail(pat), Rest(text, n))
    ELSE text # <<>> /\ Head(pat) \in {"?", Head(text)} /\ InSegment(Tail(pat), Tail(text))

RECURSIVE Means(_, _)
Means(pats, segments) ==
    IF pats = <<>> THEN segments = <<>>
    ELSE IF Head(pats) = <<"*", "*">>
         THEN \E n \in (IF Len(pats) = 1 THEN 1 ELSE 0) .. Len(segments) : Means(Tail(pats), Rest(segments, n))
         ELSE segments # <<>> /\ InSegment(Head(pats), Head(segments)) /\ Means(Tail(pats), Tail(segments))

\* A pattern means its segments, one by one (wildmatch.rs: "`**` does but only
\* when slash-bounded"), except that of four stars the last two are taken for
\* such a segment.
Stars == <<"*", "*", "*", "*">>
ASSUME PatternsMeanSegments ==
    /\ \A pat \in Texts({"a", "*", "/", "?"}, 4) \ {Stars}, text \in Texts({"a", "b", "/"}, 4) :
          WildMatch(pat, text, TRUE) <=> Means(Split(pat), Split(text))
    /\ WildMatch(Stars, <<"a", "/", "b">>, TRUE)

\* onbranch:a/ holds on every branch below a/ and on no other, gitdir:a/ in
\* every directory below one called a.
ASSUME ConditionsReachBelow ==
    \A text \in Texts({"a", "b", "/"}, 4) \ {<<>>} :
        LET facts == [git_dir |-> <<"/">> \o text, branch |-> text]
        IN  /\ ConditionHolds([kind |-> "onbranch", pat |-> <<"a", "/">>], facts)
                 <=> IsPrefix(<<"a", "/">>, text)
            /\ ConditionHolds([kind |-> "gitdir", pat |-> <<"a", "/">>], facts)
                 <=> \E i \in DOMAIN Split(text) : i < Len(Split(text)) /\ Split(text)[i] = <<"a">>
=============================================================================
