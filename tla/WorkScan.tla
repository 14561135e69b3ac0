------------------------------- MODULE WorkScan -------------------------------
(***************************************************************************)
(* What a scan of the working tree sees and what is made of it: ignore     *)
(* rules, the walk over the directories, the tree objects a commit gets    *)
(* and the two-list comparisons of status                                  *)
(* (crates/alt-worktree/src/ignore.rs and lib.rs, native/add.rs).  A path  *)
(* is a sequence of characters, of which "/", "*", "?" and a few more are  *)
(* told apart.                                                             *)
(***************************************************************************)
EXTENDS Integers, Sequences, FiniteSets, TLC
LOCAL INSTANCE SequencesExt
LOCAL INSTANCE FiniteSetsExt

From(text, i) == SubSeq(text, i, Len(text))
Slashes(text) == {i \in DOMAIN text : text[i] = "/"}

\* The parts between slashes.
Segments(text) ==
    LET cuts == {0, Len(text) + 1} \cup Slashes(text)
    IN  {SubSeq(text, i + 1, j - 1) : <<i, j>> \in
           {c \in cuts \X cuts : c[1] < c[2] /\ ~\E k \in cuts : c[1] < k /\ k < c[2]}}

Under(path, dir) == dir = <<>> \/ (Len(path) > Len(dir) + 1 /\ IsPrefix(Append(dir, "/"), path))

-----------------------------------------------------------------------------
(***************************************************************************)
(* parse_layer(): a line becomes a rule.  A slash anywhere but at the end  *)
(* anchors it to the directory of its file.                                *)
(***************************************************************************)
Trimmed(line) ==
    LET kept == IF line # <<>> /\ Last(line) = "\r" THEN Front(line) ELSE line
        Blank(i) == kept[i] \in {" ", "\t"}
    IN  SubSeq(kept, 1, Min({n \in 0 .. Len(kept) : \A i \in n + 1 .. Len(kept) : Blank(i)}))

Rules(line) ==     \* one rule, or none
    LET text    == Trimmed(line)
        negate  == text # <<>> /\ Head(text) = "!"
        body    == IF negate THEN Tail(text) ELSE text
        dirOnly == body # <<>> /\ Last(body) = "/"
        bare    == IF dirOnly THEN Front(body) ELSE body
        rooted  == bare # <<>> /\ Head(bare) = "/"
    IN  IF text = <<>> \/ bare = <<>> \/ Head(text) = "#" THEN <<>>
        ELSE << [pattern  |-> IF rooted THEN Tail(bare) ELSE bare, negate |-> negate,
                 dirOnly  |-> dirOnly, anchored |-> Slashes(bare) # {}] >>

Layer(base, lines) == [base |-> base, rules |-> FlattenSeq([i \in DOMAIN lines |-> Rules(lines[i])])]

(***************************************************************************)
(* glob_match_segment(): `star` is what to come back to, the pattern after *)
(* the last "*" and the text it left.  A "**" tries every rest and is      *)
(* final: the code does not come back to a "*" before it.                  *)
(***************************************************************************)
RECURSIVE MatchSegment(_, _, _)
MatchSegment(pattern, text, star) ==
    LET again == /\ star # <<>> /\ Head(star[2]) # "/"
                 /\ MatchSegment(star[1], Tail(star[2]), <<star[1], Tail(star[2])>>)
        here(c) == pattern # <<>> /\ Head(pattern) = c
    IN  CASE text = <<>> -> \A i \in DOMAIN pattern : pattern[i] = "*"
          [] text # <<>> /\ IsPrefix(<<"*", "*">>, pattern) ->
               \/ MatchSegment(From(pattern, IF IsPrefix(<<"*", "*", "/">>, pattern) THEN 4 ELSE 3),
                               text, <<>>)
               \/ \E k \in 1 .. Len(text) + 1 : MatchSegment(From(pattern, 3), From(text, k), <<>>)
          [] text # <<>> /\ here("*") /\ ~IsPrefix(<<"*", "*">>, pattern) ->
               MatchSegment(Tail(pattern), text, <<Tail(pattern), text>>)
          [] text # <<>> /\ ((here("?") /\ Head(text) # "/") \/ (here(Head(text)) /\ ~here("*"))) ->
               MatchSegment(Tail(pattern), Tail(text), star)
          [] OTHER -> again

RECURSIVE GlobMatch(_, _)
GlobMatch(pattern, text) ==
    IF ~IsPrefix(<<"*", "*", "/">>, pattern) THEN MatchSegment(pattern, text, <<>>)
    ELSE \/ GlobMatch(From(pattern, 4), text)
         \/ \E i \in Slashes(text) : GlobMatch(pattern, From(text, i + 1))

MatchesRule(rule, rel) ==
    IF rule.anchored THEN GlobMatch(rule.pattern, rel)
    ELSE \E segment \in Segments(rel) : GlobMatch(rule.pattern, segment)

(***************************************************************************)
(* is_ignored(): the deepest layer with a rule that matches decides, by    *)
(* the last such rule.                                                     *)
(***************************************************************************)
Hits(layer, path, isDir) ==
    {i \in DOMAIN layer.rules :
        /\ Under(path, layer.base)
        /\ layer.rules[i].dirOnly => isDir
        /\ MatchesRule(layer.rules[i],
                       IF layer.base = <<>> THEN path ELSE From(path, Len(layer.base) + 2))}

IsIgnored(layers, path, isDir) ==
    LET touching == {k \in DOMAIN layers : Hits(layers[k], path, isDir) # {}}
    IN  touching # {} /\ LET layer == layers[Max(touching)]
                         IN  ~layer.rules[Max(Hits(layer, path, isDir))].negate

-----------------------------------------------------------------------------
(***************************************************************************)
(* scan_dir(): `tree` has the files, the directories that are submodules,  *)
(* the layers by directory (the global one under the root's), and what the *)
(* index tracks.  Once inside an ignored directory only tracked files are  *)
(* seen; a submodule is never entered.                                     *)
(***************************************************************************)
Parents(path) == {SubSeq(path, 1, i - 1) : i \in Slashes(path)}
Dirs(files) == UNION {Parents(f) : f \in files}

\* The layers in scope for the entries of a directory, the root's first.
Scope(tree, dir) ==
    LET holds == {d \in {<<>>, dir} \cup Parents(dir) : d \in DOMAIN tree.layers}
    IN  tree.global \o [n \in 1 .. Cardinality(holds) |->
            tree.layers[CHOOSE d \in holds : Cardinality({e \in holds : Len(e) < Len(d)}) = n - 1]]

Parent(path) ==
    IF Slashes(path) = {} THEN <<>> ELSE SubSeq(path, 1, Max(Slashes(path)) - 1)

RECURSIVE Hidden(_, _, _)
Hidden(tree, path, isDir) ==
    \/ Parent(path) # <<>> /\ Hidden(tree, Parent(path), TRUE)
    \/ IsIgnored(Scope(tree, Parent(path)), path, isDir)

Entered(tree, dir) ==
    /\ dir \notin tree.submodules
    /\ Hidden(tree, dir, TRUE) => dir \in Dirs(tree.tracked)

Scanned(tree) ==
    {f \in tree.files :
        /\ \A dir \in Parents(f) : Entered(tree, dir)
        /\ Hidden(tree, f, FALSE) => f \in tree.tracked}

-----------------------------------------------------------------------------
(***************************************************************************)
(* write_tree() and flatten_tree(): a level holds files and directories in *)
(* git's order, a directory compared as if its name ended in a slash.      *)
(***************************************************************************)
Rank == [c \in {"-", "/", "a", "b"} |-> CASE c = "-" -> 1 [] c = "/" -> 2 [] c = "a" -> 3 [] OTHER -> 4]

Less(x, y) ==
    \/ IsStrictPrefix(x, y)
    \/ \E i \in DOMAIN x \cap DOMAIN y :
         SubSeq(x, 1, i - 1) = SubSeq(y, 1, i - 1) /\ Rank[x[i]] < Rank[y[i]]

SortKey(entry) == IF entry.dir THEN Append(entry.name, "/") ELSE entry.name

RECURSIVE WriteTree(_)
WriteTree(entries) ==      \* entries: a set of <<path, id>>
    LET Name(e) == IF Slashes(e[1]) = {} THEN e[1] ELSE SubSeq(e[1], 1, Min(Slashes(e[1])) - 1)
        files == {[name |-> e[1], dir |-> FALSE, id |-> e[2]] : e \in {x \in entries : Slashes(x[1]) = {}}}
        dirs  == {[name |-> d, dir |-> TRUE,
                   id |-> WriteTree({<<From(x[1], Len(d) + 2), x[2]>> :
                                        x \in {y \in entries : Slashes(y[1]) # {} /\ Name(y) = d}})] :
                     d \in {Name(e) : e \in {x \in entries : Slashes(x[1]) # {}}}}
    IN  SetToSortSeq(files \cup dirs, LAMBDA x, y : Less(SortKey(x), SortKey(y)))

RECURSIVE Flatten(_, _)
Flatten(level, prefix) ==
    UNION {IF e.dir THEN Flatten(e.id, prefix \o e.name \o <<"/">>) ELSE {<<prefix \o e.name, e.id>>} :
             e \in ToSet(level)}

(***************************************************************************)
(* diff() and changes(): two lists sorted by path, walked together.        *)
(***************************************************************************)
RECURSIVE Merged(_, _)
Merged(old, new) ==
    CASE old = <<>> -> [i \in DOMAIN new |-> <<new[i][1], "added">>]
      [] old # <<>> /\ new = <<>> -> [i \in DOMAIN old |-> <<old[i][1], "deleted">>]
      [] OTHER -> LET o == Head(old) n == Head(new)
                  IN  CASE Less(o[1], n[1]) -> <<<<o[1], "deleted">>>> \o Merged(Tail(old), new)
                        [] Less(n[1], o[1]) -> <<<<n[1], "added">>>> \o Merged(old, Tail(new))
                        [] OTHER -> (IF o = n THEN <<>> ELSE <<<<o[1], "modified">>>>)
                                      \o Merged(Tail(old), Tail(new))

(***************************************************************************)
(* status(): a submodule has no entry in the scan and is not called        *)
(* deleted; an id of "link" is one.                                        *)
(***************************************************************************)
Sorted(entries) == SetToSortSeq(entries, LAMBDA x, y : Less(x[1], y[1]))

Status(head, index, work) ==
    LET links == {e[1] : e \in {x \in index : x[2] = "link"}}
        unstaged == ToSet(Merged(Sorted(index), Sorted(work)))
    IN  [staged    |-> ToSet(Merged(Sorted(head), Sorted(index))),
         unstaged  |-> {c \in unstaged : c[2] # "added" /\ ~(c[2] = "deleted" /\ c[1] \in links)},
         untracked |-> {c[1] : c \in {x \in unstaged : x[2] = "added"}}]

(***************************************************************************)
(* add: the whole tree, or what the index and the scan have at or under a  *)
(* path.  What is no longer in the tree is dropped, a submodule with it.   *)
(***************************************************************************)
Targets(spec, scan, prior) ==
    {p \in {e[1] : e \in scan \cup prior} : p = spec \/ Under(p, spec)}

Staged(spec, scan, prior) ==
    IF spec = <<>> THEN scan
    ELSE {e \in prior : e[1] \notin Targets(spec, scan, prior)}
           \cup {e \in scan : e[1] \in Targets(spec, scan, prior)}

-----------------------------------------------------------------------------
Lists(S, n) == UNION {[1 .. k -> S] : k \in 1 .. n}
Joined(parts) == FoldLeft(LAMBDA text, part : text \o <<"/">> \o part, Head(parts), Tail(parts))

(* What git says of a pattern of components: "**" stands for any number of *)
(* them, in the end for at least one.                                      *)
RECURSIVE Wild(_, _)
Wild(pattern, name) ==
    IF pattern = <<>> THEN name = <<>>
    ELSE IF Head(pattern) = "*" THEN \E n \in 1 .. Len(name) + 1 : Wild(Tail(pattern), From(name, n))
    ELSE name # <<>> /\ Head(pattern) \in {"?", Head(name)} /\ Wild(Tail(pattern), Tail(name))

RECURSIVE Denotes(_, _)
Denotes(parts, path) ==
    IF parts = <<>> THEN path = <<>>
    ELSE IF Head(parts) = <<"*", "*">>
         THEN \E n \in (IF Len(parts) = 1 THEN 1 ELSE 0) .. Len(path) : Denotes(Tail(parts), From(path, n + 1))
         ELSE path # <<>> /\ Wild(Head(parts), Head(path)) /\ Denotes(Tail(parts), Tail(path))

\* A pattern of whole components matches what git matches (glob_match: "`**` matches
\* any number of path components, including zero - but only as a path component on its
\* own").
ASSUME GlobsAreGits ==
    \A parts \in Lists({<<"a">>, <<"?">>, <<"*", "b">>, <<"*", "a", "*">>, <<"*", "*">>}, 3) :
      \A path \in Lists({<<"a">>, <<"a", "b">>, <<"b", "a", "b">>}, 3) :
        (parts # <<<<"*", "*">>>>) => (GlobMatch(Joined(parts), Joined(path)) <=> Denotes(parts, path))

\* A "**" that is not a component of its own gets no second try: "*a**/b" misses aab.
ASSUME GapIsFinal ==
    /\ ~GlobMatch(<<"*", "a", "*", "*", "/", "b">>, <<"a", "a", "b">>)
    /\ GlobMatch(<<"*", "a", "*", "*", "/", "b">>, <<"a", "b">>)

Files == {<<"b">>, <<"a", "/", "b">>, <<"a", "/", "a", "/", "b">>}
Lines == {<<"a">>, <<"/", "a", "/", "\r">>, <<"b", " ">>, <<"!", "b">>, <<"*">>, <<"!", "a", "/">>,
          <<"a", "/", "b">>, <<"#", "b">>}
Trees ==
    {[files |-> Files, submodules |-> {}, tracked |-> t, global |-> <<Layer(<<>>, g)>>,
      layers |-> (<<>> :> Layer(<<>>, r)) @@ (<<"a">> :> Layer(<<"a">>, d))] :
        t \in SUBSET Files, g \in {<<>>, <<<<"b">>>>}, r \in Lists(Lines, 2), d \in {<<>>} \cup Lists(Lines, 1)}

\* Rules hide untracked files alone, and a rule in an ignored directory brings
\* nothing back (Tracked, scan_dir: "Ignore rules only hide untracked files").
ASSUME RulesHideUntracked ==
    \A tree \in Trees :
      \E seen \in {Scanned(tree)} :
        /\ tree.tracked \subseteq seen
        /\ \A f \in tree.files \ tree.tracked :
             (\E dir \in Parents(f) : Hidden(tree, dir, TRUE)) => f \notin seen
        /\ Scanned([tree EXCEPT !.tracked = {}]) \subseteq seen

\* A submodule, and all in it, is not seen even when the index tracks it.
ASSUME SubmodulesAreApart ==
    \A t \in SUBSET Files :
      Scanned([files |-> Files, submodules |-> {<<"a">>}, tracked |-> t, global |-> <<>>,
               layers |-> [d \in {} |-> <<>>]]) = {<<"b">>}

Paths == {<<"a">>, <<"a", "-">>, <<"a", "/", "a">>, <<"a", "/", "b">>, <<"a", "-", "/", "a">>,
          <<"a", "/", "a", "/", "b">>, <<"b">>}
Listings == {E \in SUBSET (Paths \X {"x"}) : \A x, y \in E : ~Under(x[1], y[1]) \/ y[1] = <<>>}

\* Trees are canonical: what is written reads back, every level in git's order, and
\* the paths of a directory stand together once sorted, as the single pass over
\* them needs (write_tree, write_subtree: "a contiguous run").
RECURSIVE InOrder(_)
InOrder(level) ==
    /\ \A i \in 1 .. Len(level) - 1 : Less(SortKey(level[i]), SortKey(level[i + 1]))
    /\ \A i \in DOMAIN level : level[i].dir => InOrder(level[i].id)

ASSUME TreesReadBack ==
    \A E \in Listings : E # {} =>
      \E level \in {WriteTree(E)} : Flatten(level, <<>>) = E /\ InOrder(level)

ASSUME DirectoriesStandTogether ==
    \A x, y, z \in Paths : \A dir \in Parents(x) \cap Parents(z) :
      Less(x, y) /\ Less(y, z) => dir \in Parents(y)

\* Every path that differs is reported once, in the column where it differs, and
\* after "add ." nothing is left to stage (status, diff, add).
Entries == {E \in SUBSET ({<<"a">>, <<"b">>} \X {"old", "new"}) : \A x, y \in E : x[1] = y[1] => x = y}
At(E, path) == {e[2] : e \in {x \in E : x[1] = path}}

ASSUME EveryChangeOnce ==
    \A old, new \in Entries :
      \E found \in {Merged(Sorted(old), Sorted(new))} :
        /\ {c[1] : c \in ToSet(found)} = {p \in {<<"a">>, <<"b">>} : At(old, p) # At(new, p)}
        /\ Cardinality(ToSet(found)) = Len(found)
        /\ \A c \in ToSet(found) : /\ c[2] = "added" <=> At(old, c[1]) = {}
                                   /\ c[2] = "deleted" <=> At(new, c[1]) = {}

ASSUME AddLeavesNothing ==
    \A head, prior, scan \in Entries : \A spec \in {<<>>, <<"a">>} :
      \E s \in {Status(head, Staged(spec, scan, prior), scan)} :
        \A path \in {<<"a">>, <<"b">>} :
          (spec \in {<<>>, path}) => /\ \A c \in s.unstaged : c[1] # path
                                     /\ path \notin s.untracked

\* "add ." stages the removal of every submodule: the scan has no entry for one and
\* the new index is the scan (add, staging_all), though status calls it clean.
ASSUME AddForgetsSubmodules ==
    LET module == {<<<<"a">>, "link">>}
    IN  /\ Status(module, module, {}).unstaged = {}
        /\ Staged(<<>>, {}, module) = {}
        /\ Status(module, Staged(<<>>, {}, module), {}).staged = {<<<<"a">>, "deleted">>}
=============================================================================
