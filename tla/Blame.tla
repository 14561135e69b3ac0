-------------------------------- MODULE Blame --------------------------------
(***************************************************************************)
(* blame: which commit of a chain of first parents each line of a file     *)
(* comes from, over renames too (crates/alt-cli/src/blame.rs).  A chain is *)
(* the trees from the revision back to the root, a tree the files          *)
(* <<path, text>> in the order the walk of it meets them.                  *)
(***************************************************************************)
EXTENDS TextMerge
LOCAL INSTANCE SequencesExt
LOCAL INSTANCE FiniteSetsExt

Threshold == 80        \* THRESHOLD_PERCENT

FilesAt(tree, path) == {f \in ToSet(tree) : f[1] = path}

-----------------------------------------------------------------------------
(***************************************************************************)
(* find_rename_source(): the file most of whose lines, counted each time,  *)
(* are among the lines of the text, the first such; and enough of them.    *)
(***************************************************************************)
Shared(text, file) == Cardinality({i \in DOMAIN file[2] : file[2][i] \in ToSet(text)})

RenameSources(tree, text) ==
    LET alike == {i \in DOMAIN tree : /\ tree[i][2] # <<>>
                                      /\ (Shared(text, tree[i]) * 100) \div Len(text) >= Threshold}
    IN  IF text = <<>> THEN {}
        ELSE {tree[i] : i \in {k \in alike :
                \A j \in alike : \/ Shared(text, tree[k]) > Shared(text, tree[j])
                                 \/ Shared(text, tree[k]) = Shared(text, tree[j]) /\ k <= j}}

(***************************************************************************)
(* The lines a diff leaves alone, as <<old, new>> pairs.                   *)
(***************************************************************************)
Kept(old, new) ==
    LET edits == DiffLines(old, new)
        Touched(i) == \E e \in ToSet(edits) : i > e.os /\ i <= e.oe
        Moved(i) == FoldLeft(LAMBDA n, e : IF e.oe < i THEN n + (e.ne - e.ns) - (e.oe - e.os) ELSE n, 0, edits)
    IN  {<<i, i + Moved(i)>> : i \in {k \in DOMAIN old : ~Touched(k)}}

(***************************************************************************)
(* blame_file(): origin is the commit each line of the file is put down    *)
(* to, carried where the lines still followed are in the text of commit k. *)
(***************************************************************************)
RECURSIVE Followed(_, _, _, _, _, _)
Followed(chain, follow, k, file, carried, origin) ==
    LET tracked == {carried[i] : i \in DOMAIN carried}
        here    == FilesAt(chain[k + 1], file[1])
        sources == IF here = {} /\ follow THEN RenameSources(chain[k + 1], file[2]) ELSE here
        parent  == CHOOSE f \in sources : TRUE
        kept    == IF parent[2] = file[2] THEN {<<i, i>> : i \in DOMAIN file[2]} ELSE Kept(parent[2], file[2])
        back    == [i \in {p[1] : p \in {q \in kept : q[2] \in DOMAIN carried}} |->
                       carried[(CHOOSE p \in kept : p[1] = i)[2]]]
    IN  IF tracked = {} \/ k = Len(chain) \/ sources = {} THEN origin
        ELSE Followed(chain, follow, k + 1, parent, back,
                      [l \in DOMAIN origin |-> IF \E i \in DOMAIN back : back[i] = l THEN k + 1 ELSE origin[l]])

BlameFile(chain, path, follow) ==
    LET file  == CHOOSE f \in FilesAt(chain[1], path) : TRUE
        lines == [i \in DOMAIN file[2] |-> i]
    IN  Followed(chain, follow, 1, file, lines, [i \in DOMAIN file[2] |-> 1])

-----------------------------------------------------------------------------
InOneFile(texts) == [k \in DOMAIN texts |-> <<<<"f", texts[k]>>>>]
ToSets(S) == {SetToSortSeq(s, LAMBDA x, y : x < y) : s \in SUBSET S}

\* Of lines that can be told apart and keep their order, each is put down to the
\* commit since which it has been there (blame_file; diff_lines).
ASSUME LinesGoToTheirCommit ==
    \A texts \in [1 .. 3 -> ToSets(1 .. 4)] :
      texts[1] # <<>> =>
        \E blamed \in {BlameFile(InOneFile(texts), "f", FALSE)} :
          blamed = [i \in DOMAIN texts[1] |->
                      Max({k \in 1 .. 3 : \A j \in 1 .. k : texts[1][i] \in ToSet(texts[j])})]

\* Whatever the lines are, a line was in the file in every commit from its own on,
\* and no commit is credited with more lines than it has (repeated lines).
ASSUME LinesWereThere ==
    \A texts \in [1 .. 3 -> Texts(3)] :
      \E blamed \in {BlameFile(InOneFile(texts), "f", FALSE)} :
        /\ \A i \in DOMAIN texts[1] : \A k \in 1 .. blamed[i] : texts[1][i] \in ToSet(texts[k])
        /\ \A k \in 1 .. 3 : Cardinality({i \in DOMAIN texts[1] : blamed[i] >= k}) <= Len(texts[k])

\* A rename hides nothing: with -M the lines go to the commits they would go to had
\* the file kept its name, and without to the rename (find_rename_source).
ASSUME RenamesAreFollowed ==
    \A texts \in [1 .. 3 -> Texts(3) \ {<<>>}] : texts[1] = texts[2] =>
      LET moved == <<<<<<"g", texts[1]>>>>, <<<<"f", texts[2]>>>>, <<<<"f", texts[3]>>>>>>
      IN  /\ BlameFile(moved, "g", TRUE) = BlameFile(InOneFile(texts), "f", FALSE)
          /\ BlameFile(moved, "g", FALSE) = [i \in DOMAIN texts[1] |-> 1]

\* "at least 80% line-overlap" counts a repeated line each time: a file of one
\* line in five, four times over, is a source, and is taken for the better one.
ASSUME RepeatsCountAsOverlap ==
    LET text   == <<"a", "b", "c", "d", "e">>
        braces == <<"x", <<"e", "e", "e", "e", "e", "e">>>>
    IN  /\ RenameSources(<<braces>>, text) = {braces}
        /\ RenameSources(<<<<"y", text>>, braces>>, text) = {braces}
=============================================================================
