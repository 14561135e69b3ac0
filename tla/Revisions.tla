------------------------------ MODULE Revisions ------------------------------
(***************************************************************************)
(* From a name to a commit and from a commit to its history: git refs on   *)
(* disk (crates/alt-git-refs), which repository a directory is in, what a  *)
(* revision means and the walks over commits (crates/alt-repo), refspecs   *)
(* and the names commands accept (crates/alt-cli/src/native.rs, alt-flow). *)
(***************************************************************************)
EXTENDS Integers, Sequences, FiniteSets

LOCAL INSTANCE SequencesExt

MaxSymrefDepth == 2           \* MAX_SYMREF_DEPTH, 5 in the code
Base == 2                     \* 128 in the code
Missing == <<>>
Depth == <<"depth">>          \* Err(SymrefDepth)

-----------------------------------------------------------------------------
(***************************************************************************)
(* Refs.  A target is <<"oid", id>> or <<"ref", name>>; the three stores   *)
(* are functions from the names they have.                                 *)
(***************************************************************************)
Has(store, name) == IF name \in DOMAIN store THEN store[name] ELSE Missing

\* RefStore::read() over files: a loose ref hides the packed one.
ReadFiles(loose, packed, name) == IF name \in DOMAIN loose THEN loose[name] ELSE Has(packed, name)
IterFiles(loose, packed) ==
    [name \in DOMAIN loose \cup DOMAIN packed |-> IF name \in DOMAIN loose THEN loose[name] ELSE packed[name]]

\* packed-refs: a "^" line peels the ref before it; <<>> is a malformed file.
RECURSIVE PackedRefs(_, _)
PackedRefs(lines, found) ==
    CASE lines = <<>> -> <<found>>
      [] lines # <<>> /\ Head(lines)[1] = "#" -> PackedRefs(Tail(lines), found)
      [] lines # <<>> /\ Head(lines)[1] = "^" ->
           IF found = <<>> THEN <<>>
           ELSE PackedRefs(Tail(lines), Append(Front(found), [Last(found) EXCEPT !.peeled = Head(lines)[2]]))
      [] OTHER -> PackedRefs(Tail(lines), Append(found, [oid |-> Head(lines)[1], name |-> Head(lines)[2], peeled |-> "-"]))

(***************************************************************************)
(* reftable: read_stack() folds the tables oldest first, a record without  *)
(* a value hiding the older ones; the keys of a block share prefixes with  *)
(* the key before (parse_record), and numbers are chained: a byte with its *)
(* high bit set is followed by another (varint, with Base for its 2^7).    *)
(***************************************************************************)
ReadStack(tables) ==
    LET Holding(name) == {i \in DOMAIN tables : name \in DOMAIN tables[i]}
        Newest(name)  == tables[CHOOSE i \in Holding(name) : \A j \in Holding(name) : j <= i][name]
        names == UNION {DOMAIN tables[i] : i \in DOMAIN tables}
    IN  [name \in {n \in names : Newest(n) # Missing} |-> Newest(name)]

RECURSIVE Keys(_, _)          \* of <<prefix length, suffix>>; <<>> when malformed
Keys(records, prior) ==
    IF records = <<>> THEN <<<<>>>>
    ELSE IF Head(records)[1] > Len(prior) THEN <<>>
    ELSE LET key  == SubSeq(prior, 1, Head(records)[1]) \o Head(records)[2]
             rest == Keys(Tail(records), key)
         IN  IF rest = <<>> THEN <<>> ELSE <<<<key>> \o rest[1]>>

RECURSIVE Chained(_, _)
Chained(digits, v) == IF digits = <<>> THEN v ELSE Chained(Tail(digits), (v + 1) * Base + Head(digits))
Varint(digits) == Chained(Tail(digits), Head(digits))

\* resolve(), with the reads made so far.
RECURSIVE Resolve(_, _, _)
Resolve(refs, name, reads) ==
    IF reads > MaxSymrefDepth THEN Depth
    ELSE CASE Has(refs, name) = Missing -> Missing
           [] Has(refs, name) # Missing /\ Has(refs, name)[1] = "oid" -> Has(refs, name)
           [] OTHER -> Resolve(refs, Has(refs, name)[2], reads + 1)

-----------------------------------------------------------------------------
(***************************************************************************)
(* Which repository: directories from the one asked about to the root,     *)
(* each with what .alt and .git are there and whether it looks bare.       *)
(***************************************************************************)
FirstOf(levels, Holds(_)) ==
    LET at == {i \in DOMAIN levels : Holds(levels[i])}
    IN  IF at = {} THEN 0 ELSE CHOOSE i \in at : \A j \in at : i <= j

\* Repository::discover(): a .alt file is not looked at.
Discover(levels) ==
    LET Marks(d) == d.alt = "dir" \/ d.git # "none" \/ d.bare
        i == FirstOf(levels, Marks)
    IN  IF i = 0 THEN <<"none">> ELSE <<IF levels[i].alt = "dir" THEN "alt" ELSE "git", i>>

\* resolve_workspace(): the default workspace of a .alt directory, or the one a
\* .alt file names.
ResolveWorkspace(levels) ==
    LET Marks(d) == d.alt # "none" \/ d.git # "none"
        i == FirstOf(levels, Marks)
    IN  CASE i > 0 /\ levels[i].alt = "dir"  -> <<"alt", i>>
          [] i > 0 /\ levels[i].alt = "file" -> <<"workspace", i>>
          [] OTHER -> <<"none">>

-----------------------------------------------------------------------------
(***************************************************************************)
(* Revisions.  An object is [kind, parents] or [kind, object] (a tag).     *)
(* rev_parse() applies operators <<op, n>> to what resolve_base() finds.   *)
(***************************************************************************)
RECURSIVE Peeled(_, _)
Peeled(objects, o) == IF objects[o].kind = "tag" THEN Peeled(objects, objects[o].object) ELSE o

Nowhere == 0                  \* objects are numbered from 1

RECURSIVE FirstParent(_, _, _)
FirstParent(objects, o, n) ==
    IF n = 0 THEN o
    ELSE IF objects[o].parents = <<>> THEN Nowhere ELSE FirstParent(objects, Head(objects[o].parents), n - 1)

Applied(objects, o, op) ==
    LET commit == Peeled(objects, o)
    IN  CASE op[1] = "~" -> FirstParent(objects, commit, op[2])
          [] op[1] = "^" /\ op[2] = 0 -> commit
          [] op[1] = "^" /\ op[2] > 0 ->
               IF op[2] <= Len(objects[commit].parents) THEN objects[commit].parents[op[2]] ELSE Nowhere
          [] OTHER -> Nowhere

RECURSIVE Operators(_, _, _)
Operators(objects, o, ops) ==
    IF o = Nowhere \/ ops = <<>> THEN o ELSE Operators(objects, Applied(objects, o, Head(ops)), Tail(ops))

\* lookup_by_prefix(): the objects in the order they came, up to `cap` of them.
LookupByPrefix(oids, prefix, cap) ==
    LET hits == SelectSeq(oids, LAMBDA o : IsPrefix(prefix, o))
    IN  SubSeq(hits, 1, IF Len(hits) < cap THEN Len(hits) ELSE cap)

\* resolve_base() on a name: the first place it is found in, then a short id.
Places(name) == <<name, "refs/" \o name, "refs/tags/" \o name, "refs/heads/" \o name,
                  "refs/remotes/" \o name, "refs/remotes/" \o name \o "/HEAD">>
ResolveBase(refs, name, short) ==
    LET Found(place) == Resolve(refs, place, 0) # Missing
        i == FirstOf(Places(name), Found)
    IN  CASE i > 0 -> Resolve(refs, Places(name)[i], 0)
          [] i = 0 /\ Len(short) = 0 -> Missing
          [] i = 0 /\ Len(short) = 1 -> <<"oid", short[1]>>
          [] OTHER -> <<"ambiguous">>

\* canonicalise_local_ref() and canonicalise_remote_ref(), of a short name.
Canonical(name) == "refs/heads/" \o name

(***************************************************************************)
(* RevWalk: newest first, first queued first among equals.                 *)
(***************************************************************************)
RECURSIVE Queued(_, _, _)     \* push(), of each parent
Queued(walk, date, parents) ==
    IF parents = <<>> THEN walk
    ELSE LET p == Head(parents)
         IN  Queued(IF p \in walk.seen THEN walk
                    ELSE [seen |-> walk.seen \cup {p}, seq |-> walk.seq + 1,
                          queue |-> walk.queue \cup {<<date[p], walk.seq + 1, p>>}], date, Tail(parents))

RECURSIVE Walked(_, _, _)     \* next(), until the queue is empty
Walked(walk, parents, date) ==
    IF walk.queue = {} THEN <<>>
    ELSE LET next == CHOOSE x \in walk.queue : \A y \in walk.queue : x[1] > y[1] \/ (x[1] = y[1] /\ x[2] <= y[2])
             rest == Queued([walk EXCEPT !.queue = @ \ {next}], date, parents[next[3]])
         IN  <<next[3]>> \o Walked(rest, parents, date)

RevWalk(parents, date, start) ==
    Walked(Queued([seen |-> {}, seq |-> 0, queue |-> {}], date, <<start>>), parents, date)

(***************************************************************************)
(* reachable_objects(): a stack of objects to visit over those that are    *)
(* here (the domain of `children`); what is excluded is not entered.       *)
(***************************************************************************)
Below(children, o) == IF o \in DOMAIN children THEN children[o] ELSE {}
RECURSIVE Visited(_, _, _, _)
Visited(children, work, seen, without) ==
    IF work = {} THEN seen
    ELSE LET o == CHOOSE x \in work : TRUE
         IN  IF o \in seen \cup without THEN Visited(children, work \ {o}, seen, without)
             ELSE Visited(children, (work \ {o}) \cup Below(children, o), seen \cup {o}, without)

ReachableObjects(children, roots, excludes) ==
    Visited(children, roots, {}, Visited(children, excludes, {}, {})) \cap DOMAIN children

-----------------------------------------------------------------------------
(***************************************************************************)
(* Refspecs: sides <<before the star, after it>>, or whole names.          *)
(***************************************************************************)
Before(text, c) == SubSeq(text, 1, SelectInSeq(text, LAMBDA x : x = c) - 1)
After(text, c) == SubSeq(text, SelectInSeq(text, LAMBDA x : x = c) + 1, Len(text))
Within(text, c) == c \in ToSet(text)
Side(text) == IF Within(text, "*") THEN <<Before(text, "*"), After(text, "*")>> ELSE <<text, <<>>>>

\* RefSpec::parse(), of a text past its "+"; <<>> when malformed.
RefSpec(text) ==
    IF ~Within(text, ":") THEN <<>>
    ELSE LET src == Before(text, ":")  dst == After(text, ":")
         IN  IF Within(src, "*") # Within(dst, "*") THEN <<>>
             ELSE <<[src |-> Side(src), dst |-> Side(dst), wildcard |-> Within(src, "*")]>>

\* RefSpec::map(): <<>> when the name is not of the spec.
MapRef(spec, name) ==
    LET pre == spec.src[1]  suf == spec.src[2]
        mid == SubSeq(name, Len(pre) + 1, Len(name) - Len(suf))
    IN  CASE ~spec.wildcard -> IF name = pre THEN <<spec.dst[1]>> ELSE <<>>
          [] spec.wildcard /\ IsPrefix(pre, name) /\ Len(pre) + Len(suf) <= Len(name) /\ IsSuffix(suf, name) ->
               <<spec.dst[1] \o mid \o spec.dst[2]>>
          [] OTHER -> <<>>

\* PushSpec::parse(), of a text past its "+"; <<>> when malformed.
PushSpec(text) ==
    LET src == IF Within(text, ":") THEN Before(text, ":") ELSE text
        dst == IF Within(text, ":") THEN After(text, ":") ELSE text
    IN  IF src = <<>> \/ dst = <<>> THEN <<>> ELSE <<[src |-> src, dst |-> dst]>>

\* rewrite_url(): rules <<replacement, trigger>> of `url.<x>.insteadOf`, the
\* first of the longest triggers.
RewriteUrl(rules, url) ==
    LET hits == {i \in DOMAIN rules : IsPrefix(rules[i][2], url)}
        Best(i) == \A j \in hits : \/ Len(rules[i][2]) > Len(rules[j][2])
                                   \/ Len(rules[i][2]) = Len(rules[j][2]) /\ i <= j
        best == CHOOSE i \in hits : Best(i)
    IN  IF hits = {} THEN url ELSE rules[best][1] \o SubSeq(url, Len(rules[best][2]) + 1, Len(url))

(***************************************************************************)
(* Names.  "lock" stands for those four letters and "~" for any character  *)
(* a revision or a pattern gives a meaning.                                *)
(***************************************************************************)
Segments(name) ==
    LET cuts == <<0>> \o SelectSeq([i \in DOMAIN name |-> i], LAMBDA i : name[i] = "/") \o <<Len(name) + 1>>
    IN  [i \in 1 .. Len(cuts) - 1 |-> SubSeq(name, cuts[i] + 1, cuts[i + 1] - 1)]
Pairs(name) == {<<name[i], name[i + 1]>> : i \in 1 .. Len(name) - 1}
Hides(segment) == segment # <<>> /\ Head(segment) = "."

\* check_branch_name(), and check_tag_name().
CheckBranchName(name) ==
    /\ \A s \in ToSet(Segments(name)) : s # <<>> /\ ~Hides(s)
    /\ <<".", ".">> \notin Pairs(name)
    /\ ~IsSuffix(<<".", "lock">>, name)
    /\ ToSet(name) \cap {"~", " "} = {}

\* check_remote_name(), check_principal_id() and check_workspace_name().
CheckSegment(name) == name # <<>> /\ ToSet(name) \cap {"/", ".", "~", " "} = {}

\* check_name() of a flow's topic.
CheckTopic(name) ==
    /\ name # <<>> /\ ~Hides(name) /\ <<".", ".">> \notin Pairs(name)
    /\ ToSet(name) \cap {"/", " "} = {}

\* validate_name() of an exported ref.
ValidateName(name) == \A s \in ToSet(Segments(name)) : s \notin {<<>>, <<".">>, <<".", ".">>}

\* write_loose(): a file for each name, and a directory for what is before it.
WriteLoose(names) ==
    /\ \A n \in names : ValidateName(n)
    /\ \A n, m \in names : ~IsPrefix(n \o <<"/">>, m)

-----------------------------------------------------------------------------
(***************************************************************************)
(* What the functions above give, over small refs, histories and names.    *)
(***************************************************************************)
Texts(chars, n) == UNION {[1 .. k -> chars] : k \in 0 .. n}
RefNames == {"HEAD", "a", "b"}
Targets == {<<"oid", 1>>} \cup {<<"ref", n>> : n \in RefNames}
Stores == UNION {[names -> Targets] : names \in SUBSET RefNames}
RECURSIVE Follow(_, _, _)
Follow(refs, name, n) == IF n = 0 THEN name ELSE Follow(refs, refs[name][2], n - 1)

\* A chain of symrefs is followed to its end or given up at the depth limit,
\* never longer (MAX_SYMREF_DEPTH).
ASSUME SymrefLoopsEnd ==
    \A refs \in Stores, name \in RefNames :
        LET Symbolic(n) == Has(refs, n) # Missing /\ Has(refs, n)[1] = "ref"
            Holds[n \in 0 .. MaxSymrefDepth + 1] ==
                n = 0 \/ (Holds[n - 1] /\ Symbolic(Follow(refs, name, n - 1)))
        IN  (Resolve(refs, name, 0) = Depth) <=> Holds[MaxSymrefDepth + 1]

\* The refs a listing has are those read one by one, loose or packed.
ASSUME ListingsAgree ==
    \A loose, packed \in UNION {[names -> {<<"oid", 1>>, <<"oid", 2>>}] : names \in SUBSET RefNames} :
        \A name \in RefNames : Has(IterFiles(loose, packed), name) = ReadFiles(loose, packed, name)

\* A stack of tables gives what writing them one after the other would.
ASSUME NewerTablesHide ==
    LET tables == UNION {[names -> {Missing, <<"oid", 1>>, <<"oid", 2>>}] : names \in SUBSET {"a", "b"}}
        Over(refs, table) ==
            LET kept == (DOMAIN refs \cup {n \in DOMAIN table : table[n] # Missing})
                          \ {n \in DOMAIN table : table[n] = Missing}
            IN  [n \in kept |-> IF n \in DOMAIN table THEN table[n] ELSE refs[n]]
    IN  \A one, two, three \in tables :
            ReadStack(<<one, two, three>>) = Over(Over(Over([n \in {} |-> Missing], one), two), three)

\* Keys that share any part of the common prefix are read back, and every number
\* has one form.
ASSUME KeysReadBack ==
    LET keys == Texts({"a", "b"}, 2)
        Shared(k, m) == {n \in 0 .. Len(k) : IsPrefix(SubSeq(k, 1, n), m)}
        Cut(k, n) == <<n, SubSeq(k, n + 1, Len(k))>>
    IN  \A k, m, l \in keys : \A i \in Shared(k, m), j \in Shared(m, l) :
            Keys(<<Cut(k, 0), Cut(m, i), Cut(l, j)>>, <<>>) = <<<<k, m, l>>>>
ASSUME NumbersHaveOneForm ==
    LET forms == Texts(0 .. Base - 1, 4) \ {<<>>}
    IN  {Varint(f) : f \in forms} = 0 .. Cardinality(forms) - 1

\* A "^" line belongs to the ref before it, and to none is refused.
ASSUME PeelsFollowRefs ==
    \A lines \in Texts({<<"#">>, <<"1", "a">>, <<"2", "b">>, <<"^", "9">>}, 4) :
        \E refs \in {PackedRefs(lines, <<>>)} :
          \E said \in {SelectSeq(lines, LAMBDA l : l[1] # "#")} :
            /\ (refs = <<>>) <=> (said # <<>> /\ Head(said)[1] = "^")
            /\ refs # <<>> =>
                 \A i \in DOMAIN said : i > 1 /\ said[i][1] = "^" /\ said[i - 1][1] # "^" =>
                     \E r \in ToSet(refs[1]) : r.name = said[i - 1][2] /\ r.peeled = "9"

Directories == [alt : {"none", "dir", "file"}, git : {"none", "dir"}, bare : BOOLEAN]

\* The two searches find the same repository, the nearest, where there is no
\* workspace and no bare repository on the way (workspace.rs: "the nearest
\* repository wins, as in git").
ASSUME NearestRepositoryWins ==
    \A levels \in Texts(Directories, 3) :
        (\A i \in DOMAIN levels : levels[i].alt # "file" /\ ~levels[i].bare) =>
            \A i \in DOMAIN levels : (Discover(levels) = <<"alt", i>>) <=> (ResolveWorkspace(levels) = <<"alt", i>>)

\* In a workspace's tree the search of the library goes past it and may find
\* another repository around it.
ASSUME WorkspacesArePassed ==
    \E levels \in Texts(Directories, 2) :
        ResolveWorkspace(levels) = <<"workspace", 1>> /\ Discover(levels) = <<"git", 2>>

Orders(s) == {<<>>} \cup {<<c>> : c \in s} \cup {x \in s \X s : x[1] # x[2]}
Histories ==          \* of four commits, parents after children
    {<<a, b, c, <<>>>> : a \in Orders(2 .. 4), b \in Orders(3 .. 4), c \in Orders({4})}
RECURSIVE Ancestors(_, _)
Ancestors(ps, cs) ==
    LET more == cs \cup UNION {ToSet(ps[c]) : c \in cs} IN IF more = cs THEN cs ELSE Ancestors(ps, more)
Commits(ps) == [c \in 1 .. 4 |-> [kind |-> "commit", parents |-> ps[c]]]

\* Operators go one after the other: "~n" is n times "^".
ASSUME TildeIsCarets ==
    \A ps \in Histories, n \in 0 .. 3 :
        \E objects \in {Commits(ps)} :
            Operators(objects, 1, <<<<"~", n>>>>) = Operators(objects, 1, [i \in 1 .. n |-> <<"^", 1>>])

\* The walk shows every ancestor once, and a commit before its parents when it
\* is newer than they are (revwalk.rs).
ASSUME WalksShowAll ==
    \A ps \in Histories, date \in [1 .. 4 -> 1 .. 3] :
        \E walk \in {RevWalk(ps, date, 1)} :
            /\ ToSet(walk) = Ancestors(ps, {1}) /\ Len(walk) = Cardinality(ToSet(walk))
            /\ (\A c \in 1 .. 4 : \A p \in ToSet(ps[c]) : date[p] < date[c]) =>
                 \A i, j \in DOMAIN walk : walk[j] \in ToSet(ps[walk[i]]) => i < j

\* Among commits of one second a parent may come before a child of it.
ASSUME TiesAreOutOfOrder ==
    RevWalk(<<<<2, 3>>, <<5>>, <<4>>, <<5>>, <<>>>>, [c \in 1 .. 5 |-> 0], 1) = <<1, 2, 3, 5, 4>>

\* A push ships what its tips reach and the server's do not, of what is here.
ASSUME PacksAreDifferences ==
    \A ps \in Histories, roots, excludes \in SUBSET (1 .. 4), here \in {1 .. 4, 1 .. 3} :
        \E children \in {[c \in here |-> ToSet(ps[c])]} :
          \E all \in {[c \in 1 .. 4 |-> IF c \in here THEN ps[c] ELSE <<>>]} :
            ReachableObjects(children, roots, excludes)
                = (Ancestors(all, roots) \ Ancestors(all, excludes)) \cap here

\* A short id names an object only if no other has it.
ASSUME ShortIdsAreUnique ==
    LET oids == {<<0, 0>>, <<0, 1>>, <<1, 1>>}
    IN  \A stored \in {s \in Texts(oids, 3) : \A i, j \in DOMAIN s : i # j => s[i] # s[j]}, prefix \in Texts({0, 1}, 1) :
            LET said == ResolveBase([n \in {} |-> Missing], "x", LookupByPrefix(stored, prefix, 4))
                hits == {o \in ToSet(stored) : IsPrefix(prefix, o)}
            IN  /\ (said = <<"ambiguous">>) <=> Cardinality(hits) > 1
                /\ (said = Missing) <=> hits = {}

\* A short name that is a tag and a branch is the tag to a revision and the
\* branch to a push.
ASSUME ShortNamesDisagree ==
    LET refs == [n \in {"refs/tags/v", "refs/heads/v"} |-> <<"oid", n>>]
    IN  ResolveBase(refs, "v", <<>>) # Resolve(refs, Canonical("v"), 0)

\* No two refs of a server become one here: a refspec is injective.
ASSUME RefSpecsAreInjective ==
    \A text \in Texts({"a", "*", ":"}, 5) :
        \/ RefSpec(text) = <<>>
        \/ \E spec \in {RefSpec(text)[1]} :
             \A n, m \in Texts({"a", "*"}, 3) :
                 MapRef(spec, n) # <<>> /\ MapRef(spec, n) = MapRef(spec, m) => n = m

\* A push names both sides; the branch of a name on both is the name.
ASSUME PushSpecsNameBoth ==
    \A text \in Texts({"a", ":"}, 3) :
        \E spec \in {PushSpec(text)} :
            /\ (spec = <<>>) <=> (text = <<>> \/ (":" \in ToSet(text) /\ (Head(text) = ":" \/ After(text, ":") = <<>>)))
            /\ spec # <<>> /\ ":" \notin ToSet(text) => spec[1].src = spec[1].dst

\* Only rules with one trigger compete by their order.
ASSUME OrderBreaksTies ==
    LET rules == {<<r, t>> : r \in {<<"x">>, <<"y">>}, t \in Texts({"a", "b"}, 2)}
    IN  \A one, two \in rules, url \in Texts({"a", "b"}, 3) :
            one[2] # two[2] => RewriteUrl(<<one, two>>, url) = RewriteUrl(<<two, one>>, url)

NamesTried == Texts({"a", "/", ".", "~", "lock"}, 4)

\* What a branch, a remote, a principal or a workspace may be called never
\* leaves its directory.
ASSUME NamesStayInside ==
    \A name \in NamesTried : CheckBranchName(name) \/ CheckSegment(name) => ValidateName(name)

\* A topic may have a name that no branch may: "alt flow feature start a~" makes
\* a branch that no revision can name and that no switch would have made.
ASSUME TopicsAreNoBranches ==
    \E name \in NamesTried : CheckTopic(name) /\ ~CheckBranchName(<<"a", "/">> \o name)

\* Branches a and a/a are two names of a ref transaction and cannot both be
\* exported.
ASSUME NestedNamesAreNotExported ==
    LET names == {<<"a">>, <<"a", "/", "a">>}
    IN  (\A n \in names : CheckBranchName(n)) /\ ~WriteLoose(names)
=============================================================================
