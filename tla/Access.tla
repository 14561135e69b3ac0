-------------------------------- MODULE Access --------------------------------
(***************************************************************************)
(* Who may do what: the policy file with its globs and the gates that ask  *)
(* it (crates/alt-cli/src/policy.rs, native.rs, alt-refs/src/lib.rs), and  *)
(* the users, scopes and routes of altd-server (bin/altd_server.rs).       *)
(* Pure functions of their arguments; a text is a sequence of characters,  *)
(* of which "/" and "*" are told apart.                                    *)
(***************************************************************************)
EXTENDS Integers, Sequences, FiniteSets, SequencesExt

Drop(text, n) == SubSeq(text, n + 1, Len(text))

-----------------------------------------------------------------------------
(***************************************************************************)
(* Glob::new(): a text becomes literal characters, "*" and "**"; a slash   *)
(* on either side of "**" is part of it.                                   *)
(***************************************************************************)
RECURSIVE Compiled(_, _)
Compiled(text, parts) ==
    IF text = <<>> THEN parts
    ELSE IF Head(text) # "*" THEN Compiled(Tail(text), Append(parts, Head(text)))
    ELSE IF Len(text) = 1 \/ text[2] # "*" THEN Compiled(Tail(text), Append(parts, "*"))
    ELSE LET left == IF parts # <<>> /\ Last(parts) = "/" THEN Front(parts) ELSE parts
             gap  == IF Len(text) > 2 /\ text[3] = "/" THEN 3 ELSE 2
         IN  Compiled(Drop(text, gap), Append(left, "**"))

Glob(text) == Compiled(text, <<>>)

SegmentLength(text) ==
    LET ends == {i \in 1 .. Len(text) : text[i] = "/"}
    IN  IF ends = {} THEN Len(text) ELSE (CHOOSE i \in ends : \A j \in ends : i <= j) - 1

(***************************************************************************)
(* match_parts(): of the parts from p and the input from i, `at` being     *)
(* where the last "**" seen may be tried again.  A "*" hands the rest to   *)
(* match_anysegment(), which does not come back to a "**" before it.       *)
(***************************************************************************)
RECURSIVE Walk(_, _, _, _, _)
Walk(parts, in, p, i, at) ==
    LET retry == /\ at # <<>> /\ at[2] < Len(in)
                 /\ Walk(parts, in, at[1] + 1, at[2] + 1, <<at[1], at[2] + 1>>)
    IN  CASE p > Len(parts)   -> i = Len(in) \/ retry
          [] p <= Len(parts) /\ parts[p] = "**" -> Walk(parts, in, p + 1, i, <<p, i>>)
          [] p <= Len(parts) /\ parts[p] = "*"  ->
               \E n \in 1 .. SegmentLength(Drop(in, i)) :
                 Walk(Drop(parts, p), Drop(in, i + n), 1, 0, <<>>)
          [] OTHER -> IF i < Len(in) /\ in[i + 1] = parts[p]
                      THEN Walk(parts, in, p + 1, i + 1, at) ELSE retry

Matches(glob, in) == Walk(glob, in, 1, 0, <<>>)

\* What the parts mean: "*" some characters of one segment, "**" any.
RECURSIVE Denotes(_, _)
Denotes(parts, in) ==
    IF parts = <<>> THEN in = <<>>
    ELSE CASE Head(parts) = "**" -> \E n \in 0 .. Len(in) : Denotes(Tail(parts), Drop(in, n))
           [] Head(parts) = "*"  -> \E n \in 1 .. SegmentLength(in) : Denotes(Tail(parts), Drop(in, n))
           [] OTHER -> in # <<>> /\ Head(in) = Head(parts) /\ Denotes(Tail(parts), Tail(in))

-----------------------------------------------------------------------------
(***************************************************************************)
(* Capabilities: a rule is a glob of principals and tokens, a token a flag *)
(* or a list and a glob.  The first rule that matches is the one.          *)
(***************************************************************************)
Full == [flags |-> {}, branch |-> {}, deny |-> {}, path |-> {}]

Caps(tokens) ==
    LET Globs(key) == {t[2] : t \in {u \in tokens : u[1] = key}}
    IN  [flags |-> Globs("flag"), branch |-> Globs("branch"), deny |-> Globs("branch_deny"),
         path |-> Globs("path")]

Lookup(rules, who) ==
    LET hits == {i \in DOMAIN rules : Matches(rules[i].who, who)}
    IN  IF hits = {} THEN Full ELSE Caps(rules[CHOOSE i \in hits : \A j \in hits : i <= j].tokens)

AnyMatches(globs, name) == \E g \in globs : Matches(g, name)

AllowsBranchName(caps, name) ==
    (caps.branch = {} \/ AnyMatches(caps.branch, name)) /\ ~AnyMatches(caps.deny, name)

AllowsPathName(caps, path) == caps.path = {} \/ AnyMatches(caps.path, path)

ReadOnly(caps) == "read-only" \in caps.flags

(***************************************************************************)
(* The gates of a ref transaction, whose changes are [name, old, new,      *)
(* forward]: a branch has a name after refs/heads/, `old` and `new` are    *)
(* "oid", "symref" or "none", and `forward` is what is_ancestor() says.    *)
(***************************************************************************)
\* ensure_no_force() and ensure_fast_forward(): a deletion, or an update that
\* is not a fast-forward.  Creations and symrefs overwrite no history.
Forces(c) == \/ c.old # "none" /\ c.new = "none"
             \/ c.old = "oid" /\ c.new = "oid" /\ ~c.forward

EnsureNoForce(caps, changes) ==
    "forbid-force" \in caps.flags => \A c \in changes : ~Forces(c)

\* RefPolicy::check(), on full names.
RefPolicyCheck(caps, changes) ==
    /\ ReadOnly(caps) => changes = {}
    /\ \A c \in changes : AllowsBranchName(caps, c.name)

IsPrefixOf(prefix, text) == Len(prefix) <= Len(text) /\ SubSeq(text, 1, Len(prefix)) = prefix

\* ensure_push_branch_allowed(), on what is after refs/heads/; other refs pass.
EnsurePushBranch(caps, heads, changes) ==
    \A c \in changes :
        IsPrefixOf(heads, c.name) => AllowsBranchName(caps, Drop(c.name, Len(heads)))

(***************************************************************************)
(* ensure_topic_branch_or_unborn(): main and develop take no commits once  *)
(* both HEAD's branch and develop are there.                               *)
(***************************************************************************)
OnTopic(refs, head, main, develop) ==
    head \in {main, develop} => develop \notin refs \/ head \notin refs

-----------------------------------------------------------------------------
(***************************************************************************)
(* The server.  parse_acl(): a token is a repository and a permission; one *)
(* with any other permission is passed over.                               *)
(***************************************************************************)
Permissions == [r |-> {"Read"}, w |-> {"Write"}, rw |-> {"Read", "Write"}, wr |-> {"Read", "Write"},
                n |-> {}]

Acl(tokens) == {[repo |-> t[1], may |-> Permissions[t[2]]] : t \in {u \in tokens : u[2] \in DOMAIN Permissions}}

AclAllows(acl, repo, action) ==
    \E rule \in acl : rule.repo \in {"*", repo} /\ action \in rule.may

\* action_from_request().
ActionOf(method, endpoint, service) ==
    CASE method = "GET" /\ endpoint = "info/refs" /\ service = "git-upload-pack"  -> "Read"
      [] method = "GET" /\ endpoint = "info/refs" /\ service = "git-receive-pack" -> "Write"
      [] method = "POST" /\ endpoint = "git-upload-pack"  -> "Read"
      [] method = "POST" /\ endpoint = "git-receive-pack" -> "Write"
      [] OTHER -> "None"

\* dispatch(): the status, or the handler.  `users`: there is a users file;
\* check_auth() knows the user, who may be scoped to an acl.
Dispatch(users, user, repo, request) ==
    LET action == ActionOf(request.method, request.endpoint, request.service)
    IN  CASE users /\ ~user.known -> "401"
          [] ~repo.found -> "404"
          [] users /\ user.scoped /\ action # "None" /\ ~AclAllows(user.acl, repo.name, action) -> "403"
          [] request.method = "POST" /\ request.large -> "413"
          [] request.method = "OPTIONS" -> "204"
          [] request.endpoint = "other" -> "404"
          [] request.method = "GET" /\ request.endpoint = "info/refs" -> "handle_info_refs"
          [] request.method = "POST" /\ request.endpoint = "git-upload-pack" -> "handle_upload_pack"
          [] request.method = "POST" /\ request.endpoint = "git-receive-pack" ->
               IF repo.writer THEN "handle_receive_pack" ELSE "403"
          [] OTHER -> "405"

\* pick_principal(): a verified signature speaks before the password.
Principal(signature, user) ==
    IF signature.verified THEN signature.id ELSE IF user = "none" THEN "anonymous" ELSE user

-----------------------------------------------------------------------------
(***************************************************************************)
(* Over all texts of up to four characters.                                *)
(***************************************************************************)
Inputs(chars, n) == UNION {[1 .. k -> chars] : k \in 0 .. n}
Globs == {Glob(text) : text \in Inputs({"a", "/", "*"}, 4)}
Names == Inputs({"a", "b", "/"}, 4)
StarAfterStars(glob) ==
    \E i, j \in DOMAIN glob : i < j /\ glob[i] = "**" /\ glob[j] = "*"

\* The matcher accepts what a glob means, and all of it unless a "*" comes
\* after a "**" (policy.rs: "classic backtracking matcher").
ASSUME GlobsMatchTheirMeaning ==
    \A g \in Globs, n \in Names :
        /\ Matches(g, n) => Denotes(g, n)
        /\ Denotes(g, n) /\ ~StarAfterStars(g) => Matches(g, n)

\* "**a*/b" means "ab/ab/b", and the matcher does not find it.
ASSUME StarForgetsStars ==
    LET g == <<"**", "a", "*", "/", "b">>
        n == <<"a", "b", "/", "a", "b", "/", "b">>
    IN  Denotes(g, n) /\ ~Matches(g, n)

\* "a/**/b" is "zero or more path segments", and also no separator at all.
ASSUME StarsNeedNoSlash == Matches(Glob(<<"a", "/", "*", "*", "/", "b">>), <<"a", "b">>)

\* The gate of a transaction sees full names and the one of a push what is after
\* refs/heads/, here "b/": a branch= without "**" that lets a branch be written
\* does not let it be pushed.
ASSUME WrittenOrPushed ==
    \A g \in {h \in Globs : "**" \notin Range(h)}, n \in Inputs({"a", "/"}, 2) :
        LET heads == <<"b", "/">>
            caps  == [Full EXCEPT !.branch = {g}]
            c     == [name |-> heads \o n, old |-> "oid", new |-> "oid", forward |-> TRUE]
        IN  ~(RefPolicyCheck(caps, {c}) /\ EnsurePushBranch(caps, heads, {c}))

\* A push is handled only for a user who may write the repository, whatever the
\* order of the scopes (dispatch).
ASSUME PushNeedsWrite ==
    \A known, scoped, large, found, writer \in BOOLEAN :
    \A tokens \in SUBSET ({"*", "r1", "r2"} \X {"r", "w", "rw", "n", "x"}) :
        \/ Cardinality(tokens) > 2
        \/ Dispatch(TRUE, [known |-> known, scoped |-> scoped, acl |-> Acl(tokens)],
                    [found |-> found, name |-> "r1", writer |-> writer],
                    [method |-> "POST", endpoint |-> "git-receive-pack", service |-> "",
                     large |-> large]) # "handle_receive_pack"
        \/ known /\ (scoped => \E t \in tokens : t[1] \in {"*", "r1"} /\ t[2] \in {"w", "rw"})
=============================================================================
