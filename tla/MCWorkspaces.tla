---------------------------- MODULE MCWorkspaces ----------------------------
(* Instances of Workspaces: one file that is one of two things, so that no  *)
(* merge conflicts.                                                         *)
EXTENDS Packs, Workspaces, TLC

CONSTANTS f, w1, w2

Made(parents, c) == [parents |-> parents, tree |-> f :> c]

(* Only main. *)
Fresh == [commits |-> <<Made(<<>>, "x")>>, refs |-> "main" :> 1 @@ w1 :> "main"]

(* The flow is used: a feature and a hotfix are under way, and a second     *)
(* workspace has the hotfix.                                                *)
Flowing ==
    [commits |-> <<Made(<<>>, "x"), Made(<<1>>, "y"), Made(<<1>>, "y")>>,
     refs |-> "main" :> 1 @@ "develop" :> 1 @@ "feature" :> 2 @@ "hotfix" :> 3
              @@ w1 :> "develop" @@ w2 :> "hotfix"]

Used(s, d, k, n) ==
    [commits |-> s.commits, refs |-> s.refs, daemon |-> d, kinds |-> k,
     commands |-> n]

Everything == {"commit", "branch", "flow", "workspace", "push"}

AllStarts ==
    {Used(Fresh, TRUE, Everything \ {"push"}, 4), Used(Flowing, TRUE, {"commit", "flow"}, 5),
     Used(Flowing, TRUE, Everything, 3),
     Used(Flowing, FALSE, Everything \ {"commit"}, 3)}
=============================================================================
