--------------------------- MODULE MCReceivePack ---------------------------
(* Instances of ReceivePack for TLC. *)
EXTENDS IndexFile, ReceivePack, TLC

CONSTANTS r1, r2, r3, a, b, c1, c2, c3, t1, t2

To(ref, new) == [ref |-> ref, new |-> new]

\* Two pushes race for one ref, a third moves the other; no object is in the
\* packs of two of them.
MCNeeds == c1 :> {c1, t1} @@ c2 :> {c2, t2} @@ c3 :> {c3}
MCPush == r1 :> To(a, c1) @@ r2 :> To(b, c2) @@ r3 :> To(a, c3)

\* A push, and its repetition.
OneNeeds == c1 :> {c1, t1}
RetriedPush == r1 :> To(a, c1) @@ r2 :> To(a, c1)
=============================================================================
