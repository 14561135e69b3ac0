----------------------------- MODULE MCExchange -----------------------------
(* Instances of Exchange for TLC. *)
EXTENDS Access, Exchange, TLC

CONSTANTS r1, r2, p1, p2, p3, main, c0, c1, c2

\* One repository with one process and one with two.
MCHome == p1 :> r1 @@ p2 :> r2 @@ p3 :> r2

\* c1 and c2 diverge from the root.
MCParents == c0 :> {} @@ c1 :> {c0} @@ c2 :> {c0}
MCAuthor == c0 :> r1 @@ c1 :> r1 @@ c2 :> r2

\* A forced push is delivered once.
MCCopies == [force \in BOOLEAN |-> IF force THEN 1 ELSE 2]
=============================================================================
