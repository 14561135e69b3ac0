----------------------------- MODULE MCRefStore -----------------------------
(* Instances of RefStore for TLC: two processes, two refs, two targets. *)
EXTENDS History, RefStore, TLC

CONSTANTS p1, p2, a, b, x, y

Move(old, new) == [old |-> old, new |-> new]

\* Creating and moving one ref; one transaction on both; deleting the other.
MCChange ==
    {a :> Move(Absent, x), a :> Move(x, y),
     (a :> Move(x, y)) @@ (b :> Move(Absent, x)), b :> Move(x, Absent)}

\* Creating either ref.
MCUndoChange == {a :> Move(Absent, x), b :> Move(Absent, x)}

\* p2 may not write b.
MCWritable == (p1 :> {a, b}) @@ (p2 :> {a})
=============================================================================
