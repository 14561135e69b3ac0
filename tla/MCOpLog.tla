------------------------------ MODULE MCOpLog ------------------------------
(* Small instances of OpLog for TLC. *)
EXTENDS StructDiff, OpLog

CONSTANTS p1, p2, p3

=============================================================================
