--------------------------- MODULE MCGroupCommit ---------------------------
(* Instances of GroupCommit for TLC: three requests.                         *)
EXTENDS Revisions, Wire, GroupCommit
=============================================================================
