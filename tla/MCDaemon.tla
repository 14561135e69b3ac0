------------------------------ MODULE MCDaemon ------------------------------
(* Instances of Daemon for TLC: two clients and up to three daemon processes. *)
EXTENDS Daemon, TLC

Symmetry == Permutations(Client) \cup Permutations(Daemon)
=============================================================================
