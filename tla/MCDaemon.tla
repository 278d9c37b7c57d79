------------------------------ MODULE MCDaemon ------------------------------
(* Instances of Daemon for TLC. *)
EXTENDS Daemon, TLC

CONSTANTS d1, d2

Symmetry == Permutations({d1, d2})
=============================================================================
