---------------------------- MODULE MCLifecycle ----------------------------
(* Instances of BlockLifecycle for TLC. *)
EXTENDS LifecycleInvariant, TLC

CONSTANTS h1, h2, c1, c2

\* ha 2 on both hosts, without authentication.
HaTwo == {[hosts |-> {h1, h2}, auth |-> FALSE]}

\* The same with "auth enable".
HaTwoAuth == {[hosts |-> {h1, h2}, auth |-> TRUE]}

NoForce == {[force |-> FALSE, unlink |-> TRUE]}

AnyDelete == [force : BOOLEAN, unlink : BOOLEAN]

HostSymmetry == Permutations({h1, h2})

Symmetry == HostSymmetry \cup Permutations({c1, c2})
=============================================================================
