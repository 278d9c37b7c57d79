------------------------------ MODULE MCModify ------------------------------
(* Instances of BlockModify for TLC. *)
EXTENDS BlockModify, TLC

CONSTANTS h1, h2

Resize(s, f) == [op |-> "size", mode |-> FALSE, size |-> s, force |-> f]

Auth(m) == [op |-> "auth", mode |-> m, size |-> InitSize, force |-> FALSE]

AuthRequests == {Auth(TRUE), Auth(FALSE)}

\* Sizes without force; a smaller one is refused.
SizeRequests == {Resize(s, FALSE) : s \in Sizes}

GrowRequests == AuthRequests \cup SizeRequests

ForceRequests == {Resize(s, TRUE) : s \in Sizes}

\* Everything but a disable.
EnableRequests == {Auth(TRUE)} \cup SizeRequests \cup ForceRequests

HostSymmetry == Permutations({h1, h2})
=============================================================================
