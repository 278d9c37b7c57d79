------------------------------ MODULE MCReplace ------------------------------
(* Instances of BlockReload for TLC. *)
EXTENDS BlockReload, TLC

CONSTANTS a, b, c

Replace(o, n, f) == [op |-> "replace", old |-> o, new |-> n, force |-> f]

Reload(f) == [op |-> "reload", old |-> a, new |-> a, force |-> f]

TwoHosts == <<a, b>>

\* a is replaced by c, as often as it takes; reloads in between.
OneWay == {Replace(a, c, f) : f \in BOOLEAN} \cup {Reload(FALSE), Reload(TRUE)}

\* a is replaced by c and c by a.
ThereAndBack == {Replace(a, c, FALSE), Replace(c, a, FALSE)}
==============================================================================
