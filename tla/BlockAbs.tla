------------------------------ MODULE BlockAbs ------------------------------
(***************************************************************************)
(* What the create and delete of one block name promise, whatever daemons  *)
(* carry them out and whatever calls fail or get lost on the way: a block  *)
(* lives once.  It gets a GBID nobody had before and a file; while it is   *)
(* up, hosts export it, each at most once; when it goes down, hosts        *)
(* withdraw it; the file goes after the last of them, the name after the   *)
(* file.  Only then can the name be used again.                            *)
(*                                                                         *)
(* BlockLifecycle implements this (its Refines) as long as no daemon dies  *)
(* at work, no journal write fails, no call is served after its caller     *)
(* gave up, and nobody forces a delete or asks to keep the file.           *)
(***************************************************************************)
EXTENDS Naturals

CONSTANT Hosts

VARIABLES
    last,       \* the last GBID drawn
    gbid,       \* the GBID of the block, 0 when there is no block
    life,       \* "none", "up" or "down"
    file,       \* it has a file to store its data
    exported    \* the hosts that export it

vars == <<last, gbid, life, file, exported>>

Init ==
    /\ last = 0 /\ gbid = 0
    /\ life = "none"
    /\ file = FALSE
    /\ exported = {}

Create ==
    /\ life = "none" /\ life' = "up"
    /\ last' = last + 1 /\ gbid' = last + 1
    /\ UNCHANGED <<file, exported>>

Provision ==
    /\ life = "up" /\ exported = {}
    /\ ~file /\ file' = TRUE
    /\ UNCHANGED <<last, gbid, life, exported>>

Export(h) ==
    /\ life = "up" /\ file
    /\ h \notin exported
    /\ exported' = exported \cup {h}
    /\ UNCHANGED <<last, gbid, life, file>>

Close ==
    /\ life = "up" /\ life' = "down"
    /\ UNCHANGED <<last, gbid, file, exported>>

Withdraw(h) ==
    /\ life = "down"
    /\ h \in exported
    /\ exported' = exported \ {h}
    /\ UNCHANGED <<last, gbid, life, file>>

Unlink ==
    /\ life = "down" /\ exported = {}
    /\ file /\ file' = FALSE
    /\ UNCHANGED <<last, gbid, life, exported>>

\* Also how a block ends whose file could not be created.
Remove ==
    /\ life # "none" /\ life' = "none"
    /\ exported = {} /\ ~file
    /\ gbid' = 0
    /\ UNCHANGED <<last, file, exported>>

Next ==
    \/ Create \/ Provision \/ Close \/ Unlink \/ Remove
    \/ \E h \in Hosts : Export(h) \/ Withdraw(h)

Spec == Init /\ [][Next]_vars
=============================================================================
