------------------------- MODULE CapabilitiesProofs -------------------------
(***************************************************************************)
(* The check of capabilities, for every set of hosts and requests and any  *)
(* number of failed calls and replaced daemons: what is asked of a host is *)
(* supported, what is refused is refused rightly, and the form of a create *)
(* falls back far enough.                                                  *)
(***************************************************************************)
EXTENDS Capabilities, TLAPS

-----------------------------------------------------------------------------
(***************************************************************************)
(* The inductive invariant.                                                *)
(***************************************************************************)

\* What the handler knows of a daemon that was not replaced is true of it.
AnswerTrue(h) ==
    h \notin rebuilt =>
      /\ reply[h].kind \in {"caps", "unavailable"} => Known(h) = build[h].caps
      /\ reply[h].kind = "caps" => build[h].version

\* Every host answered.
AllHeard == \A h \in Hosts : reply[h].kind \in {"caps", "unavailable"}

\* What blockRemoteCapabilitiesRespParse decided, and from what: resultCaps is
\* what was missing, kept for a create alone.
Decided ==
    /\ pc = "ask" => result = {}
    /\ pc = "call" /\ Asked =>
         /\ AllHeard
         /\ req.op = "create" => result = Missing
         /\ req.op # "create" => Missing = {} /\ result = {}
         /\ Missing = {} \/ "create_load_balance" \in Missing
    /\ pc = "refused" =>
         \/ \E h \in Hosts : reply[h].kind = "failed"
         \/ AllHeard /\ Missing # {}

CapabilitiesInv == Decided /\ \A h \in Hosts : AnswerTrue(h)

-----------------------------------------------------------------------------
(***************************************************************************)
(* Types.                                                                  *)
(***************************************************************************)

\* What any daemon supports is a set of capabilities, and one without
\* block_version supports what releases up to 0.3 did.
LEMMA BuildCaps ==
    ASSUME NEW b \in Builds
    PROVE  /\ b.caps \subseteq CapsAll
           /\ b.version \in BOOLEAN
           /\ ~b.version => b.caps = Caps03
<1>1. Caps03 \subseteq CapsAll /\ Caps04 \subseteq CapsAll
  BY DEF CapsAll, Caps04
<1>2. CASE b = [version |-> FALSE, caps |-> Caps03]
  BY <1>1, <1>2
<1>3. CASE b = [version |-> TRUE, caps |-> Caps04]
  BY <1>1, <1>3
<1>4. ASSUME NEW lacking, b = [version |-> TRUE, caps |-> SetCapabilties(lacking)]
      PROVE  b.caps \subseteq CapsAll /\ b.version
  BY <1>4 DEF SetCapabilties
<1> QED
  BY <1>2, <1>3, <1>4 DEF Builds

\* What is missing was asked for.
LEMMA MissingAsked == Missing \subseteq BuildMinCaps(req)
BY DEF Missing

\* The initial states have their types.
LEMMA InitTypes == Init => TypeOK
BY CapabilitiesAssumption
   DEF Init, TypeOK, NoReply, Replies, BuildMinCaps

\* Every step keeps the types.
LEMMA NextTypes == TypeOK /\ [Next]_vars => TypeOK'
<1> SUFFICES ASSUME TypeOK, [Next]_vars PROVE TypeOK'
  OBVIOUS
<1> USE CapabilitiesAssumption
<1>1. CASE Accept
  BY <1>1 DEF Accept, TypeOK, NoReply, Replies, BuildMinCaps
<1>2. ASSUME NEW h \in Hosts, CapabilitiesRemote(h) PROVE TypeOK'
  <2>1. build[h].caps \subseteq CapsAll
    BY BuildCaps DEF TypeOK
  <2> QED
    BY <1>2, <2>1
       DEF CapabilitiesRemote, Replied, TypeOK, Replies, BuildMinCaps
<1>3. ASSUME NEW h \in Hosts, RemoteFails(h) PROVE TypeOK'
  BY <1>3 DEF RemoteFails, Replied, TypeOK, Replies, BuildMinCaps
<1>4. CASE CapabilitiesRespParse
  <2>1. result' \subseteq BuildMinCaps(req)
    BY <1>4, MissingAsked DEF CapabilitiesRespParse, TypeOK
  <2>2. pc' \in {"call", "refused"}
    BY <1>4 DEF CapabilitiesRespParse
  <2> QED
    BY <1>4, <2>1, <2>2 DEF CapabilitiesRespParse, TypeOK, BuildMinCaps
<1>5. CASE Done
  BY <1>5 DEF Done, TypeOK, BuildMinCaps
<1>6. ASSUME NEW h \in Hosts, Rebuild(h) PROVE TypeOK'
  BY <1>6 DEF Rebuild, TypeOK, BuildMinCaps
<1>7. CASE UNCHANGED vars
  BY <1>7 DEF vars, TypeOK, BuildMinCaps
<1> QED
  BY <1>1, <1>2, <1>3, <1>4, <1>5, <1>6, <1>7 DEF Next

\* Types, for every instance: at every step of a check of capabilities, failed
\* calls and replaced daemons included, resultCaps has only what was asked for.
THEOREM CapabilitiesTyping == Spec => []TypeOK
BY InitTypes, NextTypes, PTL DEF Spec

-----------------------------------------------------------------------------
(***************************************************************************)
(* The invariant.                                                          *)
(***************************************************************************)

\* It holds before the first request.
LEMMA InitInv == Init => CapabilitiesInv
BY DEF Init, CapabilitiesInv, Decided, AnswerTrue, NoReply

\* A host that answers says the truth, and every other answer stays.
LEMMA ReplyTrue ==
    ASSUME TypeOK, CapabilitiesInv, NEW h \in Hosts,
           CapabilitiesRemote(h) \/ RemoteFails(h)
    PROVE  CapabilitiesInv'
<1>1. pc = "ask" /\ pc' = "ask" /\ result' = result
  BY DEF CapabilitiesRemote, RemoteFails, Replied
<1>2. Decided'
  BY <1>1 DEF CapabilitiesInv, Decided
<1>3. ASSUME NEW g \in Hosts PROVE AnswerTrue(g)'
  <2>1. CASE g # h
    BY <2>1 DEF CapabilitiesRemote, RemoteFails, Replied, TypeOK,
                CapabilitiesInv, AnswerTrue, Known
  <2>2. CASE g = h /\ RemoteFails(h)
    BY <2>2 DEF RemoteFails, Replied, TypeOK, AnswerTrue
  <2>3. CASE g = h /\ CapabilitiesRemote(h)
    <3>1. ~build[h].version => build[h].caps = Caps03
      BY BuildCaps DEF TypeOK
    <3> QED
      BY <2>3, <3>1
         DEF CapabilitiesRemote, Replied, TypeOK, AnswerTrue, Known
  <2> QED
    BY <2>1, <2>2, <2>3
<1> QED
  BY <1>2, <1>3 DEF CapabilitiesInv

\* Every step keeps the invariant.
LEMMA NextInv == TypeOK /\ CapabilitiesInv /\ [Next]_vars => CapabilitiesInv'
<1> SUFFICES ASSUME TypeOK, CapabilitiesInv, [Next]_vars
             PROVE  CapabilitiesInv'
  OBVIOUS
<1>1. CASE Accept
  <2>1. Decided'
    BY <1>1 DEF Accept, Decided, Asked
  <2>2. \A h \in Hosts : AnswerTrue(h)'
    BY <1>1 DEF Accept, AnswerTrue, NoReply
  <2> QED
    BY <2>1, <2>2 DEF CapabilitiesInv
<1>2. CASE CapabilitiesRespParse
  <2>1. \A h \in Hosts : AnswerTrue(h)'
    BY <1>2 DEF CapabilitiesRespParse, CapabilitiesInv, AnswerTrue, Known
  <2>2. Missing' = Missing
    BY <1>2 DEF CapabilitiesRespParse, Missing, Known, BuildMinCaps
  <2>3. result = {}
    BY <1>2 DEF CapabilitiesRespParse, CapabilitiesInv, Decided
  <2>4. \/ \E h \in Hosts : reply[h].kind = "failed"
        \/ AllHeard
    BY <1>2 DEF CapabilitiesRespParse, AllHeard, TypeOK, Replies
  <2>5. Decided'
    BY <1>2, <2>2, <2>3, <2>4 DEF CapabilitiesRespParse, Decided, AllHeard
  <2> QED
    BY <2>1, <2>5 DEF CapabilitiesInv
<1>3. CASE Done
  BY <1>3 DEF Done, CapabilitiesInv, Decided, AnswerTrue, Known
<1>4. ASSUME NEW h \in Hosts, Rebuild(h) PROVE CapabilitiesInv'
  <2>1. Decided'
    BY <1>4 DEF Rebuild, CapabilitiesInv, Decided, Asked, AllHeard, Missing,
                Known, BuildMinCaps
  <2>2. \A g \in Hosts : AnswerTrue(g)'
    BY <1>4 DEF Rebuild, CapabilitiesInv, AnswerTrue, Known, TypeOK
  <2> QED
    BY <2>1, <2>2 DEF CapabilitiesInv
<1>5. CASE UNCHANGED vars
  BY <1>5 DEF vars, CapabilitiesInv, Decided, Asked, AllHeard, Missing, Known,
              BuildMinCaps, AnswerTrue
<1> QED
  BY <1>1, <1>2, <1>3, <1>4, <1>5, ReplyTrue DEF Next

\* What is known of the daemons and what was decided from it fit together
\* throughout a check of capabilities.
LEMMA InvHolds == Spec => [](TypeOK /\ CapabilitiesInv)
<1>1. Init => TypeOK /\ CapabilitiesInv
  BY InitTypes, InitInv
<1>2. TypeOK /\ CapabilitiesInv /\ [Next]_vars => (TypeOK /\ CapabilitiesInv)'
  BY NextTypes, NextInv
<1> QED
  BY <1>1, <1>2, PTL DEF Spec

-----------------------------------------------------------------------------
(***************************************************************************)
(* What follows from it.                                                   *)
(***************************************************************************)

\* When a call is made nothing that is needed is missing at a host, as long as
\* load balancing is not given up.
LEMMA SupportedFollows == TypeOK /\ CapabilitiesInv => Supported
<1> SUFFICES ASSUME TypeOK, CapabilitiesInv, pc = "call", Asked,
                    "create_load_balance" \notin result,
                    NEW h \in Hosts \ rebuilt,
                    NEW c \in Needs
             PROVE  c \in build[h].caps
  BY DEF Supported
<1>1. Missing = {}
  BY DEF CapabilitiesInv, Decided
<1>2. c \in BuildMinCaps(req)
  BY DEF Needs
<1>3. c \in Known(h)
  BY <1>1, <1>2 DEF Missing
<1> QED
  BY <1>3 DEF CapabilitiesInv, Decided, AllHeard, AnswerTrue

\* What is refused was missing somewhere, or could not be asked.
LEMMA RefusedFollows == TypeOK /\ CapabilitiesInv => RefusedRightly
BY DEF CapabilitiesInv, Decided, AllHeard, AnswerTrue, Missing, RefusedRightly

\* A host without block_version lacks load balancing and the timeout, and both
\* are in resultCaps when a create is called.
LEMMA FallsBackFollows == TypeOK /\ CapabilitiesInv => FallsBack
<1> SUFFICES ASSUME TypeOK, CapabilitiesInv, pc = "call", req.op = "create",
                    "create_io_timeout" \in req.opts,
                    req.opts \cap {"create_ring_buffer", "create_block_size"}
                      = {},
                    NEW h \in Hosts \ rebuilt, ~build[h].version
             PROVE  ~UsesCreateV2
  BY DEF FallsBack
<1>1. Asked
  BY DEF Asked
<1>2. result = Missing /\ reply[h].kind = "unavailable"
  BY <1>1 DEF CapabilitiesInv, Decided, AllHeard, AnswerTrue
<1>3. Known(h) = Caps03
  BY <1>2 DEF Known
<1>4. {"create_io_timeout", "create_load_balance"} \subseteq BuildMinCaps(req)
  BY DEF BuildMinCaps, Base
<1>5. {"create_io_timeout", "create_load_balance"} \subseteq result
  BY <1>2, <1>3, <1>4 DEF Missing, Caps03
<1>6. CreateVersion = 2
  BY <1>5 DEF CreateVersion
<1> QED
  BY <1>5, <1>6 DEF UsesCreateV2

\* No host is asked for what it does not support: glusterBlockCheckCapabilities
\* for any hosts, releases and options, unless a daemon was replaced after it
\* answered or load balancing is missing from a create.
THEOREM OnlySupported == Spec => []Supported
BY InvHolds, SupportedFollows, PTL

\* blockRemoteCapabilitiesRespParse refuses nothing that every host supports,
\* unless a host did not answer or was replaced.
THEOREM OnlyUnsupportedRefused == Spec => []RefusedRightly
BY InvHolds, RefusedFollows, PTL

\* A create with a timeout falls back to block_create whenever a host of a
\* release without block_create_v2 is among any number of newer ones.
THEOREM CreateFallsBack == Spec => []FallsBack
BY InvHolds, FallsBackFollows, PTL
=============================================================================
