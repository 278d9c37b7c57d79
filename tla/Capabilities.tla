---------------------------- MODULE Capabilities ----------------------------
(***************************************************************************)
(* Which operations hosts of different releases are asked to do:           *)
(* glusterBlockCheckCapabilities asks every host what its daemon supports, *)
(* before the operation, and block_create_cli_1_svc_st and                 *)
(* glusterBlockCallRPC_1 choose the form of a create after the answers.  A *)
(* daemon may be upgraded or downgraded at any time.                       *)
(*                                                                         *)
(* Abstractions.                                                           *)
(*   - A request is its operation and the options given with it, each      *)
(*     under the name of the capability it needs.                          *)
(*   - A daemon is what it supports, and whether it has the procedure      *)
(*     block_version; releases are told apart by "Since:" in               *)
(*     gluster-block-caps.info.                                            *)
(*   - The hosts asked are those of the block.  A replace does not ask the *)
(*     new host, and is that much less checked.                            *)
(***************************************************************************)
EXTENDS Naturals, FiniteSets

CONSTANTS
    Hosts,        \* the hosts of the block
    Requests,     \* the requests: [op, opts, force]
    MaxFaults,    \* bound: how many version calls fail
    MaxRebuilds   \* bound: how often a daemon is replaced by another release

\* enum gbCapabilities: those of releases up to 0.3, those since 0.4 and since 0.5.
Caps03 == {"create", "create_ha", "create_prealloc", "create_auth", "delete",
           "delete_force", "modify", "modify_auth", "json"}
Caps04 == Caps03 \cup {"replace", "modify_size", "create_ring_buffer",
                       "create_load_balance"}
CapsAll == Caps04 \cup {"create_block_size", "reload", "create_io_timeout"}

\* What each operation needs in any case; a create is load balanced always.
Base == [create |-> {"create", "create_load_balance"}, delete |-> {"delete"},
         modify |-> {"modify"}, modify_size |-> {"modify_size"},
         replace |-> {"replace"}, reload |-> {"reload"}]

\* glusterBlockBuildMinCaps.
BuildMinCaps(r) == Base[r.op] \cup r.opts

ASSUME CapabilitiesAssumption ==
    /\ IsFiniteSet(Hosts) /\ Hosts # {}
    /\ \A r \in Requests :
         /\ r.op \in DOMAIN Base /\ r.opts \subseteq CapsAll
         /\ r.force \in BOOLEAN
    /\ MaxFaults \in Nat /\ MaxRebuilds \in Nat

VARIABLES
    build,     \* build[h]: the daemon of h
    pc,        \* the next step of the handler
    req,       \* its request
    reply,     \* reply[h]: what came back from h
    result,    \* resultCaps: what some host lacks
    faults,    \* how many version calls failed
    rebuilds,  \* how many daemons were replaced
    rebuilt    \* history: hosts with another daemon than the one that answered

vars == <<build, pc, req, reply, result, faults, rebuilds, rebuilt>>

-----------------------------------------------------------------------------
\* gbSetCapabilties: what the installed libraries do not support is disabled.
SetCapabilties(lacking) == CapsAll \ lacking

Builds ==
    {[version |-> FALSE, caps |-> Caps03], [version |-> TRUE, caps |-> Caps04]}
      \cup {[version |-> TRUE, caps |-> SetCapabilties(lacking)] :
              lacking \in SUBSET {"create_block_size", "reload",
                                  "create_io_timeout"}}

\* caps: the answer of block_version_1_svc_st; unavailable: RPC_PROCUNAVAIL.
Replies == {"none", "caps", "unavailable", "failed"}

NoReply == [h \in Hosts |-> [kind |-> "none", caps |-> {}]]

\* Types; and resultCaps has only capabilities that were asked for.
TypeOK ==
    /\ build \in [Hosts -> Builds]
    /\ pc \in {"idle", "ask", "call", "refused"}
    /\ req \in Requests
    /\ reply \in [Hosts -> [kind : Replies, caps : SUBSET CapsAll]]
    /\ result \subseteq BuildMinCaps(req)
    /\ faults \in 0 .. MaxFaults /\ rebuilds \in 0 .. MaxRebuilds
    /\ rebuilt \subseteq Hosts

Init ==
    /\ build \in [Hosts -> Builds]
    /\ pc = "idle"
    /\ req \in Requests
    /\ reply = NoReply
    /\ result = {}
    /\ faults = 0 /\ rebuilds = 0
    /\ rebuilt = {}

-----------------------------------------------------------------------------
\* A request arrives; a forced delete or reload asks nobody.
Accept ==
    /\ pc = "idle"
    /\ req' \in Requests
    /\ pc' = IF req'.force /\ req'.op \in {"delete", "reload"}
             THEN "call" ELSE "ask"
    /\ reply' = NoReply
    /\ result' = {}
    /\ rebuilt' = {}
    /\ UNCHANGED <<build, faults, rebuilds>>

Replied(h, kind, caps) ==
    /\ pc = "ask" /\ reply[h].kind = "none"
    /\ reply' = [reply EXCEPT ![h] = [kind |-> kind, caps |-> caps]]
    /\ UNCHANGED <<build, pc, req, result, rebuilds, rebuilt>>

\* glusterBlockCapabilitiesRemote: the host answers.
CapabilitiesRemote(h) ==
    /\ \/ build[h].version /\ Replied(h, "caps", build[h].caps)
       \/ ~build[h].version /\ Replied(h, "unavailable", {})
    /\ UNCHANGED faults

\* It cannot be reached, or the call fails.
RemoteFails(h) ==
    /\ faults < MaxFaults
    /\ faults' = faults + 1
    /\ Replied(h, "failed", {})

\* Mutant of Known: a daemon that cannot be asked supports nothing.
KnownAnswers(h) == reply[h].caps

\* glusterBlockMimicOldCaps stands in for the answer of an old release.
Known(h) == IF reply[h].kind = "unavailable" THEN Caps03 ELSE reply[h].caps

\* Mutant of Missing: looks at every capability.
MissingAll == {c \in CapsAll : \E h \in Hosts : c \notin Known(h)}

\* Mutant of Missing: one remote that contains the capability is enough.
MissingEverywhere ==
    {c \in BuildMinCaps(req) : \A h \in Hosts : c \notin Known(h)}

\* "Check if all remotes contain this cap".
Missing == {c \in BuildMinCaps(req) : \E h \in Hosts : c \notin Known(h)}

\* blockRemoteCapabilitiesRespParse and what the handler makes of it: a create
\* goes on when load balancing is missing, whatever else is.
CapabilitiesRespParse ==
    /\ pc = "ask"
    /\ \A h \in Hosts : reply[h].kind # "none"
    /\ \/ /\ \E h \in Hosts : reply[h].kind = "failed"
          /\ pc' = "refused"
          /\ UNCHANGED result
       \/ /\ \A h \in Hosts : reply[h].kind # "failed"
          /\ req.op = "create"
          /\ result' = Missing
          /\ pc' = IF Missing = {} \/ "create_load_balance" \in Missing
                   THEN "call" ELSE "refused"
       \/ /\ \A h \in Hosts : reply[h].kind # "failed"
          /\ req.op # "create"
          /\ pc' = IF Missing = {} THEN "call" ELSE "refused"
          /\ UNCHANGED result
    /\ UNCHANGED <<build, req, reply, faults, rebuilds, rebuilt>>

\* The operation is over.
Done ==
    /\ pc \in {"call", "refused"}
    /\ pc' = "idle"
    /\ UNCHANGED <<build, req, reply, result, faults, rebuilds, rebuilt>>

\* The daemon of a host is replaced by that of another release.
Rebuild(h) ==
    /\ rebuilds < MaxRebuilds
    /\ \E b \in Builds \ {build[h]} : build' = [build EXCEPT ![h] = b]
    /\ rebuilds' = rebuilds + 1
    /\ rebuilt' = IF reply[h].kind = "none" THEN rebuilt ELSE rebuilt \cup {h}
    /\ UNCHANGED <<pc, req, reply, result, faults>>

Next ==
    \/ Accept \/ CapabilitiesRespParse \/ Done
    \/ \E h \in Hosts : CapabilitiesRemote(h) \/ RemoteFails(h) \/ Rebuild(h)

Spec == Init /\ [][Next]_vars

-----------------------------------------------------------------------------
(***************************************************************************)
(* The form of a create.                                                   *)
(***************************************************************************)

\* Mutant of CreateVersion: does not look at the answers.
CreateVersionLatest == 4

\* "Create V4" unless the timeout is asked for and missing somewhere.
CreateVersion ==
    IF "create_io_timeout" \notin result THEN 4
    ELSE IF "create_block_size" \in req.opts THEN 3 ELSE 2

\* glusterBlockCallRPC_1: block_create_v2 or block_create.
UsesCreateV2 ==
    \/ CreateVersion > 2
    \/ "create_ring_buffer" \in req.opts
    \/ "create_load_balance" \notin result

\* What the call asks of a host.
Needs ==
    {c \in BuildMinCaps(req) :
       /\ c = "create_load_balance" => c \notin result
       /\ c = "create_io_timeout" => CreateVersion = 4}

Asked == ~(req.force /\ req.op \in {"delete", "reload"})

-----------------------------------------------------------------------------
(***************************************************************************)
(* Properties.                                                             *)
(***************************************************************************)

\* An operation that asked is performed only by hosts that support all of it,
\* unless the daemon of a host was replaced after it answered.  A create is the
\* exception: once a host lacks load balancing the other capabilities that are
\* missing count for nothing.
Supported ==
    pc = "call" /\ Asked /\ "create_load_balance" \notin result
      => \A h \in Hosts \ rebuilt : Needs \subseteq build[h].caps

\* An operation every host supports is refused only when a host did not answer
\* or was replaced after it did: the answers of old releases and new ones are
\* told apart.
RefusedRightly ==
    pc = "refused" =>
      \/ \E h \in Hosts : reply[h].kind = "failed"
      \/ \E h \in Hosts : h \in rebuilt \/ ~(BuildMinCaps(req) \subseteq build[h].caps)

\* The form of a create falls back so far that a host of a release without
\* block_create_v2 can serve it, if the options allow it and a timeout was
\* given, which is then dropped.  (Without one it is always "Create V4".)
FallsBack ==
    (/\ pc = "call" /\ req.op = "create"
     /\ "create_io_timeout" \in req.opts
     /\ req.opts \cap {"create_ring_buffer", "create_block_size"} = {}
     /\ \E h \in Hosts \ rebuilt : ~build[h].version)
      => ~UsesCreateV2
=============================================================================
