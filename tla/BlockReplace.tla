---------------------------- MODULE BlockReplace ----------------------------
(***************************************************************************)
(* Replacing one host of a block volume by another:                        *)
(* block_replace_cli_1_svc_st, glusterBlockReplaceNodeRemoteAsync and what *)
(* they call.  At the same time one thread creates the target on the new   *)
(* host, one deletes it on the old, and one on each of the others replaces *)
(* the portal of the old host by that of the new.  What is done already,   *)
(* because the request is repeated, is told from the journal alone.        *)
(*                                                                         *)
(* As in BlockModify the lock on meta.lock makes the requests of all       *)
(* coordinators one sequence; a handler may die at any step, and a call    *)
(* whose caller gave up may be served late.  BlockReload adds the requests *)
(* that are served beside it, and the specification of the whole.          *)
(*                                                                         *)
(* Abstractions.                                                           *)
(*   - The GBID, size and password are those of the block and do not       *)
(*     change; what a host has of the block is its target and its portals. *)
(*   - glusterBlockReplaceNodeRemoteAsync has room for mpath other hosts   *)
(*     in args[] and expects mpath - 1: outside of that its behaviour is   *)
(*     undefined, and no step here (ArgsFit says when it stays inside).    *)
(*   - A failed allocation, lock or volume handle is a request that never  *)
(*     starts.                                                             *)
(***************************************************************************)
EXTENDS Integers, FiniteSets, SequencesExt, GbMeta

CONSTANTS
    Nodes,        \* addresses of the nodes
    InitHosts,    \* the hosts of the block, in the order of the journal
    Auth,         \* the block has a password
    Requests,     \* the requests: [op, old, new, force]
    FaultKinds,   \* which faults the environment may inject
    MaxFaults     \* bound: how many of them

ASSUME ReplaceAssumption ==
    /\ IsFiniteSet(Nodes)
    /\ InitHosts \in Seq(Nodes) /\ InitHosts # <<>> /\ IsInjective(InitHosts)
    /\ Requests \subseteq [op : {"replace", "reload"}, old : Nodes,
                           new : Nodes, force : BOOLEAN]
    /\ \A r \in Requests : r.op = "replace" => r.old # r.new
    /\ Auth \in BOOLEAN /\ MaxFaults \in Nat

VARIABLES
    meta,      \* the metafile
    node,      \* node[h]: what targetcli on h has of the block
    down,      \* the nodes that are gone for good
    late,      \* late[h]: calls on the wire to h whose caller gave up
    faults,    \* how many faults were injected
    pc,        \* the next step of the handler
    req,       \* its request and locals
    work,      \* work[h]: its thread for host h
    past       \* history: what the properties must know of earlier requests

vars == <<meta, node, down, late, faults, pc, req, work, past>>

-----------------------------------------------------------------------------
(***************************************************************************)
(* State.                                                                  *)
(***************************************************************************)

\* info->mpath.
MPath == Len(InitHosts)

\* order: the hosts by the first line of each; ever: those that had a valid
\* status once.
Meta == [status : [Nodes -> MetaStatus \cup {NoLine}], order : Seq(Nodes),
         ever : SUBSET Nodes, prio : SUBSET Nodes]

NodeState == [target : BOOLEAN, loaded : BOOLEAN, portals : SUBSET Nodes]

NoConfig == [target |-> FALSE, loaded |-> FALSE, portals |-> {}]

Configured(hosts) == [target |-> TRUE, loaded |-> TRUE, portals |-> hosts]

Call == [op : {"create", "portal", "delete", "reload"}, old : Nodes,
         new : Nodes, hosts : SUBSET Nodes]

Steps == {"idle", "access", "args", "collect", "forced", "prio", "reload",
          "gather", "unlock"}

WorkSteps == {"none", "begin", "call", "sent", "ok", "err", "auth", "done",
              "failed"}

\* The status of one of the three operations of a replace.
OpStatus == {"none", "skipped", "success", "failed"}

\* args: the hosts in args[1] .. args[mpath - 1]; hosts: cobj->block_hosts; prio: the
\* prio_path that was read.
Request == [op : {"replace", "reload"}, old : Nodes, new : Nodes,
            force : BOOLEAN, args : SUBSET Nodes, hosts : SUBSET Nodes,
            prio : SUBSET Nodes, cop : OpStatus, dop : OpStatus,
            rop : OpStatus, skipped : BOOLEAN, err : BOOLEAN]

NoRequest == LET h == InitHosts[1] IN
    [op |-> "reload", old |-> h, new |-> h, force |-> FALSE, args |-> {},
     hosts |-> {}, prio |-> {}, cop |-> "none", dop |-> "none",
     rop |-> "none", skipped |-> FALSE, err |-> FALSE]

\* strayed: a call to the host outlived its caller; torn: a script that
\* moves its portals stopped half way; forced: a CLEANUPSUCCESS was written although the delete failed;
\* rebooted: since the request began; pairs: replacements asked for.
Past == [strayed : SUBSET Nodes, torn : SUBSET Nodes, forced : SUBSET Nodes,
         rebooted : SUBSET Nodes, pairs : SUBSET (Nodes \X Nodes)]

\* Types; and the list of hosts has each host that has a line, once.
TypeOK ==
    /\ meta \in Meta
    /\ IsInjective(meta.order)
    /\ Range(meta.order) = {h \in Nodes : meta.status[h] # NoLine}
    /\ node \in [Nodes -> NodeState]
    /\ down \in SUBSET Nodes
    /\ late \in [Nodes -> SUBSET Call]
    /\ faults \in Nat
    /\ pc \in Steps
    /\ req \in Request
    /\ work \in [Nodes -> WorkSteps]
    /\ past \in Past

NoWork == [h \in Nodes |-> "none"]

\* A block just created, with or without load balancing.
Init ==
    /\ \E prio \in {{}, {InitHosts[1]}} :
         meta = [status |-> [h \in Nodes |->
                               IF h \notin Range(InitHosts) THEN NoLine
                               ELSE IF Auth THEN "AUTHENFORCED"
                               ELSE "CONFIGSUCCESS"],
                 order |-> InitHosts, ever |-> Range(InitHosts),
                 prio |-> prio]
    /\ node = [h \in Nodes |-> IF h \in Range(InitHosts)
                               THEN Configured(Range(InitHosts)) ELSE NoConfig]
    /\ down = {}
    /\ late = [h \in Nodes |-> {}]
    /\ faults = 0
    /\ pc = "idle"
    /\ req = NoRequest
    /\ work = NoWork
    /\ past = [strayed |-> {}, torn |-> {}, forced |-> {}, rebooted |-> {},
               pairs |-> {}]

-----------------------------------------------------------------------------
Fault(kind) ==
    /\ kind \in FaultKinds
    /\ faults < MaxFaults
    /\ faults' = faults + 1

NoFault == faults' = faults

\* Mutant of HostLine: a host is not looked up in the list first.
HostLineTwice(h, s) ==
    [meta EXCEPT !.status[h] = s,
                 !.order = Append(@, h),
                 !.ever = IF blockhostIsValid(s) THEN @ \cup {h} ELSE @]

\* Appending "h: s".
HostLine(h, s) ==
    [meta EXCEPT !.status[h] = s,
                 !.order = IF h \in Range(@) THEN @ ELSE Append(@, h),
                 !.ever = IF blockhostIsValid(s) THEN @ \cup {h} ELSE @]

\* GB_METAUPDATE_OR_GOTO; when it fails the line may be there or not.
GB_METAUPDATE_OR_GOTO(new, Then, Else) ==
    \/ meta' = new /\ NoFault /\ Then
    \/ meta' \in {meta, new} /\ Fault("meta") /\ Else

Valid == {h \in Nodes : blockhostIsValid(meta.status[h])}

Goto(step) == pc' = step /\ UNCHANGED req

\* errCode is set and the handler goes to "out".
Fails == pc' = "unlock" /\ req' = [req EXCEPT !.err = TRUE]

-----------------------------------------------------------------------------
(***************************************************************************)
(* The handler.                                                            *)
(***************************************************************************)

\* A request comes in and gets the lock.
Accept ==
    /\ pc = "idle"
    /\ \E r \in Requests :
         /\ req' = [NoRequest EXCEPT !.op = r.op, !.old = r.old,
                                     !.new = r.new, !.force = r.force]
         /\ past' = [past EXCEPT !.rebooted = {},
                       !.pairs = IF r.op = "replace"
                                 THEN @ \cup {<<r.old, r.new>>} ELSE @]
    /\ pc' = "access"
    /\ UNCHANGED <<meta, node, down, late, faults, work>>

\* Mutant of ReplaceAccess: the old host must answer, force or not.
ReplaceAccessAll ==
    /\ pc = "access" /\ req.op = "replace"
    /\ LET list == meta.ever IN
       \/ list \cap down = {} /\ NoFault /\ Goto("args")
       \/ list \cap down # {} /\ NoFault /\ Fails
       \/ (Fault("read") \/ Fault("connect")) /\ Fails
    /\ UNCHANGED <<meta, node, down, late, work, past>>

\* blockParseValidServers, then a capability call to every host it found, the
\* ones that were replaced long ago included; with force the old host is
\* passed over.
ReplaceAccess ==
    /\ pc = "access" /\ req.op = "replace"
    /\ LET list == meta.ever \ (IF req.force THEN {req.old} ELSE {}) IN
       \/ list \cap down = {} /\ NoFault /\ Goto("args")
       \/ list \cap down # {} /\ NoFault /\ Fails
       \/ (Fault("read") \/ Fault("connect")) /\ Fails
    /\ UNCHANGED <<meta, node, down, late, work, past>>

\* Mutant of Others: the old host is not told apart.
OthersAll(old) == Valid

\* The hosts args[] and block_hosts are filled with.
Others(old) == Valid \ {old}

\* The place of a host in the list of the journal's hosts.
Place(h) == CHOOSE i \in DOMAIN meta.order : meta.order[i] = h

\* The hosts of a set that come before h in the list.
Before(h, hosts) == {g \in hosts : Place(g) < Place(h)}

\* args[1] .. args[mpath - 1], the first of the others; the delete takes the
\* entry after them.
FillArgs(old) ==
    {h \in Others(old) : Cardinality(Before(h, Others(old))) < MPath - 1}

\* The entry of args[mpath - 1].
LastArg(args) == CHOOSE h \in args : Before(h, args) = args \ {h}

\* The new host is freshly configured.
cCheck == meta.status[req.new] \in AuditSuccess

\* The old host is deleted, "but we are not sure when though".
dCheck == meta.status[req.old] = "CLEANUPSUCCESS"

Status(args) == {meta.status[h] : h \in args}

\* Not all portals are replaced.
rCheck(args) == ~(Status(args) \subseteq {"RPSUCCESS"})

\* Replace was not run on the same portals.
Flag(args) == ~(Status(args) \subseteq {"RPSUCCESS", "RPINPROGRESS", "RPFAIL"})

\* GB_NODE_NOT_EXIST or GB_NODE_IN_USE.
Refused(args) ==
    \/ meta.status[req.old] = NoLine
    \/ req.new \in Valid /\ ~cCheck
    \/ cCheck /\ Flag(args)

\* The replace was already successful in a previous request.
Replaced(args) == ~rCheck(args) /\ dCheck /\ cCheck

\* The array has room for what is filled in, and every thread an address.
ArgsFilled == Cardinality(Others(req.old)) \in {MPath - 1, MPath}

\* blockGetMetaInfo and glusterBlockReplaceNodeRemoteAsync up to the start of
\* its threads.
ReplaceRemoteAsync ==
    /\ pc = "args"
    /\ ArgsFilled
    /\ LET args == FillArgs(req.old)
           r == [req EXCEPT !.args = args, !.prio = meta.prio,
                            !.hosts = {req.new} \cup Others(req.old)]
       IN \/ NoFault /\ Refused(args) /\ Fails /\ UNCHANGED work
          \/ /\ NoFault
             /\ ~Refused(args) /\ Replaced(args)
             /\ req' = [r EXCEPT !.skipped = TRUE]
             /\ pc' = "forced"
             /\ UNCHANGED work
          \/ /\ NoFault
             /\ ~Refused(args) /\ ~Replaced(args)
             /\ work' = [h \in Nodes |->
                           IF \/ h = req.new /\ ~cCheck
                              \/ h = req.old /\ ~dCheck
                              \/ h \in args /\ rCheck(args)
                           THEN "begin" ELSE "none"]
             /\ req' = [r EXCEPT
                          !.cop = IF cCheck THEN "skipped" ELSE "none",
                          !.dop = IF dCheck THEN "skipped" ELSE "none",
                          !.rop = IF rCheck(args) THEN "none"
                                  ELSE IF MPath = 1 THEN "success"
                                  ELSE "skipped"]
             /\ pc' = "collect"
          \/ Fault("read") /\ Fails /\ UNCHANGED work
    /\ UNCHANGED <<meta, node, down, late, past>>

Joined == \A h \in Nodes : work[h] \in {"none", "done", "failed"}

Exit(h) == IF work[h] = "done" THEN "success" ELSE "failed"

\* The threads are joined.  The portals' status is that of the last of them.
Collect ==
    /\ pc = "collect"
    /\ Joined
    /\ req' = [req EXCEPT
                 !.cop = IF @ = "none" THEN Exit(req.new) ELSE @,
                 !.dop = IF @ = "none" THEN Exit(req.old) ELSE @,
                 !.rop = IF @ = "none" THEN Exit(LastArg(req.args)) ELSE @]
    /\ work' = NoWork
    /\ pc' = "forced"
    /\ UNCHANGED <<meta, node, down, late, faults, past>>

\* With force a delete that did not succeed (skipped ones too) is journalled as
\* if it had.
ForcedLine ==
    /\ pc = "forced"
    /\ \/ /\ req.force /\ req.dop # "success"
          /\ GB_METAUPDATE_OR_GOTO(HostLine(req.old, "CLEANUPSUCCESS"),
                                   Goto("prio"), Fails)
          /\ past' = [past EXCEPT !.forced =
                         IF req.dop = "failed" THEN @ \cup {req.old} ELSE @]
       \/ /\ ~req.force \/ req.dop = "success"
          /\ Goto("prio")
          /\ NoFault
          /\ UNCHANGED <<meta, past>>
    /\ UNCHANGED <<node, down, late, work>>

\* The new host inherits the priority of the old, whatever came of the calls.
PrioLine ==
    /\ pc = "prio"
    /\ \/ /\ req.prio = {req.old}
          /\ GB_METAUPDATE_OR_GOTO([meta EXCEPT !.prio = {req.new}],
                                   Goto("unlock"), Fails)
       \/ /\ req.prio # {req.old}
          /\ Goto("unlock")
          /\ NoFault
          /\ UNCHANGED meta
    /\ UNCHANGED <<node, down, late, work, past>>

\* GB_METAUNLOCK and the response.
MetaUnlock ==
    /\ pc = "unlock"
    /\ pc' = "idle"
    /\ req' = NoRequest
    /\ UNCHANGED <<meta, node, down, late, faults, work, past>>

\* blockReplaceNodeCliFormatResponse.  A failed delete is a success with force,
\* and in JSON always.
ReplaceFormatResponse(json) ==
    IF req.err THEN "FAIL"
    ELSE IF req.skipped THEN "SKIPPED"
    ELSE IF /\ req.cop # "failed" /\ req.rop # "failed"
            /\ req.dop # "failed" \/ req.force \/ json
    THEN "SUCCESS" ELSE "FAIL"

-----------------------------------------------------------------------------
(***************************************************************************)
(* The hosts.                                                              *)
(***************************************************************************)

Answer(state, exit) == [state |-> state, exit |-> exit]

\* block_create_common: refuses a name that is in saveconfig.json.
block_create(s, call) ==
    IF s.target THEN Answer(s, "err")
    ELSE Answer(Configured(call.hosts), "ok")

\* block_delete_1_svc_st: GB_BLOCK_NOT_FOUND and GB_BLOCK_NOT_LOADED are
\* failures like any other to glusterBlockDeleteRemote.
block_delete(s) ==
    IF s.target /\ s.loaded THEN Answer(NoConfig, "ok") ELSE Answer(s, "err")

\* Mutant of block_replace: adds the portal of the new host and forgets to
\* delete the old one.
block_replaceAddsOnly(s, call) ==
    IF ~s.target \/ ~s.loaded THEN Answer(s, "err")
    ELSE IF call.new \in s.portals THEN Answer(s, "ok")
    ELSE IF call.old \notin s.portals THEN Answer(s, "err")
    ELSE Answer([s EXCEPT !.portals = @ \cup {call.new}], "ok")

\* block_replace_1_svc_st: GB_OP_SKIPPED, which counts as a success, when the
\* portal of the new host is there; an error when that of the old is not.
block_replace(s, call) ==
    IF ~s.target \/ ~s.loaded THEN Answer(s, "err")
    ELSE IF call.new \in s.portals THEN Answer(s, "ok")
    ELSE IF call.old \notin s.portals THEN Answer(s, "err")
    ELSE Answer([s EXCEPT !.portals = (@ \ {call.old}) \cup {call.new}], "ok")

\* block_reload_1_svc_st: whatever restoreconfig returns, the block must be
\* loaded after it.
block_reload(s) ==
    IF s.target THEN Answer([s EXCEPT !.loaded = TRUE], "ok")
    ELSE Answer(s, "err")

\* What host h does with a call, and answers.
Serve(h, call) ==
    CASE call.op = "create" -> block_create(node[h], call)
      [] call.op = "delete" -> block_delete(node[h])
      [] call.op = "portal" -> block_replace(node[h], call)
      [] call.op = "reload" -> block_reload(node[h])

\* What a failing command may leave.  targetcli goes on after an error: of the
\* two commands for the portals either may have worked.  restoreconfig with
\* clear_existing may have cleared the block and not restored it, or may have
\* worked when the check after it failed.
Broken(h, call) ==
    LET s == node[h] IN
    IF call.op = "portal" /\ Serve(h, call).state # s
    THEN {[s EXCEPT !.portals = p] :
            p \in {s.portals, s.portals \ {call.old}, s.portals \cup {call.new},
                  (s.portals \ {call.old}) \cup {call.new}}}
    ELSE IF call.op = "reload"
    THEN {s, Serve(h, call).state, [s EXCEPT !.loaded = FALSE]}
    ELSE {s, Serve(h, call).state}

Becomes(h, state) == node' = [node EXCEPT ![h] = state]

-----------------------------------------------------------------------------
(***************************************************************************)
(* The threads: glusterBlockCreateRemote for the new host,                 *)
(* glusterBlockDeleteRemote for the old and                                *)
(* glusterBlockReplacePortalRemote for the others.                         *)
(***************************************************************************)

CallTo(h) ==
    [op |-> CASE req.op = "reload" -> "reload"
              [] req.op = "replace" /\ h = req.new -> "create"
              [] req.op = "replace" /\ h = req.old -> "delete"
              [] OTHER -> "portal",
     old |-> req.old, new |-> req.new, hosts |-> req.hosts]

Line(h, create, delete, portal) ==
    HostLine(h, CASE CallTo(h).op = "create" -> create
                  [] CallTo(h).op = "delete" -> delete
                  [] CallTo(h).op = "portal" -> portal)

To(h, step) == work' = [work EXCEPT ![h] = step]

\* The line before the call.
WorkerBegin(h) ==
    /\ work[h] = "begin"
    /\ GB_METAUPDATE_OR_GOTO(
         Line(h, "CONFIGINPROGRESS", "CLEANUPINPROGRESS", "RPINPROGRESS"),
         To(h, "call"), To(h, "failed"))
    /\ UNCHANGED <<node, down, late, pc, req, past>>

\* glusterBlockCallRPC_1 up to rpc_sent; without it there is no other line.
WorkerConnect(h) ==
    /\ work[h] = "call"
    /\ \/ h \notin down /\ NoFault /\ To(h, "sent")
       \/ h \in down /\ NoFault /\ To(h, "failed")
       \/ Fault("connect") /\ To(h, "failed")
    /\ UNCHANGED <<meta, node, down, late, pc, req, past>>

\* The host serves the call and the answer arrives.
RpcServed(h) ==
    /\ work[h] = "sent" /\ h \notin down
    /\ NoFault
    /\ Becomes(h, Serve(h, CallTo(h)).state)
    /\ To(h, Serve(h, CallTo(h)).exit)
    /\ UNCHANGED <<meta, down, late, pc, req, past>>

\* A command fails on the host.
RpcBroken(h) ==
    /\ work[h] = "sent" /\ h \notin down
    /\ Fault("exec")
    /\ \E s \in Broken(h, CallTo(h)) :
         /\ Becomes(h, s)
         /\ past' = [past EXCEPT !.torn =
                        IF \/ s \in {node[h], Serve(h, CallTo(h)).state}
                           \/ req.op = "reload"
                        THEN @ ELSE @ \cup {h}]
    /\ To(h, "err")
    /\ UNCHANGED <<meta, down, late, pc, req>>

\* The connection breaks, before or after the host served the call; a host
\* that died breaks it for certain.
RpcLost(h) ==
    /\ work[h] = "sent"
    /\ \/ h \in down /\ NoFault /\ UNCHANGED node
       \/ /\ h \notin down
          /\ Fault("lost")
          /\ \E s \in {node[h], Serve(h, CallTo(h)).state} : Becomes(h, s)
    /\ To(h, "err")
    /\ UNCHANGED <<meta, down, late, pc, req, past>>

\* TIMEOUT expires while the call waits at the host.
RpcTimeout(h) ==
    /\ work[h] = "sent"
    /\ Fault("timeout")
    /\ late' = [late EXCEPT ![h] = @ \cup {CallTo(h)}]
    /\ past' = [past EXCEPT !.strayed = @ \cup {h}]
    /\ To(h, "err")
    /\ UNCHANGED <<meta, node, down, pc, req>>

\* Mutant of WorkerResult: a failed delete is journalled as done.
WorkerResultDeleted(h) ==
    /\ work[h] \in {"ok", "err"} /\ pc = "collect"
    /\ GB_METAUPDATE_OR_GOTO(
         IF work[h] = "ok"
         THEN Line(h, "CONFIGSUCCESS", "CLEANUPSUCCESS", "RPSUCCESS")
         ELSE Line(h, "CONFIGFAIL", "CLEANUPSUCCESS", "RPFAIL"),
         To(h, IF work[h] = "err" THEN "failed"
               ELSE IF CallTo(h).op = "create" /\ Auth THEN "auth"
               ELSE "done"),
         To(h, "failed"))
    /\ UNCHANGED <<node, down, late, pc, req, past>>

\* The line after the call.
WorkerResult(h) ==
    /\ work[h] \in {"ok", "err"} /\ pc = "collect"
    /\ GB_METAUPDATE_OR_GOTO(
         IF work[h] = "ok"
         THEN Line(h, "CONFIGSUCCESS", "CLEANUPSUCCESS", "RPSUCCESS")
         ELSE Line(h, "CONFIGFAIL", "CLEANUPFAIL", "RPFAIL"),
         To(h, IF work[h] = "err" THEN "failed"
               ELSE IF CallTo(h).op = "create" /\ Auth THEN "auth"
               ELSE "done"),
         To(h, "failed"))
    /\ UNCHANGED <<node, down, late, pc, req, past>>

\* "host: AUTHENFORCED".
WorkerAuth(h) ==
    /\ work[h] = "auth"
    /\ GB_METAUPDATE_OR_GOTO(HostLine(h, "AUTHENFORCED"),
                             To(h, "done"), To(h, "failed"))
    /\ UNCHANGED <<node, down, late, pc, req, past>>

-----------------------------------------------------------------------------
(***************************************************************************)
(* The environment.                                                        *)
(***************************************************************************)

\* A call nobody waits for is served.
ServeLate(h) ==
    /\ h \notin down
    /\ \E call \in late[h] :
         /\ late' = [late EXCEPT ![h] = @ \ {call}]
         /\ Becomes(h, Serve(h, call).state)
    /\ UNCHANGED <<meta, down, faults, pc, req, work, past>>

\* The process of the handler dies; calls that were sent stay on the wire.
Crash ==
    /\ pc # "idle"
    /\ Fault("crash")
    /\ late' = [h \in Nodes |-> IF work[h] = "sent"
                                THEN late[h] \cup {CallTo(h)} ELSE late[h]]
    /\ past' = [past EXCEPT !.strayed =
                   @ \cup {h \in Nodes : work[h] = "sent"}]
    /\ pc' = "idle"
    /\ req' = NoRequest
    /\ work' = NoWork
    /\ UNCHANGED <<meta, node, down>>

\* A node dies for good: what a replace with force is for.
Die(h) ==
    /\ h \notin down
    /\ Fault("down")
    /\ down' = down \cup {h}
    /\ UNCHANGED <<meta, node, late, pc, req, work, past>>

\* A node comes back from a reboot with the block saved and not loaded.
Reboot(h) ==
    /\ node[h].loaded /\ h \notin down
    /\ Fault("reboot")
    /\ Becomes(h, [node[h] EXCEPT !.loaded = FALSE])
    /\ past' = [past EXCEPT !.rebooted = @ \cup {h}]
    /\ UNCHANGED <<meta, down, late, pc, req, work>>

-----------------------------------------------------------------------------
ReplaceHandler ==
    \/ ReplaceAccess \/ ReplaceRemoteAsync \/ Collect \/ ForcedLine
    \/ PrioLine \/ MetaUnlock

Thread(h) ==
    \/ WorkerBegin(h) \/ WorkerConnect(h) \/ WorkerResult(h) \/ WorkerAuth(h)
    \/ RpcServed(h) \/ RpcBroken(h) \/ RpcLost(h) \/ RpcTimeout(h)

Environment(h) == ServeLate(h) \/ Die(h) \/ Reboot(h)

-----------------------------------------------------------------------------
(***************************************************************************)
(* Properties.                                                             *)
(***************************************************************************)

\* However often replacements between the same hosts are repeated, forced and
\* broken off, the hosts glusterBlockReplaceNodeRemoteAsync finds valid fill
\* its args[] and fit into it.
ArgsFit == pc = "args" => ArgsFilled

\* What the journal says of a host is true of the host: one that is configured
\* or had its portal replaced has the target, one that is cleaned up has not,
\* unless force said so.  Only a call that outlived its caller may change a
\* host behind the journal's back.
ReplaceJournal ==
    \A h \in Nodes \ past.strayed :
      /\ meta.status[h] \in AuditSuccess \cup {"RPSUCCESS", "RPINPROGRESS",
                                             "RPFAIL"}
           => node[h].target
      /\ meta.status[h] = "CLEANUPSUCCESS" /\ h \notin past.forced
           => ~node[h].target

\* getTgObj: the portals a genconfig gives host h.
GenConfigPortals(h) == IF h \in Valid THEN Valid ELSE {}

\* The handler of a replace is done and prints r.
Reported(r) ==
    pc = "unlock" /\ req.op = "replace" /\ ReplaceFormatResponse(FALSE) = r

\* A replace that reports SUCCESS, or SKIPPED as it was done before, has moved
\* the block: the new host exports it, the old one does not (but with force),
\* and the priority is with a host that exports it.  And if that replacement is
\* the only one so far, every host of the block has the portals of exactly the
\* hosts of the block, which is also what a genconfig gives it.
ReplaceResult ==
    Reported("SUCCESS") \/ Reported("SKIPPED") =>
      /\ req.new \notin past.strayed => node[req.new].target
      /\ req.old \notin past.strayed \cup past.forced => ~node[req.old].target
      /\ meta.prio \subseteq Valid
      /\ past.pairs = {<<req.old, req.new>>} =>
           \A h \in Valid \ (past.strayed \cup past.torn) :
             node[h].portals = GenConfigPortals(h)

\* A node that died can be replaced: when nothing else ever went wrong and no
\* other replacement came before, a replace of a host with force succeeds, at the first
\* attempt and after attempts without force.  (A node that has carried the
\* block before stands earlier in the journal: a repeated replacement by it is
\* refused, as its line takes the place of another host's in args[].)
ForceCompletes ==
    (/\ Reported("FAIL") /\ req.force
     /\ meta.status[req.old] # NoLine
     /\ past.pairs = {<<req.old, req.new>>})
      => faults > Cardinality(down \cap {req.old})

\* After a replace that reports SUCCESS every host of the block has the portal
\* of the new host, whatever replacements came before it.
PortalsFollow ==
    Reported("SUCCESS") =>
      \A h \in Valid \ {req.new} : req.new \in node[h].portals
=============================================================================
