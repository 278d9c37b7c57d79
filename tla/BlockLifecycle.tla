--------------------------- MODULE BlockLifecycle ---------------------------
(***************************************************************************)
(* Creation and deletion of one block volume by several gluster-blockd     *)
(* daemons.                                                                *)
(*                                                                         *)
(* A coordinator is the CLI process of a daemon.  It serves one request at *)
(* a time: it takes the volume-wide lock on meta.lock, works through the   *)
(* request's steps, appending to the metafile (the journal) as it goes,    *)
(* and lets one thread per host call the daemon of that host.  The module  *)
(* follows block_create_cli_1_svc_st, block_delete_cli_1_svc_st and the    *)
(* functions they call step by step: every access to the volume and every  *)
(* remote call is an action of its own, so that a crash, a failed write or *)
(* a lost reply may strike between any two of them.                        *)
(*                                                                         *)
(* Abstractions.                                                           *)
(*   - One block name.  A create that reaches the volume draws a fresh     *)
(*     GBID, here the next number.                                         *)
(*   - The journal is what blockGetMetaInfo makes of it: the last status   *)
(*     of every host, the GBID, the ENTRYCREATE value and the PRIOPATH.    *)
(*   - A create names as many hosts as it wants paths (the command line    *)
(*     tool refuses anything else): mpath is the size of its host set.     *)
(*   - A targetcli script takes effect completely or not at all.           *)
(*   - The capability check of a create precedes the lock and changes      *)
(*     nothing: a create that fails it is no step here.                    *)
(***************************************************************************)
EXTENDS Integers, FiniteSets, GbMeta

CONSTANTS
    Hosts,        \* addresses of the nodes
    Coords,       \* the daemons that receive requests
    CreateArgs,   \* the create requests: [hosts, auth]
    DeleteArgs,   \* the delete requests: [force, unlink]
    FaultKinds,   \* which faults the environment may inject
    MaxFaults,    \* bound: how many of them
    MaxCreates    \* bound: how many GBIDs

ASSUME HostsAssumption ==
    IsFiniteSet(Hosts) /\ ENTRYDELETE \notin Hosts

ASSUME ArgsAssumption ==
    /\ CreateArgs \subseteq [hosts : SUBSET Hosts \ {{}}, auth : BOOLEAN]
    /\ DeleteArgs \subseteq [force : BOOLEAN, unlink : BOOLEAN]

ASSUME BoundsAssumption ==
    MaxFaults \in Nat /\ MaxCreates \in Nat

VARIABLES
    lock,      \* who holds the lock on meta.lock: {} or {c}
    meta,      \* the metafile
    files,     \* the GBIDs that have a file under /block-store
    prio,      \* the load-balancing counters on the prio file
    node,      \* node[h]: what targetcli on h has of this block name
    stale,     \* stale[h]: calls on the wire to h whose caller gave up
    gbids,     \* how many GBIDs were drawn
    faults,    \* how many faults were injected
    pc,        \* pc[c]: the next step of coordinator c
    req,       \* req[c]: its request and the locals of the handler
    work,      \* work[c][k]: its thread for host k
    reply      \* reply[c]: the RESULT it last printed

vars == <<lock, meta, files, prio, node, stale, gbids, faults, pc, req, work,
          reply>>

-----------------------------------------------------------------------------
(***************************************************************************)
(* State.                                                                  *)
(***************************************************************************)

\* What a reader of the journal takes for addresses of hosts.
Keys == Hosts \cup {ENTRYDELETE}

KeyStatus == MetaStatus \cup EntryStatus \cup {NoLine}

Meta == [exists : BOOLEAN, gbid : Nat, entry : EntryStatus \cup {NoLine},
         prio : SUBSET Hosts, status : [Keys -> KeyStatus]]

NoMeta == [exists |-> FALSE, gbid |-> 0, entry |-> NoLine, prio |-> {},
           status |-> [k \in Keys |-> NoLine]]

\* gbid 0: the name is in neither saveconfig.json nor the kernel.
NodeState == [gbid : Nat, loaded : BOOLEAN]

NoConfig == [gbid |-> 0, loaded |-> FALSE]

\* What the script of block_create_common leaves: backstore, target, portal
\* groups and LUNs under the GBID, in the kernel and saved.
Configured(g) == [gbid |-> g, loaded |-> TRUE]

Call == [op : {"create", "delete"}, gbid : Nat]

Steps == {"idle", "lock", "access", "entry", "size", "passwd", "remote",
          "audit", "cleanup", "collect", "edelete", "unlink", "efail",
          "edone", "unmeta", "prio", "unlock", "format"}

\* The steps a coordinator takes between lock and unlock.
Critical == Steps \ {"idle", "lock", "format"}

\* "begin", "call", "sent": the thread is under way; "ok", "err",
\* "notfound": it has the answer and has not journalled it; "auth": one more
\* line to write; "done", "failed", "gone": it has returned.
WorkSteps == {"none", "begin", "call", "sent", "ok", "err", "notfound", "auth",
              "done", "failed", "gone"}

Finished == {"none", "done", "failed", "gone"}

NoWork == [k \in Keys |-> "none"]

Request == [op : {"create", "delete"}, hosts : SUBSET Hosts,
            auth : BOOLEAN, force : BOOLEAN, unlink : BOOLEAN,
            prio : SUBSET Hosts, err : BOOLEAN, asyncret : BOOLEAN,
            since : Nat]

NoRequest == [op |-> "delete", hosts |-> {}, auth |-> FALSE,
              force |-> FALSE, unlink |-> FALSE, prio |-> {}, err |-> FALSE,
              asyncret |-> FALSE, since |-> 0]

TypeOK ==
    /\ lock \in SUBSET Coords
    /\ meta \in Meta
    /\ files \in SUBSET Nat
    /\ prio \in [Hosts -> Nat]
    /\ node \in [Hosts -> NodeState]
    /\ stale \in [Hosts -> SUBSET Call]
    /\ gbids \in Nat
    /\ faults \in Nat
    /\ pc \in [Coords -> Steps]
    /\ req \in [Coords -> Request]
    /\ work \in [Coords -> [Keys -> WorkSteps]]
    /\ reply \in [Coords -> {"none", "SUCCESS", "FAIL"}]

Init ==
    /\ lock = {}
    /\ meta = NoMeta
    /\ files = {}
    /\ prio = [h \in Hosts |-> 0]
    /\ node = [h \in Hosts |-> NoConfig]
    /\ stale = [h \in Hosts |-> {}]
    /\ gbids = 0
    /\ faults = 0
    /\ pc = [c \in Coords |-> "idle"]
    /\ req = [c \in Coords |-> NoRequest]
    /\ work = [c \in Coords |-> NoWork]
    /\ reply = [c \in Coords |-> "none"]

-----------------------------------------------------------------------------
(***************************************************************************)
(* The journal.                                                            *)
(***************************************************************************)

Fault(kind) ==
    /\ kind \in FaultKinds
    /\ faults < MaxFaults
    /\ faults' = faults + 1

NoFault == faults' = faults

\* Appending "k: s"; glfs_creat makes the file when it is missing.
HostLine(k, s) == [meta EXCEPT !.exists = TRUE, !.status[k] = s]

\* GB_METAUPDATE_OR_GOTO.  When it fails, the file may be untouched, created
\* but without the line (glfs_write failed), or have the line (glfs_close
\* failed).
GB_METAUPDATE_OR_GOTO(new, Then, Else) ==
    \/ meta' = new /\ NoFault /\ Then
    \/ /\ Fault("meta")
       /\ meta' \in {meta, [meta EXCEPT !.exists = TRUE], new}
       /\ Else

\* info->list after blockGetMetaInfo.
Listed == {k \in Keys : meta.status[k] # NoLine}

\* The hosts glusterBlockDeleteFillArgs starts a thread for.
DeleteFillArgs == {k \in Listed : meta.status[k] \notin DeleteSkips}

Goto(c, step) == pc' = [pc EXCEPT ![c] = step]

Set(c, r) == req' = [req EXCEPT ![c] = r]

\* Mutant of Fails: an early return that forgets the unlock.
FailsReturningEarly(c) ==
    /\ Set(c, [req[c] EXCEPT !.err = TRUE])
    /\ Goto(c, "idle")

\* errCode is set and the handler goes to its exit path.
Fails(c) ==
    /\ Set(c, [req[c] EXCEPT !.err = TRUE])
    /\ Goto(c, "unlock")

volumeVars == <<lock, files, prio, gbids>>
nodeVars == <<node, stale>>

-----------------------------------------------------------------------------
(***************************************************************************)
(* Requests, and the lock.                                                 *)
(***************************************************************************)

Accept(c, r) ==
    /\ pc[c] = "idle"
    /\ Set(c, r)
    /\ Goto(c, "lock")
    /\ reply' = [reply EXCEPT ![c] = "none"]
    /\ UNCHANGED <<meta, work, faults, volumeVars, nodeVars>>

Creating == {c \in Coords : pc[c] # "idle" /\ req[c].op = "create"}

\* block_create_cli_1_svc_st up to the lock.
CreateRequest(c) ==
    /\ gbids + Cardinality(Creating) < MaxCreates
    /\ \E a \in CreateArgs :
         Accept(c, [NoRequest EXCEPT !.op = "create", !.hosts = a.hosts,
                      !.auth = a.auth, !.unlink = TRUE, !.since = faults])

\* block_delete_cli_1_svc_st up to the lock.
DeleteRequest(c) ==
    \E a \in DeleteArgs :
      Accept(c, [NoRequest EXCEPT !.force = a.force, !.unlink = a.unlink,
                   !.since = faults])

\* Mutant of MetaLock: goes on when somebody else has the lock.
MetaLockNoWait(c) ==
    /\ pc[c] = "lock"
    /\ lock' = lock \cup {c}
    /\ Goto(c, "access")
    /\ UNCHANGED <<meta, files, prio, gbids, work, faults, req, reply,
                   nodeVars>>

\* GB_METALOCK_OR_GOTO: F_SETLKW waits until nobody holds the lock.
MetaLock(c) ==
    /\ pc[c] = "lock"
    /\ \/ /\ lock = {}
          /\ lock' = {c}
          /\ NoFault
          /\ Goto(c, "access")
          /\ UNCHANGED <<req, reply>>
       \/ /\ Fault("lock")
          /\ Goto(c, "idle")
          /\ Set(c, NoRequest)
          /\ reply' = [reply EXCEPT ![c] = "FAIL"]
          /\ UNCHANGED lock
    /\ UNCHANGED <<meta, files, prio, gbids, work, nodeVars>>

\* blockDeleteCliFormatResponse: the result is errCode's.
DeleteFormatResponse(err) == IF err THEN "FAIL" ELSE "SUCCESS"

\* GB_METAUNLOCK; a delete then prints its result.  When the call fails the
\* result is a failure, and closing the descriptor drops the lock.
MetaUnlock(c) ==
    /\ pc[c] = "unlock"
    /\ lock' = lock \ {c}
    /\ \E bad \in BOOLEAN :
         /\ \/ NoFault /\ bad = req[c].err
            \/ Fault("lock") /\ bad = TRUE
         /\ \/ /\ req[c].op = "create"
               /\ Set(c, [req[c] EXCEPT !.err = bad])
               /\ Goto(c, "format")
               /\ UNCHANGED reply
            \/ /\ req[c].op = "delete"
               /\ Set(c, NoRequest)
               /\ Goto(c, "idle")
               /\ reply' = [reply EXCEPT ![c] = DeleteFormatResponse(bad)]
    /\ UNCHANGED <<meta, files, prio, gbids, work, nodeVars>>

-----------------------------------------------------------------------------
(***************************************************************************)
(* block_create_cli_1_svc_st under the lock.                               *)
(***************************************************************************)

CreateStep(c, step) ==
    /\ pc[c] = step
    /\ req[c].op = "create"

\* glfs_access finds a metafile of that name: EEXIST.
CreateExists(c) ==
    /\ CreateStep(c, "access")
    /\ meta.exists
    /\ Fails(c)
    /\ UNCHANGED <<meta, faults, work, reply, volumeVars, nodeVars>>

\* blockGetPrioPath: a host of the list with the lowest counter; none when
\* the attributes cannot be read.
blockGetPrioPath(hosts) ==
    {{h} : h \in {g \in hosts : \A i \in hosts : prio[g] <= prio[i]}}
      \cup (IF "xattr" \in FaultKinds THEN {{}} ELSE {})

\* VOLUME, GBID, HA, ENTRYCREATE: INPROGRESS and, if there is one, PRIOPATH.
FirstLines(p) ==
    [exists |-> TRUE, gbid |-> gbids + 1, entry |-> "INPROGRESS",
     prio |-> IF p = {} THEN meta.prio ELSE p, status |-> meta.status]

\* glfs_access reports no metafile of that name; uuid_generate, then the first
\* lines of the journal.  Any error of glfs_access reads as "no such file":
\* the lines then go to the end of the journal that is there.
CreateMeta(c) ==
    /\ CreateStep(c, "access")
    /\ meta.exists => "access" \in FaultKinds
    /\ gbids' = gbids + 1
    /\ \E p \in blockGetPrioPath(req[c].hosts) :
         GB_METAUPDATE_OR_GOTO(
           FirstLines(p),
           Set(c, [req[c] EXCEPT !.prio = p]) /\ Goto(c, "entry"),
           Fails(c))
    /\ UNCHANGED <<lock, files, prio, work, reply, nodeVars>>

\* glusterBlockCreateEntry: the file under /block-store.  On failure it
\* unlinks file and metafile; either unlink may fail too.
CreateEntry(c) ==
    /\ CreateStep(c, "entry")
    /\ \/ /\ NoFault
          /\ files' = files \cup {meta.gbid}
          /\ Goto(c, "size")
          /\ UNCHANGED <<meta, req>>
       \/ /\ Fault("storage")
          /\ files' \in {files, files \cup {meta.gbid}}
          /\ meta' \in {meta, NoMeta}
          /\ Fails(c)
    /\ UNCHANGED <<lock, prio, gbids, work, reply, nodeVars>>

\* SIZE ... ENTRYCREATE: SUCCESS.
CreateSize(c) ==
    /\ CreateStep(c, "size")
    /\ GB_METAUPDATE_OR_GOTO(
         [meta EXCEPT !.entry = "SUCCESS"],
         Goto(c, IF req[c].auth THEN "passwd" ELSE "remote") /\ UNCHANGED req,
         Fails(c))
    /\ UNCHANGED <<work, reply, volumeVars, nodeVars>>

\* PASSWORD.
CreatePassword(c) ==
    /\ CreateStep(c, "passwd")
    /\ GB_METAUPDATE_OR_GOTO(meta, Goto(c, "remote") /\ UNCHANGED req,
                             Fails(c))
    /\ UNCHANGED <<work, reply, volumeVars, nodeVars>>

\* glusterBlockCreateRemoteAsync starts a thread per host.
CreateRemoteAsync(c) ==
    /\ CreateStep(c, "remote")
    /\ work' = [work EXCEPT ![c] =
                  [k \in Keys |-> IF k \in req[c].hosts THEN "begin"
                                  ELSE "none"]]
    /\ Goto(c, "audit")
    /\ UNCHANGED <<meta, faults, req, reply, volumeVars, nodeVars>>

Joined(c) == \A k \in Keys : work[c][k] \in Finished

\* glusterBlockAuditRequest once every thread is joined.  When mpath is not
\* satisfied it cleans up, and returns what the read of the journal returned.
AuditRequest(c) ==
    /\ CreateStep(c, "audit")
    /\ Joined(c)
    /\ work' = [work EXCEPT ![c] = NoWork]
    /\ \/ /\ NoFault
          /\ UNCHANGED req
          /\ Goto(c, IF Cardinality(req[c].hosts) =
                        Cardinality({k \in Listed :
                                       meta.status[k] \in AuditSuccess})
                     THEN "prio" ELSE "cleanup")
       \/ /\ Fault("read")
          /\ Set(c, [req[c] EXCEPT !.err = TRUE])
          /\ Goto(c, "cleanup")
    /\ UNCHANGED <<meta, reply, volumeVars, nodeVars>>

\* blockCreateCliFormatResponse, after the lock was dropped: SUCCESS when
\* errCode is 0 and the metafile can be read.
CreateFormatResponse(c) ==
    /\ CreateStep(c, "format")
    /\ \/ /\ NoFault
          /\ reply' = [reply EXCEPT ![c] =
                         IF ~req[c].err /\ meta.exists THEN "SUCCESS"
                         ELSE "FAIL"]
       \/ Fault("read") /\ reply' = [reply EXCEPT ![c] = "FAIL"]
    /\ Set(c, NoRequest)
    /\ Goto(c, "idle")
    /\ UNCHANGED <<meta, work, volumeVars, nodeVars>>

-----------------------------------------------------------------------------
(***************************************************************************)
(* block_delete_cli_1_svc_st under the lock, and glusterBlockCleanUp,      *)
(* which a delete and the rollback of a create share.                      *)
(***************************************************************************)

\* Access check, blockGetMetaInfo and, without force, the capability check on
\* every valid host.  A host that cannot be reached fails it, and nothing
\* answers under the name ENTRYDELETE.
DeleteAccess(c) ==
    /\ pc[c] = "access"
    /\ req[c].op = "delete"
    /\ LET valid == {k \in Listed : blockhostIsValid(meta.status[k])} IN
       \/ /\ meta.exists
          /\ req[c].force \/ ENTRYDELETE \notin valid
          /\ NoFault
          /\ Set(c, [req[c] EXCEPT !.prio = meta.prio])
          /\ Goto(c, "cleanup")
       \/ /\ ~meta.exists \/ (~req[c].force /\ ENTRYDELETE \in valid)
          /\ NoFault
          /\ Fails(c)
       \/ /\ \/ Fault("access")
             \/ Fault("read")
             \/ Fault("connect") /\ ~req[c].force /\ valid # {}
          /\ Fails(c)
    /\ UNCHANGED <<meta, work, reply, volumeVars, nodeVars>>

\* glusterBlockCleanUp is done, with the locals r: "failed" is its ret.  The
\* audit of a create ignores what it returns.
CleanUpReturn(c, r, failed) ==
    LET ret == (r.asyncret /\ ~r.force) \/ failed
        err == IF r.op = "create" THEN r.err ELSE ret
    IN /\ Set(c, [r EXCEPT !.err = err])
       /\ Goto(c, IF err THEN "unlock" ELSE "prio")

\* glusterBlockCleanUp up to the start of its threads; with no host to call
\* it goes straight to the files.
CleanUp(c) ==
    /\ pc[c] = "cleanup"
    /\ \/ /\ NoFault
          /\ work' = [work EXCEPT ![c] =
                        [k \in Keys |-> IF k \in DeleteFillArgs THEN "begin"
                                        ELSE "none"]]
          /\ Goto(c, IF DeleteFillArgs = {} THEN "edelete" ELSE "collect")
          /\ UNCHANGED req
       \/ /\ Fault("read")
          /\ CleanUpReturn(c, req[c], TRUE)
          /\ UNCHANGED work
    /\ UNCHANGED <<meta, reply, volumeVars, nodeVars>>

\* Mutant of cleanupsuccess: GB_BLOCK_NOT_FOUND does not count.
cleanupsuccessNoGone(c) ==
    Cardinality({k \in Listed : meta.status[k] \in DeleteSkips})

\* The end of glusterBlockDeleteRemoteAsync: every listed host must be gone.
\* A host is gone when it answered GB_BLOCK_NOT_FOUND, or its last line is
\* CLEANUPSUCCESS or (never called) CONFIGINPROGRESS.
cleanupsuccess(c) ==
    Cardinality({k \in Keys : work[c][k] = "gone"})
      + Cardinality({k \in Listed : meta.status[k] \in DeleteSkips})

DeleteCollect(c) ==
    /\ pc[c] = "collect"
    /\ Joined(c)
    /\ work' = [work EXCEPT ![c] = NoWork]
    /\ \E bad \in BOOLEAN :
         /\ \/ NoFault /\ bad = (cleanupsuccess(c) # Cardinality(Listed))
            \/ Fault("read") /\ bad
         /\ LET r == [req[c] EXCEPT !.asyncret = bad] IN
            \/ (r.force \/ ~bad) /\ Set(c, r) /\ Goto(c, "edelete")
            \/ ~r.force /\ bad /\ CleanUpReturn(c, r, FALSE)
    /\ UNCHANGED <<meta, reply, volumeVars, nodeVars>>

\* Mutant of EntryDelete: unlinks the file without the line.
EntryDeleteNoLine(c) ==
    /\ pc[c] = "edelete"
    /\ Goto(c, IF req[c].unlink THEN "unlink" ELSE "edone")
    /\ UNCHANGED <<meta, faults, req, work, reply, volumeVars, nodeVars>>

\* ENTRYDELETE: INPROGRESS, then the file unless unlink-storage is "no".
EntryDelete(c) ==
    /\ pc[c] = "edelete"
    /\ GB_METAUPDATE_OR_GOTO(
         HostLine(ENTRYDELETE, "INPROGRESS"),
         Goto(c, IF req[c].unlink THEN "unlink" ELSE "edone") /\ UNCHANGED req,
         CleanUpReturn(c, req[c], TRUE))
    /\ UNCHANGED <<work, reply, volumeVars, nodeVars>>

\* glusterBlockDeleteEntry; a missing file is as good as an unlinked one.
DeleteEntry(c) ==
    /\ pc[c] = "unlink"
    /\ \/ /\ NoFault
          /\ files' = files \ {meta.gbid}
          /\ Goto(c, "edone")
       \/ /\ Fault("unlink")
          /\ files' \in {files, files \ {meta.gbid}}
          /\ Goto(c, "efail")
    /\ UNCHANGED <<lock, meta, prio, gbids, req, work, reply, nodeVars>>

\* ENTRYDELETE: FAIL.
EntryDeleteFail(c) ==
    /\ pc[c] = "efail"
    /\ GB_METAUPDATE_OR_GOTO(HostLine(ENTRYDELETE, "FAIL"),
                             CleanUpReturn(c, req[c], TRUE),
                             CleanUpReturn(c, req[c], TRUE))
    /\ UNCHANGED <<work, reply, volumeVars, nodeVars>>

\* ENTRYDELETE: SUCCESS.
EntryDeleteDone(c) ==
    /\ pc[c] = "edone"
    /\ GB_METAUPDATE_OR_GOTO(HostLine(ENTRYDELETE, "SUCCESS"),
                             Goto(c, "unmeta") /\ UNCHANGED req,
                             CleanUpReturn(c, req[c], TRUE))
    /\ UNCHANGED <<work, reply, volumeVars, nodeVars>>

\* glusterBlockDeleteMetaFile.
DeleteMetaFile(c) ==
    /\ pc[c] = "unmeta"
    /\ \/ NoFault /\ meta' = NoMeta /\ CleanUpReturn(c, req[c], FALSE)
       \/ /\ Fault("unlink")
          /\ meta' \in {meta, NoMeta}
          /\ CleanUpReturn(c, req[c], TRUE)
    /\ UNCHANGED <<work, reply, volumeVars, nodeVars>>

\* Mutant of blockPrioAttr: decrements a counter that is zero.
blockPrioAttrNoFloor(c) ==
    [h \in Hosts |->
       IF h \notin req[c].prio THEN prio[h]
       ELSE IF req[c].op = "create" THEN prio[h] + 1 ELSE prio[h] - 1]

\* blockIncPrioAttr of a create, blockDecPrioAttr of a delete; their failures
\* are only logged.
blockPrioAttr(c) ==
    [h \in Hosts |->
       IF h \notin req[c].prio THEN prio[h]
       ELSE IF req[c].op = "create" THEN prio[h] + 1
       ELSE IF prio[h] # 0 THEN prio[h] - 1 ELSE 0]

PrioAttr(c) ==
    /\ pc[c] = "prio"
    /\ \/ prio' = blockPrioAttr(c) /\ NoFault
       \/ prio' = prio /\ Fault("xattr")
    /\ Goto(c, "unlock")
    /\ UNCHANGED <<lock, meta, files, gbids, req, work, reply, nodeVars>>

-----------------------------------------------------------------------------
(***************************************************************************)
(* The daemon of a host serves a call for GBID g.  "r" is what it answers. *)
(***************************************************************************)

\* block_create_common: refuses a name that is in saveconfig.json.
block_create(h, g, r) ==
    \/ /\ node[h].gbid # 0
       /\ r = "err"
       /\ UNCHANGED node
       /\ NoFault
    \/ /\ node[h].gbid = 0
       /\ r = "ok"
       /\ node' = [node EXCEPT ![h] = Configured(g)]
       /\ NoFault
    \/ /\ node[h].gbid = 0
       /\ r = "err"
       /\ Fault("exec")
       /\ node' \in {node, [node EXCEPT ![h] = Configured(g)]}

\* block_delete_1_svc_st after blockCheckBlockLoadedStatus: GB_BLOCK_NOT_FOUND
\* when nothing carries the GBID, GB_BLOCK_NOT_LOADED when it is saved only.
block_delete(h, g, r) ==
    \/ /\ node[h].gbid # g
       /\ r = "notfound"
       /\ UNCHANGED node
       /\ NoFault
    \/ /\ node[h].gbid = g /\ ~node[h].loaded
       /\ r = "err"
       /\ UNCHANGED node
       /\ NoFault
    \/ /\ node[h].gbid = g /\ node[h].loaded
       /\ r = "ok"
       /\ node' = [node EXCEPT ![h] = NoConfig]
       /\ NoFault
    \/ /\ node[h].gbid = g /\ node[h].loaded
       /\ r = "err"
       /\ Fault("exec")
       /\ node' \in {node, [node EXCEPT ![h] = NoConfig]}

Serve(h, call, r) ==
    IF call.op = "create" THEN block_create(h, call.gbid, r)
    ELSE block_delete(h, call.gbid, r)

-----------------------------------------------------------------------------
(***************************************************************************)
(* The threads of a coordinator: glusterBlockCreateRemote while a create   *)
(* waits for its audit, glusterBlockDeleteRemote in a cleanup.             *)
(***************************************************************************)

Job(c) == IF pc[c] = "audit" THEN "create" ELSE "delete"

CallOf(c) == [op |-> Job(c), gbid |-> meta.gbid]

To(c, k, step) == work' = [work EXCEPT ![c][k] = step]

\* Mutant of WorkerBegin: a delete calls the host before it journals anything.
WorkerBeginCallsFirst(c, k) ==
    /\ work[c][k] = "begin"
    /\ IF Job(c) = "create"
       THEN GB_METAUPDATE_OR_GOTO(HostLine(k, "CONFIGINPROGRESS"),
                                  To(c, k, "call"), To(c, k, "failed"))
       ELSE NoFault /\ To(c, k, "call") /\ UNCHANGED meta
    /\ UNCHANGED <<pc, req, reply, volumeVars, nodeVars>>

\* "host: CONFIGINPROGRESS" or "host: CLEANUPINPROGRESS".
WorkerBegin(c, k) ==
    /\ work[c][k] = "begin"
    /\ GB_METAUPDATE_OR_GOTO(
         HostLine(k, IF Job(c) = "create" THEN "CONFIGINPROGRESS"
                     ELSE "CLEANUPINPROGRESS"),
         To(c, k, "call"), To(c, k, "failed"))
    /\ UNCHANGED <<pc, req, reply, volumeVars, nodeVars>>

\* glusterBlockCallRPC_1 up to rpc_sent: name lookup and connect may fail, and
\* ENTRYDELETE is no host.  The thread then returns without another line.
WorkerConnect(c, k) ==
    /\ work[c][k] = "call"
    /\ \/ k \in Hosts /\ NoFault /\ To(c, k, "sent")
       \/ k \in Hosts /\ Fault("connect") /\ To(c, k, "failed")
       \/ k = ENTRYDELETE /\ NoFault /\ To(c, k, "failed")
    /\ UNCHANGED <<meta, pc, req, reply, volumeVars, nodeVars>>

\* The host serves the call and the answer arrives.
RpcServed(c, h) ==
    /\ work[c][h] = "sent"
    /\ \E r \in {"ok", "err", "notfound"} :
         Serve(h, CallOf(c), r) /\ To(c, h, r)
    /\ UNCHANGED <<meta, pc, req, reply, stale, volumeVars>>

\* The connection breaks: before the host serves the call, or after.
RpcLost(c, h) ==
    /\ work[c][h] = "sent"
    /\ Fault("lost")
    /\ \/ UNCHANGED node
       \/ Job(c) = "create" /\ node[h].gbid = 0
            /\ node' = [node EXCEPT ![h] = Configured(meta.gbid)]
       \/ Job(c) = "delete" /\ node[h] = Configured(meta.gbid)
            /\ node' = [node EXCEPT ![h] = NoConfig]
    /\ To(c, h, "err")
    /\ UNCHANGED <<meta, pc, req, reply, stale, volumeVars>>

\* TIMEOUT expires while the call waits at the host: it will be served later.
RpcTimeout(c, h) ==
    /\ work[c][h] = "sent"
    /\ Fault("timeout")
    /\ stale' = [stale EXCEPT ![h] = @ \cup {CallOf(c)}]
    /\ To(c, h, "err")
    /\ UNCHANGED <<meta, pc, req, reply, node, volumeVars>>

\* The host serves a call nobody waits for.
ServeStale(h) ==
    /\ \E call \in stale[h] :
         /\ \E r \in {"ok", "err", "notfound"} : Serve(h, call, r)
         /\ stale' = [stale EXCEPT ![h] = @ \ {call}]
    /\ UNCHANGED <<meta, pc, req, work, reply, volumeVars>>

\* Mutant of ResultLine: GB_BLOCK_NOT_FOUND is journalled as a success.
ResultLineNotFoundSuccess(c, r) ==
    CASE r = "ok" /\ Job(c) = "create" -> "CONFIGSUCCESS"
      [] r # "err" /\ Job(c) = "delete" -> "CLEANUPSUCCESS"
      [] r # "ok" /\ Job(c) = "create" -> "CONFIGFAIL"
      [] r = "err" /\ Job(c) = "delete" -> "CLEANUPFAIL"

\* Mutant of ResultLine: a failed create leaves its CONFIGINPROGRESS.
ResultLineNoConfigFail(c, r) ==
    CASE r = "ok" /\ Job(c) = "create" -> "CONFIGSUCCESS"
      [] r = "ok" /\ Job(c) = "delete" -> "CLEANUPSUCCESS"
      [] r # "ok" /\ Job(c) = "create" -> "CONFIGINPROGRESS"
      [] r # "ok" /\ Job(c) = "delete" -> "CLEANUPFAIL"

\* The line for the answer.  GB_BLOCK_NOT_FOUND is journalled as CLEANUPFAIL
\* and remembered as the thread's exit code.
ResultLine(c, r) ==
    CASE r = "ok" /\ Job(c) = "create" -> "CONFIGSUCCESS"
      [] r = "ok" /\ Job(c) = "delete" -> "CLEANUPSUCCESS"
      [] r # "ok" /\ Job(c) = "create" -> "CONFIGFAIL"
      [] r # "ok" /\ Job(c) = "delete" -> "CLEANUPFAIL"

WorkerResult(c, k) ==
    /\ work[c][k] \in {"ok", "err", "notfound"}
    /\ GB_METAUPDATE_OR_GOTO(
         HostLine(k, ResultLine(c, work[c][k])),
         To(c, k, IF work[c][k] = "notfound" THEN "gone"
                  ELSE IF work[c][k] = "ok" /\ Job(c) = "create" /\ req[c].auth
                  THEN "auth" ELSE "done"),
         To(c, k, "failed"))
    /\ UNCHANGED <<pc, req, reply, volumeVars, nodeVars>>

\* "host: AUTHENFORCED".
WorkerAuth(c, k) ==
    /\ work[c][k] = "auth"
    /\ GB_METAUPDATE_OR_GOTO(HostLine(k, "AUTHENFORCED"),
                             To(c, k, "done"), To(c, k, "failed"))
    /\ UNCHANGED <<pc, req, reply, volumeVars, nodeVars>>

-----------------------------------------------------------------------------
(***************************************************************************)
(* The environment.                                                        *)
(***************************************************************************)

\* The coordinator's process dies: its lock goes with the connection, its
\* threads with the process; calls already sent stay on the wire.
Crash(c) ==
    /\ pc[c] # "idle"
    /\ Fault("crash")
    /\ lock' = lock \ {c}
    /\ stale' = [h \in Hosts |-> IF work[c][h] = "sent"
                                 THEN stale[h] \cup {CallOf(c)} ELSE stale[h]]
    /\ work' = [work EXCEPT ![c] = NoWork]
    /\ Set(c, NoRequest)
    /\ Goto(c, "idle")
    /\ UNCHANGED <<meta, files, prio, node, gbids, reply>>

\* A node comes back from a reboot with the block saved and not loaded.
Unload(h) ==
    /\ node[h].loaded
    /\ Fault("unload")
    /\ node' = [node EXCEPT ![h].loaded = FALSE]
    /\ UNCHANGED <<meta, stale, pc, req, work, reply, volumeVars>>

\* The target service of the node restores what is saved.
Restore(h) ==
    /\ node[h].gbid # 0 /\ ~node[h].loaded
    /\ node' = [node EXCEPT ![h].loaded = TRUE]
    /\ UNCHANGED <<meta, stale, faults, pc, req, work, reply, volumeVars>>

-----------------------------------------------------------------------------
CreateSteps(c) ==
    \/ CreateExists(c) \/ CreateMeta(c) \/ CreateEntry(c) \/ CreateSize(c)
    \/ CreatePassword(c) \/ CreateRemoteAsync(c) \/ AuditRequest(c)
    \/ CreateFormatResponse(c)

CleanUpSteps(c) ==
    \/ CleanUp(c) \/ DeleteCollect(c) \/ EntryDelete(c) \/ DeleteEntry(c)
    \/ EntryDeleteFail(c) \/ EntryDeleteDone(c) \/ DeleteMetaFile(c)

Handler(c) ==
    \/ MetaLock(c) \/ CreateSteps(c) \/ DeleteAccess(c) \/ CleanUpSteps(c)
    \/ PrioAttr(c) \/ MetaUnlock(c)

Worker(c, k) ==
    \/ WorkerBegin(c, k) \/ WorkerConnect(c, k)
    \/ WorkerResult(c, k) \/ WorkerAuth(c, k)

Rpc(c, h) == RpcServed(c, h) \/ RpcLost(c, h) \/ RpcTimeout(c, h)

Next ==
    \/ \E c \in Coords :
         \/ CreateRequest(c) \/ DeleteRequest(c) \/ Handler(c) \/ Crash(c)
         \/ \E k \in Keys : Worker(c, k)
         \/ \E h \in Hosts : Rpc(c, h)
    \/ \E h \in Hosts : ServeStale(h) \/ Unload(h) \/ Restore(h)

Spec == Init /\ [][Next]_vars

(***************************************************************************)
(* A handler, its threads and the daemon that serves a call run as long as *)
(* they can; nobody is obliged to send requests.  F_SETLKW queues a waiter *)
(* and grants it the lock in its turn, hence strong fairness for MetaLock. *)
(***************************************************************************)
Fairness ==
    \A c \in Coords :
      /\ WF_vars(Handler(c))
      /\ SF_vars(MetaLock(c))
      /\ \A k \in Keys : WF_vars(Worker(c, k))
      /\ \A h \in Hosts : WF_vars(Rpc(c, h))

FairSpec == Spec /\ Fairness

-----------------------------------------------------------------------------
(***************************************************************************)
(* Properties.                                                             *)
(***************************************************************************)

\* The lock on meta.lock covers a handler from its access check to its unlock:
\* no two coordinators are between the two, whatever crashes.
MutualExclusion ==
    \A c \in Coords : pc[c] \in Critical => lock = {c}

\* What the journal says of a host is true of the host.  CONFIGSUCCESS or
\* AUTHENFORCED: the node has the target of this GBID (glusterBlockCreateRemote
\* journals after the call, glusterBlockDeleteRemote before it).
\* CLEANUPSUCCESS: the node has it no more, late and lost calls included.
JournalSound ==
    \A h \in Hosts :
      /\ meta.status[h] \in AuditSuccess => node[h].gbid = meta.gbid
      /\ meta.status[h] = "CLEANUPSUCCESS" => node[h].gbid # meta.gbid

\* The ENTRYCREATE and ENTRYDELETE lines bracket the life of the file under
\* /block-store: between ENTRYCREATE: SUCCESS and ENTRYDELETE it exists.
EntrySound ==
    meta.entry = "SUCCESS" /\ meta.status[ENTRYDELETE] = NoLine
      => meta.gbid \in files

\* No node is left with a target whose file is unlinked or whose metafile is
\* gone: glusterBlockCleanUp touches the files only once every host is clean.
\* (No force, no crash, no failed journal write, no late call.)
NoOrphanTarget ==
    \A h \in Hosts :
      node[h].gbid # 0 => /\ node[h].gbid \in files
                         /\ meta.exists /\ meta.gbid = node[h].gbid

\* A host whose last line is CONFIGINPROGRESS when a cleanup without force goes
\* on to remove the files was never configured, as glusterBlockDeleteFillArgs
\* and glusterBlockDeleteRemoteAsync take for granted.
Untouched ==
    \A c \in Coords, h \in Hosts :
      (/\ pc[c] \in {"edelete", "unlink", "edone", "unmeta"}
       /\ ~req[c].force
       /\ meta.status[h] = "CONFIGINPROGRESS")
        => node[h].gbid # meta.gbid

\* A delete during which nothing goes wrong succeeds, whatever went wrong in
\* the requests before it: a partial create or delete can be finished.
DeleteFinishes ==
    \A c \in Coords :
      pc[c] = "unlock" /\ req[c].op = "delete" /\ req[c].since = faults
        => ~(req[c].err /\ meta.exists)

\* A create whose errCode is 0 and whose metafile is still there, so that its
\* RESULT is SUCCESS, has exported the block on all of its mpath hosts: the
\* audit found them, or the rollback removed the metafile.  One thing may go
\* wrong on the way; glusterBlockAuditRequest drops what glusterBlockCleanUp
\* returns, so a create that fails and whose rollback fails too says SUCCESS.
CreateResult ==
    \A c \in Coords :
      (/\ pc[c] = "unlock" /\ req[c].op = "create"
       /\ ~req[c].err /\ meta.exists
       /\ faults <= req[c].since + 1)
        => \A h \in req[c].hosts : node[h].gbid = meta.gbid

(***************************************************************************)
(* What a client sees of it: BlockAbs.                                     *)
(***************************************************************************)

\* A block is down once a cleanup has said so in the journal.
ClosedBy(s) ==
    \/ s \in {"CLEANUPINPROGRESS", "CLEANUPFAIL", "CLEANUPSUCCESS"}
    \/ s \in EntryStatus

Life == IF ~meta.exists THEN "none"
        ELSE IF \E k \in Keys : ClosedBy(meta.status[k]) THEN "down" ELSE "up"

Abs == INSTANCE BlockAbs WITH
         last <- gbids,
         gbid <- meta.gbid,
         life <- Life,
         file <- meta.gbid \in files,
         exported <- {h \in Hosts : node[h].gbid # 0}

\* Every step of every handler, thread and host is a step of BlockAbs or
\* changes nothing it shows: the block lives once, its hosts are withdrawn
\* before its file goes and its file before its name.
Refines == Abs!Spec

\* A request that is accepted is answered (or its daemon dies): no step of the
\* protocol waits for another forever.
RequestAnswered ==
    \A c \in Coords : pc[c] # "idle" ~> pc[c] = "idle"
=============================================================================
