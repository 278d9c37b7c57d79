--------------------------- MODULE LifecycleProofs ---------------------------
(***************************************************************************)
(* BlockLifecycle is type correct, for every set of hosts and of           *)
(* coordinators, every request and every fault; LifecycleInv is inductive, *)
(* first the parts that say nothing of the hosts (who holds the lock,      *)
(* whose threads run, the file of the block), then JournalInv: each action *)
(* is shown to keep HostInv and ThreadInv of one host, the rest is a frame *)
(* argument.                                                               *)
(***************************************************************************)
EXTENDS LifecycleInvariant, TLAPS

-----------------------------------------------------------------------------
(***************************************************************************)
(* Types.                                                                  *)
(***************************************************************************)

\* A metafile that is not there is a metafile.
LEMMA NoMetaType == NoMeta \in Meta
BY DEF NoMeta, Meta, KeyStatus, NoLine

\* The locals of an idle coordinator are locals.
LEMMA NoRequestType == NoRequest \in Request
BY DEF NoRequest, Request

\* A line about a host keeps the journal well formed.
LEMMA HostLineType ==
    ASSUME meta \in Meta, NEW k \in Keys, NEW s \in KeyStatus
    PROVE  HostLine(k, s) \in Meta
BY DEF HostLine, Meta

\* So does a glfs_creat whose glfs_write failed.
LEMMA ExistsType ==
    ASSUME meta \in Meta
    PROVE  [meta EXCEPT !.exists = TRUE] \in Meta
BY DEF Meta

\* The ENTRYDELETE key passes for a host, its values for statuses.
LEMMA EntryKey ==
    /\ ENTRYDELETE \in Keys
    /\ {"INPROGRESS", "FAIL", "SUCCESS"} \subseteq KeyStatus
BY DEF Keys, KeyStatus, EntryStatus

\* The line a thread writes for its answer is a status.
LEMMA ResultLineType ==
    ASSUME NEW c, NEW r
    PROVE  ResultLine(c, r) \in KeyStatus
BY DEF ResultLine, KeyStatus, MetaStatus, Job

\* Setting errCode keeps the locals well formed.
LEMMA ErrType ==
    ASSUME NEW r \in Request, NEW b \in BOOLEAN
    PROVE  [r EXCEPT !.err = b] \in Request
BY DEF Request

\* Setting asyncret does.
LEMMA AsyncType ==
    ASSUME NEW r \in Request, NEW b \in BOOLEAN
    PROVE  [r EXCEPT !.asyncret = b] \in Request
BY DEF Request

\* Setting the prio path does.
LEMMA PrioType ==
    ASSUME NEW r \in Request, NEW p \in SUBSET Hosts
    PROVE  [r EXCEPT !.prio = p] \in Request
BY DEF Request

\* The exit path of a handler keeps step and locals well formed.
LEMMA FailsType ==
    ASSUME req \in [Coords -> Request], pc \in [Coords -> Steps],
           NEW c \in Coords, Fails(c)
    PROVE  req' \in [Coords -> Request] /\ pc' \in [Coords -> Steps]
<1>1. [req[c] EXCEPT !.err = TRUE] \in Request
  BY ErrType
<1> QED
  BY <1>1 DEF Fails, Set, Goto, Steps

\* The return of glusterBlockCleanUp does.
LEMMA ReturnType ==
    ASSUME req \in [Coords -> Request], pc \in [Coords -> Steps],
           NEW c \in Coords, NEW r \in Request, NEW failed \in BOOLEAN,
           CleanUpReturn(c, r, failed)
    PROVE  req' \in [Coords -> Request] /\ pc' \in [Coords -> Steps]
<1> DEFINE ret == (r.asyncret /\ ~r.force) \/ failed
           err == IF r.op = "create" THEN r.err ELSE ret
<1>1. err \in BOOLEAN
  BY DEF Request
<1>2. [r EXCEPT !.err = err] \in Request
  BY <1>1, ErrType
<1>3. /\ Set(c, [r EXCEPT !.err = err])
      /\ pc' = [pc EXCEPT ![c] = IF err THEN "unlock" ELSE "prio"]
  BY DEF CleanUpReturn, Goto
<1> HIDE DEF err
<1> QED
  BY <1>2, <1>3 DEF Set, Steps

\* A step of a thread leaves every thread at a step.
LEMMA ToType ==
    ASSUME work \in [Coords -> [Keys -> WorkSteps]],
           NEW c \in Coords, NEW k \in Keys, NEW s \in WorkSteps, To(c, k, s)
    PROVE  work' \in [Coords -> [Keys -> WorkSteps]]
BY DEF To

\* What a thread sends is a call.
LEMMA CallOfType ==
    ASSUME meta \in Meta, NEW c
    PROVE  CallOf(c) \in Call
BY DEF CallOf, Job, Call, Meta

\* A host that serves a call stays well formed.
LEMMA ServeType ==
    ASSUME node \in [Hosts -> NodeState], faults \in Nat,
           NEW h \in Hosts, NEW call \in Call, NEW r, Serve(h, call, r)
    PROVE  node' \in [Hosts -> NodeState] /\ faults' \in Nat
<1> DEFINE made == [gbid |-> call.gbid, loaded |-> TRUE]
<1>1. made \in NodeState /\ NoConfig \in NodeState
  BY DEF Call, NodeState, NoConfig
<1>2. node' \in {node, [node EXCEPT ![h] = made], [node EXCEPT ![h] = NoConfig]}
  BY DEF Serve, block_create, Configured, block_delete
<1>3. faults' \in Nat
  BY DEF Serve, block_create, Configured, block_delete, Fault, NoFault
<1> HIDE DEF made
<1> QED
  BY <1>1, <1>2, <1>3

\* blockGetPrioPath answers with hosts.
LEMMA PrioPathType ==
    ASSUME NEW r \in Request, NEW p \in blockGetPrioPath(r.hosts)
    PROVE  p \in SUBSET Hosts
BY DEF blockGetPrioPath, Request

\* The fault counter counts.
LEMMA FaultType ==
    ASSUME faults \in Nat, NEW kind, Fault(kind) \/ NoFault
    PROVE  faults' \in Nat
BY DEF Fault, NoFault

\* The daemons start well typed.
LEMMA TypeInit == Init => TypeOK
<1> SUFFICES ASSUME Init PROVE TypeOK
  OBVIOUS
<1> USE DEF Init
<1>1. meta \in Meta
  BY NoMetaType
<1>2. req \in [Coords -> Request]
  BY NoRequestType
<1>3. node \in [Hosts -> NodeState]
  BY DEF NoConfig, NodeState
<1>4. work \in [Coords -> [Keys -> WorkSteps]]
  BY DEF NoWork, WorkSteps
<1>5. pc \in [Coords -> Steps]
  BY DEF Steps
<1> QED
  BY <1>1, <1>2, <1>3, <1>4, <1>5 DEF TypeOK

\* Every step of a handler, a thread, a host or a fault keeps the types.
LEMMA TypeNext == ASSUME TypeOK, Next PROVE TypeOK'
<1> USE DEF TypeOK
<1>1. ASSUME NEW c \in Coords, MetaLock(c)
      PROVE  TypeOK'
  <2> USE <1>1 DEF MetaLock
  <2>1. lock' \in SUBSET Coords
    OBVIOUS
  <2>2. faults' \in Nat
    BY FaultType
  <2>3. pc' \in [Coords -> Steps]
    BY DEF Goto, Steps
  <2>4. req' \in [Coords -> Request]
    BY NoRequestType DEF Set
  <2>5. reply' \in [Coords -> {"none", "SUCCESS", "FAIL"}]
    OBVIOUS
  <2>6. UNCHANGED <<meta, files, prio, node, stale, gbids, work>>
    BY DEF nodeVars
  <2> QED
    BY <2>1, <2>2, <2>3, <2>4, <2>5, <2>6
<1>2. ASSUME NEW c \in Coords, MetaUnlock(c)
      PROVE  TypeOK'
  <2> USE <1>2 DEF MetaUnlock, DeleteFormatResponse
  <2>1. lock' \in SUBSET Coords
    OBVIOUS
  <2>2. faults' \in Nat
    BY FaultType
  <2>3. pc' \in [Coords -> Steps]
    BY DEF Goto, Steps
  <2>4. req' \in [Coords -> Request]
    BY NoRequestType, ErrType DEF Set
  <2>5. reply' \in [Coords -> {"none", "SUCCESS", "FAIL"}]
    OBVIOUS
  <2>6. UNCHANGED <<meta, files, prio, node, stale, gbids, work>>
    BY DEF nodeVars
  <2> QED
    BY <2>1, <2>2, <2>3, <2>4, <2>5, <2>6
<1>3. ASSUME NEW c \in Coords, CreateExists(c)
      PROVE  TypeOK'
  <2> USE <1>3 DEF CreateExists
  <2>1. /\ pc' \in [Coords -> Steps]
        /\ req' \in [Coords -> Request]
    BY FailsType DEF Goto, Steps
  <2>2. UNCHANGED <<lock, meta, files, prio, node, stale,
                   gbids, faults, work, reply>>
    BY DEF volumeVars, nodeVars
  <2> QED
    BY <2>1, <2>2
<1>4. ASSUME NEW c \in Coords, CreateMeta(c)
      PROVE  TypeOK'
  <2> USE <1>4 DEF CreateMeta
  <2>1. meta' \in Meta
    <3>1. ASSUME NEW p \in SUBSET Hosts
          PROVE  FirstLines(p) \in Meta
      BY <3>1 DEF FirstLines, Meta, EntryStatus
    <3>2. PICK p \in SUBSET Hosts :
            meta' \in {meta, [meta EXCEPT !.exists = TRUE], FirstLines(p)}
      BY PrioPathType DEF GB_METAUPDATE_OR_GOTO
    <3> QED
      BY <3>1, <3>2, ExistsType
  <2>2. gbids' \in Nat
    OBVIOUS
  <2>3. faults' \in Nat
    BY FaultType DEF GB_METAUPDATE_OR_GOTO
  <2>4. /\ pc' \in [Coords -> Steps]
        /\ req' \in [Coords -> Request]
    <3>1. PICK p \in SUBSET Hosts :
            \/ Set(c, [req[c] EXCEPT !.prio = p]) /\ Goto(c, "entry")
            \/ Fails(c)
      BY PrioPathType DEF GB_METAUPDATE_OR_GOTO
    <3>2. [req[c] EXCEPT !.prio = p] \in Request
      BY PrioType
    <3> HIDE <1>4 DEF CreateMeta
    <3>3. CASE Set(c, [req[c] EXCEPT !.prio = p]) /\ Goto(c, "entry")
      BY <3>2, <3>3 DEF Set, Goto, Steps
    <3>4. CASE Fails(c)
      BY <3>4, FailsType
    <3> QED
      BY <3>1, <3>3, <3>4
  <2>5. UNCHANGED <<lock, files, prio, node, stale, work, reply>>
    BY DEF nodeVars
  <2> QED
    BY <2>1, <2>2, <2>3, <2>4, <2>5
<1>5. ASSUME NEW c \in Coords, CreateEntry(c)
      PROVE  TypeOK'
  <2> USE <1>5 DEF CreateEntry
  <2>1. files' \in SUBSET Nat
    BY DEF Meta
  <2>2. meta' \in Meta
    BY NoMetaType
  <2>3. faults' \in Nat
    BY FaultType
  <2>4. /\ pc' \in [Coords -> Steps]
        /\ req' \in [Coords -> Request]
    BY FailsType DEF Goto, Steps
  <2>5. UNCHANGED <<lock, prio, node, stale, gbids, work, reply>>
    BY DEF nodeVars
  <2> QED
    BY <2>1, <2>2, <2>3, <2>4, <2>5
<1>6. ASSUME NEW c \in Coords, CreateSize(c)
      PROVE  TypeOK'
  <2> USE <1>6 DEF CreateSize
  <2>1. [meta EXCEPT !.entry = "SUCCESS"] \in Meta
    BY DEF Meta, EntryStatus
  <2>2. meta' \in Meta
    BY <2>1, ExistsType DEF GB_METAUPDATE_OR_GOTO
  <2>3. faults' \in Nat
    BY FaultType DEF GB_METAUPDATE_OR_GOTO
  <2>4. /\ pc' \in [Coords -> Steps]
        /\ req' \in [Coords -> Request]
    BY FailsType DEF GB_METAUPDATE_OR_GOTO, Goto, Steps
  <2>5. UNCHANGED <<lock, files, prio, node, stale, gbids, work, reply>>
    BY DEF volumeVars, nodeVars
  <2> QED
    BY <2>1, <2>2, <2>3, <2>4, <2>5
<1>7. ASSUME NEW c \in Coords, CreatePassword(c)
      PROVE  TypeOK'
  <2> USE <1>7 DEF CreatePassword
  <2>1. meta' \in Meta
    BY ExistsType DEF GB_METAUPDATE_OR_GOTO
  <2>2. faults' \in Nat
    BY FaultType DEF GB_METAUPDATE_OR_GOTO
  <2>3. /\ pc' \in [Coords -> Steps]
        /\ req' \in [Coords -> Request]
    BY FailsType DEF GB_METAUPDATE_OR_GOTO, Goto, Steps
  <2>4. UNCHANGED <<lock, files, prio, node, stale, gbids, work, reply>>
    BY DEF volumeVars, nodeVars
  <2> QED
    BY <2>1, <2>2, <2>3, <2>4
<1>8. ASSUME NEW c \in Coords, CreateRemoteAsync(c)
      PROVE  TypeOK'
  <2> USE <1>8 DEF CreateRemoteAsync
  <2>1. work' \in [Coords -> [Keys -> WorkSteps]]
    BY DEF WorkSteps
  <2>2. pc' \in [Coords -> Steps]
    BY DEF Goto, Steps
  <2>3. UNCHANGED <<lock, meta, files, prio, node, stale,
                   gbids, faults, req, reply>>
    BY DEF volumeVars, nodeVars
  <2> QED
    BY <2>1, <2>2, <2>3
<1>9. ASSUME NEW c \in Coords, AuditRequest(c)
      PROVE  TypeOK'
  <2> USE <1>9 DEF AuditRequest
  <2>1. work' \in [Coords -> [Keys -> WorkSteps]]
    BY DEF NoWork, WorkSteps
  <2>2. faults' \in Nat
    BY FaultType
  <2>3. pc' \in [Coords -> Steps]
    BY DEF Goto, Steps
  <2>4. req' \in [Coords -> Request]
    <3>1. [req[c] EXCEPT !.err = TRUE] \in Request
      BY ErrType
    <3> QED
      BY <3>1 DEF Set
  <2>5. UNCHANGED <<lock, meta, files, prio, node, stale, gbids, reply>>
    BY DEF volumeVars, nodeVars
  <2> QED
    BY <2>1, <2>2, <2>3, <2>4, <2>5
<1>10. ASSUME NEW c \in Coords, CreateFormatResponse(c)
      PROVE  TypeOK'
  <2> USE <1>10 DEF CreateFormatResponse
  <2>1. faults' \in Nat
    BY FaultType
  <2>2. pc' \in [Coords -> Steps]
    BY DEF Goto, Steps
  <2>3. req' \in [Coords -> Request]
    BY NoRequestType DEF Set
  <2>4. reply' \in [Coords -> {"none", "SUCCESS", "FAIL"}]
    OBVIOUS
  <2>5. UNCHANGED <<lock, meta, files, prio, node, stale, gbids, work>>
    BY DEF volumeVars, nodeVars
  <2> QED
    BY <2>1, <2>2, <2>3, <2>4, <2>5
<1>11. ASSUME NEW c \in Coords, DeleteAccess(c)
      PROVE  TypeOK'
  <2> USE <1>11 DEF DeleteAccess
  <2>1. faults' \in Nat
    BY FaultType
  <2>2. meta.prio \in SUBSET Hosts
    BY DEF Meta
  <2>3. /\ pc' \in [Coords -> Steps]
        /\ req' \in [Coords -> Request]
    <3>1. [req[c] EXCEPT !.prio = meta.prio] \in Request
      BY <2>2, PrioType
    <3> QED
      BY <3>1, FailsType DEF Set, Goto, Steps
  <2>4. UNCHANGED <<lock, meta, files, prio, node, stale, gbids, work, reply>>
    BY DEF volumeVars, nodeVars
  <2> QED
    BY <2>1, <2>2, <2>3, <2>4
<1>12. ASSUME NEW c \in Coords, CleanUp(c)
      PROVE  TypeOK'
  <2> USE <1>12 DEF CleanUp
  <2>1. work' \in [Coords -> [Keys -> WorkSteps]]
    BY DEF WorkSteps, CleanUpReturn
  <2>2. faults' \in Nat
    BY FaultType
  <2>3. /\ pc' \in [Coords -> Steps]
        /\ req' \in [Coords -> Request]
    BY ReturnType DEF Goto, Steps
  <2>4. UNCHANGED <<lock, meta, files, prio, node, stale, gbids, reply>>
    BY DEF volumeVars, nodeVars
  <2> QED
    BY <2>1, <2>2, <2>3, <2>4
<1>13. ASSUME NEW c \in Coords, DeleteCollect(c)
      PROVE  TypeOK'
  <2> USE <1>13 DEF DeleteCollect
  <2>1. work' \in [Coords -> [Keys -> WorkSteps]]
    BY DEF NoWork, WorkSteps
  <2>2. /\ faults' \in Nat
        /\ pc' \in [Coords -> Steps]
        /\ req' \in [Coords -> Request]
    <3>1. PICK bad \in BOOLEAN :
            /\ \/ NoFault
               \/ Fault("read")
            /\ LET r == [req[c] EXCEPT !.asyncret = bad] IN
               \/ Set(c, r) /\ Goto(c, "edelete")
               \/ CleanUpReturn(c, r, FALSE)
      BY DEF DeleteCollect
    <3>2. [req[c] EXCEPT !.asyncret = bad] \in Request
      BY AsyncType
    <3>3. faults' \in Nat
      BY <3>1, FaultType
    <3> DEFINE r == [req[c] EXCEPT !.asyncret = bad]
    <3>4. \/ Set(c, r) /\ Goto(c, "edelete")
          \/ CleanUpReturn(c, r, FALSE)
      BY <3>1
    <3> HIDE <1>13 DEF r, DeleteCollect
    <3>5. pc' \in [Coords -> Steps] /\ req' \in [Coords -> Request]
      BY <3>2, <3>4, ReturnType DEF Set, Goto, Steps, r
    <3> QED
      BY <3>3, <3>5
  <2>3. UNCHANGED <<lock, meta, files, prio, node, stale, gbids, reply>>
    BY DEF volumeVars, nodeVars
  <2> QED
    BY <2>1, <2>2, <2>3
<1>14. ASSUME NEW c \in Coords, EntryDelete(c)
      PROVE  TypeOK'
  <2> USE <1>14 DEF EntryDelete
  <2>1. HostLine(ENTRYDELETE, "INPROGRESS") \in Meta
    BY HostLineType, EntryKey
  <2>2. meta' \in Meta
    BY <2>1, ExistsType DEF GB_METAUPDATE_OR_GOTO
  <2>3. faults' \in Nat
    BY FaultType DEF GB_METAUPDATE_OR_GOTO
  <2>4. /\ pc' \in [Coords -> Steps]
        /\ req' \in [Coords -> Request]
    BY ReturnType DEF GB_METAUPDATE_OR_GOTO, Goto, Steps
  <2>5. UNCHANGED <<lock, files, prio, node, stale, gbids, work, reply>>
    BY DEF volumeVars, nodeVars
  <2> QED
    BY <2>1, <2>2, <2>3, <2>4, <2>5
<1>15. ASSUME NEW c \in Coords, DeleteEntry(c)
      PROVE  TypeOK'
  <2> USE <1>15 DEF DeleteEntry
  <2>1. files' \in SUBSET Nat
    OBVIOUS
  <2>2. faults' \in Nat
    BY FaultType
  <2>3. pc' \in [Coords -> Steps]
    BY DEF Goto, Steps
  <2>4. UNCHANGED <<lock, meta, prio, node, stale, gbids, req, work, reply>>
    BY DEF nodeVars
  <2> QED
    BY <2>1, <2>2, <2>3, <2>4
<1>16. ASSUME NEW c \in Coords, EntryDeleteFail(c)
      PROVE  TypeOK'
  <2> USE <1>16 DEF EntryDeleteFail
  <2>1. HostLine(ENTRYDELETE, "FAIL") \in Meta
    BY HostLineType, EntryKey
  <2>2. meta' \in Meta
    BY <2>1, ExistsType DEF GB_METAUPDATE_OR_GOTO
  <2>3. faults' \in Nat
    BY FaultType DEF GB_METAUPDATE_OR_GOTO
  <2>4. /\ pc' \in [Coords -> Steps]
        /\ req' \in [Coords -> Request]
    BY ReturnType DEF GB_METAUPDATE_OR_GOTO, Goto, Steps
  <2>5. UNCHANGED <<lock, files, prio, node, stale, gbids, work, reply>>
    BY DEF volumeVars, nodeVars
  <2> QED
    BY <2>1, <2>2, <2>3, <2>4, <2>5
<1>17. ASSUME NEW c \in Coords, EntryDeleteDone(c)
      PROVE  TypeOK'
  <2> USE <1>17 DEF EntryDeleteDone
  <2>1. HostLine(ENTRYDELETE, "SUCCESS") \in Meta
    BY HostLineType, EntryKey
  <2>2. meta' \in Meta
    BY <2>1, ExistsType DEF GB_METAUPDATE_OR_GOTO
  <2>3. faults' \in Nat
    BY FaultType DEF GB_METAUPDATE_OR_GOTO
  <2>4. /\ pc' \in [Coords -> Steps]
        /\ req' \in [Coords -> Request]
    BY ReturnType DEF GB_METAUPDATE_OR_GOTO, Goto, Steps
  <2>5. UNCHANGED <<lock, files, prio, node, stale, gbids, work, reply>>
    BY DEF volumeVars, nodeVars
  <2> QED
    BY <2>1, <2>2, <2>3, <2>4, <2>5
<1>18. ASSUME NEW c \in Coords, DeleteMetaFile(c)
      PROVE  TypeOK'
  <2> USE <1>18 DEF DeleteMetaFile
  <2>1. meta' \in Meta
    BY NoMetaType
  <2>2. faults' \in Nat
    BY FaultType
  <2>3. /\ pc' \in [Coords -> Steps]
        /\ req' \in [Coords -> Request]
    BY ReturnType DEF Goto, Steps
  <2>4. UNCHANGED <<lock, files, prio, node, stale, gbids, work, reply>>
    BY DEF volumeVars, nodeVars
  <2> QED
    BY <2>1, <2>2, <2>3, <2>4
<1>19. ASSUME NEW c \in Coords, PrioAttr(c)
      PROVE  TypeOK'
  <2> USE <1>19 DEF PrioAttr
  <2>1. prio' \in [Hosts -> Nat]
    BY DEF blockPrioAttr
  <2>2. faults' \in Nat
    BY FaultType
  <2>3. pc' \in [Coords -> Steps]
    BY DEF Goto, Steps
  <2>4. UNCHANGED <<lock, meta, files, node, stale, gbids, req, work, reply>>
    BY DEF nodeVars
  <2> QED
    BY <2>1, <2>2, <2>3, <2>4
<1>20. ASSUME NEW c \in Coords, Crash(c)
      PROVE  TypeOK'
  <2> USE <1>20 DEF Crash
  <2>1. lock' \in SUBSET Coords
    OBVIOUS
  <2>2. stale' \in [Hosts -> SUBSET Call]
    BY CallOfType
  <2>3. faults' \in Nat
    BY DEF Fault
  <2>4. pc' \in [Coords -> Steps]
    BY DEF Goto, Steps
  <2>5. req' \in [Coords -> Request]
    BY NoRequestType DEF Set
  <2>6. work' \in [Coords -> [Keys -> WorkSteps]]
    BY DEF NoWork, WorkSteps
  <2>7. UNCHANGED <<meta, files, prio, node, gbids, reply>>
    OBVIOUS
  <2> QED
    BY <2>1, <2>2, <2>3, <2>4, <2>5, <2>6, <2>7
<1>21. ASSUME NEW c \in Coords, NEW k \in Keys, WorkerBegin(c, k)
      PROVE  TypeOK'
  <2> USE <1>21 DEF WorkerBegin
  <2>1. /\ HostLine(k, "CONFIGINPROGRESS") \in Meta
        /\ HostLine(k, "CLEANUPINPROGRESS") \in Meta
    BY HostLineType DEF KeyStatus, MetaStatus
  <2>2. meta' \in Meta
    BY <2>1, ExistsType DEF GB_METAUPDATE_OR_GOTO
  <2>3. faults' \in Nat
    BY FaultType DEF GB_METAUPDATE_OR_GOTO
  <2>4. work' \in [Coords -> [Keys -> WorkSteps]]
    BY ToType DEF GB_METAUPDATE_OR_GOTO, WorkSteps
  <2>5. UNCHANGED <<lock, files, prio, node, stale, gbids, pc, req, reply>>
    BY DEF volumeVars, nodeVars
  <2> QED
    BY <2>1, <2>2, <2>3, <2>4, <2>5
<1>22. ASSUME NEW c \in Coords, NEW k \in Keys, WorkerConnect(c, k)
      PROVE  TypeOK'
  <2> USE <1>22 DEF WorkerConnect
  <2>1. faults' \in Nat
    BY FaultType
  <2>2. work' \in [Coords -> [Keys -> WorkSteps]]
    BY ToType DEF WorkSteps
  <2>3. UNCHANGED <<lock, meta, files, prio, node, stale,
                   gbids, pc, req, reply>>
    BY DEF volumeVars, nodeVars
  <2> QED
    BY <2>1, <2>2, <2>3
<1>23. ASSUME NEW c \in Coords, NEW k \in Keys, WorkerResult(c, k)
      PROVE  TypeOK'
  <2> USE <1>23 DEF WorkerResult
  <2>1. HostLine(k, ResultLine(c, work[c][k])) \in Meta
    BY HostLineType, ResultLineType
  <2>2. meta' \in Meta
    BY <2>1, ExistsType DEF GB_METAUPDATE_OR_GOTO
  <2>3. faults' \in Nat
    BY FaultType DEF GB_METAUPDATE_OR_GOTO
  <2>4. work' \in [Coords -> [Keys -> WorkSteps]]
    BY ToType DEF GB_METAUPDATE_OR_GOTO, WorkSteps
  <2>5. UNCHANGED <<lock, files, prio, node, stale, gbids, pc, req, reply>>
    BY DEF volumeVars, nodeVars
  <2> QED
    BY <2>1, <2>2, <2>3, <2>4, <2>5
<1>24. ASSUME NEW c \in Coords, NEW k \in Keys, WorkerAuth(c, k)
      PROVE  TypeOK'
  <2> USE <1>24 DEF WorkerAuth
  <2>1. HostLine(k, "AUTHENFORCED") \in Meta
    BY HostLineType DEF KeyStatus, MetaStatus
  <2>2. meta' \in Meta
    BY <2>1, ExistsType DEF GB_METAUPDATE_OR_GOTO
  <2>3. faults' \in Nat
    BY FaultType DEF GB_METAUPDATE_OR_GOTO
  <2>4. work' \in [Coords -> [Keys -> WorkSteps]]
    BY ToType DEF GB_METAUPDATE_OR_GOTO, WorkSteps
  <2>5. UNCHANGED <<lock, files, prio, node, stale, gbids, pc, req, reply>>
    BY DEF volumeVars, nodeVars
  <2> QED
    BY <2>1, <2>2, <2>3, <2>4, <2>5
<1>25. ASSUME NEW c \in Coords, NEW h \in Hosts, RpcServed(c, h)
      PROVE  TypeOK'
  <2> USE <1>25 DEF RpcServed
  <2>1. h \in Keys
    BY DEF Keys
  <2>2. /\ node' \in [Hosts -> NodeState]
        /\ faults' \in Nat
    BY ServeType, CallOfType
  <2>3. work' \in [Coords -> [Keys -> WorkSteps]]
    BY <2>1, ToType DEF WorkSteps
  <2>4. UNCHANGED <<lock, meta, files, prio, stale, gbids, pc, req, reply>>
    BY DEF volumeVars
  <2> QED
    BY <2>1, <2>2, <2>3, <2>4
<1>26. ASSUME NEW c \in Coords, NEW h \in Hosts, RpcLost(c, h)
      PROVE  TypeOK'
  <2> USE <1>26 DEF RpcLost, Configured
  <2>1. h \in Keys
    BY DEF Keys
  <2>2. /\ [gbid |-> meta.gbid, loaded |-> TRUE] \in NodeState
        /\ NoConfig \in NodeState
    BY DEF Meta, NodeState, NoConfig
  <2>3. node' \in [Hosts -> NodeState]
    BY <2>2
  <2>4. faults' \in Nat
    BY DEF Fault
  <2>5. work' \in [Coords -> [Keys -> WorkSteps]]
    BY <2>1, ToType DEF WorkSteps
  <2>6. UNCHANGED <<lock, meta, files, prio, stale, gbids, pc, req, reply>>
    BY DEF volumeVars
  <2> QED
    BY <2>1, <2>2, <2>3, <2>4, <2>5, <2>6
<1>27. ASSUME NEW c \in Coords, NEW h \in Hosts, RpcTimeout(c, h)
      PROVE  TypeOK'
  <2> USE <1>27 DEF RpcTimeout
  <2>1. h \in Keys
    BY DEF Keys
  <2>2. stale' \in [Hosts -> SUBSET Call]
    BY CallOfType
  <2>3. faults' \in Nat
    BY DEF Fault
  <2>4. work' \in [Coords -> [Keys -> WorkSteps]]
    BY <2>1, ToType DEF WorkSteps
  <2>5. UNCHANGED <<lock, meta, files, prio, node, gbids, pc, req, reply>>
    BY DEF volumeVars
  <2> QED
    BY <2>1, <2>2, <2>3, <2>4, <2>5
<1>28. ASSUME NEW h \in Hosts, ServeStale(h)
      PROVE  TypeOK'
  <2> USE <1>28 DEF ServeStale
  <2>1. stale' \in [Hosts -> SUBSET Call]
    OBVIOUS
  <2>2. /\ node' \in [Hosts -> NodeState]
        /\ faults' \in Nat
    BY ServeType
  <2>3. UNCHANGED <<lock, meta, files, prio, gbids, pc, req, work, reply>>
    BY DEF volumeVars
  <2> QED
    BY <2>1, <2>2, <2>3
<1>29. ASSUME NEW h \in Hosts, Unload(h)
      PROVE  TypeOK'
  <2> USE <1>29 DEF Unload
  <2>1. node' \in [Hosts -> NodeState]
    BY DEF NodeState
  <2>2. faults' \in Nat
    BY DEF Fault
  <2>3. UNCHANGED <<lock, meta, files, prio, stale, gbids,
                   pc, req, work, reply>>
    BY DEF volumeVars
  <2> QED
    BY <2>1, <2>2, <2>3
<1>30. ASSUME NEW h \in Hosts, Restore(h)
      PROVE  TypeOK'
  <2> USE <1>30 DEF Restore
  <2>1. node' \in [Hosts -> NodeState]
    BY DEF NodeState
  <2>2. UNCHANGED <<lock, meta, files, prio, stale, gbids,
                   faults, pc, req, work, reply>>
    BY DEF volumeVars
  <2> QED
    BY <2>1, <2>2
<1>31. ASSUME NEW c \in Coords, NEW r \in Request, Accept(c, r)
      PROVE  TypeOK'
  <2> USE <1>31 DEF Accept
  <2>1. pc' \in [Coords -> Steps]
    BY DEF Goto, Steps
  <2>2. req' \in [Coords -> Request]
    BY DEF Set
  <2>3. UNCHANGED <<lock, meta, files, prio, node, stale, gbids, faults, work>>
    BY DEF volumeVars, nodeVars
  <2> QED
    BY <2>1, <2>2, <2>3
<1>32. ASSUME NEW c \in Coords, CreateRequest(c)
      PROVE  TypeOK'
  BY <1>31, <1>32, ArgsAssumption DEF CreateRequest, Request, NoRequest
<1>33. ASSUME NEW c \in Coords, DeleteRequest(c)
      PROVE  TypeOK'
  BY <1>31, <1>33, ArgsAssumption DEF DeleteRequest, Request, NoRequest
<1> QED
  BY <1>1, <1>2, <1>3, <1>4, <1>5, <1>6, <1>7, <1>8, <1>9,
     <1>10, <1>11, <1>12, <1>13, <1>14, <1>15, <1>16, <1>17, <1>18,
     <1>19, <1>20, <1>21, <1>22, <1>23, <1>24, <1>25, <1>26, <1>27,
     <1>28, <1>29, <1>30, <1>32, <1>33
     DEF Next, Handler, CreateSteps, CleanUpSteps, Worker, Rpc

\* Every variable keeps its type: no handler, thread, daemon or fault puts the
\* journal, a counter or a thread into a state the code has no case for.
THEOREM Typing == Spec => []TypeOK
<1>1. TypeOK /\ UNCHANGED vars => TypeOK'
  BY DEF TypeOK, vars
<1> QED
  BY <1>1, TypeInit, TypeNext, PTL DEF Spec

-----------------------------------------------------------------------------
(***************************************************************************)
(* The lock, the threads and the file.                                     *)
(***************************************************************************)

\* A handler that moves inside its critical section, leaves it and
\* unlocks, or takes the free lock, keeps mutual exclusion.
LEMMA LockStep ==
    ASSUME TypeOK, MutualExclusion, NEW c \in Coords, NEW s,
           pc' = [pc EXCEPT ![c] = s],
           \/ lock' = lock /\ (s \in Critical => pc[c] \in Critical)
           \/ lock' = lock \ {c} /\ s \notin Critical
           \/ lock = {} /\ lock' = {c}
    PROVE  MutualExclusion'
<1> SUFFICES ASSUME NEW d \in Coords, pc'[d] \in Critical
             PROVE  lock' = {d}
  BY DEF MutualExclusion
<1>1. CASE d = c
  BY <1>1 DEF TypeOK, MutualExclusion
<1>2. CASE d # c
  <2>1. pc[d] \in Critical /\ lock = {d}
    BY <1>2 DEF TypeOK, MutualExclusion
  <2> QED
    BY <1>2, <2>1 DEF TypeOK, MutualExclusion
<1> QED
  BY <1>1, <1>2

\* So does a step that touches neither lock nor handler.
LEMMA LockKept ==
    ASSUME MutualExclusion, UNCHANGED <<lock, pc>>
    PROVE  MutualExclusion'
BY DEF MutualExclusion

\* Mutual exclusion is inductive: GB_METALOCK_OR_GOTO to GB_METAUNLOCK.
LEMMA LockNext == ASSUME TypeOK, MutualExclusion, Next PROVE MutualExclusion'
<1> USE DEF Critical, Steps, Goto, GB_METAUPDATE_OR_GOTO, volumeVars, nodeVars
<1>1. ASSUME NEW c \in Coords, NEW r, Accept(c, r) PROVE MutualExclusion'
  BY <1>1, LockStep DEF Accept
<1>2. ASSUME NEW c \in Coords, MetaLock(c) PROVE MutualExclusion'
  BY <1>2, LockStep DEF MetaLock
<1>3. ASSUME NEW c \in Coords, MetaUnlock(c) PROVE MutualExclusion'
  BY <1>3, LockStep DEF MetaUnlock
<1>4. ASSUME NEW c \in Coords, CreateSteps(c) PROVE MutualExclusion'
  BY <1>4, LockStep
     DEF CreateSteps, CreateStep, CreateExists, CreateMeta, CreateEntry,
         CreateSize,
         CreatePassword, CreateRemoteAsync, AuditRequest,
         CreateFormatResponse, Fails
<1>5. ASSUME NEW c \in Coords, DeleteAccess(c) PROVE MutualExclusion'
  BY <1>5, LockStep DEF DeleteAccess, Fails
<1>6. ASSUME NEW c \in Coords, CleanUpSteps(c) PROVE MutualExclusion'
  BY <1>6, LockStep
     DEF CleanUpSteps, CleanUp, DeleteCollect, EntryDelete, DeleteEntry,
         EntryDeleteFail, EntryDeleteDone, DeleteMetaFile, CleanUpReturn
<1>7. ASSUME NEW c \in Coords, PrioAttr(c) PROVE MutualExclusion'
  BY <1>7, LockStep DEF PrioAttr
<1>8. ASSUME NEW c \in Coords, Crash(c) PROVE MutualExclusion'
  BY <1>8, LockStep DEF Crash
<1>9. ASSUME NEW c \in Coords, NEW k \in Keys, Worker(c, k)
      PROVE  MutualExclusion'
  BY <1>9, LockKept
     DEF Worker, WorkerBegin, WorkerConnect, WorkerResult, WorkerAuth
<1>10. ASSUME NEW c \in Coords, NEW h \in Hosts, Rpc(c, h)
       PROVE  MutualExclusion'
  BY <1>10, LockKept DEF Rpc, RpcServed, RpcLost, RpcTimeout
<1>11. ASSUME NEW h \in Hosts, ServeStale(h) \/ Unload(h) \/ Restore(h)
       PROVE  MutualExclusion'
  BY <1>11, LockKept DEF ServeStale, Unload, Restore
<1> QED
  BY <1>1, <1>2, <1>3, <1>4, <1>5, <1>6, <1>7, <1>8, <1>9, <1>10, <1>11
  DEF Next, Handler, CreateRequest, DeleteRequest

-----------------------------------------------------------------------------
\* A handler that joins its threads, starts some, or moves while none
\* runs, leaves no thread behind.
LEMMA IdleStep ==
    ASSUME TypeOK, WorkIdle, NEW c \in Coords, NEW s,
           pc' = [pc EXCEPT ![c] = s],
           \/ work' = [work EXCEPT ![c] = NoWork]
           \/ s \in Calling /\ \E w : work' = [work EXCEPT ![c] = w]
           \/ work' = work /\ pc[c] \notin Calling
    PROVE  WorkIdle'
<1> SUFFICES ASSUME NEW d \in Coords, NEW k \in Keys, pc'[d] \notin Calling
             PROVE  work'[d][k] = "none"
  BY DEF WorkIdle
<1>1. CASE d = c
  BY <1>1 DEF TypeOK, WorkIdle, NoWork
<1>2. CASE d # c
  <2>1. pc'[d] = pc[d] /\ work'[d] = work[d]
    BY <1>2 DEF TypeOK
  <2> QED
    BY <1>2, <2>1 DEF WorkIdle
<1> QED
  BY <1>1, <1>2

\* A thread that is under way belongs to a handler that waits for it.
LEMMA Busy ==
    ASSUME WorkIdle, NEW c \in Coords, NEW k \in Keys, work[c][k] # "none"
    PROVE  pc[c] \in Calling
BY DEF WorkIdle

\* The step of a thread belongs to a handler that waits for it.
LEMMA IdleThread ==
    ASSUME TypeOK, WorkIdle, NEW c \in Coords, NEW k \in Keys, NEW s,
           work[c][k] # "none", pc' = pc, To(c, k, s)
    PROVE  WorkIdle'
<1>1. pc[c] \in Calling
  BY Busy
<1> QED
  BY <1>1 DEF WorkIdle, TypeOK, To

\* Threads run only while their handler waits in pthread_join.
LEMMA IdleNext == ASSUME TypeOK, WorkIdle, Next PROVE WorkIdle'
<1> USE DEF Calling, Goto, GB_METAUPDATE_OR_GOTO, volumeVars, nodeVars
<1>1. ASSUME NEW c \in Coords, NEW r, Accept(c, r)
      PROVE  WorkIdle'
  BY <1>1, IdleStep DEF Accept
<1>2. ASSUME NEW c \in Coords, MetaLock(c)
      PROVE  WorkIdle'
  BY <1>2, IdleStep DEF MetaLock
<1>3. ASSUME NEW c \in Coords, MetaUnlock(c)
      PROVE  WorkIdle'
  BY <1>3, IdleStep DEF MetaUnlock
<1>4. ASSUME NEW c \in Coords, CreateSteps(c)
      PROVE  WorkIdle'
  BY <1>4, IdleStep
     DEF CreateSteps, CreateStep, CreateExists, CreateMeta, CreateEntry,
         CreateSize, CreatePassword, CreateRemoteAsync, AuditRequest,
         CreateFormatResponse, Fails
<1>5. ASSUME NEW c \in Coords, DeleteAccess(c)
      PROVE  WorkIdle'
  BY <1>5, IdleStep DEF DeleteAccess, Fails
<1>6. ASSUME NEW c \in Coords, CleanUp(c)
      PROVE  WorkIdle'
  <2> DEFINE w == [k \in Keys |-> IF k \in DeleteFillArgs THEN "begin"
                                  ELSE "none"]
  <2>1. DeleteFillArgs = {} => w = NoWork
    BY DEF NoWork
  <2>2. /\ pc[c] = "cleanup"
        /\ \/ /\ work' = [work EXCEPT ![c] = w]
              /\ pc' = [pc EXCEPT ![c] = IF DeleteFillArgs = {} THEN "edelete"
                                         ELSE "collect"]
           \/ work' = work /\ CleanUpReturn(c, req[c], TRUE)
    BY <1>6 DEF CleanUp
  <2> HIDE DEF w
  <2> QED
    BY <2>1, <2>2, IdleStep DEF CleanUpReturn
<1>7. ASSUME NEW c \in Coords, DeleteCollect(c)
      PROVE  WorkIdle'
  BY <1>7, IdleStep DEF DeleteCollect, CleanUpReturn
<1>8. ASSUME NEW c \in Coords,
             \/ EntryDelete(c) \/ DeleteEntry(c) \/ EntryDeleteFail(c)
             \/ EntryDeleteDone(c) \/ DeleteMetaFile(c) \/ PrioAttr(c)
      PROVE  WorkIdle'
  BY <1>8, IdleStep
     DEF EntryDelete, DeleteEntry, EntryDeleteFail, EntryDeleteDone,
         DeleteMetaFile, PrioAttr, CleanUpReturn
<1>9. ASSUME NEW c \in Coords, Crash(c)
      PROVE  WorkIdle'
  BY <1>9, IdleStep DEF Crash
<1>10. ASSUME NEW c \in Coords, NEW k \in Keys, Worker(c, k)
       PROVE  WorkIdle'
  BY <1>10, IdleThread
     DEF Worker, WorkerBegin, WorkerConnect, WorkerResult, WorkerAuth
<1>11. ASSUME NEW c \in Coords, NEW h \in Hosts, Rpc(c, h)
       PROVE  WorkIdle'
  BY <1>11, IdleThread DEF Rpc, RpcServed, RpcLost, RpcTimeout, Keys
<1>12. ASSUME NEW h \in Hosts, ServeStale(h) \/ Unload(h) \/ Restore(h)
       PROVE  WorkIdle'
  BY <1>12 DEF ServeStale, Unload, Restore, WorkIdle
<1> QED
  BY <1>1, <1>2, <1>3, <1>4, <1>5, <1>6, <1>7, <1>8, <1>9, <1>10, <1>11, <1>12
     DEF Next, Handler, CleanUpSteps, CreateRequest, DeleteRequest

-----------------------------------------------------------------------------
\* Whoever is between lock and unlock is there alone.
LEMMA Alone ==
    ASSUME MutualExclusion, NEW c \in Coords, pc[c] \in Critical,
           NEW d \in Coords, pc[d] \in Critical
    PROVE  c = d
BY DEF MutualExclusion

EntryKept ==
    /\ meta'.entry = meta.entry
    /\ meta'.gbid = meta.gbid
    /\ meta.status[ENTRYDELETE] # NoLine =>
             meta'.status[ENTRYDELETE] # NoLine
    /\ files \subseteq files'
    /\ \A d \in Coords : pc'[d] \in {"size", "unlink"} => pc'[d] = pc[d]

\* A step that leaves journal, file and those handlers alone.
LEMMA EntryStays ==
    ASSUME EntryInv, EntryKept
    PROVE  EntryInv'
BY DEF EntryInv, EntryBracket, EntrySound, EntryKept

\* A line about key k leaves the rest of the journal as it was.
LEMMA LineKept ==
    ASSUME meta \in Meta, NEW k \in Keys, NEW s \in KeyStatus,
           meta' \in {meta, [meta EXCEPT !.exists = TRUE], HostLine(k, s)}
    PROVE  /\ meta'.gbid = meta.gbid
           /\ meta'.entry = meta.entry
           /\ meta.exists => meta'.exists
           /\ \A l \in Keys : l # k => meta'.status[l] = meta.status[l]
           /\ meta'.status[k] \in {meta.status[k], s}
           /\ meta'.status[k] = s => (meta'.exists \/ meta' = meta)
           /\ meta' = HostLine(k, s) => meta'.exists /\ meta'.status[k] = s
BY DEF HostLine, Meta

\* glusterBlockCreateEntry comes before ENTRYCREATE: SUCCESS, and
\* glusterBlockDeleteEntry after ENTRYDELETE: INPROGRESS, at every step.
LEMMA EntryNext ==
    ASSUME TypeOK, MutualExclusion, EntryInv, Next
    PROVE  EntryInv'
<1> USE DEF Goto, GB_METAUPDATE_OR_GOTO, volumeVars, nodeVars
<1>1. ASSUME NEW c \in Coords, NEW r, Accept(c, r)
      PROVE  EntryInv'
  BY <1>1, EntryStays DEF Accept, EntryKept, TypeOK
<1>2. ASSUME NEW c \in Coords, MetaLock(c) \/ MetaUnlock(c) \/ PrioAttr(c)
      PROVE  EntryInv'
  BY <1>2, EntryStays DEF MetaLock, MetaUnlock, PrioAttr, EntryKept, TypeOK
<1>3. ASSUME NEW c \in Coords,
             \/ CreateExists(c) \/ CreatePassword(c) \/ CreateRemoteAsync(c)
             \/ AuditRequest(c) \/ CreateFormatResponse(c) \/ DeleteAccess(c)
      PROVE  EntryInv'
  BY <1>3, EntryStays
     DEF CreateExists, CreatePassword, CreateRemoteAsync, AuditRequest,
         CreateFormatResponse, DeleteAccess, Fails, EntryKept, TypeOK, Meta
<1>4. ASSUME NEW c \in Coords, CreateMeta(c)
      PROVE  EntryInv'
  <2>1. pc[c] \in Critical /\ pc'[c] \notin {"size", "unlink"}
    BY <1>4 DEF CreateMeta, CreateStep, Critical, Steps, Fails, TypeOK
  <2>2. \A d \in Coords : pc'[d] \notin {"size", "unlink"}
    BY <1>4, <2>1, Alone
       DEF CreateMeta, CreateStep, Critical, Steps, Fails, TypeOK
  <2>3. \/ meta' \in {meta, [meta EXCEPT !.exists = TRUE]}
        \/ meta'.entry = "INPROGRESS"
    BY <1>4 DEF CreateMeta, FirstLines
  <2> QED
    BY <1>4, <2>2, <2>3
       DEF EntryInv, EntryBracket, EntrySound, CreateMeta, Meta, TypeOK
<1>5. ASSUME NEW c \in Coords, CreateEntry(c)
      PROVE  EntryInv'
  <2>1. pc[c] \in Critical /\ pc'[c] # "unlink"
    BY <1>5 DEF CreateEntry, CreateStep, Critical, Steps, Fails, TypeOK
  <2>2. \A d \in Coords : d # c => pc'[d] \notin {"size", "unlink"}
    BY <1>5, <2>1, Alone
       DEF CreateEntry, CreateStep, Critical, Steps, Fails, TypeOK
  <2>3. pc'[c] = "size" => meta' = meta /\ meta.gbid \in files'
    BY <1>5 DEF CreateEntry, Fails, TypeOK
  <2>4. files \subseteq files' /\ (meta' = meta \/ meta'.entry = NoLine)
    BY <1>5 DEF CreateEntry, NoMeta
  <2> QED
    BY <2>1, <2>2, <2>3, <2>4
       DEF EntryInv, EntryBracket, EntrySound, NoLine
<1>6. ASSUME NEW c \in Coords, CreateSize(c)
      PROVE  EntryInv'
  <2>1. meta.gbid \in files
    BY <1>6 DEF CreateSize, CreateStep, EntryInv, EntryBracket
  <2>2. meta'.gbid = meta.gbid /\ meta'.status = meta.status /\ files' = files
    BY <1>6 DEF CreateSize, Meta, TypeOK
  <2>3. \A d \in Coords : pc'[d] \in {"size", "unlink"} => pc'[d] = pc[d]
    BY <1>6 DEF CreateSize, Fails, TypeOK
  <2> QED
    BY <2>1, <2>2, <2>3 DEF EntryInv, EntryBracket, EntrySound
<1>7. ASSUME NEW c \in Coords, CleanUp(c) \/ DeleteCollect(c)
      PROVE  EntryInv'
  BY <1>7, EntryStays
     DEF CleanUp, DeleteCollect, CleanUpReturn, EntryKept, TypeOK
<1>8. ASSUME NEW c \in Coords, EntryDelete(c)
      PROVE  EntryInv'
  <2>1. /\ meta'.gbid = meta.gbid /\ meta'.entry = meta.entry /\ files' = files
        /\ meta'.status[ENTRYDELETE] \in
             {meta.status[ENTRYDELETE], "INPROGRESS"}
    BY <1>8, LineKept, EntryKey DEF EntryDelete, TypeOK
  <2>2. pc'[c] = "unlink" => meta'.status[ENTRYDELETE] = "INPROGRESS"
    BY <1>8, LineKept, EntryKey DEF EntryDelete, CleanUpReturn, TypeOK
  <2>3. pc'[c] # "size" /\ \A d \in Coords : d # c => pc'[d] = pc[d]
    BY <1>8 DEF EntryDelete, CleanUpReturn, TypeOK
  <2> QED
    BY <2>1, <2>2, <2>3 DEF EntryInv, EntryBracket, EntrySound, NoLine
<1>9. ASSUME NEW c \in Coords, DeleteEntry(c)
      PROVE  EntryInv'
  <2>1. meta' = meta /\ meta.status[ENTRYDELETE] # NoLine
    BY <1>9 DEF DeleteEntry, EntryInv, EntryBracket
  <2>2. \A d \in Coords : pc'[d] \notin {"size", "unlink"}
    BY <1>9, Alone DEF DeleteEntry, Critical, Steps, TypeOK
  <2> QED
    BY <2>1, <2>2 DEF EntryInv, EntryBracket, EntrySound
<1>10. ASSUME NEW c \in Coords, EntryDeleteFail(c) \/ EntryDeleteDone(c)
       PROVE  EntryInv'
  <2>1. \E s \in EntryStatus :
          meta' \in {meta, [meta EXCEPT !.exists = TRUE],
                     HostLine(ENTRYDELETE, s)}
    BY <1>10 DEF EntryDeleteFail, EntryDeleteDone, EntryStatus
  <2>2. /\ meta'.gbid = meta.gbid /\ meta'.entry = meta.entry
        /\ meta.status[ENTRYDELETE] # NoLine =>
             meta'.status[ENTRYDELETE] # NoLine
    BY <2>1, LineKept, EntryKey DEF TypeOK, EntryStatus, NoLine
  <2>3. /\ \A d \in Coords : pc'[d] \in {"size", "unlink"} => pc'[d] = pc[d]
        /\ files' = files
    BY <1>10 DEF EntryDeleteFail, EntryDeleteDone, CleanUpReturn, TypeOK
  <2> QED
    BY <2>2, <2>3, EntryStays DEF EntryKept
<1>11. ASSUME NEW c \in Coords, DeleteMetaFile(c)
       PROVE  EntryInv'
  <2>1. files' = files /\ (meta' = meta \/ meta'.entry = NoLine)
    BY <1>11 DEF DeleteMetaFile, CleanUpReturn, NoMeta
  <2>2. \A d \in Coords : pc'[d] \notin {"size", "unlink"}
    BY <1>11, Alone DEF DeleteMetaFile, CleanUpReturn, Critical, Steps, TypeOK
  <2> QED
    BY <2>1, <2>2 DEF EntryInv, EntryBracket, EntrySound, NoLine
<1>12. ASSUME NEW c \in Coords, NEW k \in Keys, Worker(c, k)
       PROVE  EntryInv'
  <2>1. \E s \in KeyStatus \ {NoLine} :
          meta' \in {meta, [meta EXCEPT !.exists = TRUE], HostLine(k, s)}
    BY <1>12
       DEF Worker, WorkerBegin, WorkerConnect, WorkerResult, WorkerAuth,
           ResultLine, Job, KeyStatus, MetaStatus, NoLine
  <2>2. /\ meta'.gbid = meta.gbid /\ meta'.entry = meta.entry
        /\ meta.status[ENTRYDELETE] # NoLine =>
             meta'.status[ENTRYDELETE] # NoLine
    BY <2>1, LineKept, EntryKey DEF TypeOK
  <2>3. UNCHANGED <<pc, files>>
    BY <1>12 DEF Worker, WorkerBegin, WorkerConnect, WorkerResult, WorkerAuth
  <2> QED
    BY <2>2, <2>3, EntryStays DEF EntryKept
<1>13. ASSUME NEW c \in Coords, NEW h \in Hosts, Rpc(c, h)
       PROVE  EntryInv'
  BY <1>13, EntryStays DEF Rpc, RpcServed, RpcLost, RpcTimeout, EntryKept
<1>14. ASSUME NEW c \in Coords, Crash(c)
       PROVE  EntryInv'
  BY <1>14, EntryStays DEF Crash, EntryKept, TypeOK
<1>15. ASSUME NEW h \in Hosts, ServeStale(h) \/ Unload(h) \/ Restore(h)
       PROVE  EntryInv'
  BY <1>15, EntryStays DEF ServeStale, Unload, Restore, EntryKept
<1> QED
  BY <1>1, <1>2, <1>3, <1>4, <1>5, <1>6, <1>7, <1>8, <1>9, <1>10, <1>11, <1>12,
     <1>13, <1>14, <1>15
     DEF Next, Handler, CreateSteps, CleanUpSteps, CreateRequest, DeleteRequest

-----------------------------------------------------------------------------
(***************************************************************************)
(* Frames.                                                                 *)
(***************************************************************************)

\* Nothing HostInv(h) and ThreadInv(c, h) read at host h has changed.
HostSame(h) ==
    /\ meta'.gbid = meta.gbid
    /\ meta.exists => meta'.exists
    /\ meta'.status[h] = meta.status[h]
    /\ node'[h].gbid = node[h].gbid
    /\ stale'[h] = stale[h]

\* The GBIDs are numbers, so that they can be compared.
LEMMA GbidTypes ==
    ASSUME TypeOK
    PROVE  /\ meta.gbid \in Nat /\ gbids \in Nat
           /\ \A h \in Hosts : /\ node[h].gbid \in Nat
                               /\ \A call \in stale[h] : call.gbid \in Nat
BY DEF TypeOK, Meta, NodeState, Call

\* A step that HostInv(h) does not notice keeps it.
LEMMA HostKept ==
    ASSUME TypeOK, TypeOK', NEW h \in Hosts, HostInv(h), HostSame(h),
           gbids <= gbids'
    PROVE  HostInv(h)'
<1>1. GbidBound(h)'
  BY GbidTypes DEF HostInv, GbidBound, HostSame, TypeOK
<1>2. OnTheWire(h)'
  BY DEF HostInv, OnTheWire, HostSame, CreateCall, DeleteCall
<1>3. LineSound(h)'
  BY DEF HostInv, LineSound, HostSame, CreateCall
<1> QED
  BY <1>1, <1>2, <1>3 DEF HostInv

\* The same for ThreadInv(c, h).
LEMMA ThreadKept ==
    ASSUME NEW h \in Hosts, NEW c \in Coords, ThreadInv(c, h), HostSame(h),
           \/ pc'[c] \notin Preparing \cup Calling
           \/ pc'[c] \in Preparing /\ pc[c] \in Preparing
           \/ pc'[c] = pc[c] /\ work'[c][h] = work[c][h]
    PROVE  ThreadInv(c, h)'
BY DEF ThreadInv, HostSame, Unheard, Preparing, Calling, CreateCall

\* A handler that has called nobody, or is done, says nothing of h.
LEMMA ThreadOut ==
    ASSUME NEW h, NEW c, pc'[c] \notin Preparing \cup Calling
    PROVE  ThreadInv(c, h)'
BY DEF ThreadInv, Preparing, Calling

\* A step that leaves the hosts alone and starts no threads.
LEMMA Quiet ==
    ASSUME TypeOK, TypeOK', JournalInv, meta'.gbid = meta.gbid,
           gbids' = gbids \/ gbids' = gbids + 1,
           \A h \in Hosts : HostSame(h),
           \A h \in Hosts, c \in Coords :
             \/ pc'[c] \notin Preparing \cup Calling
             \/ pc'[c] \in Preparing /\ pc[c] \in Preparing
             \/ pc'[c] = pc[c] /\ work'[c][h] = work[c][h]
    PROVE  JournalInv'
<1>1. gbids <= gbids' /\ meta'.gbid <= gbids'
  BY GbidTypes DEF TypeOK, JournalInv
<1> QED
  BY <1>1, HostKept, ThreadKept DEF JournalInv

\* The common case of Quiet: a step of handler c from one step to another.
LEMMA QuietStep ==
    ASSUME TypeOK, TypeOK', JournalInv, NEW c \in Coords,
           gbids' = gbids \/ gbids' = gbids + 1,
           meta'.gbid = meta.gbid, meta.exists => meta'.exists,
           \A h \in Hosts : meta'.status[h] = meta.status[h],
           UNCHANGED <<node, stale>>,
           \/ pc'[c] \notin Preparing \cup Calling
           \/ pc'[c] \in Preparing /\ pc[c] \in Preparing,
           \A d \in Coords : d # c => pc'[d] = pc[d] /\ work'[d] = work[d]
    PROVE  JournalInv'
<1>1. \A h \in Hosts : HostSame(h)
  BY DEF HostSame
<1> QED
  BY <1>1, Quiet

\* The metafile is unlinked.
LEMMA Wipe ==
    ASSUME TypeOK, TypeOK', JournalInv, MutualExclusion,
           NEW c \in Coords, pc[c] \in Critical,
           pc'[c] \notin Preparing \cup Calling,
           \A d \in Coords : d # c => pc'[d] = pc[d],
           meta' = NoMeta, UNCHANGED <<node, stale, gbids>>
    PROVE  JournalInv'
<1>1. meta'.gbid = 0 /\ \A h \in Hosts : meta'.status[h] = NoLine
  BY DEF NoMeta, Keys
<1>2. ASSUME NEW h \in Hosts PROVE HostInv(h)'
  <2>1. GbidBound(h)'
    BY DEF JournalInv, HostInv, GbidBound
  <2>2. DeleteCall(0) \notin stale[h]
    BY GbidTypes DEF JournalInv, HostInv, GbidBound, DeleteCall
  <2>3. OnTheWire(h)'
    BY <1>1, <2>2 DEF JournalInv, HostInv, OnTheWire, CreateCall
  <2>4. LineSound(h)'
    BY <1>1 DEF LineSound, NoLine, AuditSuccess
  <2> QED
    BY <2>1, <2>3, <2>4 DEF HostInv
<1>3. ASSUME NEW d \in Coords PROVE pc'[d] \notin Preparing \cup Calling
  <2>1. CASE d # c
    BY <2>1, Alone DEF Preparing, Calling, Critical, Steps
  <2> QED
    BY <2>1
<1> QED
  BY <1>1, <1>2, <1>3, ThreadOut, GbidTypes DEF JournalInv

\* A step that concerns host h and the one handler c that may be under way:
\* the other hosts and the other handlers need no thought.
LEMMA OneHost ==
    ASSUME TypeOK, TypeOK', JournalInv, MutualExclusion,
           NEW h \in Hosts, NEW c \in Coords, pc[c] \in Calling,
           pc' = pc, gbids' = gbids, meta'.gbid = meta.gbid,
           \A g \in Hosts \ {h} : HostSame(g) /\ work'[c][g] = work[c][g],
           HostInv(h)', ThreadInv(c, h)'
    PROVE  JournalInv'
<1>1. \A g \in Hosts : HostInv(g)'
  BY HostKept DEF JournalInv, TypeOK
<1>2. ASSUME NEW g \in Hosts, NEW d \in Coords
      PROVE  ThreadInv(d, g)'
  <2>1. CASE d # c
    <3>1. pc[d] \notin Critical
      BY <2>1, Alone DEF Calling, Critical, Steps
    <3> QED
      BY <3>1, ThreadOut DEF Critical, Steps, Preparing, Calling
  <2>2. CASE d = c /\ g # h
    BY <2>2, ThreadKept DEF JournalInv
  <2> QED
    BY <2>1, <2>2
<1> QED
  BY <1>1, <1>2 DEF JournalInv

-----------------------------------------------------------------------------
(***************************************************************************)
(* The steps of a handler.                                                 *)
(***************************************************************************)

\* The steps of a handler that write no line about a host.
LEMMA QuietHandler ==
    ASSUME TypeOK, TypeOK', JournalInv, NEW c \in Coords,
           \/ \E r : Accept(c, r)
           \/ MetaLock(c) \/ MetaUnlock(c) \/ PrioAttr(c) \/ CreateExists(c)
           \/ AuditRequest(c) \/ CreateFormatResponse(c) \/ DeleteAccess(c)
           \/ DeleteCollect(c) \/ DeleteEntry(c)
    PROVE  JournalInv'
<1>1. UNCHANGED <<meta, node, stale, gbids>>
  BY DEF Accept, MetaLock, MetaUnlock, PrioAttr, CreateExists, AuditRequest,
         CreateFormatResponse, DeleteAccess, DeleteCollect, DeleteEntry,
         volumeVars, nodeVars
<1>2. /\ pc'[c] \notin Preparing \cup Calling
      /\ \A d \in Coords : d # c => pc'[d] = pc[d] /\ work'[d] = work[d]
  BY DEF Accept, MetaLock, MetaUnlock, PrioAttr, CreateExists, AuditRequest,
         CreateFormatResponse, DeleteAccess, DeleteCollect, DeleteEntry,
         Fails, CleanUpReturn, Goto, Preparing, Calling, TypeOK
<1> QED
  BY <1>1, <1>2, QuietStep

\* The lines that are not about a host.
LEMMA QuietJournal ==
    ASSUME TypeOK, TypeOK', JournalInv, NEW c \in Coords,
           \/ CreateSize(c) \/ CreatePassword(c)
           \/ EntryDelete(c) \/ EntryDeleteFail(c) \/ EntryDeleteDone(c)
    PROVE  JournalInv'
<1>1. UNCHANGED <<node, stale, gbids, work>>
  BY DEF CreateSize, CreatePassword, EntryDelete, EntryDeleteFail,
         EntryDeleteDone, volumeVars, nodeVars
<1>2. /\ meta'.gbid = meta.gbid
      /\ meta.exists => meta'.exists
      /\ \A h \in Hosts : meta'.status[h] = meta.status[h]
  <2>1. CASE CreateSize(c) \/ CreatePassword(c)
    BY <2>1 DEF CreateSize, CreatePassword, GB_METAUPDATE_OR_GOTO, TypeOK, Meta
  <2>2. CASE EntryDelete(c) \/ EntryDeleteFail(c) \/ EntryDeleteDone(c)
    <3>1. \E s \in KeyStatus :
            meta' \in {meta, [meta EXCEPT !.exists = TRUE],
                       HostLine(ENTRYDELETE, s)}
      BY <2>2, EntryKey
         DEF EntryDelete, EntryDeleteFail, EntryDeleteDone,
             GB_METAUPDATE_OR_GOTO
    <3> QED
      BY <3>1, LineKept, EntryKey, HostsAssumption DEF TypeOK, Keys
  <2> QED
    BY <2>1, <2>2
<1>3. /\ \/ pc'[c] \notin Preparing \cup Calling
         \/ pc'[c] \in Preparing /\ pc[c] \in Preparing
      /\ \A d \in Coords : d # c => pc'[d] = pc[d]
  BY DEF CreateSize, CreatePassword, CreateStep, EntryDelete, EntryDeleteFail,
         EntryDeleteDone, GB_METAUPDATE_OR_GOTO, Fails, CleanUpReturn, Goto,
         Preparing, Calling, TypeOK
<1> QED
  BY <1>1, <1>2, <1>3, QuietStep

\* A create draws a GBID nobody has heard of.
LEMMA JournalCreateMeta ==
    ASSUME "access" \notin FaultKinds, TypeOK, TypeOK', MutualExclusion,
           JournalInv, NEW c \in Coords, CreateMeta(c)
    PROVE  JournalInv'
<1>1. /\ pc[c] = "access" /\ ~meta.exists /\ gbids' = gbids + 1
      /\ UNCHANGED <<node, stale, work>>
  BY DEF CreateMeta, CreateStep, nodeVars
<1>2. pc' = [pc EXCEPT ![c] = "entry"] \/ pc' = [pc EXCEPT ![c] = "unlock"]
  BY DEF CreateMeta, GB_METAUPDATE_OR_GOTO, Fails, Goto
<1>3. pc[c] \in Critical
  BY <1>1 DEF Critical, Steps
<1>4. \A d \in Coords : d # c => pc'[d] \notin Preparing \cup Calling
  BY <1>2, <1>3, Alone DEF Preparing, Calling, Critical, Steps, TypeOK
<1>5. CASE /\ meta' \in {meta, [meta EXCEPT !.exists = TRUE]}
           /\ pc' = [pc EXCEPT ![c] = "unlock"]
  <2>1. /\ meta'.gbid = meta.gbid /\ meta'.status = meta.status
        /\ meta.exists => meta'.exists
    BY <1>5 DEF Meta, TypeOK
  <2> QED
    BY <1>1, <1>5, <2>1, QuietStep DEF Preparing, Calling, TypeOK
<1>6. CASE \E p : meta' = FirstLines(p)
  <2>1. meta'.gbid = gbids + 1 /\ meta'.status = meta.status
    BY <1>6 DEF FirstLines
  <2>2. ASSUME NEW h \in Hosts
        PROVE  meta'.status[h] = NoLine /\ Unheard(h)'
    BY <1>1, <2>1, GbidTypes
       DEF JournalInv, HostInv, LineSound, GbidBound, Unheard
  <2>3. ASSUME NEW h \in Hosts
        PROVE  HostInv(h)'
    <3>1. GbidBound(h)'
      BY <1>1, GbidTypes DEF JournalInv, HostInv, GbidBound
    <3>2. OnTheWire(h)'
      BY <1>1, <2>2
         DEF JournalInv, HostInv, OnTheWire, Unheard, CreateCall, DeleteCall
    <3>3. LineSound(h)'
      BY <2>2 DEF LineSound, AuditSuccess, NoLine
    <3> QED
      BY <3>1, <3>2, <3>3 DEF HostInv
  <2>4. ASSUME NEW h \in Hosts, NEW d \in Coords
        PROVE  ThreadInv(d, h)'
    <3>1. CASE d # c
      BY <3>1, <1>4, ThreadOut
    <3>2. CASE d = c
      <4>1. 0 < meta'.gbid
        BY <2>1, GbidTypes
      <4>2. pc'[c] # "audit" /\ pc'[c] # "collect"
        BY <1>2 DEF TypeOK
      <4> QED
        BY <3>2, <4>1, <4>2, <2>2 DEF ThreadInv
    <3> QED
      BY <3>1, <3>2
  <2>5. meta'.gbid <= gbids'
    BY <1>1, <2>1, GbidTypes
  <2> QED
    BY <2>3, <2>4, <2>5 DEF JournalInv
<1> QED
  BY <1>5, <1>6 DEF CreateMeta, GB_METAUPDATE_OR_GOTO, Fails, Goto

\* The metafile goes, and with it every line.
LEMMA JournalUnlink ==
    ASSUME TypeOK, TypeOK', MutualExclusion, JournalInv, NEW c \in Coords,
           CreateEntry(c) \/ DeleteMetaFile(c)
    PROVE  JournalInv'
<1>1. UNCHANGED <<node, stale, gbids, work>>
  BY DEF CreateEntry, DeleteMetaFile, volumeVars, nodeVars
<1>2. /\ pc[c] \in Critical
      /\ \A d \in Coords : d # c => pc'[d] = pc[d]
  BY DEF CreateEntry, CreateStep, DeleteMetaFile, Fails, CleanUpReturn, Goto,
         Critical, Steps, TypeOK
<1>3. /\ \/ pc'[c] \notin Preparing \cup Calling
         \/ pc'[c] \in Preparing /\ pc[c] \in Preparing
      /\ \/ meta' = meta
         \/ meta' = NoMeta /\ pc'[c] \notin Preparing \cup Calling
  BY DEF CreateEntry, CreateStep, DeleteMetaFile, Fails, CleanUpReturn, Goto,
         Preparing, Calling, TypeOK
<1> QED
  BY <1>1, <1>2, <1>3, QuietStep, Wipe

\* The two steps that start threads.
LEMMA JournalStart ==
    ASSUME TypeOK, TypeOK', MutualExclusion, JournalInv, NEW c \in Coords,
           CreateRemoteAsync(c) \/ CleanUp(c)
    PROVE  JournalInv'
<1>1. UNCHANGED <<meta, node, stale, gbids>>
  BY DEF CreateRemoteAsync, CleanUp, volumeVars, nodeVars
<1>2. \A h \in Hosts : HostSame(h)
  BY <1>1 DEF HostSame
<1>3. /\ pc[c] \in Critical
      /\ \A d \in Coords : d # c => pc'[d] = pc[d] /\ work'[d] = work[d]
  BY DEF CreateRemoteAsync, CreateStep, CleanUp, CleanUpReturn, Goto,
         Critical, Steps, TypeOK
<1>4. ASSUME NEW h \in Hosts
      PROVE  HostInv(h)'
  BY <1>1, <1>2, HostKept DEF JournalInv, TypeOK
<1>5. ASSUME NEW h \in Hosts, NEW d \in Coords, d # c
      PROVE  ThreadInv(d, h)'
  BY <1>2, <1>3, <1>5, ThreadKept DEF JournalInv
<1>6. ASSUME NEW h \in Hosts
      PROVE  ThreadInv(c, h)'
  <2>1. CASE CreateRemoteAsync(c)
    <3>1. /\ pc[c] = "remote" /\ pc'[c] = "audit"
          /\ work'[c][h] \in {"begin", "none"}
      BY <2>1 DEF CreateRemoteAsync, CreateStep, Goto, TypeOK, Keys
    <3>2. 0 < meta.gbid /\ meta.status[h] = NoLine /\ Unheard(h)
      BY <3>1 DEF JournalInv, ThreadInv, Preparing
    <3> QED
      BY <1>1, <3>1, <3>2
         DEF ThreadInv, Unheard, CleanUpStatus, NoLine, Preparing
  <2>2. CASE CleanUp(c)
    <3>1. \/ pc'[c] \notin Preparing \cup Calling
          \/ /\ pc'[c] = "collect"
             /\ work'[c][h] = IF h \in DeleteFillArgs THEN "begin" ELSE "none"
      BY <2>2
         DEF CleanUp, CleanUpReturn, Goto, TypeOK, Keys, Preparing, Calling
    <3>2. h \in DeleteFillArgs => meta.status[h] # NoLine
      BY DEF DeleteFillArgs, Listed
    <3> QED
      BY <1>1, <3>1, <3>2, ThreadOut DEF ThreadInv, Preparing
  <2> QED
    BY <2>1, <2>2
<1> QED
  BY <1>1, <1>4, <1>5, <1>6 DEF JournalInv

-----------------------------------------------------------------------------
(***************************************************************************)
(* The threads.                                                            *)
(***************************************************************************)

\* A thread for the pseudo-host ENTRYDELETE concerns no host.
LEMMA PseudoHost ==
    ASSUME TypeOK, TypeOK', JournalInv, NEW c \in Coords,
           Worker(c, ENTRYDELETE)
    PROVE  JournalInv'
<1>1. UNCHANGED <<node, stale, gbids, pc>>
  BY DEF Worker, WorkerBegin, WorkerConnect, WorkerResult, WorkerAuth,
         volumeVars, nodeVars
<1>2. \E s \in KeyStatus :
        meta' \in {meta, [meta EXCEPT !.exists = TRUE],
                   HostLine(ENTRYDELETE, s)}
  BY ResultLineType
     DEF Worker, WorkerBegin, WorkerConnect, WorkerResult, WorkerAuth,
         GB_METAUPDATE_OR_GOTO, KeyStatus, MetaStatus
<1>3. /\ meta'.gbid = meta.gbid
      /\ meta.exists => meta'.exists
      /\ \A h \in Hosts : meta'.status[h] = meta.status[h]
  BY <1>2, LineKept, EntryKey, HostsAssumption DEF TypeOK, Keys
<1>4. \A h \in Hosts, d \in Coords : work'[d][h] = work[d][h]
  BY HostsAssumption
     DEF Worker, WorkerBegin, WorkerConnect, WorkerResult, WorkerAuth, To,
         GB_METAUPDATE_OR_GOTO, TypeOK, Keys
<1>5. \A h \in Hosts : HostSame(h)
  BY <1>1, <1>3 DEF HostSame
<1> QED
  BY <1>1, <1>3, <1>4, <1>5, Quiet

\* What a thread for host h leaves alone: everything but its line about h.
LEMMA WorkerFrame ==
    ASSUME TypeOK, NEW c \in Coords, NEW h \in Hosts, Worker(c, h)
    PROVE  /\ UNCHANGED <<node, stale, gbids, pc>>
           /\ work[c][h] # "none"
           /\ meta'.gbid = meta.gbid
           /\ meta.exists => meta'.exists
           /\ \A g \in Hosts \ {h} : HostSame(g) /\ work'[c][g] = work[c][g]
<1>1. UNCHANGED <<node, stale, gbids, pc>> /\ work[c][h] # "none"
  BY DEF Worker, WorkerBegin, WorkerConnect, WorkerResult, WorkerAuth,
         volumeVars, nodeVars
<1>2. \E s \in KeyStatus :
        meta' \in {meta, [meta EXCEPT !.exists = TRUE], HostLine(h, s)}
  BY ResultLineType
     DEF Worker, WorkerBegin, WorkerConnect, WorkerResult, WorkerAuth,
         GB_METAUPDATE_OR_GOTO, KeyStatus, MetaStatus
<1>3. /\ meta'.gbid = meta.gbid
      /\ meta.exists => meta'.exists
      /\ \A g \in Hosts \ {h} : meta'.status[g] = meta.status[g]
  BY <1>2, LineKept DEF TypeOK, Keys
<1>4. \A g \in Hosts \ {h} : work'[c][g] = work[c][g]
  BY DEF Worker, WorkerBegin, WorkerConnect, WorkerResult, WorkerAuth, To,
         GB_METAUPDATE_OR_GOTO, TypeOK, Keys
<1> QED
  BY <1>1, <1>3, <1>4 DEF HostSame

\* The line and the next step of each thread.
LEMMA WorkerLine ==
    ASSUME TypeOK, NEW c \in Coords, NEW h \in Hosts, Worker(c, h),
           pc[c] \in Calling
    PROVE  \/ /\ meta'.status[h] = meta.status[h]
              /\ \/ work'[c][h] = "failed"
                 \/ work[c][h] = "call" /\ work'[c][h] = "sent"
           \/ /\ meta'.exists
              /\ work[c][h] = "begin" /\ work'[c][h] \in {"call", "failed"}
              /\ meta'.status[h] = IF pc[c] = "audit" THEN "CONFIGINPROGRESS"
                                   ELSE "CLEANUPINPROGRESS"
           \/ /\ meta'.exists
              /\ work[c][h] \in {"ok", "err", "notfound"}
              /\ work'[c][h] \in {"auth", "done", "failed", "gone"}
              /\ work'[c][h] = "auth" => work[c][h] = "ok" /\ pc[c] = "audit"
              /\ meta'.status[h] = ResultLine(c, work[c][h])
           \/ /\ meta'.exists
              /\ work[c][h] = "auth" /\ work'[c][h] \in {"done", "failed"}
              /\ meta'.status[h] = "AUTHENFORCED"
<1>1. ASSUME NEW s, To(c, h, s)
      PROVE  work'[c][h] = s
  BY <1>1 DEF To, TypeOK, Keys
<1>2. ASSUME NEW s \in KeyStatus, meta' = HostLine(h, s)
      PROVE  meta'.exists /\ meta'.status[h] = s
  BY <1>2 DEF HostLine, TypeOK, Meta, Keys
<1>3. ASSUME meta' \in {meta, [meta EXCEPT !.exists = TRUE]}
      PROVE  meta'.status[h] = meta.status[h]
  BY <1>3 DEF TypeOK, Meta
<1> USE DEF GB_METAUPDATE_OR_GOTO, Job, KeyStatus, MetaStatus
<1>4. CASE WorkerBegin(c, h)
  BY <1>1, <1>2, <1>3, <1>4 DEF WorkerBegin
<1>5. CASE WorkerConnect(c, h)
  BY <1>1, <1>5, HostsAssumption DEF WorkerConnect
<1>6. CASE WorkerResult(c, h)
  BY <1>1, <1>2, <1>3, <1>6, ResultLineType DEF WorkerResult
<1>7. CASE WorkerAuth(c, h)
  BY <1>1, <1>2, <1>3, <1>7 DEF WorkerAuth
<1> QED
  BY <1>4, <1>5, <1>6, <1>7 DEF Worker

\* A thread writes a line: it says what the answer said, and a cleanup
\* has its line before it calls.
LEMMA JournalWorker ==
    ASSUME TypeOK, TypeOK', MutualExclusion, WorkIdle, JournalInv,
           NEW c \in Coords, NEW h \in Hosts, Worker(c, h)
    PROVE  JournalInv'
<1>1. pc[c] \in Calling
  BY WorkerFrame, Busy DEF Keys
<1>2. HostInv(h) /\ ThreadInv(c, h)
  BY DEF JournalInv
<1>3. /\ UNCHANGED <<node, stale, gbids, pc>>
      /\ meta'.gbid = meta.gbid
      /\ meta.exists => meta'.exists
      /\ \A g \in Hosts \ {h} : HostSame(g) /\ work'[c][g] = work[c][g]
  BY WorkerFrame
<1>4. pc[c] = "collect" /\ work[c][h] \in {"begin", "ok", "err", "notfound"}
        => meta.status[h] # NoLine
  BY <1>2 DEF ThreadInv, CleanUpStatus, NoLine
<1>5. pc[c] = "audit" => DeleteCall(meta.gbid) \notin stale[h]
  BY <1>2 DEF ThreadInv, HostInv, OnTheWire
<1>6. HostInv(h)' /\ ThreadInv(c, h)'
  <2>1. GbidBound(h)'
    BY <1>2, <1>3 DEF HostInv, GbidBound
  <2>2. OnTheWire(h)'
    BY <1>1, <1>2, <1>3, <1>5, WorkerLine
       DEF HostInv, OnTheWire, ThreadInv, CreateCall, DeleteCall, Calling,
           CleanUpStatus, ResultLine, Job
  <2>3. LineSound(h)'
    BY <1>1, <1>2, <1>3, <1>4, WorkerLine
       DEF HostInv, LineSound, ThreadInv, CreateCall, Calling, CleanUpStatus,
           AuditSuccess, ResultLine, Job, NoLine
  <2>4. ThreadInv(c, h)'
    BY <1>1, <1>2, <1>3, WorkerLine
       DEF ThreadInv, Unheard, CreateCall, Calling, CleanUpStatus, Preparing,
           ResultLine, Job
  <2> QED
    BY <2>1, <2>2, <2>3, <2>4 DEF HostInv
<1> QED
  BY <1>1, <1>3, <1>6, OneHost

-----------------------------------------------------------------------------
(***************************************************************************)
(* The calls.                                                              *)
(***************************************************************************)

\* What serving a call can do to a host.
LEMMA ServeEffect ==
    ASSUME TypeOK, NEW h \in Hosts, NEW call \in Call, NEW r,
           Serve(h, call, r)
    PROVE  /\ \A g \in Hosts \ {h} : node'[g] = node[g]
           /\ \/ node'[h] = node[h] /\ r # "ok"
              \/ /\ call.op = "create" /\ node[h].gbid = 0
                 /\ node'[h].gbid = call.gbid /\ r \in {"ok", "err"}
              \/ /\ call.op # "create" /\ node[h].gbid = call.gbid
                 /\ node'[h].gbid = 0 /\ r \in {"ok", "err"}
BY DEF Serve, block_create, Configured, block_delete, NoConfig, TypeOK, NodeState

\* The same for a call whose connection breaks.
LEMMA LostEffect ==
    ASSUME TypeOK, NEW c \in Coords, NEW h \in Hosts, RpcLost(c, h)
    PROVE  /\ \A g \in Hosts \ {h} : node'[g] = node[g]
           /\ \/ node'[h] = node[h]
              \/ /\ pc[c] = "audit" /\ node[h].gbid = 0
                 /\ node'[h].gbid = meta.gbid
              \/ /\ pc[c] # "audit" /\ node[h].gbid = meta.gbid
                 /\ node'[h].gbid = 0
BY DEF RpcLost, Configured, Job, NoConfig, TypeOK, NodeState

\* A call to h that is under way is allowed to take effect.
LEMMA CallEffect ==
    ASSUME TypeOK, TypeOK', JournalInv, NEW c \in Coords, NEW h \in Hosts,
           pc[c] \in Calling, pc' = pc, gbids' = gbids, meta' = meta,
           stale' = stale, work[c][h] = "sent",
           work'[c][h] \in {"ok", "err", "notfound"},
           \/ node'[h] = node[h] /\ work'[c][h] # "ok"
           \/ /\ pc[c] = "audit" /\ node[h].gbid = 0
              /\ node'[h].gbid = meta.gbid
           \/ /\ pc[c] # "audit" /\ node[h].gbid = meta.gbid
              /\ node'[h].gbid = 0
    PROVE  HostInv(h)' /\ ThreadInv(c, h)'
<1>1. HostInv(h) /\ ThreadInv(c, h) /\ meta.gbid <= gbids
  BY DEF JournalInv
<1>2. 0 < meta.gbid
  BY <1>1 DEF ThreadInv, HostInv, LineSound, CleanUpStatus, NoLine, Calling
<1>3. GbidBound(h)'
  BY <1>1, GbidTypes DEF HostInv, GbidBound
<1>4. CreateCall(0) \notin stale[h]
  BY <1>1, GbidTypes DEF HostInv, GbidBound, CreateCall
<1>5. pc[c] = "audit" => CreateCall(meta.gbid) \notin stale[h]
  BY <1>1 DEF ThreadInv, Unheard, CreateCall
<1>6. OnTheWire(h)'
  BY <1>1, <1>4, <1>5 DEF HostInv, OnTheWire, CreateCall, DeleteCall
<1>7. LineSound(h)'
  BY <1>1, <1>2
     DEF HostInv, LineSound, ThreadInv, Unheard, Calling, CleanUpStatus,
         AuditSuccess, CreateCall
<1>8. ThreadInv(c, h)'
  BY <1>1, <1>2
     DEF ThreadInv, HostInv, OnTheWire, Calling, Preparing, CleanUpStatus,
         CreateCall
<1> QED
  BY <1>3, <1>6, <1>7, <1>8 DEF HostInv

\* The caller of a call that is under way gives up: it stays on the wire.
LEMMA Abandon ==
    ASSUME TypeOK, TypeOK', JournalInv, NEW c \in Coords, NEW h \in Hosts,
           pc[c] \in Calling, gbids' = gbids, meta' = meta, node' = node,
           work[c][h] = "sent", stale'[h] = stale[h] \cup {CallOf(c)}
    PROVE  HostInv(h)'
<1>1. HostInv(h) /\ ThreadInv(c, h) /\ meta.gbid <= gbids
  BY DEF JournalInv
<1>2. 0 < meta.gbid
  BY <1>1 DEF ThreadInv, HostInv, LineSound, CleanUpStatus, NoLine, Calling
<1>3. CallOf(c) = IF pc[c] = "audit" THEN CreateCall(meta.gbid)
                  ELSE DeleteCall(meta.gbid)
  BY DEF CallOf, Job, CreateCall, DeleteCall
<1>4. GbidBound(h)'
  BY <1>1, <1>2, <1>3, GbidTypes
     DEF HostInv, GbidBound, CreateCall, DeleteCall
<1>5. OnTheWire(h)'
  BY <1>1, <1>3
     DEF HostInv, OnTheWire, ThreadInv, Unheard, Calling, CreateCall, DeleteCall
<1>6. LineSound(h)'
  BY <1>1, <1>3
     DEF HostInv, LineSound, ThreadInv, Calling, CleanUpStatus, CreateCall,
         DeleteCall
<1> QED
  BY <1>4, <1>5, <1>6 DEF HostInv

\* A host answers a call, the answer is lost or comes too late.
LEMMA JournalRpc ==
    ASSUME TypeOK, TypeOK', MutualExclusion, WorkIdle, JournalInv,
           NEW c \in Coords, NEW h \in Hosts, Rpc(c, h)
    PROVE  JournalInv'
<1>1. /\ work[c][h] = "sent" /\ meta' = meta /\ pc' = pc /\ gbids' = gbids
      /\ \A g \in Hosts \ {h} : stale'[g] = stale[g]
  BY DEF Rpc, RpcServed, RpcLost, RpcTimeout, volumeVars, TypeOK
<1>2. pc[c] \in Calling
  BY <1>1, Busy DEF Keys
<1>3. \A g \in Hosts \ {h} : work'[c][g] = work[c][g]
  BY DEF Rpc, RpcServed, RpcLost, RpcTimeout, To, TypeOK, Keys
<1>4. CallOf(c) \in Call /\ CallOf(c).gbid = meta.gbid
      /\ (CallOf(c).op = "create" <=> pc[c] = "audit")
  BY CallOfType DEF CallOf, Job, TypeOK
<1>5. CASE RpcServed(c, h)
  <2>1. PICK r \in {"ok", "err", "notfound"} :
          Serve(h, CallOf(c), r) /\ To(c, h, r)
    BY <1>5 DEF RpcServed
  <2>2. work'[c][h] = r /\ stale' = stale
    BY <1>5, <2>1 DEF RpcServed, To, TypeOK, Keys
  <2>3. /\ \A g \in Hosts \ {h} : node'[g] = node[g]
        /\ \/ node'[h] = node[h] /\ r # "ok"
           \/ /\ pc[c] = "audit" /\ node[h].gbid = 0
              /\ node'[h].gbid = meta.gbid
           \/ /\ pc[c] # "audit" /\ node[h].gbid = meta.gbid
              /\ node'[h].gbid = 0
    BY <1>4, <2>1, ServeEffect
  <2>4. HostInv(h)' /\ ThreadInv(c, h)'
    BY <1>1, <1>2, <2>1, <2>2, <2>3, CallEffect
  <2> QED
    BY <1>1, <1>2, <1>3, <2>3, <2>4, OneHost DEF HostSame
<1>6. CASE RpcLost(c, h)
  <2>1. work'[c][h] = "err" /\ stale' = stale
    BY <1>6 DEF RpcLost, To, TypeOK, Keys
  <2>2. HostInv(h)' /\ ThreadInv(c, h)'
    BY <1>1, <1>2, <1>6, <2>1, LostEffect, CallEffect
  <2> QED
    BY <1>1, <1>2, <1>3, <1>6, <2>2, LostEffect, OneHost DEF HostSame
<1>7. CASE RpcTimeout(c, h)
  <2>1. /\ work'[c][h] = "err" /\ node' = node
        /\ stale'[h] = stale[h] \cup {CallOf(c)}
    BY <1>7 DEF RpcTimeout, To, TypeOK, Keys
  <2>2. HostInv(h)'
    BY <1>1, <1>2, <2>1, Abandon
  <2>3. ThreadInv(c, h)'
    BY <1>1, <1>2, <2>1 DEF JournalInv, ThreadInv, Calling, Preparing
  <2> QED
    BY <1>1, <1>2, <1>3, <2>1, <2>2, <2>3, OneHost DEF HostSame
<1> QED
  BY <1>5, <1>6, <1>7 DEF Rpc

\* A coordinator dies; its calls stay on the wire.
LEMMA JournalCrash ==
    ASSUME TypeOK, TypeOK', MutualExclusion, WorkIdle, JournalInv,
           NEW c \in Coords, Crash(c)
    PROVE  JournalInv'
<1>1. /\ UNCHANGED <<meta, node, gbids>>
      /\ pc'[c] = "idle"
      /\ \A d \in Coords : d # c => pc'[d] = pc[d] /\ work'[d] = work[d]
      /\ \A h \in Hosts : stale'[h] = IF work[c][h] = "sent"
                                      THEN stale[h] \cup {CallOf(c)}
                                      ELSE stale[h]
  BY DEF Crash, Goto, TypeOK
<1>2. CASE pc[c] \notin Calling
  <2>1. \A h \in Hosts : HostSame(h)
    BY <1>1, <1>2 DEF WorkIdle, HostSame, Keys
  <2> QED
    BY <1>1, <2>1, Quiet DEF Preparing, Calling
<1>3. CASE pc[c] \in Calling
  <2>1. ASSUME NEW h \in Hosts
        PROVE  HostInv(h)'
    <3>1. CASE work[c][h] = "sent"
      BY <1>1, <1>3, <3>1, Abandon
    <3>2. CASE work[c][h] # "sent"
      <4>1. HostSame(h)
        BY <1>1, <3>2 DEF HostSame
      <4>2. gbids <= gbids'
        BY <1>1, GbidTypes
      <4> QED
        BY <4>1, <4>2, HostKept DEF JournalInv
    <3> QED
      BY <3>1, <3>2
  <2>2. \A d \in Coords : pc'[d] \notin Preparing \cup Calling
    BY <1>1, <1>3, Alone DEF Preparing, Calling, Critical, Steps
  <2> QED
    BY <1>1, <2>1, <2>2, ThreadOut DEF JournalInv
<1> QED
  BY <1>2, <1>3

\* A late call changes nothing the journal vouches for.
LEMMA JournalStale ==
    ASSUME TypeOK, TypeOK', JournalInv, NEW h \in Hosts, ServeStale(h)
    PROVE  JournalInv'
<1>1. PICK call \in stale[h] :
        /\ \E r \in {"ok", "err", "notfound"} : Serve(h, call, r)
        /\ stale' = [stale EXCEPT ![h] = @ \ {call}]
  BY DEF ServeStale
<1>2. call \in Call /\ call \in {CreateCall(call.gbid), DeleteCall(call.gbid)}
  BY DEF TypeOK, Call, CreateCall, DeleteCall
<1>3. /\ UNCHANGED <<meta, pc, work, gbids>>
      /\ \A g \in Hosts \ {h} : node'[g] = node[g] /\ stale'[g] = stale[g]
      /\ stale'[h] = stale[h] \ {call}
      /\ \/ node'[h] = node[h]
         \/ /\ call = CreateCall(call.gbid) /\ node[h].gbid = 0
            /\ node'[h].gbid = call.gbid
         \/ /\ call = DeleteCall(call.gbid) /\ node[h].gbid = call.gbid
            /\ node'[h].gbid = 0
  BY <1>1, <1>2, ServeEffect
     DEF ServeStale, volumeVars, TypeOK, CreateCall, DeleteCall
<1>4. \A g \in Hosts \ {h} : HostSame(g)
  BY <1>3 DEF HostSame
<1>5. HostInv(h) /\ \A c \in Coords : ThreadInv(c, h)
  BY DEF JournalInv
<1>6. 0 < call.gbid /\ call.gbid <= gbids /\ CreateCall(0) \notin stale[h]
  BY <1>5, GbidTypes DEF HostInv, GbidBound, CreateCall
<1>7. HostInv(h)'
  <2>1. GbidBound(h)'
    BY <1>3, <1>5, <1>6, GbidTypes DEF HostInv, GbidBound
  <2>2. OnTheWire(h)'
    BY <1>3, <1>5, <1>6 DEF HostInv, OnTheWire, CreateCall, DeleteCall
  <2>3. LineSound(h)'
    BY <1>3, <1>5, <1>6, GbidTypes
       DEF HostInv, OnTheWire, LineSound, CreateCall, DeleteCall, AuditSuccess,
           CleanUpStatus, NoLine
  <2> QED
    BY <2>1, <2>2, <2>3 DEF HostInv
<1>8. ASSUME NEW c \in Coords
      PROVE  ThreadInv(c, h)'
  <2>1. pc[c] = "collect" /\ work[c][h] = "ok" => 0 < meta.gbid
    BY <1>5 DEF ThreadInv, HostInv, LineSound, CleanUpStatus, NoLine
  <2>2. CASE pc[c] \in Preparing
    BY <1>3, <1>5, <1>6, <2>2, GbidTypes
       DEF ThreadInv, Unheard, Preparing
  <2>3. CASE pc[c] = "audit"
    BY <1>3, <1>5, <1>6, <2>3, GbidTypes
       DEF HostInv, OnTheWire, ThreadInv, Unheard, DeleteCall, Preparing
  <2>4. CASE pc[c] = "collect"
    BY <1>3, <1>5, <1>6, <2>1, <2>4, GbidTypes
       DEF ThreadInv, CreateCall, Preparing
  <2>5. CASE pc[c] \notin Preparing \cup Calling
    BY <1>3, <2>5, ThreadOut
  <2> QED
    BY <2>2, <2>3, <2>4, <2>5 DEF Calling
<1>9. ASSUME NEW g \in Hosts \ {h}
      PROVE  HostInv(g)' /\ \A c \in Coords : ThreadInv(c, g)'
  BY <1>3, <1>4, HostKept, ThreadKept, GbidTypes DEF JournalInv
<1> QED
  BY <1>3, <1>7, <1>8, <1>9 DEF JournalInv

\* A reboot changes no GBID.
LEMMA JournalLoad ==
    ASSUME TypeOK, TypeOK', JournalInv, NEW h \in Hosts, Unload(h) \/ Restore(h)
    PROVE  JournalInv'
<1>1. /\ UNCHANGED <<meta, stale, pc, work, gbids>>
      /\ \A g \in Hosts : node'[g].gbid = node[g].gbid
  BY DEF Unload, Restore, volumeVars, TypeOK, NodeState
<1>2. \A g \in Hosts : HostSame(g)
  BY <1>1 DEF HostSame
<1> QED
  BY <1>1, <1>2, Quiet

-----------------------------------------------------------------------------
(***************************************************************************)
(* The theorems.                                                           *)
(***************************************************************************)

\* Before the first request the invariant holds.
LEMMA InvInit == Init => LifecycleInv
<1> SUFFICES ASSUME Init PROVE LifecycleInv
  OBVIOUS
<1> USE DEF Init
<1>1. MutualExclusion
  BY DEF MutualExclusion, Critical
<1>2. WorkIdle
  BY DEF WorkIdle, NoWork
<1>3. EntryInv
  BY DEF EntryInv, EntryBracket, EntrySound, NoMeta, NoLine
<1>4. JournalInv
  BY DEF JournalInv, HostInv, ThreadInv, GbidBound, OnTheWire, LineSound,
         NoMeta,
         NoConfig, NoLine, Keys, AuditSuccess, Preparing
<1> QED
  BY <1>1, <1>2, <1>3, <1>4 DEF LifecycleInv

\* JournalInv is inductive.
LEMMA JournalNext ==
    ASSUME "access" \notin FaultKinds, TypeOK, TypeOK', MutualExclusion,
           WorkIdle, JournalInv, Next
    PROVE  JournalInv'
<1>1. ASSUME NEW c \in Coords, CreateRequest(c) \/ DeleteRequest(c)
      PROVE  JournalInv'
  BY <1>1, QuietHandler DEF CreateRequest, DeleteRequest
<1>2. ASSUME NEW c \in Coords, Handler(c)
      PROVE  JournalInv'
  BY <1>2, QuietHandler, QuietJournal, JournalCreateMeta, JournalUnlink,
     JournalStart
     DEF Handler, CreateSteps, CleanUpSteps
<1>3. ASSUME NEW c \in Coords, NEW k \in Keys, Worker(c, k)
      PROVE  JournalInv'
  BY <1>3, PseudoHost, JournalWorker DEF Keys
<1> QED
  BY <1>1, <1>2, <1>3, JournalRpc, JournalCrash, JournalStale, JournalLoad
     DEF Next

\* MutualExclusion for every number of coordinators and hosts, crashes and
\* failures of the lock included: meta.lock serialises the handlers.
THEOREM LockSafety == Spec => []MutualExclusion
<1>1. MutualExclusion /\ UNCHANGED vars => MutualExclusion'
  BY DEF MutualExclusion, vars
<1> QED
  BY <1>1, InvInit, LockNext, Typing, PTL DEF Spec, LifecycleInv

\* EntrySound for every instance: the file of a block outlives its
\* ENTRYCREATE: SUCCESS until an ENTRYDELETE line announces its end.
THEOREM EntrySafety == Spec => []EntrySound
<1>1. EntryInv /\ UNCHANGED vars => EntryInv'
  BY DEF EntryInv, EntryBracket, EntrySound, vars
<1>2. EntryInv => EntrySound
  BY DEF EntryInv
<1> QED
  BY <1>1, <1>2, InvInit, EntryNext, LockSafety, Typing, PTL
     DEF Spec, LifecycleInv

\* LifecycleInv is an invariant of every instance in which glfs_access tells a
\* missing metafile from an error.
THEOREM LifecycleSafety ==
    ASSUME "access" \notin FaultKinds
    PROVE  Spec => []LifecycleInv
<1>1. LifecycleInv /\ UNCHANGED vars => LifecycleInv'
  BY DEF LifecycleInv, MutualExclusion, WorkIdle, EntryInv, EntryBracket,
         EntrySound, JournalInv, HostInv, ThreadInv, GbidBound, OnTheWire,
         LineSound, Unheard, vars
<1>2. TypeOK /\ TypeOK' /\ LifecycleInv /\ Next => LifecycleInv'
  BY LockNext, IdleNext, EntryNext, JournalNext DEF LifecycleInv
<1> QED
  BY <1>1, <1>2, InvInit, Typing, PTL DEF Spec

\* JournalSound for every instance in which glfs_access tells a missing
\* metafile from an error: a line that says a host is configured or clean is
\* true, in spite of crashes, failed writes, lost answers and late calls.
THEOREM JournalSafety ==
    ASSUME "access" \notin FaultKinds
    PROVE  Spec => []JournalSound
<1>1. LifecycleInv => JournalSound
  BY DEF LifecycleInv, JournalInv, HostInv, LineSound, JournalSound
<1> QED
  BY <1>1, LifecycleSafety, PTL
=============================================================================
