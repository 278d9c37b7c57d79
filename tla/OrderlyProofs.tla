---------------------------- MODULE OrderlyProofs ----------------------------
(***************************************************************************)
(* Requests that are carried through, see each failure at once and force   *)
(* nothing, for every set of hosts and coordinators: they leave no target  *)
(* without its file and metafile, and implement BlockAbs.                  *)
(***************************************************************************)
EXTENDS LifecycleProofs, FiniteSetTheorems

\* No daemon dies at work, no write of the journal fails, no call outlives its
\* caller, glfs_access tells a missing metafile from an error, and no delete
\* is forced.
Orderly ==
    /\ FaultKinds \cap {"crash", "meta", "timeout", "access"} = {}
    /\ \A a \in DeleteArgs : ~a.force

\* What is known of a step before it is looked at.
Before == TypeOK /\ LifecycleInv /\ OrderlyInv

-----------------------------------------------------------------------------
(***************************************************************************)
(* Frames.                                                                 *)
(***************************************************************************)

\* A step of handler c to step s, and of nobody else.
Moves(c, s) ==
    /\ pc'[c] = s
    /\ \A d \in Coords \ {c} :
         pc'[d] = pc[d] /\ req'[d] = req[d] /\ work'[d] = work[d]

\* The steps at which a handler knows something of the block are in the
\* critical section.
LEMMA HoldingCritical ==
    /\ Holding \subseteq Critical
    /\ Preparing \cup {"audit"} \subseteq Holding
    /\ Removing \subseteq Holding
    /\ Calling \subseteq Holding
BY DEF Holding, Preparing, Removing, Calling, Critical, Steps

\* A handler elsewhere says nothing.
LEMMA HandlerOut ==
    ASSUME NEW c \in Coords, pc'[c] \notin Holding
    PROVE  HandlerInv(c)'
BY DEF HandlerInv, CreateInv, RemoveInv, Holding, Preparing, Removing

\* While one is under way, the others say nothing.
LEMMA Others ==
    ASSUME MutualExclusion, NEW c \in Coords, pc[c] \in Critical, NEW s,
           Moves(c, s), NEW d \in Coords \ {c}
    PROVE  pc[d] \notin Critical /\ pc'[d] \notin Holding /\ HandlerInv(d)'
<1>1. pc[d] \notin Critical
  BY Alone
<1>2. pc'[d] \notin Holding
  BY <1>1, HoldingCritical DEF Moves
<1> QED
  BY <1>1, <1>2, HandlerOut

\* A handler keeps what it knows when nothing it speaks of changes.
LEMMA HandlerKept ==
    ASSUME NEW d \in Coords, HandlerInv(d), UNCHANGED <<meta, files>>,
           \A h \in Hosts : node'[h].gbid = node[h].gbid,
           pc'[d] = pc[d], req'[d] = req[d], work'[d] = work[d]
    PROVE  HandlerInv(d)'
BY DEF HandlerInv, CreateInv, RemoveInv

\* A handler on its way to a cleanup, or away from the block.
LEMMA Aside ==
    ASSUME Before, NEW c \in Coords, NEW s, Moves(c, s),
           UNCHANGED <<meta, files, node, stale, gbids>>,
           pc[c] # "audit" \/ Joined(c),
           s \in Holding => s = "cleanup" /\ meta.exists,
           ~req'[c].force
    PROVE  OrderlyInv'
<1>1. CalmInv'
  BY DEF Before, OrderlyInv, CalmInv, Moves
<1>2. ASSUME NEW h \in Hosts PROVE TargetInv(h)'
  <2>1. SUFFICES ASSUME node[h].gbid # 0, meta.status[h] = "CONFIGINPROGRESS"
                 PROVE  \E d \in Coords : pc'[d] = "audit"
                                            /\ work'[d][h] \in {"ok", "err"}
    BY <2>1 DEF Before, OrderlyInv, TargetInv
  <2>2. PICK d \in Coords : pc[d] = "audit" /\ work[d][h] \in {"ok", "err"}
    BY <2>1 DEF Before, OrderlyInv, TargetInv
  <2>3. d # c
    BY <2>2 DEF Joined, Finished, Keys
  <2> QED
    BY <2>2, <2>3 DEF Moves
<1>3. ASSUME NEW d \in Coords PROVE HandlerInv(d)'
  <2>1. CASE d # c
    BY <2>1, HandlerKept DEF Before, OrderlyInv, Moves
  <2>2. CASE d = c
    BY <2>2, HandlerOut
       DEF HandlerInv, CreateInv, RemoveInv, Moves, Preparing, Removing
  <2> QED
    BY <2>1, <2>2
<1> QED
  BY <1>1, <1>2, <1>3 DEF OrderlyInv

\* As long as no host has a target nothing is to be said of hosts.
LEMMA NoTarget ==
    ASSUME NEW h \in Hosts, node'[h].gbid = 0
    PROVE  TargetInv(h)'
BY DEF TargetInv

\* A create that has called nobody finds no targets.
LEMMA Bare ==
    ASSUME Before, NEW c \in Coords, pc[c] \in Preparing, NEW h \in Hosts
    PROVE  node[h].gbid = 0
BY DEF Before, LifecycleInv, JournalInv, ThreadInv, Unheard, OrderlyInv,
       TargetInv

-----------------------------------------------------------------------------
(***************************************************************************)
(* What the steps do, when they are orderly.                               *)
(***************************************************************************)

\* The steps before and after a handler touches the block.
LEMMA AsideIs ==
    ASSUME Orderly, Before, NEW c \in Coords,
           \/ CreateRequest(c) \/ DeleteRequest(c) \/ MetaLock(c)
           \/ MetaUnlock(c) \/ PrioAttr(c) \/ CreateExists(c)
           \/ CreateFormatResponse(c) \/ DeleteAccess(c)
    PROVE  /\ UNCHANGED <<meta, files, node, stale, gbids, work>>
           /\ pc[c] \notin Holding
           /\ \E s \in {"idle", "lock", "access", "unlock", "format", "cleanup"} :
                Moves(c, s) /\ (s = "cleanup" => meta.exists)
           /\ ~req'[c].force
<1> USE DEF Before, TypeOK, Moves, Set, Goto, Fails, volumeVars, nodeVars
<1>0. ~req[c].force
  BY DEF OrderlyInv, CalmInv
<1>1. ASSUME NEW r \in Request, ~r.force, Accept(c, r)
      PROVE  /\ UNCHANGED <<meta, files, node, stale, gbids, work>>
             /\ pc[c] = "idle" /\ Moves(c, "lock") /\ ~req'[c].force
  BY <1>1 DEF Accept
<1>2. CASE CreateRequest(c)
  <2>1. PICK a \in CreateArgs :
          Accept(c, [NoRequest EXCEPT !.op = "create", !.hosts = a.hosts,
                       !.auth = a.auth, !.unlink = TRUE, !.since = faults])
    BY <1>2 DEF CreateRequest
  <2> DEFINE r == [NoRequest EXCEPT !.op = "create", !.hosts = a.hosts,
                       !.auth = a.auth, !.unlink = TRUE, !.since = faults]
  <2>2. r \in Request /\ ~r.force
    BY ArgsAssumption DEF Request, NoRequest
  <2> HIDE DEF r
  <2> QED
    BY <1>1, <2>1, <2>2 DEF r, Holding, Preparing
<1>3. CASE DeleteRequest(c)
  <2>1. PICK a \in DeleteArgs :
          Accept(c, [NoRequest EXCEPT !.force = a.force, !.unlink = a.unlink,
                       !.since = faults])
    BY <1>3 DEF DeleteRequest
  <2> DEFINE r == [NoRequest EXCEPT !.force = a.force, !.unlink = a.unlink,
                       !.since = faults]
  <2>2. r \in Request /\ ~r.force
    BY ArgsAssumption DEF Request, NoRequest, Orderly
  <2> HIDE DEF r
  <2> QED
    BY <1>1, <2>1, <2>2 DEF r, Holding, Preparing
<1>4. CASE MetaLock(c)
  <2>1. /\ UNCHANGED <<meta, files, node, stale, gbids, work>>
        /\ pc[c] = "lock"
        /\ Moves(c, "access") \/ Moves(c, "idle")
    BY <1>4 DEF MetaLock
  <2>2. ~req'[c].force
    BY <1>0, <1>4 DEF MetaLock, NoRequest
  <2> QED
    BY <2>1, <2>2 DEF Holding, Preparing
<1>5. CASE MetaUnlock(c)
  <2>1. /\ UNCHANGED <<meta, files, node, stale, gbids, work>>
        /\ pc[c] = "unlock"
        /\ Moves(c, "format") \/ Moves(c, "idle")
    BY <1>5 DEF MetaUnlock
  <2>2. ~req'[c].force
    BY <1>0, <1>5 DEF MetaUnlock, NoRequest, Request
  <2> QED
    BY <2>1, <2>2 DEF Holding, Preparing
<1>6. CASE PrioAttr(c)
  BY <1>0, <1>6 DEF PrioAttr, Holding, Preparing
<1>7. CASE CreateExists(c)
  BY <1>0, <1>7 DEF CreateExists, CreateStep, Holding, Preparing, Request
<1>8. CASE CreateFormatResponse(c)
  BY <1>8 DEF CreateFormatResponse, CreateStep, NoRequest, Holding, Preparing
<1>9. CASE DeleteAccess(c)
  <2>1. /\ UNCHANGED <<meta, files, node, stale, gbids, work>>
        /\ pc[c] = "access"
        /\ (Moves(c, "cleanup") /\ meta.exists) \/ Moves(c, "unlock")
    BY <1>9 DEF DeleteAccess
  <2>2. ~req'[c].force
    BY <1>0, <1>9 DEF DeleteAccess, Request
  <2> QED
    BY <2>1, <2>2 DEF Holding, Preparing
<1> QED
  BY <1>2, <1>3, <1>4, <1>5, <1>6, <1>7, <1>8, <1>9

\* The steps of a create up to its threads.
LEMMA CreateIs ==
    ASSUME Orderly, Before, NEW c \in Coords
    PROVE  /\ CreateMeta(c) =>
                /\ pc[c] = "access" /\ ~meta.exists /\ req[c].op = "create"
                /\ Moves(c, "entry") /\ UNCHANGED <<files, node, stale, work>>
                /\ gbids' = gbids + 1
                /\ meta'.exists /\ meta'.gbid = gbids + 1
                /\ meta'.status = meta.status
                /\ req'[c].op = req[c].op /\ req'[c].force = req[c].force
           /\ CreateEntry(c) =>
                /\ pc[c] = "entry" /\ UNCHANGED <<node, stale, gbids, work>>
                /\ \/ /\ Moves(c, "size") /\ UNCHANGED <<meta, req>>
                      /\ files' = files \cup {meta.gbid}
                   \/ /\ Moves(c, "unlock") /\ meta' \in {meta, NoMeta}
                      /\ files' \in {files, files \cup {meta.gbid}}
                /\ req'[c].op = req[c].op /\ req'[c].force = req[c].force
           /\ CreateSize(c) \/ CreatePassword(c) =>
                /\ pc[c] \in {"size", "passwd"}
                /\ UNCHANGED <<files, node, stale, gbids, work, req>>
                /\ Moves(c, "passwd") \/ Moves(c, "remote")
                /\ meta'.exists = meta.exists /\ meta'.gbid = meta.gbid
                /\ meta'.status = meta.status
           /\ CreateRemoteAsync(c) =>
                /\ pc[c] = "remote"
                /\ UNCHANGED <<meta, files, node, stale, gbids, req>>
                /\ Moves(c, "audit")
                /\ \A k \in Keys : work'[c][k] = IF k \in req[c].hosts
                                                 THEN "begin" ELSE "none"
           /\ AuditRequest(c) =>
                /\ pc[c] = "audit" /\ Joined(c)
                /\ UNCHANGED <<meta, files, node, stale, gbids>>
                /\ Moves(c, "prio") \/ Moves(c, "cleanup")
                /\ req'[c].op = req[c].op /\ req'[c].force = req[c].force
<1> USE DEF Before, Moves, Goto, volumeVars, nodeVars, CreateStep
<1>0. /\ "meta" \notin FaultKinds /\ "access" \notin FaultKinds
      /\ pc \in [Coords -> Steps] /\ work \in [Coords -> [Keys -> WorkSteps]]
      /\ req \in [Coords -> Request] /\ req[c] \in Request /\ meta \in Meta
  BY DEF Orderly, TypeOK
<1>2. ASSUME CreateMeta(c)
      PROVE  /\ pc[c] = "access" /\ ~meta.exists /\ req[c].op = "create"
             /\ Moves(c, "entry") /\ UNCHANGED <<files, node, stale, work>>
             /\ gbids' = gbids + 1
             /\ meta'.exists /\ meta'.gbid = gbids + 1
             /\ meta'.status = meta.status
             /\ req'[c].op = req[c].op /\ req'[c].force = req[c].force
  <2>1. PICK p : /\ meta' = FirstLines(p)
                 /\ Set(c, [req[c] EXCEPT !.prio = p]) /\ Goto(c, "entry")
    BY <1>0, <1>2 DEF CreateMeta, GB_METAUPDATE_OR_GOTO, Fault
  <2>2. /\ pc[c] = "access" /\ ~meta.exists /\ req[c].op = "create"
        /\ UNCHANGED <<files, node, stale, work>> /\ gbids' = gbids + 1
    BY <1>0, <1>2 DEF CreateMeta
  <2>3. /\ req'[c].op = req[c].op /\ req'[c].force = req[c].force
        /\ \A d \in Coords \ {c} : req'[d] = req[d]
    BY <1>0, <2>1 DEF Set, Request
  <2> QED
    BY <1>0, <2>1, <2>2, <2>3 DEF FirstLines
<1>3. ASSUME CreateEntry(c)
      PROVE  /\ pc[c] = "entry" /\ UNCHANGED <<node, stale, gbids, work>>
             /\ \/ /\ Moves(c, "size") /\ UNCHANGED <<meta, req>>
                   /\ files' = files \cup {meta.gbid}
                \/ /\ Moves(c, "unlock") /\ meta' \in {meta, NoMeta}
                   /\ files' \in {files, files \cup {meta.gbid}}
             /\ req'[c].op = req[c].op /\ req'[c].force = req[c].force
  BY <1>0, <1>3 DEF CreateEntry, Fails, Set, Request
<1>4. ASSUME CreateSize(c) \/ CreatePassword(c)
      PROVE  /\ pc[c] \in {"size", "passwd"}
             /\ UNCHANGED <<files, node, stale, gbids, work, req>>
             /\ Moves(c, "passwd") \/ Moves(c, "remote")
             /\ meta'.exists = meta.exists /\ meta'.gbid = meta.gbid
             /\ meta'.status = meta.status
  <2>1. meta' \in {meta, [meta EXCEPT !.entry = "SUCCESS"]}
    BY <1>0, <1>4 DEF CreateSize, CreatePassword, GB_METAUPDATE_OR_GOTO, Fault
  <2>2. LET m == [meta EXCEPT !.entry = "SUCCESS"]
        IN m.exists = meta.exists /\ m.gbid = meta.gbid /\ m.status = meta.status
    BY <1>0 DEF Meta
  <2> QED
    BY <1>0, <1>4, <2>1, <2>2
       DEF CreateSize, CreatePassword, GB_METAUPDATE_OR_GOTO, Fault
<1>5. ASSUME CreateRemoteAsync(c)
      PROVE  /\ pc[c] = "remote"
             /\ UNCHANGED <<meta, files, node, stale, gbids, req>>
             /\ Moves(c, "audit")
             /\ \A k \in Keys : work'[c][k] = IF k \in req[c].hosts
                                              THEN "begin" ELSE "none"
  BY <1>0, <1>5 DEF CreateRemoteAsync
<1>6. ASSUME AuditRequest(c)
      PROVE  /\ pc[c] = "audit" /\ Joined(c)
             /\ UNCHANGED <<meta, files, node, stale, gbids>>
             /\ Moves(c, "prio") \/ Moves(c, "cleanup")
             /\ req'[c].op = req[c].op /\ req'[c].force = req[c].force
  <2>1. /\ \E s \in {"prio", "cleanup"} : pc' = [pc EXCEPT ![c] = s]
        /\ work' = [work EXCEPT ![c] = NoWork]
        /\ req' \in {req, [req EXCEPT ![c] = [req[c] EXCEPT !.err = TRUE]]}
    BY <1>6 DEF AuditRequest, Set
  <2>2. /\ req'[c].op = req[c].op /\ req'[c].force = req[c].force
        /\ \A d \in Coords \ {c} : req'[d] = req[d]
    BY <1>0, <2>1 DEF Request
  <2> QED
    BY <1>0, <1>6, <2>1, <2>2 DEF AuditRequest
<1> QED
  BY <1>2, <1>3, <1>4, <1>5, <1>6

\* The return of glusterBlockCleanUp.
LEMMA ReturnIs ==
    ASSUME TypeOK, NEW c \in Coords, NEW r \in Request, NEW failed \in BOOLEAN,
           CleanUpReturn(c, r, failed)
    PROVE  /\ \E s \in {"unlock", "prio"} :
                /\ pc'[c] = s
                /\ \A d \in Coords \ {c} : pc'[d] = pc[d] /\ req'[d] = req[d]
           /\ req'[c].op = r.op /\ req'[c].force = r.force
           /\ req'[c].unlink = r.unlink
<1> DEFINE err == IF r.op = "create" THEN r.err
                  ELSE (r.asyncret /\ ~r.force) \/ failed
<1>1. /\ req' = [req EXCEPT ![c] = [r EXCEPT !.err = err]]
      /\ pc' = [pc EXCEPT ![c] = IF err THEN "unlock" ELSE "prio"]
  BY DEF CleanUpReturn, Set, Goto
<1> HIDE DEF err
<1> QED
  BY <1>1 DEF TypeOK, Request

\* The steps of a cleanup.
LEMMA CleanIs ==
    ASSUME Orderly, Before, NEW c \in Coords
    PROVE  /\ CleanUp(c) =>
                /\ pc[c] = "cleanup"
                /\ UNCHANGED <<meta, files, node, stale, gbids>>
                /\ req'[c].force = req[c].force
                /\ \/ Moves(c, "unlock") \/ Moves(c, "prio")
                   \/ /\ Moves(c, "edelete") /\ DeleteFillArgs = {}
                      /\ req' = req
                   \/ /\ Moves(c, "collect") /\ req' = req
                      /\ \A k \in Keys : work'[c][k] \in {"none", "begin"}
           /\ DeleteCollect(c) =>
                /\ pc[c] = "collect" /\ Joined(c)
                /\ UNCHANGED <<meta, files, node, stale, gbids>>
                /\ req'[c].force = req[c].force
                /\ \/ Moves(c, "unlock") \/ Moves(c, "prio")
                   \/ /\ Moves(c, "edelete")
                      /\ cleanupsuccess(c) = Cardinality(Listed)
           /\ EntryDelete(c) =>
                /\ pc[c] = "edelete" /\ req' = req
                /\ UNCHANGED <<files, node, stale, gbids, work>>
                /\ meta' = HostLine(ENTRYDELETE, "INPROGRESS")
                /\ Moves(c, IF req[c].unlink THEN "unlink" ELSE "edone")
           /\ DeleteEntry(c) =>
                /\ pc[c] = "unlink" /\ req' = req
                /\ UNCHANGED <<meta, node, stale, gbids, work>>
                /\ \/ Moves(c, "edone") /\ files' = files \ {meta.gbid}
                   \/ /\ Moves(c, "efail")
                      /\ files' \in {files, files \ {meta.gbid}}
           /\ EntryDeleteFail(c) =>
                /\ pc[c] = "efail"
                /\ UNCHANGED <<files, node, stale, gbids, work>>
                /\ meta' = HostLine(ENTRYDELETE, "FAIL")
                /\ Moves(c, "unlock") \/ Moves(c, "prio")
                /\ req'[c].force = req[c].force
           /\ EntryDeleteDone(c) =>
                /\ pc[c] = "edone" /\ req' = req
                /\ UNCHANGED <<files, node, stale, gbids, work>>
                /\ meta' = HostLine(ENTRYDELETE, "SUCCESS")
                /\ Moves(c, "unmeta")
           /\ DeleteMetaFile(c) =>
                /\ pc[c] = "unmeta"
                /\ UNCHANGED <<files, node, stale, gbids, work>>
                /\ meta' \in {meta, NoMeta}
                /\ Moves(c, "unlock") \/ Moves(c, "prio")
                /\ req'[c].force = req[c].force
<1> USE DEF Moves, Goto, volumeVars, nodeVars
<1>0. /\ "meta" \notin FaultKinds /\ TypeOK /\ ~req[c].force
      /\ pc \in [Coords -> Steps] /\ work \in [Coords -> [Keys -> WorkSteps]]
      /\ req \in [Coords -> Request] /\ req[c] \in Request
  BY DEF Orderly, Before, TypeOK, OrderlyInv, CalmInv
<1>1. ASSUME CleanUp(c)
      PROVE  /\ pc[c] = "cleanup"
             /\ UNCHANGED <<meta, files, node, stale, gbids>>
             /\ req'[c].force = req[c].force
             /\ \/ Moves(c, "unlock") \/ Moves(c, "prio")
                \/ /\ Moves(c, "edelete") /\ DeleteFillArgs = {}
                   /\ req' = req
                \/ /\ Moves(c, "collect") /\ req' = req
                   /\ \A k \in Keys : work'[c][k] \in {"none", "begin"}
  <2>1. /\ pc[c] = "cleanup"
        /\ UNCHANGED <<meta, files, node, stale, gbids>>
    BY <1>1 DEF CleanUp
  <2>2. CASE CleanUpReturn(c, req[c], TRUE) /\ work' = work
    BY <1>0, <2>1, <2>2, ReturnIs
  <2>3. CASE /\ work' = [work EXCEPT ![c] =
                        [k \in Keys |-> IF k \in DeleteFillArgs THEN "begin"
                                        ELSE "none"]]
             /\ pc' = [pc EXCEPT ![c] = IF DeleteFillArgs = {} THEN "edelete"
                                        ELSE "collect"]
             /\ req' = req
    <3>1. /\ \A d \in Coords \ {c} : work'[d] = work[d] /\ pc'[d] = pc[d]
          /\ \A k \in Keys : work'[c][k] \in {"none", "begin"}
          /\ pc'[c] = IF DeleteFillArgs = {} THEN "edelete" ELSE "collect"
      BY <1>0, <2>3
    <3> QED
      BY <2>1, <2>3, <3>1
  <2> QED
    BY <1>1, <2>2, <2>3 DEF CleanUp
<1>2. ASSUME DeleteCollect(c)
      PROVE  /\ pc[c] = "collect" /\ Joined(c)
             /\ UNCHANGED <<meta, files, node, stale, gbids>>
             /\ req'[c].force = req[c].force
             /\ \/ Moves(c, "unlock") \/ Moves(c, "prio")
                \/ /\ Moves(c, "edelete")
                   /\ cleanupsuccess(c) = Cardinality(Listed)
  <2>1. /\ pc[c] = "collect" /\ Joined(c)
        /\ UNCHANGED <<meta, files, node, stale, gbids>>
        /\ \A d \in Coords \ {c} : work'[d] = work[d]
    BY <1>0, <1>2 DEF DeleteCollect
  <2>2. PICK bad \in BOOLEAN :
          /\ bad \/ cleanupsuccess(c) = Cardinality(Listed)
          /\ LET r == [req[c] EXCEPT !.asyncret = bad] IN
             \/ (r.force \/ ~bad) /\ Set(c, r) /\ Goto(c, "edelete")
             \/ ~r.force /\ bad /\ CleanUpReturn(c, r, FALSE)
    BY <1>2 DEF DeleteCollect
  <2> DEFINE r == [req[c] EXCEPT !.asyncret = bad]
  <2>3. r \in Request /\ r.force = req[c].force
    BY <1>0, AsyncType DEF Request
  <2>4. \/ ~bad /\ Set(c, r) /\ Goto(c, "edelete")
        \/ CleanUpReturn(c, r, FALSE)
    BY <1>0, <2>2, <2>3
  <2> HIDE DEF r
  <2>5. CASE ~bad /\ Set(c, r) /\ Goto(c, "edelete")
    BY <1>0, <2>1, <2>2, <2>3, <2>5 DEF Set
  <2>6. CASE CleanUpReturn(c, r, FALSE)
    BY <1>0, <2>1, <2>3, <2>6, ReturnIs
  <2> QED
    BY <2>4, <2>5, <2>6
<1>3. ASSUME EntryDelete(c)
      PROVE  /\ pc[c] = "edelete" /\ req' = req
             /\ UNCHANGED <<files, node, stale, gbids, work>>
             /\ meta' = HostLine(ENTRYDELETE, "INPROGRESS")
             /\ Moves(c, IF req[c].unlink THEN "unlink" ELSE "edone")
  BY <1>0, <1>3 DEF EntryDelete, GB_METAUPDATE_OR_GOTO, Fault
<1>4. ASSUME DeleteEntry(c)
      PROVE  /\ pc[c] = "unlink" /\ req' = req
             /\ UNCHANGED <<meta, node, stale, gbids, work>>
             /\ \/ Moves(c, "edone") /\ files' = files \ {meta.gbid}
                \/ /\ Moves(c, "efail")
                   /\ files' \in {files, files \ {meta.gbid}}
  BY <1>0, <1>4 DEF DeleteEntry
<1>5. ASSUME EntryDeleteFail(c)
      PROVE  /\ pc[c] = "efail"
             /\ UNCHANGED <<files, node, stale, gbids, work>>
             /\ meta' = HostLine(ENTRYDELETE, "FAIL")
             /\ Moves(c, "unlock") \/ Moves(c, "prio")
             /\ req'[c].force = req[c].force
  <2>1. /\ pc[c] = "efail" /\ meta' = HostLine(ENTRYDELETE, "FAIL")
        /\ UNCHANGED <<files, node, stale, gbids, work>>
        /\ CleanUpReturn(c, req[c], TRUE)
    BY <1>0, <1>5 DEF EntryDeleteFail, GB_METAUPDATE_OR_GOTO, Fault
  <2> QED
    BY <1>0, <2>1, ReturnIs
<1>6. ASSUME EntryDeleteDone(c)
      PROVE  /\ pc[c] = "edone" /\ req' = req
             /\ UNCHANGED <<files, node, stale, gbids, work>>
             /\ meta' = HostLine(ENTRYDELETE, "SUCCESS")
             /\ Moves(c, "unmeta")
  BY <1>0, <1>6 DEF EntryDeleteDone, GB_METAUPDATE_OR_GOTO, Fault
<1>7. ASSUME DeleteMetaFile(c)
      PROVE  /\ pc[c] = "unmeta"
             /\ UNCHANGED <<files, node, stale, gbids, work>>
             /\ meta' \in {meta, NoMeta}
             /\ Moves(c, "unlock") \/ Moves(c, "prio")
             /\ req'[c].force = req[c].force
  <2>1. /\ pc[c] = "unmeta" /\ meta' \in {meta, NoMeta}
        /\ UNCHANGED <<files, node, stale, gbids, work>>
        /\ CleanUpReturn(c, req[c], TRUE) \/ CleanUpReturn(c, req[c], FALSE)
    BY <1>7 DEF DeleteMetaFile
  <2> QED
    BY <1>0, <2>1, ReturnIs
<1> QED
  BY <1>1, <1>2, <1>3, <1>4, <1>5, <1>6, <1>7

\* The step of a thread, when no write of the journal fails.
LEMMA WorkerIs ==
    ASSUME Orderly, Before, NEW c \in Coords, NEW k \in Keys, Worker(c, k)
    PROVE  /\ pc[c] \in Calling /\ Moves(c, pc[c])
           /\ UNCHANGED <<files, node, stale, gbids, pc, req>>
           /\ meta'.exists /\ meta'.gbid = meta.gbid
           /\ \A l \in Keys \ {k} : /\ meta'.status[l] = meta.status[l]
                                    /\ work'[c][l] = work[c][l]
           /\ \/ /\ work[c][k] = "begin" /\ work'[c][k] = "call"
                 /\ meta'.status[k] = IF pc[c] = "audit" THEN "CONFIGINPROGRESS"
                                      ELSE "CLEANUPINPROGRESS"
              \/ /\ work[c][k] = "call" /\ meta'.status[k] = meta.status[k]
                 /\ \/ work'[c][k] = "sent" /\ k \in Hosts
                    \/ work'[c][k] = "failed"
              \/ /\ work[c][k] \in {"ok", "err", "notfound"}
                 /\ work'[c][k] \in {"auth", "done", "gone"}
                 /\ work'[c][k] = "gone" <=> work[c][k] = "notfound"
                 /\ meta'.status[k] = ResultLine(c, work[c][k])
              \/ /\ work[c][k] = "auth" /\ work'[c][k] = "done"
                 /\ meta'.status[k] = "AUTHENFORCED"
<1>0. /\ "meta" \notin FaultKinds /\ TypeOK /\ meta \in Meta
      /\ work \in [Coords -> [Keys -> WorkSteps]]
      /\ WorkIdle /\ HandlerInv(c)
  BY DEF Orderly, Before, TypeOK, LifecycleInv, OrderlyInv
<1>1. /\ UNCHANGED <<files, node, stale, gbids, pc, req>>
      /\ work[c][k] # "none"
      /\ \E s : To(c, k, s)
  BY DEF Worker, WorkerBegin, WorkerConnect, WorkerResult, WorkerAuth,
         GB_METAUPDATE_OR_GOTO, volumeVars, nodeVars
<1>2. pc[c] \in Calling /\ pc[c] \in Holding
  BY <1>0, <1>1, Busy, HoldingCritical
<1>3. meta.exists
  BY <1>0, <1>2 DEF HandlerInv
<1>4. /\ Moves(c, pc[c])
      /\ \A l \in Keys \ {k} : work'[c][l] = work[c][l]
      /\ \A s : To(c, k, s) => work'[c][k] = s
  BY <1>0, <1>1 DEF To, Moves
<1>5. ASSUME NEW s \in KeyStatus, meta' = HostLine(k, s)
      PROVE  /\ meta'.exists /\ meta'.gbid = meta.gbid /\ meta'.status[k] = s
             /\ \A l \in Keys \ {k} : meta'.status[l] = meta.status[l]
  BY <1>0, <1>5, LineKept
<1> USE DEF GB_METAUPDATE_OR_GOTO, Fault, KeyStatus, MetaStatus
<1>6. CASE WorkerBegin(c, k)
  <2>1. /\ work[c][k] = "begin" /\ To(c, k, "call")
        /\ meta' = HostLine(k, IF pc[c] = "audit" THEN "CONFIGINPROGRESS"
                               ELSE "CLEANUPINPROGRESS")
    BY <1>0, <1>6 DEF WorkerBegin, Job
  <2> QED
    BY <1>1, <1>2, <1>4, <1>5, <2>1
<1>7. CASE WorkerConnect(c, k)
  <2>1. /\ work[c][k] = "call" /\ meta' = meta
        /\ \/ To(c, k, "sent") /\ k \in Hosts
           \/ To(c, k, "failed")
    BY <1>7 DEF WorkerConnect
  <2> QED
    BY <1>1, <1>2, <1>3, <1>4, <2>1
<1>8. CASE WorkerResult(c, k)
  <2>1. /\ work[c][k] \in {"ok", "err", "notfound"}
        /\ meta' = HostLine(k, ResultLine(c, work[c][k]))
        /\ \/ work[c][k] = "notfound" /\ To(c, k, "gone")
           \/ work[c][k] # "notfound" /\ To(c, k, "auth")
           \/ work[c][k] # "notfound" /\ To(c, k, "done")
    BY <1>0, <1>8 DEF WorkerResult
  <2>2. ResultLine(c, work[c][k]) \in KeyStatus
    BY <2>1, ResultLineType
  <2> QED
    BY <1>1, <1>2, <1>4, <1>5, <2>1, <2>2
<1>9. CASE WorkerAuth(c, k)
  <2>1. /\ work[c][k] = "auth" /\ To(c, k, "done")
        /\ meta' = HostLine(k, "AUTHENFORCED")
    BY <1>0, <1>9 DEF WorkerAuth
  <2> QED
    BY <1>1, <1>2, <1>4, <1>5, <2>1
<1> QED
  BY <1>6, <1>7, <1>8, <1>9 DEF Worker

\* A call is answered, or its connection breaks.
LEMMA RpcIs ==
    ASSUME Orderly, Before, NEW c \in Coords, NEW h \in Hosts, Rpc(c, h)
    PROVE  /\ pc[c] \in Calling /\ Moves(c, pc[c])
           /\ UNCHANGED <<meta, files, stale, gbids, pc, req>>
           /\ work[c][h] = "sent"
           /\ \A l \in Keys \ {h} : work'[c][l] = work[c][l]
           /\ \A g \in Hosts \ {h} : node'[g] = node[g]
           /\ \/ /\ node'[h].gbid = node[h].gbid
                 /\ \/ work'[c][h] = "err"
                    \/ /\ work'[c][h] = "notfound" /\ pc[c] # "audit"
                       /\ node[h].gbid # meta.gbid
              \/ /\ pc[c] = "audit" /\ node[h].gbid = 0
                 /\ node'[h].gbid = meta.gbid /\ work'[c][h] \in {"ok", "err"}
              \/ /\ pc[c] # "audit" /\ node[h].gbid = meta.gbid
                 /\ node'[h].gbid = 0 /\ work'[c][h] \in {"ok", "err"}
<1>0. /\ "timeout" \notin FaultKinds /\ TypeOK /\ WorkIdle
      /\ work \in [Coords -> [Keys -> WorkSteps]]
      /\ node \in [Hosts -> NodeState] /\ h \in Keys
  BY DEF Orderly, Before, TypeOK, LifecycleInv, Keys
<1>1. RpcServed(c, h) \/ RpcLost(c, h)
  BY <1>0 DEF Rpc, RpcTimeout, Fault
<1>2. /\ UNCHANGED <<meta, files, stale, gbids, pc, req>>
      /\ work[c][h] = "sent" /\ \E s : To(c, h, s)
  BY <1>1 DEF RpcServed, RpcLost, volumeVars
<1>3. pc[c] \in Calling
  BY <1>0, <1>2, Busy
<1>4. /\ Moves(c, pc[c])
      /\ \A l \in Keys \ {h} : work'[c][l] = work[c][l]
      /\ \A s : To(c, h, s) => work'[c][h] = s
  BY <1>0, <1>2 DEF To, Moves
<1>5. CASE RpcServed(c, h)
  <2>1. PICK r \in {"ok", "err", "notfound"} :
          Serve(h, CallOf(c), r) /\ To(c, h, r)
    BY <1>5 DEF RpcServed
  <2>2. IF pc[c] = "audit" THEN block_create(h, meta.gbid, r)
        ELSE block_delete(h, meta.gbid, r)
    BY <2>1 DEF Serve, CallOf, Job
  <2>3. CASE pc[c] = "audit"
    <3>1. block_create(h, meta.gbid, r)
      BY <2>2, <2>3
    <3> QED
      BY <1>0, <1>2, <1>3, <1>4, <2>1, <2>3, <3>1 DEF block_create, Configured
  <2>4. CASE pc[c] # "audit"
    <3>1. block_delete(h, meta.gbid, r)
      BY <2>2, <2>4
    <3> QED
      BY <1>0, <1>2, <1>3, <1>4, <2>1, <2>4, <3>1 DEF block_delete, NoConfig
  <2> QED
    BY <2>3, <2>4
<1>6. CASE RpcLost(c, h)
  <2>1. work'[c][h] = "err"
    BY <1>4, <1>6 DEF RpcLost
  <2> QED
    BY <1>0, <1>2, <1>3, <1>4, <1>6, <2>1, LostEffect
<1> QED
  BY <1>1, <1>5, <1>6

\* A reboot changes no GBID.
LEMMA LoadIs ==
    ASSUME Before, NEW h \in Hosts, Unload(h) \/ Restore(h)
    PROVE  /\ UNCHANGED <<meta, files, stale, gbids, pc, req, work>>
           /\ \A g \in Hosts : node'[g].gbid = node[g].gbid
<1>1. UNCHANGED <<meta, files, stale, gbids, pc, req, work>>
  BY DEF Unload, Restore, volumeVars
<1>2. node \in [Hosts -> NodeState] /\ node[h] \in NodeState
  BY DEF Before, TypeOK
<1>3. \E b \in BOOLEAN : node' = [node EXCEPT ![h].loaded = b]
  BY DEF Unload, Restore
<1>4. \A g \in Hosts : node'[g].gbid = node[g].gbid
  BY <1>2, <1>3 DEF NodeState
<1> QED
  BY <1>1, <1>4

-----------------------------------------------------------------------------
(***************************************************************************)
(* OrderlyInv is inductive.                                                *)
(***************************************************************************)

\* What a handler does before and after it touches the block.
LEMMA OrderlyAside ==
    ASSUME Orderly, Before, NEW c \in Coords,
           \/ CreateRequest(c) \/ DeleteRequest(c) \/ MetaLock(c)
           \/ MetaUnlock(c) \/ PrioAttr(c) \/ CreateExists(c)
           \/ CreateFormatResponse(c) \/ DeleteAccess(c)
    PROVE  OrderlyInv'
<1>1. PICK s \in {"idle", "lock", "access", "unlock", "format", "cleanup"} :
        Moves(c, s) /\ (s = "cleanup" => meta.exists)
  BY AsideIs
<1>2. s \in Holding => s = "cleanup"
  BY DEF Holding, Preparing
<1>3. pc[c] # "audit"
  BY AsideIs DEF Holding
<1> QED
  BY <1>1, <1>2, <1>3, AsideIs, Aside

\* The steps of a create up to its threads.
LEMMA OrderlyCreate ==
    ASSUME Orderly, Before, NEW c \in Coords,
           \/ CreateMeta(c) \/ CreateEntry(c) \/ CreateSize(c)
           \/ CreatePassword(c) \/ CreateRemoteAsync(c) \/ AuditRequest(c)
    PROVE  OrderlyInv'
<1>0. /\ TypeOK /\ MutualExclusion /\ JournalInv /\ CalmInv /\ HandlerInv(c)
      /\ \A h \in Hosts : TargetInv(h)
      /\ gbids \in Nat /\ meta.gbid \in Nat /\ meta.gbid <= gbids
      /\ files \subseteq Nat
  BY GbidTypes DEF Before, OrderlyInv, LifecycleInv, JournalInv, TypeOK
<1>1. ASSUME NEW s, Moves(c, s), pc[c] \in Critical, CalmInv', HandlerInv(c)',
             \A h \in Hosts : TargetInv(h)'
      PROVE  OrderlyInv'
  BY <1>0, <1>1, Others DEF OrderlyInv
<1>2. CASE CreateMeta(c)
  <2>1. /\ pc[c] = "access" /\ ~meta.exists /\ req[c].op = "create"
        /\ Moves(c, "entry") /\ UNCHANGED <<files, node, stale, work>>
        /\ gbids' = gbids + 1
        /\ meta'.exists /\ meta'.gbid = gbids + 1
        /\ meta'.status = meta.status
        /\ req'[c].op = req[c].op /\ req'[c].force = req[c].force
    BY <1>2, CreateIs
  <2>2. meta = NoMeta
    BY <1>0, <2>1 DEF CalmInv
  <2>3. meta.gbid = 0 /\ \A k \in Keys : meta.status[k] = NoLine
    BY <2>2 DEF NoMeta
  <2>4. \A h \in Hosts : node'[h].gbid = 0
    BY <1>0, <2>1, <2>3 DEF TargetInv
  <2>5. \A g \in files : 0 < g /\ g <= gbids
    BY <1>0 DEF CalmInv
  <2>6. \A g \in files' : 0 < g /\ g <= gbids'
    BY <1>0, <2>1, <2>5
  <2>7. CalmInv'
    BY <1>0, <2>1, <2>6 DEF CalmInv, Moves
  <2>8. meta'.gbid \notin files'
    BY <1>0, <2>1, <2>5
  <2>9. HandlerInv(c)'
    BY <2>1, <2>3, <2>8
       DEF HandlerInv, CreateInv, RemoveInv, Moves, ClosedBy, NoLine,
           EntryStatus, Removing
  <2> QED
    BY <1>1, <2>1, <2>4, <2>7, <2>9, NoTarget DEF Critical, Steps
<1>3. CASE CreateEntry(c)
  <2>1. /\ pc[c] = "entry" /\ UNCHANGED <<node, stale, gbids, work>>
        /\ req'[c].op = req[c].op /\ req'[c].force = req[c].force
    BY <1>3, CreateIs
  <2>2. pc[c] \in Critical /\ pc[c] \in Holding /\ pc[c] \in Preparing
    BY <2>1 DEF Critical, Steps, Holding, Preparing
  <2>3. meta.exists /\ 0 < meta.gbid
    BY <1>0, <2>2 DEF HandlerInv, CalmInv
  <2>4. \A h \in Hosts : TargetInv(h)'
    BY <2>1, <2>2, Bare, NoTarget
  <2>5. \A g \in files \cup {meta.gbid} : 0 < g /\ g <= gbids
    BY <1>0, <2>3 DEF CalmInv
  <2>6. CASE /\ Moves(c, "size") /\ UNCHANGED <<meta, req>>
             /\ files' = files \cup {meta.gbid}
    <3>1. CalmInv'
      BY <1>0, <2>1, <2>5, <2>6 DEF CalmInv
    <3>2. HandlerInv(c)'
      BY <1>0, <2>1, <2>2, <2>6
         DEF HandlerInv, CreateInv, RemoveInv, Moves, Preparing, Removing
    <3> QED
      BY <1>1, <2>2, <2>4, <2>6, <3>1, <3>2
  <2>7. CASE /\ Moves(c, "unlock") /\ meta' \in {meta, NoMeta}
             /\ files' \in {files, files \cup {meta.gbid}}
    <3>1. ~NoMeta.exists
      BY DEF NoMeta
    <3>2. CalmInv'
      BY <1>0, <2>1, <2>3, <2>5, <2>7, <3>1 DEF CalmInv, Moves
    <3>3. HandlerInv(c)'
      BY <2>7, HandlerOut DEF Moves, Holding, Preparing
    <3> QED
      BY <1>1, <2>2, <2>4, <2>7, <3>2, <3>3
  <2> QED
    BY <1>3, <2>6, <2>7, CreateIs
<1>4. CASE CreateSize(c) \/ CreatePassword(c)
  <2>1. /\ pc[c] \in {"size", "passwd"}
        /\ UNCHANGED <<files, node, stale, gbids, work, req>>
        /\ Moves(c, "passwd") \/ Moves(c, "remote")
        /\ meta'.exists = meta.exists /\ meta'.gbid = meta.gbid
        /\ meta'.status = meta.status
    BY <1>4, CreateIs
  <2>2. pc[c] \in Critical /\ pc[c] \in Holding /\ pc[c] \in Preparing
    BY <2>1 DEF Critical, Steps, Holding, Preparing
  <2>3. meta.exists /\ 0 < meta.gbid
    BY <1>0, <2>2 DEF HandlerInv, CalmInv
  <2>4. \A h \in Hosts : TargetInv(h)'
    BY <2>1, <2>2, Bare, NoTarget
  <2>5. CalmInv'
    BY <1>0, <2>1, <2>3 DEF CalmInv
  <2>6. HandlerInv(c)'
    BY <1>0, <2>1, <2>2, <2>3
       DEF HandlerInv, CreateInv, RemoveInv, Moves, Preparing, Removing
  <2> QED
    BY <1>1, <2>1, <2>2, <2>4, <2>5, <2>6
<1>5. CASE CreateRemoteAsync(c)
  <2>1. /\ pc[c] = "remote"
        /\ UNCHANGED <<meta, files, node, stale, gbids, req>>
        /\ Moves(c, "audit")
        /\ \A k \in Keys : work'[c][k] = IF k \in req[c].hosts
                                         THEN "begin" ELSE "none"
    BY <1>5, CreateIs
  <2>2. pc[c] \in Critical /\ pc[c] \in Holding /\ pc[c] \in Preparing
    BY <2>1 DEF Critical, Steps, Holding, Preparing
  <2>3. \A h \in Hosts : TargetInv(h)'
    BY <2>1, <2>2, Bare, NoTarget
  <2>4. CalmInv'
    BY <1>0, <2>1 DEF CalmInv
  <2>5. ENTRYDELETE \notin req[c].hosts /\ Hosts \subseteq Keys
          /\ ENTRYDELETE \in Keys
    BY <1>0, HostsAssumption DEF TypeOK, Request, Keys
  <2>6. HandlerInv(c)'
    BY <1>0, <2>1, <2>2, <2>5
       DEF HandlerInv, CreateInv, RemoveInv, Moves, Preparing, Removing
  <2> QED
    BY <1>1, <2>1, <2>2, <2>3, <2>4, <2>6
<1>6. CASE AuditRequest(c)
  <2>1. /\ pc[c] = "audit" /\ Joined(c)
        /\ UNCHANGED <<meta, files, node, stale, gbids>>
        /\ Moves(c, "prio") \/ Moves(c, "cleanup")
        /\ req'[c].op = req[c].op /\ req'[c].force = req[c].force
    BY <1>6, CreateIs
  <2>2. meta.exists /\ ~req'[c].force
    BY <1>0, <2>1 DEF HandlerInv, Holding, CalmInv
  <2>3. "prio" \notin Holding
    BY DEF Holding, Preparing
  <2> QED
    BY <2>1, <2>2, <2>3, Aside
<1> QED
  BY <1>2, <1>3, <1>4, <1>5, <1>6

\* A host without a line about it, or whose last line glusterBlockDeleteFillArgs
\* passes over, has no target when no create waits for its threads.
LEMMA SkippedGone ==
    ASSUME Before, \A d \in Coords : pc[d] # "audit", NEW h \in Hosts,
           meta.status[h] \in DeleteSkips \cup {NoLine}
    PROVE  node[h].gbid = 0
<1>1. TargetInv(h) /\ LineSound(h)
  BY DEF Before, OrderlyInv, LifecycleInv, JournalInv, HostInv
<1> QED
  BY <1>1 DEF TargetInv, LineSound, DeleteSkips

\* The count at the end of glusterBlockDeleteRemoteAsync is that of all hosts
\* only when none has a target.
LEMMA CountedGone ==
    ASSUME Before, NEW c \in Coords, pc[c] = "collect",
           cleanupsuccess(c) = Cardinality(Listed), NEW h \in Hosts
    PROVE  node[h].gbid = 0
<1> DEFINE G == {k \in Keys : work[c][k] = "gone"}
           S == {k \in Listed : meta.status[k] \in DeleteSkips}
<1>1. TypeOK /\ RemoveInv(c) /\ MutualExclusion /\ TargetInv(h)
  BY DEF Before, OrderlyInv, HandlerInv, LifecycleInv
<1>2. \A d \in Coords : pc[d] # "audit"
  <2>1. pc[c] \in Critical /\ \A d \in Coords : pc[d] = "audit" => pc[d] \in Critical
    BY DEF Critical, Steps
  <2> QED
    BY <1>1, <2>1, Alone
<1>3. IsFiniteSet(Keys)
  BY HostsAssumption, FS_AddElement DEF Keys
<1>4. IsFiniteSet(Listed) /\ Listed \subseteq Keys
  BY <1>3, FS_Subset DEF Listed
<1>5. G \subseteq Listed /\ \A k \in G : k \in Hosts /\ meta.status[k] = "CLEANUPFAIL"
  BY <1>1 DEF RemoveInv, Listed, Keys, NoLine
<1>6. G \cap S = {}
  BY <1>5 DEF DeleteSkips
<1>7. S \subseteq Listed
  OBVIOUS
<1>8. IsFiniteSet(G) /\ IsFiniteSet(S)
  BY <1>4, <1>5, <1>7, FS_Subset
<1>9. cleanupsuccess(c) = Cardinality(G) + Cardinality(S)
  BY DEF cleanupsuccess
<1> HIDE DEF G, S
<1>10. Cardinality(G \cup S) = Cardinality(G) + Cardinality(S)
  <2>1. Cardinality(G \cap S) = 0
    BY <1>6, FS_EmptySet
  <2>2. /\ Cardinality(G) \in Nat /\ Cardinality(S) \in Nat
        /\ Cardinality(G \cup S) = Cardinality(G) + Cardinality(S)
                                     - Cardinality(G \cap S)
    BY <1>8, FS_Union, FS_CardinalityType
  <2> QED
    BY <2>1, <2>2
<1>11. G \cup S = Listed
  BY <1>4, <1>5, <1>7, <1>9, <1>10, FS_Subset
<1>12. CASE h \in G
  BY <1>1, <1>12 DEF G, RemoveInv, TargetInv
<1>13. CASE h \notin G
  <2>1. meta.status[h] \in DeleteSkips \cup {NoLine}
    BY <1>11, <1>13 DEF S, Listed, Keys
  <2> QED
    BY <1>2, <2>1, SkippedGone
<1> QED
  BY <1>12, <1>13

\* The line about the entry leaves the lines about the hosts.
LEMMA EntryLine ==
    ASSUME TypeOK, NEW s \in EntryStatus, meta' = HostLine(ENTRYDELETE, s)
    PROVE  /\ meta'.exists /\ meta'.gbid = meta.gbid
           /\ meta'.status[ENTRYDELETE] = s
           /\ ClosedBy(meta'.status[ENTRYDELETE])
           /\ \A h \in Hosts : meta'.status[h] = meta.status[h]
<1>1. meta \in Meta /\ s \in KeyStatus /\ ENTRYDELETE \in Keys
  BY EntryKey DEF TypeOK, KeyStatus
<1>2. /\ meta'.exists /\ meta'.gbid = meta.gbid
      /\ meta'.status[ENTRYDELETE] = s
      /\ \A k \in Keys : k # ENTRYDELETE => meta'.status[k] = meta.status[k]
  BY <1>1, LineKept
<1> QED
  BY <1>2, HostsAssumption DEF ClosedBy, Keys

\* The steps of a cleanup.
LEMMA OrderlyClean ==
    ASSUME Orderly, Before, NEW c \in Coords, CleanUpSteps(c)
    PROVE  OrderlyInv'
<1>0. /\ TypeOK /\ MutualExclusion /\ CalmInv /\ HandlerInv(c) /\ ~req[c].force
      /\ \A h \in Hosts : TargetInv(h)
      /\ gbids \in Nat /\ meta.gbid \in Nat /\ meta.gbid <= gbids
      /\ files \subseteq Nat
  BY GbidTypes DEF Before, OrderlyInv, CalmInv, LifecycleInv, JournalInv, TypeOK
<1>1. ASSUME NEW s, Moves(c, s), pc[c] \in Critical, CalmInv', HandlerInv(c)',
             \A h \in Hosts : TargetInv(h)'
      PROVE  OrderlyInv'
  BY <1>0, <1>1, Others DEF OrderlyInv
<1>2. "unlock" \notin Holding /\ "prio" \notin Holding
  BY DEF Holding, Preparing
<1>3. CASE CleanUp(c)
  <2>1. /\ pc[c] = "cleanup" /\ req'[c].force = req[c].force
        /\ UNCHANGED <<meta, files, node, stale, gbids>>
    BY <1>3, CleanIs
  <2>2. pc[c] \in Critical /\ pc[c] \in Holding
    BY <2>1 DEF Critical, Steps, Holding
  <2>3. \A d \in Coords : pc[d] # "audit"
    <3>1. \A d \in Coords : pc[d] = "audit" => pc[d] \in Critical
      BY DEF Critical, Steps
    <3> QED
      BY <1>0, <2>1, <2>2, <3>1, Alone
  <2>4. ASSUME NEW s, Moves(c, s) PROVE CalmInv' /\ \A h \in Hosts : TargetInv(h)'
    <3>1. CalmInv'
      BY <1>0, <2>1, <2>4 DEF CalmInv, Moves
    <3> QED
      BY <1>0, <2>1, <2>3, <3>1 DEF TargetInv
  <2>5. CASE Moves(c, "unlock") \/ Moves(c, "prio")
    BY <1>0, <1>2, <2>1, <2>5, Aside
  <2>6. CASE Moves(c, "edelete") /\ DeleteFillArgs = {}
    <3>1. ASSUME NEW h \in Hosts PROVE node[h].gbid = 0
      <4>1. meta.status[h] \in DeleteSkips \cup {NoLine}
        BY <2>6 DEF DeleteFillArgs, Listed, Keys
      <4> QED
        BY <2>3, <4>1, SkippedGone
    <3>2. HandlerInv(c)'
      BY <1>0, <2>1, <2>2, <2>6, <3>1
         DEF HandlerInv, CreateInv, RemoveInv, Moves, Preparing, Removing
    <3> QED
      BY <1>1, <2>2, <2>4, <2>6, <3>2
  <2>7. CASE /\ Moves(c, "collect")
             /\ \A k \in Keys : work'[c][k] \in {"none", "begin"}
    <3>1. HandlerInv(c)'
      BY <1>0, <2>1, <2>2, <2>7
         DEF HandlerInv, CreateInv, RemoveInv, Moves, Preparing, Removing, Keys
    <3> QED
      BY <1>1, <2>2, <2>4, <2>7, <3>1
  <2> QED
    BY <1>3, <2>5, <2>6, <2>7, CleanIs
<1>4. CASE DeleteCollect(c)
  <2>1. /\ pc[c] = "collect" /\ req'[c].force = req[c].force
        /\ UNCHANGED <<meta, files, node, stale, gbids>>
    BY <1>4, CleanIs
  <2>2. pc[c] \in Critical /\ pc[c] \in Holding
    BY <2>1 DEF Critical, Steps, Holding
  <2>3. CASE Moves(c, "unlock") \/ Moves(c, "prio")
    BY <1>0, <1>2, <2>1, <2>3, Aside
  <2>4. CASE Moves(c, "edelete") /\ cleanupsuccess(c) = Cardinality(Listed)
    <3>1. \A h \in Hosts : node[h].gbid = 0
      BY <2>1, <2>4, CountedGone
    <3>2. CalmInv'
      BY <1>0, <2>1, <2>4 DEF CalmInv, Moves
    <3>3. HandlerInv(c)'
      BY <1>0, <2>1, <2>2, <2>4, <3>1
         DEF HandlerInv, CreateInv, RemoveInv, Moves, Preparing, Removing
    <3> QED
      BY <1>1, <2>1, <2>2, <2>4, <3>1, <3>2, <3>3, NoTarget
  <2> QED
    BY <1>4, <2>3, <2>4, CleanIs
<1>5. ASSUME pc[c] \in Removing, UNCHANGED node
      PROVE  /\ pc[c] \in Critical /\ pc[c] \in Holding /\ meta.exists
             /\ 0 < meta.gbid
             /\ \A h \in Hosts : node[h].gbid = 0 /\ TargetInv(h)'
  <2>1. pc[c] \in Critical /\ pc[c] \in Holding
    BY <1>5, HoldingCritical
  <2>2. meta.exists /\ 0 < meta.gbid /\ \A h \in Hosts : node[h].gbid = 0
    BY <1>0, <1>5, <2>1 DEF HandlerInv, RemoveInv, CalmInv
  <2> QED
    BY <1>5, <2>1, <2>2, NoTarget
<1>6. CASE EntryDelete(c)
  <2>1. /\ pc[c] = "edelete" /\ req' = req
        /\ UNCHANGED <<files, node, stale, gbids, work>>
        /\ meta' = HostLine(ENTRYDELETE, "INPROGRESS")
        /\ Moves(c, IF req[c].unlink THEN "unlink" ELSE "edone")
    BY <1>6, CleanIs
  <2>2. pc[c] \in Removing
    BY <2>1 DEF Removing
  <2>3. /\ meta'.exists /\ meta'.gbid = meta.gbid
        /\ ClosedBy(meta'.status[ENTRYDELETE])
    BY <1>0, <2>1, EntryLine DEF EntryStatus
  <2>4. CalmInv'
    BY <1>0, <1>5, <2>1, <2>2, <2>3 DEF CalmInv
  <2>5. HandlerInv(c)'
    BY <1>5, <2>1, <2>2, <2>3
       DEF HandlerInv, CreateInv, RemoveInv, Moves, Preparing, Removing
  <2> QED
    BY <1>1, <1>5, <2>1, <2>2, <2>4, <2>5
<1>7. CASE DeleteEntry(c)
  <2>1. /\ pc[c] = "unlink" /\ req' = req
        /\ UNCHANGED <<meta, node, stale, gbids, work>>
        /\ \/ Moves(c, "edone") /\ files' = files \ {meta.gbid}
           \/ /\ Moves(c, "efail")
              /\ files' \in {files, files \ {meta.gbid}}
    BY <1>7, CleanIs
  <2>2. pc[c] \in Removing /\ pc[c] # "edelete"
    BY <2>1 DEF Removing
  <2>3. CalmInv'
    BY <1>0, <2>1 DEF CalmInv
  <2>4. ClosedBy(meta.status[ENTRYDELETE])
    BY <1>0, <2>2 DEF HandlerInv, RemoveInv
  <2>5. HandlerInv(c)'
    BY <1>5, <2>1, <2>2, <2>4
       DEF HandlerInv, CreateInv, RemoveInv, Moves, Preparing, Removing
  <2> QED
    BY <1>1, <1>5, <2>1, <2>2, <2>3, <2>5
<1>8. CASE EntryDeleteFail(c)
  <2>1. /\ pc[c] = "efail" /\ req'[c].force = req[c].force
        /\ UNCHANGED <<files, node, stale, gbids, work>>
        /\ meta' = HostLine(ENTRYDELETE, "FAIL")
        /\ Moves(c, "unlock") \/ Moves(c, "prio")
    BY <1>8, CleanIs
  <2>2. pc[c] \in Removing
    BY <2>1 DEF Removing
  <2>3. /\ meta'.exists /\ meta'.gbid = meta.gbid
    BY <1>0, <2>1, EntryLine DEF EntryStatus
  <2>4. CalmInv'
    BY <1>0, <1>5, <2>1, <2>2, <2>3 DEF CalmInv, Moves
  <2>5. HandlerInv(c)'
    BY <1>2, <2>1, HandlerOut DEF Moves
  <2> QED
    BY <1>1, <1>5, <2>1, <2>2, <2>4, <2>5
<1>9. CASE EntryDeleteDone(c)
  <2>1. /\ pc[c] = "edone" /\ req' = req
        /\ UNCHANGED <<files, node, stale, gbids, work>>
        /\ meta' = HostLine(ENTRYDELETE, "SUCCESS")
        /\ Moves(c, "unmeta")
    BY <1>9, CleanIs
  <2>2. pc[c] \in Removing
    BY <2>1 DEF Removing
  <2>3. /\ meta'.exists /\ meta'.gbid = meta.gbid
        /\ ClosedBy(meta'.status[ENTRYDELETE])
    BY <1>0, <2>1, EntryLine DEF EntryStatus
  <2>4. CalmInv'
    BY <1>0, <1>5, <2>1, <2>2, <2>3 DEF CalmInv
  <2>5. req[c].unlink => meta.gbid \notin files
    BY <1>0, <2>1 DEF HandlerInv, RemoveInv
  <2>6. HandlerInv(c)'
    BY <1>5, <2>1, <2>2, <2>3, <2>5
       DEF HandlerInv, CreateInv, RemoveInv, Moves, Preparing, Removing
  <2> QED
    BY <1>1, <1>5, <2>1, <2>2, <2>4, <2>6
<1>10. CASE DeleteMetaFile(c)
  <2>1. /\ pc[c] = "unmeta" /\ req'[c].force = req[c].force
        /\ UNCHANGED <<files, node, stale, gbids, work>>
        /\ meta' \in {meta, NoMeta}
        /\ Moves(c, "unlock") \/ Moves(c, "prio")
    BY <1>10, CleanIs
  <2>2. pc[c] \in Removing
    BY <2>1 DEF Removing
  <2>3. ~NoMeta.exists
    BY DEF NoMeta
  <2>4. CalmInv'
    BY <1>0, <1>5, <2>1, <2>2, <2>3 DEF CalmInv, Moves
  <2>5. HandlerInv(c)'
    BY <1>2, <2>1, HandlerOut DEF Moves
  <2> QED
    BY <1>1, <1>5, <2>1, <2>2, <2>4, <2>5
<1> QED
  BY <1>3, <1>4, <1>6, <1>7, <1>8, <1>9, <1>10 DEF CleanUpSteps

\* A thread journals an answer: the line fits what is on the host.
LEMMA OrderlyWorker ==
    ASSUME Orderly, Before, NEW c \in Coords, NEW k \in Keys, Worker(c, k)
    PROVE  OrderlyInv'
<1>0. /\ MutualExclusion /\ CalmInv /\ HandlerInv(c)
      /\ \A h \in Hosts : TargetInv(h) /\ ThreadInv(c, h)
  BY DEF Before, OrderlyInv, LifecycleInv, JournalInv
<1>1. /\ pc[c] \in Calling /\ Moves(c, pc[c])
      /\ UNCHANGED <<files, node, stale, gbids, pc, req>>
      /\ meta'.exists /\ meta'.gbid = meta.gbid
      /\ \A l \in Keys \ {k} : /\ meta'.status[l] = meta.status[l]
                               /\ work'[c][l] = work[c][l]
  BY WorkerIs
<1>2. pc[c] \in Critical /\ pc[c] \in Holding /\ meta.exists
  BY <1>0, <1>1, HoldingCritical DEF HandlerInv
<1>3. CalmInv'
  BY <1>0, <1>1, <1>2 DEF CalmInv
<1>4. ASSUME NEW h \in Hosts, h # k PROVE TargetInv(h)'
  <2>1. /\ meta'.status[h] = meta.status[h]
        /\ \A d \in Coords : work'[d][h] = work[d][h]
    BY <1>1, <1>4 DEF Moves, Keys
  <2> QED
    BY <1>0, <1>1, <2>1 DEF TargetInv
<1>5. ASSUME k \in Hosts PROVE TargetInv(k)'
  <2>1. meta'.status[k] # NoLine \/ meta'.status[k] = meta.status[k]
    BY <1>1, WorkerIs DEF ResultLine, Job, NoLine, Calling
  <2>2. meta'.status[k] = "CONFIGINPROGRESS" => node[k].gbid # meta.gbid
    BY <1>0, <1>1, <1>5, WorkerIs
       DEF ResultLine, Job, Calling, ThreadInv, Unheard, CleanUpStatus
  <2> QED
    BY <1>0, <1>1, <1>5, <2>1, <2>2 DEF TargetInv
<1>6. CreateInv(c)'
  <2>1. CASE pc[c] = "audit"
    <3>1. CreateInv(c) /\ pc'[c] = "audit"
      BY <1>0, <1>1, <2>1 DEF HandlerInv
    <3>2. k # ENTRYDELETE
      BY <2>1, <3>1, WorkerIs DEF CreateInv
    <3>3. ~ClosedBy(meta'.status[k])
      BY <2>1, <3>1, WorkerIs
         DEF CreateInv, ClosedBy, EntryStatus, ResultLine, Job
    <3>4. work'[c][k] \in {"call", "sent", "ok", "err"}
            => meta'.status[k] = "CONFIGINPROGRESS"
      BY <2>1, <3>1, WorkerIs DEF CreateInv
    <3> QED
      BY <1>1, <2>1, <3>1, <3>2, <3>3, <3>4, EntryKey DEF CreateInv, Keys
  <2>2. CASE pc[c] # "audit"
    BY <1>1, <2>2 DEF CreateInv, Calling, Preparing
  <2> QED
    BY <2>1, <2>2
<1>7. RemoveInv(c)'
  <2>1. CASE pc[c] = "collect"
    <3>1. RemoveInv(c) /\ pc'[c] = "collect"
      BY <1>0, <1>1, <2>1 DEF HandlerInv
    <3>2. k = ENTRYDELETE
            => work'[c][k] \in {"none", "begin", "call", "failed"}
      BY <2>1, <3>1, WorkerIs, HostsAssumption DEF RemoveInv
    <3>3. ASSUME k \in Hosts
          PROVE  /\ work'[c][k] \in {"notfound", "gone"}
                      => node[k].gbid # meta.gbid
                 /\ work'[c][k] = "gone" => meta'.status[k] = "CLEANUPFAIL"
      BY <2>1, <3>1, <3>3, WorkerIs DEF RemoveInv, ResultLine, Job
    <3> QED
      BY <1>1, <2>1, <3>1, <3>2, <3>3, EntryKey
         DEF RemoveInv, Keys, Removing
  <2>2. CASE pc[c] # "collect"
    BY <1>1, <2>2 DEF RemoveInv, Calling, Removing
  <2> QED
    BY <2>1, <2>2
<1> QED
  BY <1>0, <1>1, <1>2, <1>3, <1>4, <1>5, <1>6, <1>7, Others
     DEF OrderlyInv, HandlerInv

\* A call takes effect: the thread that called is there to journal it.
LEMMA OrderlyRpc ==
    ASSUME Orderly, Before, NEW c \in Coords, NEW h \in Hosts, Rpc(c, h)
    PROVE  OrderlyInv'
<1>0. /\ MutualExclusion /\ CalmInv /\ HandlerInv(c)
      /\ \A g \in Hosts : TargetInv(g)
  BY DEF Before, OrderlyInv, LifecycleInv
<1>1. /\ pc[c] \in Calling /\ Moves(c, pc[c])
      /\ UNCHANGED <<meta, files, stale, gbids, pc, req>>
      /\ work[c][h] = "sent"
      /\ \A l \in Keys \ {h} : work'[c][l] = work[c][l]
      /\ \A g \in Hosts \ {h} : node'[g] = node[g]
  BY RpcIs
<1>2. pc[c] \in Critical /\ pc[c] \in Holding
  BY <1>1, HoldingCritical
<1>3. CalmInv'
  BY <1>0, <1>1 DEF CalmInv
<1>4. ASSUME NEW g \in Hosts, g # h PROVE TargetInv(g)'
  <2>1. \A d \in Coords : work'[d][g] = work[d][g]
    BY <1>1, <1>4 DEF Moves, Keys
  <2> QED
    BY <1>0, <1>1, <1>4, <2>1 DEF TargetInv
<1>5. TargetInv(h)'
  <2>1. CASE node'[h].gbid = node[h].gbid
    <3>1. \A d \in Coords : work[d][h] \in {"ok", "err"} => work'[d] = work[d]
      BY <1>1 DEF Moves
    <3> QED
      BY <1>0, <1>1, <2>1, <3>1 DEF TargetInv
  <2>2. CASE /\ pc[c] = "audit" /\ node[h].gbid = 0
             /\ node'[h].gbid = meta.gbid /\ work'[c][h] \in {"ok", "err"}
    <3>1. meta.gbid \in files /\ meta.status[h] = "CONFIGINPROGRESS"
      BY <1>0, <1>1, <2>2 DEF HandlerInv, CreateInv
    <3> QED
      BY <1>1, <2>2, <3>1 DEF TargetInv, NoLine
  <2> QED
    BY <2>1, <2>2, RpcIs, NoTarget
<1>6. CreateInv(c)'
  <2>1. CASE pc[c] = "audit"
    <3>1. CreateInv(c) /\ meta.status[h] = "CONFIGINPROGRESS"
      BY <1>0, <1>1, <2>1 DEF HandlerInv, CreateInv
    <3> QED
      BY <1>1, <2>1, <3>1, EntryKey, HostsAssumption
         DEF CreateInv, Keys, Preparing
  <2>2. CASE pc[c] # "audit"
    BY <1>1, <2>2 DEF CreateInv, Calling, Preparing
  <2> QED
    BY <2>1, <2>2
<1>7. RemoveInv(c)'
  <2>1. CASE pc[c] = "collect"
    <3>1. RemoveInv(c) /\ pc'[c] = "collect"
      BY <1>0, <1>1, <2>1 DEF HandlerInv
    <3>2. /\ work'[c][h] # "gone"
          /\ work'[c][h] = "notfound" => node'[h].gbid # meta.gbid
      BY RpcIs
    <3> QED
      BY <1>1, <2>1, <3>1, <3>2, EntryKey, HostsAssumption
         DEF RemoveInv, Keys, Removing
  <2>2. CASE pc[c] # "collect"
    BY <1>1, <2>2 DEF RemoveInv, Calling, Removing
  <2> QED
    BY <2>1, <2>2
<1> QED
  BY <1>0, <1>1, <1>2, <1>3, <1>4, <1>5, <1>6, <1>7, Others
     DEF OrderlyInv, HandlerInv

\* A host that comes back has the target it had.
LEMMA OrderlyLoad ==
    ASSUME Before, NEW h \in Hosts, Unload(h) \/ Restore(h)
    PROVE  OrderlyInv'
BY LoadIs, HandlerKept DEF Before, OrderlyInv, CalmInv, TargetInv

-----------------------------------------------------------------------------
(***************************************************************************)
(* The theorems.                                                           *)
(***************************************************************************)

\* Nothing is there before the first request.
LEMMA OrderlyInit == Init => OrderlyInv
<1> SUFFICES ASSUME Init PROVE OrderlyInv
  OBVIOUS
<1>1. CalmInv
  BY DEF Init, CalmInv, NoMeta, NoRequest
<1>2. \A h \in Hosts : TargetInv(h)
  BY DEF Init, TargetInv, NoConfig
<1>3. \A c \in Coords : HandlerInv(c)
  BY DEF Init, HandlerInv, CreateInv, RemoveInv, Holding, Preparing, Removing
<1> QED
  BY <1>1, <1>2, <1>3 DEF OrderlyInv

\* Neither a crash nor a late call is orderly.
LEMMA OrderlyNext ==
    ASSUME Orderly, Before, Next
    PROVE  OrderlyInv'
<1>1. ASSUME NEW c \in Coords PROVE ~Crash(c)
  BY DEF Orderly, Crash, Fault
<1>2. ASSUME NEW h \in Hosts PROVE ~ServeStale(h)
  BY DEF Before, OrderlyInv, CalmInv, ServeStale
<1>3. ASSUME NEW c \in Coords, Handler(c) PROVE OrderlyInv'
  BY <1>3, OrderlyAside, OrderlyCreate, OrderlyClean DEF Handler, CreateSteps
<1> QED
  BY <1>1, <1>2, <1>3, OrderlyAside, OrderlyWorker, OrderlyRpc, OrderlyLoad
     DEF Next

\* OrderlyInv is an invariant of every instance with orderly requests, whatever
\* connections break, scripts fail, hosts reboot and reads or unlinks go wrong.
THEOREM OrderlySafety ==
    ASSUME Orderly
    PROVE  Spec => []OrderlyInv
<1>1. "access" \notin FaultKinds
  BY DEF Orderly
<1>2. OrderlyInv /\ UNCHANGED vars => OrderlyInv'
  BY DEF OrderlyInv, CalmInv, TargetInv, HandlerInv, CreateInv, RemoveInv, vars
<1>3. TypeOK /\ LifecycleInv /\ OrderlyInv /\ Next => OrderlyInv'
  BY OrderlyNext DEF Before
<1>4. Spec => []LifecycleInv
  BY <1>1, LifecycleSafety
<1> QED
  BY <1>2, <1>3, <1>4, OrderlyInit, Typing, PTL DEF Spec

\* NoOrphanTarget for every instance with orderly requests: glusterBlockCleanUp
\* unlinks file and metafile only when no host has a target.
THEOREM NoOrphanSafety ==
    ASSUME Orderly
    PROVE  Spec => []NoOrphanTarget
<1>1. TypeOK /\ OrderlyInv => NoOrphanTarget
  BY DEF OrderlyInv, TargetInv, CalmInv, NoOrphanTarget, NoMeta
<1> QED
  BY <1>1, OrderlySafety, Typing, PTL

\* Untouched for every instance with orderly requests: what
\* glusterBlockDeleteFillArgs passes over as never configured has no target.
THEOREM UntouchedSafety ==
    ASSUME Orderly
    PROVE  Spec => []Untouched
<1>1. OrderlyInv => Untouched
  <2> SUFFICES ASSUME OrderlyInv, NEW c \in Coords, NEW h \in Hosts,
                      pc[c] \in {"edelete", "unlink", "edone", "unmeta"}
               PROVE  node[h].gbid # meta.gbid
    BY DEF Untouched
  <2>1. pc[c] \in Removing /\ pc[c] \in Holding
    BY DEF Removing, Holding
  <2>2. node[h].gbid = 0 /\ meta.exists /\ (meta.exists => 0 < meta.gbid)
    BY <2>1 DEF OrderlyInv, HandlerInv, RemoveInv, CalmInv
  <2> QED
    BY <2>2
<1> QED
  BY <1>1, OrderlySafety, PTL

-----------------------------------------------------------------------------
(***************************************************************************)
(* The refinement of BlockAbs, when moreover no delete keeps the file.     *)
(***************************************************************************)

\* glusterBlockCleanUp unlinks the file of every block it removes.
Unlinking == \A a \in DeleteArgs : a.unlink

\* A handler under way is one that unlinks.
UnlinkInv == \A c \in Coords : pc[c] = "idle" \/ req[c].unlink

\* A handler keeps the locals that say so.
LEMMA UnlinkStep ==
    ASSUME TypeOK, UnlinkInv, NEW c \in Coords, NEW s, NEW r,
           Set(c, r), Goto(c, s), s = "idle" \/ r.unlink
    PROVE  UnlinkInv'
BY DEF TypeOK, UnlinkInv, Set, Goto

\* The same when only the step changes.
LEMMA UnlinkGoto ==
    ASSUME TypeOK, UnlinkInv, NEW c \in Coords, NEW s, pc[c] # "idle",
           req' = req, Goto(c, s)
    PROVE  UnlinkInv'
BY DEF TypeOK, UnlinkInv, Goto

\* UnlinkInv is inductive.
LEMMA UnlinkNext ==
    ASSUME Unlinking, TypeOK, UnlinkInv, Next
    PROVE  UnlinkInv'
<1>0. req \in [Coords -> Request] /\ pc \in [Coords -> Steps]
  BY DEF TypeOK
<1>1. ASSUME NEW c \in Coords, pc[c] # "idle", Fails(c) PROVE UnlinkInv'
  <2>1. [req[c] EXCEPT !.err = TRUE].unlink = req[c].unlink
    BY <1>0 DEF Request
  <2> QED
    BY <1>1, <2>1, UnlinkStep DEF Fails, UnlinkInv
<1>2. ASSUME NEW c \in Coords, pc[c] # "idle", NEW r \in Request,
             r.unlink = req[c].unlink, NEW failed,
             CleanUpReturn(c, r, failed)
      PROVE  UnlinkInv'
  <2> DEFINE err == IF r.op = "create" THEN r.err
                    ELSE (r.asyncret /\ ~r.force) \/ failed
             q == [r EXCEPT !.err = err]
  <2>1. Set(c, q) /\ Goto(c, IF err THEN "unlock" ELSE "prio")
    BY <1>2 DEF CleanUpReturn
  <2>2. q.unlink = req[c].unlink
    BY <1>2 DEF Request
  <2> HIDE DEF q, err
  <2> QED
    BY <1>2, <2>1, <2>2, UnlinkStep DEF UnlinkInv
<1>3. ASSUME NEW c \in Coords, CreateRequest(c) PROVE UnlinkInv'
  <2>1. PICK a \in CreateArgs :
          Accept(c, [NoRequest EXCEPT !.op = "create", !.hosts = a.hosts,
                       !.auth = a.auth, !.unlink = TRUE, !.since = faults])
    BY <1>3 DEF CreateRequest
  <2> DEFINE r == [NoRequest EXCEPT !.op = "create", !.hosts = a.hosts,
                       !.auth = a.auth, !.unlink = TRUE, !.since = faults]
  <2>2. r.unlink
    BY DEF NoRequest
  <2> HIDE DEF r
  <2> QED
    BY <2>1, <2>2, UnlinkStep DEF Accept, r
<1>4. ASSUME NEW c \in Coords, DeleteRequest(c) PROVE UnlinkInv'
  <2>1. PICK a \in DeleteArgs :
          Accept(c, [NoRequest EXCEPT !.force = a.force, !.unlink = a.unlink,
                       !.since = faults])
    BY <1>4 DEF DeleteRequest
  <2> DEFINE r == [NoRequest EXCEPT !.force = a.force, !.unlink = a.unlink,
                       !.since = faults]
  <2>2. r.unlink
    BY DEF NoRequest, Unlinking
  <2> HIDE DEF r
  <2> QED
    BY <2>1, <2>2, UnlinkStep DEF Accept, r
<1>5. ASSUME NEW c \in Coords, MetaLock(c) PROVE UnlinkInv'
  BY <1>5, UnlinkStep, UnlinkGoto DEF MetaLock
<1>6. ASSUME NEW c \in Coords, MetaUnlock(c) PROVE UnlinkInv'
  <2>1. PICK bad \in BOOLEAN :
          \/ Set(c, [req[c] EXCEPT !.err = bad]) /\ Goto(c, "format")
          \/ Set(c, NoRequest) /\ Goto(c, "idle")
    BY <1>6 DEF MetaUnlock
  <2>2. [req[c] EXCEPT !.err = bad].unlink = req[c].unlink
    BY <1>0 DEF Request
  <2>3. pc[c] # "idle"
    BY <1>6 DEF MetaUnlock
  <2> QED
    BY <2>1, <2>2, <2>3, UnlinkStep DEF UnlinkInv
<1>7. ASSUME NEW c \in Coords, CreateSteps(c) PROVE UnlinkInv'
  <2>1. \A p : [req[c] EXCEPT !.prio = p].unlink = req[c].unlink
    BY <1>0 DEF Request
  <2>2. [req[c] EXCEPT !.err = TRUE].unlink = req[c].unlink
    BY <1>0 DEF Request
  <2> USE DEF CreateStep, GB_METAUPDATE_OR_GOTO
  <2>3. CASE CreateExists(c)
    BY <1>1, <2>3 DEF CreateExists
  <2>4. CASE CreateMeta(c)
    <3>1. pc[c] # "idle"
      BY <2>4 DEF CreateMeta
    <3>2. \/ \E p : Set(c, [req[c] EXCEPT !.prio = p]) /\ Goto(c, "entry")
          \/ Fails(c)
      BY <2>4 DEF CreateMeta
    <3> QED
      BY <1>1, <2>1, <3>1, <3>2, UnlinkStep DEF UnlinkInv
  <2>5. CASE CreateEntry(c)
    BY <1>1, <2>5, UnlinkGoto DEF CreateEntry
  <2>6. CASE CreateSize(c)
    BY <1>1, <2>6, UnlinkGoto DEF CreateSize
  <2>7. CASE CreatePassword(c)
    BY <1>1, <2>7, UnlinkGoto DEF CreatePassword
  <2>8. CASE CreateRemoteAsync(c)
    BY <2>8, UnlinkGoto DEF CreateRemoteAsync
  <2>9. CASE AuditRequest(c)
    <3>1. pc[c] # "idle"
      BY <2>9 DEF AuditRequest
    <3>2. \/ req' = req /\ \E s : Goto(c, s)
          \/ Set(c, [req[c] EXCEPT !.err = TRUE]) /\ Goto(c, "cleanup")
      BY <2>9 DEF AuditRequest
    <3> QED
      BY <2>2, <3>1, <3>2, UnlinkStep, UnlinkGoto DEF UnlinkInv
  <2>10. CASE CreateFormatResponse(c)
    BY <2>10, UnlinkStep DEF CreateFormatResponse
  <2> QED
    BY <1>7, <2>3, <2>4, <2>5, <2>6, <2>7, <2>8, <2>9, <2>10 DEF CreateSteps
<1>8. ASSUME NEW c \in Coords, DeleteAccess(c) PROVE UnlinkInv'
  <2>1. [req[c] EXCEPT !.prio = meta.prio].unlink = req[c].unlink
    BY <1>0 DEF Request
  <2>2. pc[c] # "idle"
    BY <1>8 DEF DeleteAccess
  <2>3. \/ Set(c, [req[c] EXCEPT !.prio = meta.prio]) /\ Goto(c, "cleanup")
        \/ Fails(c)
    BY <1>8 DEF DeleteAccess
  <2> QED
    BY <1>1, <2>1, <2>2, <2>3, UnlinkStep DEF UnlinkInv
<1>9. ASSUME NEW c \in Coords, CleanUpSteps(c) PROVE UnlinkInv'
  <2>1. req[c] \in Request
    BY <1>0
  <2>2. ASSUME NEW failed, CleanUpReturn(c, req[c], failed), pc[c] # "idle"
        PROVE  UnlinkInv'
    BY <1>2, <2>1, <2>2
  <2> USE DEF GB_METAUPDATE_OR_GOTO
  <2>3. CASE CleanUp(c)
    BY <2>2, <2>3, UnlinkGoto DEF CleanUp
  <2>4. CASE DeleteCollect(c)
    <3>1. PICK bad \in BOOLEAN :
            LET r == [req[c] EXCEPT !.asyncret = bad] IN
            \/ Set(c, r) /\ Goto(c, "edelete")
            \/ CleanUpReturn(c, r, FALSE)
      BY <2>4 DEF DeleteCollect
    <3> DEFINE r == [req[c] EXCEPT !.asyncret = bad]
    <3>2. r \in Request /\ r.unlink = req[c].unlink /\ pc[c] # "idle"
      BY <2>1, <2>4, AsyncType DEF Request, DeleteCollect
    <3>3. \/ Set(c, r) /\ Goto(c, "edelete")
          \/ CleanUpReturn(c, r, FALSE)
      BY <3>1
    <3> HIDE DEF r
    <3> QED
      BY <1>2, <3>2, <3>3, UnlinkStep DEF UnlinkInv
  <2>5. CASE EntryDelete(c)
    BY <2>2, <2>5, UnlinkGoto DEF EntryDelete
  <2>6. CASE DeleteEntry(c)
    BY <2>6, UnlinkGoto DEF DeleteEntry
  <2>7. CASE EntryDeleteFail(c)
    BY <2>2, <2>7 DEF EntryDeleteFail
  <2>8. CASE EntryDeleteDone(c)
    BY <2>2, <2>8, UnlinkGoto DEF EntryDeleteDone
  <2>9. CASE DeleteMetaFile(c)
    BY <2>2, <2>9 DEF DeleteMetaFile
  <2> QED
    BY <1>9, <2>3, <2>4, <2>5, <2>6, <2>7, <2>8, <2>9 DEF CleanUpSteps
<1>10. ASSUME NEW c \in Coords, PrioAttr(c) PROVE UnlinkInv'
  BY <1>10, UnlinkGoto DEF PrioAttr
<1>11. ASSUME NEW c \in Coords, Crash(c) PROVE UnlinkInv'
  BY <1>11, UnlinkStep DEF Crash
<1>12. ASSUME UNCHANGED <<pc, req>> PROVE UnlinkInv'
  BY <1>12 DEF UnlinkInv
<1>13. ASSUME NEW c \in Coords, NEW k \in Keys, Worker(c, k)
       PROVE  UNCHANGED <<pc, req>>
  BY <1>13 DEF Worker, WorkerBegin, WorkerConnect, WorkerResult, WorkerAuth
<1>14. ASSUME NEW c \in Coords, NEW h \in Hosts, Rpc(c, h)
       PROVE  UNCHANGED <<pc, req>>
  BY <1>14 DEF Rpc, RpcServed, RpcLost, RpcTimeout
<1>15. ASSUME NEW h \in Hosts, ServeStale(h) \/ Unload(h) \/ Restore(h)
       PROVE  UNCHANGED <<pc, req>>
  BY <1>15 DEF ServeStale, Unload, Restore
<1> QED
  BY <1>3, <1>4, <1>5, <1>6, <1>7, <1>8, <1>9, <1>10, <1>11, <1>12, <1>13,
     <1>14, <1>15
     DEF Next, Handler

\* UnlinkInv is an invariant.
LEMMA UnlinkSafety ==
    ASSUME Unlinking
    PROVE  Spec => []UnlinkInv
<1>1. Init => UnlinkInv
  BY DEF Init, UnlinkInv
<1>2. UnlinkInv /\ UNCHANGED vars => UnlinkInv'
  BY DEF UnlinkInv, vars
<1>3. TypeOK /\ UnlinkInv /\ Next => UnlinkInv'
  BY UnlinkNext
<1> QED
  BY <1>1, <1>2, <1>3, Typing, PTL DEF Spec

\* A step of BlockAbs, or none.
AbsStep == Abs!Next \/ UNCHANGED Abs!vars

\* What Life says, before and after a step.
LEMMA LifeIs ==
    /\ ~meta.exists => Life = "none"
    /\ meta.exists /\ (\E k \in Keys : ClosedBy(meta.status[k])) => Life = "down"
    /\ meta.exists /\ (\A k \in Keys : ~ClosedBy(meta.status[k])) => Life = "up"
    /\ ~meta'.exists => Life' = "none"
    /\ meta'.exists /\ (\E k \in Keys : ClosedBy(meta'.status[k]))
         => Life' = "down"
    /\ meta'.exists /\ (\A k \in Keys : ~ClosedBy(meta'.status[k]))
         => Life' = "up"
BY DEF Life

\* A client that looks at hosts and volume sees no change.
LEMMA Unseen ==
    ASSUME gbids' = gbids, meta'.gbid = meta.gbid, Life' = Life,
           meta'.gbid \in files' <=> meta.gbid \in files,
           \A h \in Hosts : node'[h].gbid = 0 <=> node[h].gbid = 0
    PROVE  AbsStep
<1>1. {h \in Hosts : node[h].gbid # 0}' = {h \in Hosts : node[h].gbid # 0}
  OBVIOUS
<1>2. (meta.gbid \in files)' = (meta.gbid \in files)
  OBVIOUS
<1> QED
  BY <1>1, <1>2 DEF AbsStep, Abs!vars

\* Steps that touch neither journal, file nor hosts.
LEMMA UnseenStep ==
    ASSUME UNCHANGED <<meta, files, node, gbids>>
    PROVE  AbsStep
<1>1. Life' = Life
  BY DEF Life
<1> QED
  BY <1>1, Unseen

\* The first line of a cleanup closes the block, the others change nothing.
LEMMA Closing ==
    ASSUME UNCHANGED <<files, node, gbids>>, meta'.gbid = meta.gbid,
           meta.exists, meta'.exists, NEW k \in Keys, ClosedBy(meta'.status[k])
    PROVE  AbsStep
<1>1. Life' = "down" /\ Life \in {"up", "down"}
  BY LifeIs
<1>2. CASE Life = "down"
  BY <1>1, <1>2, Unseen
<1>3. CASE Life = "up"
  BY <1>1, <1>3 DEF AbsStep, Abs!Next, Abs!Close
<1> QED
  BY <1>1, <1>2, <1>3

\* The steps of a create.
LEMMA SeenCreate ==
    ASSUME Orderly, Before, NEW c \in Coords,
           \/ CreateMeta(c) \/ CreateEntry(c) \/ CreateSize(c)
           \/ CreatePassword(c) \/ CreateRemoteAsync(c) \/ AuditRequest(c)
    PROVE  AbsStep
<1>0. /\ CalmInv /\ HandlerInv(c) /\ \A h \in Hosts : TargetInv(h)
      /\ gbids \in Nat /\ meta.gbid \in Nat /\ meta.gbid <= gbids
      /\ files \subseteq Nat
  BY GbidTypes DEF Before, OrderlyInv, LifecycleInv, JournalInv, TypeOK
<1>1. CASE CreateMeta(c)
  <2>1. /\ ~meta.exists /\ UNCHANGED <<files, node>>
        /\ gbids' = gbids + 1
        /\ meta'.exists /\ meta'.gbid = gbids + 1
        /\ meta'.status = meta.status
    BY <1>1, CreateIs
  <2>2. meta.gbid = 0 /\ \A k \in Keys : meta.status[k] = NoLine
    BY <1>0, <2>1 DEF CalmInv, NoMeta
  <2>3. Life = "none" /\ Life' = "up"
    BY <2>1, <2>2, LifeIs DEF ClosedBy, NoLine, EntryStatus
  <2>4. \A g \in files : 0 < g /\ g <= gbids
    BY <1>0 DEF CalmInv
  <2>5. meta.gbid \notin files /\ meta'.gbid \notin files'
    BY <1>0, <2>1, <2>2, <2>4
  <2>6. (meta.gbid \in files)' = (meta.gbid \in files)
    BY <2>5
  <2> QED
    BY <2>1, <2>3, <2>6 DEF AbsStep, Abs!Next, Abs!Create
<1>2. CASE CreateEntry(c)
  <2>1. pc[c] = "entry" /\ UNCHANGED <<node, gbids>>
    BY <1>2, CreateIs
  <2>2. pc[c] \in Preparing /\ pc[c] \in Holding
    BY <2>1 DEF Preparing, Holding
  <2>3. {h \in Hosts : node[h].gbid # 0} = {}
    BY <2>2, Bare
  <2>4. /\ meta.exists /\ 0 < meta.gbid /\ meta.gbid \notin files
        /\ \A k \in Keys : ~ClosedBy(meta.status[k])
    BY <1>0, <2>1, <2>2 DEF HandlerInv, CreateInv, CalmInv
  <2>5. Life = "up"
    BY <2>4, LifeIs
  <2>6. CASE meta' = meta /\ files' = files \cup {meta.gbid}
    <3>1. Life' = "up"
      BY <2>5, <2>6 DEF Life
    <3> QED
      BY <2>1, <2>3, <2>4, <2>5, <2>6, <3>1 DEF AbsStep, Abs!Next, Abs!Provision
  <2>7. CASE meta' = meta /\ files' = files
    BY <2>1, <2>7, UnseenStep
  <2>8. CASE meta' = NoMeta /\ files' \in {files, files \cup {meta.gbid}}
    <3>1. ~meta'.exists /\ meta'.gbid = 0
      BY <2>8 DEF NoMeta
    <3>2. Life' = "none"
      BY <3>1, LifeIs
    <3>3. \A g \in files : 0 < g
      BY <1>0 DEF CalmInv
    <3>4. meta'.gbid \notin files'
      BY <1>0, <2>4, <2>8, <3>1, <3>3
    <3>5. (meta.gbid \in files)' = (meta.gbid \in files)
      BY <2>4, <3>4
    <3> QED
      BY <2>1, <2>3, <2>4, <2>5, <3>1, <3>2, <3>5
         DEF AbsStep, Abs!Next, Abs!Remove
  <2> QED
    BY <1>2, <2>6, <2>7, <2>8, CreateIs
<1>3. CASE CreateSize(c) \/ CreatePassword(c)
  <2>1. /\ UNCHANGED <<files, node, gbids>>
        /\ meta'.exists = meta.exists /\ meta'.gbid = meta.gbid
        /\ meta'.status = meta.status
    BY <1>3, CreateIs
  <2>2. Life' = Life
    BY <2>1 DEF Life
  <2> QED
    BY <2>1, <2>2, Unseen
<1>4. CASE CreateRemoteAsync(c) \/ AuditRequest(c)
  BY <1>4, CreateIs, UnseenStep
<1> QED
  BY <1>1, <1>2, <1>3, <1>4

\* The steps of a cleanup.
LEMMA SeenClean ==
    ASSUME Orderly, Before, UnlinkInv, NEW c \in Coords, CleanUpSteps(c)
    PROVE  AbsStep
<1>0. /\ TypeOK /\ CalmInv /\ HandlerInv(c) /\ meta.gbid \in Nat
      /\ files \subseteq Nat
  BY GbidTypes DEF Before, OrderlyInv, TypeOK
<1>1. ASSUME pc[c] \in Removing
      PROVE  /\ meta.exists /\ {h \in Hosts : node[h].gbid # 0} = {}
             /\ pc[c] # "edelete" => Life = "down"
  <2>1. pc[c] \in Holding
    BY <1>1, HoldingCritical
  <2>2. /\ meta.exists /\ \A h \in Hosts : node[h].gbid = 0
        /\ pc[c] # "edelete" => ClosedBy(meta.status[ENTRYDELETE])
    BY <1>0, <1>1, <2>1 DEF HandlerInv, RemoveInv
  <2> QED
    BY <2>2, LifeIs, EntryKey
<1>2. CASE CleanUp(c) \/ DeleteCollect(c)
  BY <1>2, CleanIs, UnseenStep
<1>3. ASSUME NEW s \in EntryStatus, pc[c] \in Removing,
             meta' = HostLine(ENTRYDELETE, s), UNCHANGED <<files, node, gbids>>
      PROVE  AbsStep
  BY <1>0, <1>1, <1>3, EntryLine, EntryKey, Closing
<1>4. CASE EntryDelete(c) \/ EntryDeleteFail(c) \/ EntryDeleteDone(c)
  <2>1. /\ pc[c] \in Removing /\ UNCHANGED <<files, node, gbids>>
        /\ \E s \in EntryStatus : meta' = HostLine(ENTRYDELETE, s)
    BY <1>4, CleanIs DEF Removing, EntryStatus
  <2> QED
    BY <1>3, <2>1
<1>5. CASE DeleteEntry(c)
  <2>1. /\ pc[c] = "unlink" /\ UNCHANGED <<meta, node, gbids>>
        /\ files' \in {files, files \ {meta.gbid}}
    BY <1>5, CleanIs
  <2>2. Life = "down" /\ {h \in Hosts : node[h].gbid # 0} = {}
    BY <1>1, <2>1 DEF Removing
  <2>3. Life' = Life
    BY <2>1 DEF Life
  <2>4. CASE meta.gbid \in files /\ files' = files \ {meta.gbid}
    BY <2>1, <2>2, <2>3, <2>4 DEF AbsStep, Abs!Next, Abs!Unlink
  <2>5. CASE meta.gbid \notin files \/ files' = files
    BY <2>1, <2>3, <2>5, Unseen
  <2> QED
    BY <2>1, <2>4, <2>5
<1>6. CASE DeleteMetaFile(c)
  <2>1. /\ pc[c] = "unmeta" /\ UNCHANGED <<files, node, gbids>>
        /\ meta' \in {meta, NoMeta}
    BY <1>6, CleanIs
  <2>2. Life = "down" /\ {h \in Hosts : node[h].gbid # 0} = {}
    BY <1>1, <2>1 DEF Removing
  <2>3. meta.gbid \notin files
    BY <1>0, <2>1 DEF HandlerInv, RemoveInv, UnlinkInv
  <2>4. CASE meta' = meta
    BY <2>1, <2>4, UnseenStep
  <2>5. CASE meta' = NoMeta
    <3>1. ~meta'.exists /\ meta'.gbid = 0
      BY <2>5 DEF NoMeta
    <3>2. Life' = "none"
      BY <3>1, LifeIs
    <3>3. \A g \in files : 0 < g
      BY <1>0 DEF CalmInv
    <3>4. meta'.gbid \notin files'
      BY <2>1, <3>1, <3>3
    <3>5. (meta.gbid \in files)' = (meta.gbid \in files)
      BY <2>3, <3>4
    <3> QED
      BY <2>1, <2>2, <2>3, <3>1, <3>2, <3>5 DEF AbsStep, Abs!Next, Abs!Remove
  <2> QED
    BY <2>1, <2>4, <2>5
<1> QED
  BY <1>2, <1>4, <1>5, <1>6 DEF CleanUpSteps

\* The lines of the threads: those of a create leave the block up.
LEMMA SeenWorker ==
    ASSUME Orderly, Before, OrderlyInv', NEW c \in Coords, NEW k \in Keys,
           Worker(c, k)
    PROVE  AbsStep
<1>0. /\ HandlerInv(c) /\ HandlerInv(c)' /\ \A h \in Hosts : ThreadInv(c, h)
  BY DEF Before, OrderlyInv, LifecycleInv, JournalInv
<1>1. /\ pc[c] \in Calling /\ UNCHANGED <<files, node, gbids, pc>>
      /\ meta'.exists /\ meta'.gbid = meta.gbid
      /\ \A l \in Keys \ {k} : meta'.status[l] = meta.status[l]
  BY WorkerIs
<1>2. meta.exists
  BY <1>0, <1>1, HoldingCritical DEF HandlerInv
<1>3. CASE pc[c] = "audit"
  <2>1. \A l \in Keys : ~ClosedBy(meta.status[l]) /\ ~ClosedBy(meta'.status[l])
    BY <1>0, <1>1, <1>3 DEF HandlerInv, CreateInv
  <2>2. Life = "up" /\ Life' = "up"
    BY <1>1, <1>2, <2>1, LifeIs
  <2> QED
    BY <1>1, <2>2, Unseen
<1>4. CASE pc[c] = "collect"
  <2>1. work[c][k] # "auth"
    BY <1>0, <1>4 DEF ThreadInv, HandlerInv, RemoveInv, Keys
  <2>2. ClosedBy(meta'.status[k]) \/ meta'.status[k] = meta.status[k]
    BY <1>4, <2>1, WorkerIs DEF ClosedBy, ResultLine, Job
  <2>3. CASE ClosedBy(meta'.status[k])
    BY <1>1, <1>2, <2>3, Closing
  <2>4. CASE meta'.status[k] = meta.status[k]
    <3>1. Life' = Life
      BY <1>1, <1>2, <2>4 DEF Life
    <3> QED
      BY <1>1, <3>1, Unseen
  <2> QED
    BY <2>2, <2>3, <2>4
<1> QED
  BY <1>1, <1>3, <1>4 DEF Calling

\* A call exports the block on a host, or withdraws it.
LEMMA SeenRpc ==
    ASSUME Orderly, Before, NEW c \in Coords, NEW h \in Hosts, Rpc(c, h)
    PROVE  AbsStep
<1> DEFINE X == {g \in Hosts : node[g].gbid # 0}
<1>0. /\ HandlerInv(c) /\ CalmInv /\ ThreadInv(c, h) /\ meta.gbid \in Nat
  BY GbidTypes DEF Before, OrderlyInv, LifecycleInv, JournalInv
<1>1. /\ pc[c] \in Calling /\ UNCHANGED <<meta, files, gbids, pc>>
      /\ work[c][h] = "sent"
      /\ \A g \in Hosts \ {h} : node'[g] = node[g]
  BY RpcIs
<1>2. meta.exists /\ 0 < meta.gbid
  BY <1>0, <1>1, HoldingCritical DEF HandlerInv, CalmInv
<1>3. Life' = Life /\ (meta.gbid \in files)' = (meta.gbid \in files)
  BY <1>1 DEF Life
<1>4. CASE node'[h].gbid = node[h].gbid
  BY <1>1, <1>3, <1>4, Unseen
<1>5. CASE pc[c] = "audit" /\ node[h].gbid = 0 /\ node'[h].gbid = meta.gbid
  <2>1. meta.gbid \in files /\ \A k \in Keys : ~ClosedBy(meta.status[k])
    BY <1>0, <1>5 DEF HandlerInv, CreateInv
  <2>2. Life = "up"
    BY <1>2, <2>1, LifeIs
  <2>3. h \notin X /\ X' = X \cup {h}
    BY <1>0, <1>1, <1>2, <1>5
  <2>4. Abs!Export(h)
    BY <1>1, <1>3, <2>1, <2>2, <2>3 DEF Abs!Export
  <2> QED
    BY <2>4 DEF AbsStep, Abs!Next
<1>6. CASE pc[c] # "audit" /\ node[h].gbid = meta.gbid /\ node'[h].gbid = 0
  <2>1. meta.status[h] \in CleanUpStatus
    BY <1>0, <1>1, <1>6 DEF ThreadInv, Calling
  <2>2. Life = "down"
    BY <1>2, <2>1, LifeIs DEF ClosedBy, CleanUpStatus, Keys
  <2>3. h \in X /\ X' = X \ {h}
    BY <1>0, <1>1, <1>2, <1>6
  <2>4. Abs!Withdraw(h)
    BY <1>1, <1>3, <2>2, <2>3 DEF Abs!Withdraw
  <2> QED
    BY <2>4 DEF AbsStep, Abs!Next
<1> QED
  BY <1>4, <1>5, <1>6, RpcIs

\* Every step is one of BlockAbs, or one that a client cannot see.
LEMMA SeenNext ==
    ASSUME Orderly, Before, UnlinkInv, Next
    PROVE  AbsStep
<1>1. ASSUME NEW c \in Coords PROVE ~Crash(c)
  BY DEF Orderly, Crash, Fault
<1>2. ASSUME NEW h \in Hosts PROVE ~ServeStale(h)
  BY DEF Before, OrderlyInv, CalmInv, ServeStale
<1>3. ASSUME NEW c \in Coords,
             \/ CreateRequest(c) \/ DeleteRequest(c) \/ MetaLock(c)
             \/ MetaUnlock(c) \/ PrioAttr(c) \/ CreateExists(c)
             \/ CreateFormatResponse(c) \/ DeleteAccess(c)
      PROVE  AbsStep
  BY <1>3, AsideIs, UnseenStep
<1>4. ASSUME NEW c \in Coords, Handler(c) PROVE AbsStep
  BY <1>3, <1>4, SeenCreate, SeenClean DEF Handler, CreateSteps
<1>5. ASSUME NEW h \in Hosts, Unload(h) \/ Restore(h) PROVE AbsStep
  <2>1. /\ UNCHANGED <<meta, files, gbids>>
        /\ \A g \in Hosts : node'[g].gbid = node[g].gbid
    BY <1>5, LoadIs
  <2>2. Life' = Life
    BY <2>1 DEF Life
  <2> QED
    BY <2>1, <2>2, Unseen
<1> QED
  BY <1>1, <1>2, <1>3, <1>4, <1>5, OrderlyNext, SeenWorker, SeenRpc DEF Next

\* Refines for every instance with orderly requests that unlink what they
\* remove: hosts are withdrawn before the file goes and the file before the
\* name, and a GBID lives once.
THEOREM Refinement ==
    ASSUME Orderly, Unlinking
    PROVE  Spec => Refines
<1>1. Init => Abs!Init
  <2> SUFFICES ASSUME Init PROVE Abs!Init
    OBVIOUS
  <2>1. {h \in Hosts : node[h].gbid # 0} = {}
    BY DEF Init, NoConfig
  <2>2. (meta.gbid \in files) = FALSE /\ Life = "none" /\ meta.gbid = 0
    BY DEF Init, Life, NoMeta
  <2> QED
    BY <2>1, <2>2 DEF Init, Abs!Init
<1>2. UNCHANGED vars => UNCHANGED Abs!vars
  BY DEF vars, Abs!vars, Life
<1>3. TypeOK /\ LifecycleInv /\ OrderlyInv /\ UnlinkInv /\ [Next]_vars
        => [Abs!Next]_Abs!vars
  BY <1>2, SeenNext DEF Before, AbsStep
<1>4. Spec => []LifecycleInv
  BY LifecycleSafety DEF Orderly
<1> QED
  BY <1>1, <1>3, <1>4, OrderlySafety, UnlinkSafety, Typing, PTL
     DEF Spec, Refines, Abs!Spec
=============================================================================
