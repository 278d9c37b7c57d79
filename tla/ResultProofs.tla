---------------------------- MODULE ResultProofs ----------------------------
(***************************************************************************)
(* What requests report, for every set of hosts and coordinators: a delete *)
(* in which nothing goes wrong finishes what is left of a block, and a     *)
(* create in which at most one thing does says SUCCESS only of a block     *)
(* that all of its hosts export.                                           *)
(***************************************************************************)
EXTENDS OrderlyProofs

\* Orderly requests; moreover every unlink succeeds, and what a host has saved
\* it has loaded.
Undisturbed ==
    Orderly /\ FaultKinds \cap {"unlink", "unload"} = {}

\* What is known of a step before it is looked at.
Known == Before /\ ResultInv

\* The steps between the ENTRYDELETE line and the end of the metafile.
Ending == {"unlink", "edone", "unmeta"}

-----------------------------------------------------------------------------
(***************************************************************************)
(* Frames.                                                                 *)
(***************************************************************************)

\* The locals a handler never changes.
Keeps(c) ==
    /\ req'[c].op = req[c].op
    /\ req'[c].hosts = req[c].hosts
    /\ req'[c].since = req[c].since

\* Counters are numbers.
LEMMA Counters ==
    ASSUME TypeOK, NEW c \in Coords
    PROVE  /\ faults \in Nat /\ req[c].since \in Nat
           /\ req[c].err \in BOOLEAN /\ req[c].asyncret \in BOOLEAN
           /\ req[c].op \in {"create", "delete"}
BY DEF TypeOK, Request

\* Faults are counted up.
LEMMA Counted ==
    ASSUME TypeOK, NEW kind, NoFault \/ Fault(kind)
    PROVE  /\ faults' \in Nat /\ faults <= faults'
           /\ NoFault => faults' = faults
           /\ Fault(kind) => faults < faults' /\ kind \in FaultKinds
BY DEF TypeOK, NoFault, Fault

\* What is smooth after a step was smooth before, and no fault came with it.
LEMMA SmoothBack ==
    ASSUME Known, NEW c \in Coords, Smooth(c)', req'[c] = req[c],
           faults' \in Nat, faults <= faults',
           pc[c] \in Removing \cup {"cleanup", "collect"}
    PROVE  Smooth(c) /\ faults' = faults
<1>1. /\ faults \in Nat /\ req[c].since \in Nat /\ req[c].since <= faults
      /\ req[c].err \in BOOLEAN /\ req[c].op \in {"create", "delete"}
  BY Counters DEF Known, Before, ResultInv, OutcomeInv, LocalsInv
<1>2. req[c].op = "create" => req[c].err \/ req[c].since < faults
  BY DEF Known, ResultInv, OutcomeInv, FinishInv
<1>3. CASE req[c].op = "delete"
  BY <1>1, <1>3 DEF Smooth
<1>4. CASE req[c].op = "create"
  <2>1. ~req[c].err /\ faults' <= req[c].since + 1
    BY <1>1, <1>4 DEF Smooth
  <2>2. faults' = faults
    BY <1>1, <1>2, <1>4, <2>1
  <2> QED
    BY <1>1, <1>4, <2>1, <2>2 DEF Smooth
<1> QED
  BY <1>1, <1>3, <1>4

\* The steps at which more is known than LocalsInv.
Reporting == Removing \cup {"audit", "cleanup", "collect", "prio", "unlock"}

\* A handler elsewhere has nothing to report.
LEMMA OutcomeOut ==
    ASSUME NEW d \in Coords, pc'[d] \notin Reporting, LocalsInv(d)'
    PROVE  OutcomeInv(d)'
BY DEF OutcomeInv, AuditInv, FinishInv, ReportInv, Reporting, Removing

\* A handler keeps what it knows when only faults are counted.
LEMMA OutcomeKept ==
    ASSUME Known, NEW d \in Coords, meta' = meta,
           \A h \in Hosts : node'[h].gbid = node[h].gbid,
           pc'[d] = pc[d], req'[d] = req[d], work'[d] = work[d],
           faults' \in Nat, faults <= faults'
    PROVE  OutcomeInv(d)'
<1>0. /\ OutcomeInv(d) /\ faults \in Nat /\ req[d].since \in Nat
      /\ req[d].hosts \subseteq Hosts
  BY Counters DEF Known, Before, ResultInv, TypeOK, Request
<1>1. LocalsInv(d)'
  BY <1>0 DEF OutcomeInv, LocalsInv
<1>2. req[d].since < faults => req[d].since < faults'
  BY <1>0
<1>3. AuditInv(d)'
  BY <1>0, <1>2 DEF OutcomeInv, AuditInv
<1>4. FinishInv(d)'
  <2>1. pc[d] = "collect" /\ Smooth(d)' => Smooth(d)
    BY SmoothBack
  <2> QED
    BY <1>0, <1>2, <2>1 DEF OutcomeInv, FinishInv
<1>5. ReportInv(d)'
  <2>1. LocalsInv(d) /\ ReportInv(d)
    BY <1>0 DEF OutcomeInv
  <2>2. /\ req[d].since = faults' => req[d].since = faults
        /\ faults' <= req[d].since + 1 => faults <= req[d].since + 1
    BY <1>0, <2>1 DEF LocalsInv
  <2> QED
    BY <1>0, <2>1, <2>2 DEF ReportInv
<1> QED
  BY <1>1, <1>3, <1>4, <1>5 DEF OutcomeInv

\* The step of one handler, of which the others say nothing.
LEMMA ResultStep ==
    ASSUME Known, NEW c \in Coords, NEW s, Moves(c, s),
           faults' \in Nat, faults <= faults',
           pc[c] \in Critical \/ UNCHANGED <<meta, node>>,
           WholeInv', OutcomeInv(c)'
    PROVE  ResultInv'
<1>1. ASSUME NEW d \in Coords, d # c PROVE OutcomeInv(d)'
  <2>1. CASE pc[c] \in Critical
    <3>1. pc'[d] \notin Critical
      BY <1>1, <2>1, Others DEF Known, Before, LifecycleInv, Moves
    <3>2. LocalsInv(d) /\ faults \in Nat /\ req[d].since \in Nat
      BY Counters DEF Known, Before, ResultInv, OutcomeInv
    <3>3. LocalsInv(d)'
      BY <1>1, <3>2 DEF LocalsInv, Moves
    <3> QED
      BY <3>1, <3>3, OutcomeOut DEF Reporting, Removing, Critical, Steps
  <2>2. CASE UNCHANGED <<meta, node>>
    BY <1>1, <2>2, OutcomeKept DEF Moves
  <2> QED
    BY <2>1, <2>2
<1> QED
  BY <1>1 DEF ResultInv

\* A step that leaves the hosts alone and writes no ENTRYDELETE line.
LEMMA WholeKept ==
    ASSUME Known, NEW c \in Coords, NEW s, Moves(c, s), node' = node,
           meta'.status[ENTRYDELETE] \in {meta.status[ENTRYDELETE], NoLine},
           pc[c] \notin Ending
    PROVE  WholeInv'
<1>1. WholeInv
  BY DEF Known, ResultInv
<1> QED
  BY <1>1 DEF WholeInv, Moves, Ending

\* As long as no cleanup works on the files there is no ENTRYDELETE line.
LEMMA NoEntryLine ==
    ASSUME Known, NEW c \in Coords, pc[c] \in Critical, pc[c] \notin Ending
    PROVE  meta.status[ENTRYDELETE] = NoLine
<1>1. MutualExclusion /\ WholeInv /\ Ending \subseteq Critical
  BY DEF Known, Before, LifecycleInv, ResultInv, Ending, Critical, Steps
<1> QED
  BY <1>1, Alone DEF WholeInv, Ending

-----------------------------------------------------------------------------
(***************************************************************************)
(* ResultInv is inductive.                                                 *)
(***************************************************************************)

\* The request a daemon accepts starts with the faults so far.
LEMMA ResultAccept ==
    ASSUME Known, NEW c \in Coords, NEW r \in Request, ~r.err, ~r.asyncret,
           r.since = faults, Accept(c, r)
    PROVE  OutcomeInv(c)' /\ faults' = faults
<1>0. TypeOK /\ faults \in Nat
  BY DEF Known, Before, TypeOK
<1>1. pc'[c] = "lock" /\ req'[c] = r /\ faults' = faults
  BY <1>0 DEF Accept, Set, Goto, TypeOK
<1>2. LocalsInv(c)'
  BY <1>0, <1>1 DEF LocalsInv
<1> QED
  BY <1>1, <1>2, OutcomeOut DEF Reporting, Removing

\* A handler that fails has met a fault, or reports what a create may, or finds
\* no metafile.
LEMMA FailsOutcome ==
    ASSUME Known, NEW c \in Coords, Fails(c), faults' \in Nat, faults <= faults',
           req[c].op = "create" \/ faults < faults' \/ ~meta'.exists
    PROVE  OutcomeInv(c)'
<1>0. /\ TypeOK /\ req[c] \in Request
      /\ faults \in Nat /\ req[c].since \in Nat /\ req[c].since <= faults
  BY Counters DEF Known, Before, ResultInv, OutcomeInv, LocalsInv, TypeOK
<1>1. /\ pc'[c] = "unlock" /\ req'[c].err /\ req'[c].op = req[c].op
      /\ req'[c].since = req[c].since
  BY <1>0 DEF Fails, Set, Goto, Request, TypeOK
<1>2. LocalsInv(c)'
  BY <1>0, <1>1 DEF LocalsInv, Preparing
<1>3. ReportInv(c)'
  BY <1>0, <1>1 DEF ReportInv
<1> QED
  BY <1>1, <1>2, <1>3 DEF OutcomeInv, AuditInv, FinishInv, Removing

\* What a handler does before and after it touches the block.
LEMMA ResultAside ==
    ASSUME Undisturbed, Known, NEW c \in Coords,
           \/ CreateRequest(c) \/ DeleteRequest(c) \/ MetaLock(c)
           \/ MetaUnlock(c) \/ PrioAttr(c) \/ CreateExists(c)
           \/ CreateFormatResponse(c) \/ DeleteAccess(c)
    PROVE  ResultInv'
<1>0. /\ TypeOK /\ Before /\ OutcomeInv(c) /\ LocalsInv(c) /\ Orderly
      /\ faults \in Nat /\ req[c].since \in Nat /\ req[c].since <= faults
      /\ req[c].err \in BOOLEAN /\ req[c].asyncret \in BOOLEAN
      /\ req[c].op \in {"create", "delete"}
      /\ req \in [Coords -> Request] /\ pc \in [Coords -> Steps]
      /\ req[c] \in Request /\ ~req[c].force
  BY Counters DEF Known, Before, ResultInv, OutcomeInv, LocalsInv, Undisturbed,
                  TypeOK, OrderlyInv, CalmInv
<1>1. UNCHANGED <<meta, node>> /\ pc[c] \notin Holding
  BY <1>0, AsideIs
<1>2. PICK s : Moves(c, s)
  BY <1>0, AsideIs
<1>3. WholeInv'
  BY <1>1, <1>2, WholeKept DEF Holding, Ending
<1>4. SUFFICES OutcomeInv(c)' /\ faults' \in Nat /\ faults <= faults'
  BY <1>1, <1>2, <1>3, ResultStep
<1>5. ASSUME pc'[c] = "idle", req'[c] = NoRequest, faults' \in Nat
      PROVE  OutcomeInv(c)'
  <2>1. LocalsInv(c)'
    BY <1>5 DEF LocalsInv, NoRequest, Preparing
  <2> QED
    BY <1>5, <2>1, OutcomeOut DEF Reporting, Removing
<1>6. CASE CreateRequest(c)
  <2>1. PICK a \in CreateArgs :
          Accept(c, [NoRequest EXCEPT !.op = "create", !.hosts = a.hosts,
                       !.auth = a.auth, !.unlink = TRUE, !.since = faults])
    BY <1>6 DEF CreateRequest
  <2> DEFINE r == [NoRequest EXCEPT !.op = "create", !.hosts = a.hosts,
                       !.auth = a.auth, !.unlink = TRUE, !.since = faults]
  <2>2. r \in Request /\ ~r.err /\ ~r.asyncret /\ r.since = faults
    BY <1>0, ArgsAssumption DEF Request, NoRequest
  <2>3. Accept(c, r)
    BY <2>1
  <2> HIDE DEF r
  <2> QED
    BY <1>0, <2>2, <2>3, ResultAccept
<1>7. CASE DeleteRequest(c)
  <2>1. PICK a \in DeleteArgs :
          Accept(c, [NoRequest EXCEPT !.force = a.force, !.unlink = a.unlink,
                       !.since = faults])
    BY <1>7 DEF DeleteRequest
  <2> DEFINE r == [NoRequest EXCEPT !.force = a.force, !.unlink = a.unlink,
                       !.since = faults]
  <2>2. r \in Request /\ ~r.err /\ ~r.asyncret /\ r.since = faults
    BY <1>0, ArgsAssumption DEF Request, NoRequest
  <2>3. Accept(c, r)
    BY <2>1
  <2> HIDE DEF r
  <2> QED
    BY <1>0, <2>2, <2>3, ResultAccept
<1>8. CASE MetaLock(c)
  <2>1. faults' \in Nat /\ faults <= faults'
    BY <1>0, <1>8, Counted DEF MetaLock
  <2>2. pc[c] = "lock" /\ \/ pc'[c] = "access" /\ req'[c] = req[c]
                          \/ pc'[c] = "idle" /\ req'[c] = NoRequest
    BY <1>0, <1>8 DEF MetaLock, Goto, Set
  <2>3. CASE pc'[c] = "access" /\ req'[c] = req[c]
    <3>1. LocalsInv(c)'
      BY <1>0, <2>1, <2>2, <2>3 DEF LocalsInv
    <3> QED
      BY <2>1, <2>3, <3>1, OutcomeOut DEF Reporting, Removing
  <2> QED
    BY <1>5, <2>1, <2>2, <2>3
<1>9. CASE MetaUnlock(c)
  <2>1. faults' \in Nat /\ faults <= faults'
    BY <1>0, <1>9, Counted DEF MetaUnlock
  <2>2. PICK bad \in BOOLEAN :
          \/ pc'[c] = "format" /\ req'[c] = [req[c] EXCEPT !.err = bad]
          \/ pc'[c] = "idle" /\ req'[c] = NoRequest
    BY <1>0, <1>9 DEF MetaUnlock, Goto, Set
  <2>3. CASE pc'[c] = "format" /\ req'[c] = [req[c] EXCEPT !.err = bad]
    <3>1. req'[c].since = req[c].since
      BY <1>0, <2>3 DEF Request
    <3>2. LocalsInv(c)'
      BY <1>0, <2>1, <2>3, <3>1 DEF LocalsInv, Preparing
    <3> QED
      BY <2>1, <2>3, <3>2, OutcomeOut DEF Reporting, Removing
  <2> QED
    BY <1>5, <2>1, <2>2, <2>3
<1>10. CASE PrioAttr(c)
  <2>1. faults' \in Nat /\ faults <= faults'
    BY <1>0, <1>10, Counted DEF PrioAttr
  <2>2. pc[c] = "prio" /\ pc'[c] = "unlock" /\ req'[c] = req[c]
    BY <1>0, <1>10 DEF PrioAttr, Goto
  <2>3. ~req[c].err
    BY <1>0, <2>2 DEF LocalsInv
  <2>4. LocalsInv(c)'
    BY <1>0, <2>1, <2>2 DEF LocalsInv, Preparing
  <2>5. faults' <= req[c].since + 1 => faults <= req[c].since + 1
    BY <1>0, <2>1
  <2>6. ReportInv(c)'
    BY <1>0, <1>1, <2>2, <2>3, <2>5 DEF OutcomeInv, ReportInv
  <2> QED
    BY <2>1, <2>2, <2>4, <2>6 DEF OutcomeInv, AuditInv, FinishInv, Removing
<1>11. ASSUME Fails(c), faults' \in Nat, faults <= faults',
              req[c].op = "create" \/ faults < faults' \/ ~meta.exists
       PROVE  OutcomeInv(c)'
  BY <1>1, <1>11, FailsOutcome
<1>12. CASE CreateExists(c)
  BY <1>0, <1>11, <1>12 DEF CreateExists, CreateStep
<1>13. CASE CreateFormatResponse(c)
  <2>1. faults' \in Nat /\ faults <= faults'
    BY <1>0, <1>13, Counted DEF CreateFormatResponse
  <2>2. pc'[c] = "idle" /\ req'[c] = NoRequest
    BY <1>0, <1>13 DEF CreateFormatResponse, Goto, Set
  <2> QED
    BY <1>5, <2>1, <2>2
<1>14. CASE DeleteAccess(c)
  <2>1. pc[c] = "access" /\ req[c].op = "delete"
    BY <1>14 DEF DeleteAccess
  <2>2. meta.status[ENTRYDELETE] = NoLine
    BY <2>1, NoEntryLine DEF Critical, Steps, Ending
  <2>3. \/ /\ NoFault /\ Set(c, [req[c] EXCEPT !.prio = meta.prio])
           /\ Goto(c, "cleanup")
        \/ ~meta.exists /\ NoFault /\ Fails(c)
        \/ (\E kind : Fault(kind)) /\ Fails(c)
    BY <1>14, <2>2 DEF DeleteAccess, Listed
  <2>4. CASE /\ NoFault /\ Set(c, [req[c] EXCEPT !.prio = meta.prio])
             /\ Goto(c, "cleanup")
    <3>1. /\ pc'[c] = "cleanup" /\ req'[c].op = req[c].op
          /\ req'[c].since = req[c].since /\ req'[c].asyncret = req[c].asyncret
      BY <1>0, <2>4 DEF Set, Goto, Request
    <3>2. faults' = faults /\ ~req[c].asyncret
      BY <1>0, <2>1, <2>4 DEF NoFault, LocalsInv
    <3>3. LocalsInv(c)'
      BY <1>0, <3>1, <3>2 DEF LocalsInv, Preparing
    <3> QED
      BY <1>0, <2>1, <3>1, <3>2, <3>3
         DEF OutcomeInv, AuditInv, FinishInv, ReportInv
  <2>5. CASE ~meta.exists /\ NoFault /\ Fails(c)
    <3>1. faults' = faults
      BY <2>5 DEF NoFault
    <3> QED
      BY <1>0, <1>11, <2>5, <3>1
  <2>6. CASE (\E kind : Fault(kind)) /\ Fails(c)
    <3>1. faults' \in Nat /\ faults < faults'
      BY <1>0, <2>6 DEF Fault
    <3> QED
      BY <1>0, <1>11, <2>6, <3>1
  <2> QED
    BY <2>3, <2>4, <2>5, <2>6
<1> QED
  BY <1>6, <1>7, <1>8, <1>9, <1>10, <1>12, <1>13, <1>14

\* The audit counts every host of the create, or a thread of it met a fault.
LEMMA AuditCount ==
    ASSUME Known, NEW c \in Coords, pc[c] = "audit", Joined(c)
    PROVE  LET S == {k \in Listed : meta.status[k] \in AuditSuccess} IN
           /\ Cardinality(req[c].hosts) = Cardinality(S)
                => \A h \in req[c].hosts : node[h].gbid = meta.gbid
           /\ Cardinality(req[c].hosts) # Cardinality(S) => req[c].since < faults
<1> DEFINE S == {k \in Listed : meta.status[k] \in AuditSuccess}
<1>0. /\ AuditInv(c) /\ faults \in Nat /\ req[c].since \in Nat
      /\ req[c].since <= faults /\ req[c].hosts \subseteq Hosts
  BY Counters DEF Known, Before, ResultInv, OutcomeInv, LocalsInv, TypeOK, Request
<1>1. meta.status[ENTRYDELETE] = NoLine
  BY NoEntryLine DEF Critical, Steps, Ending
<1>2. S \subseteq req[c].hosts
  BY <1>0, <1>1 DEF AuditInv, Listed, Keys
<1>3. IsFiniteSet(req[c].hosts) /\ IsFiniteSet(S)
  BY <1>0, <1>2, HostsAssumption, FS_Subset
<1>4. ASSUME Cardinality(req[c].hosts) = Cardinality(S), NEW h \in req[c].hosts
      PROVE  node[h].gbid = meta.gbid
  <2> HIDE DEF S
  <2>1. S = req[c].hosts
    BY <1>2, <1>3, <1>4, FS_Subset
  <2>2. meta.status[h] \in AuditSuccess /\ h \in Hosts
    BY <1>0, <1>4, <2>1 DEF S
  <2> QED
    BY <2>2 DEF Known, Before, LifecycleInv, JournalInv, HostInv, LineSound
<1>5. ASSUME ~(req[c].since < faults)
      PROVE  S = req[c].hosts
  <2>1. ASSUME NEW h \in req[c].hosts PROVE h \in S
    <3>1. h \in Hosts /\ h \in Keys /\ work[c][h] \in {"none", "done", "failed", "gone"}
      BY <1>0, <2>1 DEF Joined, Finished, Keys
    <3>2. meta.status[h] \in AuditSuccess
      BY <1>0, <1>5, <2>1, <3>1 DEF AuditInv
    <3> QED
      BY <3>1, <3>2 DEF Listed, AuditSuccess, NoLine
  <2> QED
    BY <1>2, <2>1
<1> QED
  BY <1>4, <1>5

\* The steps of a create up to its audit.
LEMMA ResultCreate ==
    ASSUME Undisturbed, Known, NEW c \in Coords,
           \/ CreateMeta(c) \/ CreateEntry(c) \/ CreateSize(c)
           \/ CreatePassword(c) \/ CreateRemoteAsync(c) \/ AuditRequest(c)
    PROVE  ResultInv'
<1>0. /\ TypeOK /\ Before /\ OutcomeInv(c) /\ LocalsInv(c) /\ Orderly
      /\ faults \in Nat /\ req[c].since \in Nat /\ req[c].since <= faults
      /\ req[c].err \in BOOLEAN /\ req[c].asyncret \in BOOLEAN
      /\ req \in [Coords -> Request] /\ pc \in [Coords -> Steps]
      /\ req[c] \in Request /\ "meta" \notin FaultKinds
      /\ ENTRYDELETE \in Keys
  BY Counters, EntryKey
     DEF Known, Before, ResultInv, OutcomeInv, LocalsInv, Undisturbed, TypeOK,
         Orderly
<1>1. /\ UNCHANGED node /\ req[c].op = "create"
      /\ pc[c] \in Preparing \cup {"access", "audit"}
  BY DEF CreateMeta, CreateEntry, CreateSize, CreatePassword, nodeVars,
         CreateRemoteAsync, AuditRequest, CreateStep, Preparing
<1>2. pc[c] \in Critical /\ pc[c] \notin Ending
  BY <1>1 DEF Critical, Steps, Ending, Preparing
<1>3. ~req[c].err /\ ~req[c].asyncret
  BY <1>0, <1>1 DEF LocalsInv, Preparing
<1>4. ASSUME NEW s, Moves(c, s), faults' \in Nat, faults <= faults',
             meta'.status[ENTRYDELETE] \in {meta.status[ENTRYDELETE], NoLine},
             OutcomeInv(c)'
      PROVE  ResultInv'
  BY <1>1, <1>2, <1>4, WholeKept, ResultStep
<1>5. ASSUME NEW s, Moves(c, s), s \in Preparing, faults' = faults,
             req'[c].since = req[c].since, req'[c].err = req[c].err,
             req'[c].asyncret = req[c].asyncret
      PROVE  OutcomeInv(c)'
  <2>1. LocalsInv(c)'
    BY <1>0, <1>3, <1>5 DEF LocalsInv, Moves, Preparing
  <2> QED
    BY <1>5, <2>1, OutcomeOut DEF Moves, Preparing, Reporting, Removing
<1>6. CASE CreateMeta(c)
  <2>1. Moves(c, "entry") /\ meta'.status = meta.status
    BY <1>0, <1>6, CreateIs
  <2>2. faults' = faults
    BY <1>0, <1>6 DEF CreateMeta, GB_METAUPDATE_OR_GOTO, Fault, NoFault
  <2>3. \E p : Set(c, [req[c] EXCEPT !.prio = p])
    BY <1>0, <1>6 DEF CreateMeta, GB_METAUPDATE_OR_GOTO, Fault
  <2>4. /\ req'[c].since = req[c].since /\ req'[c].err = req[c].err
        /\ req'[c].asyncret = req[c].asyncret
    BY <1>0, <2>3 DEF Set, Request
  <2>5. OutcomeInv(c)'
    BY <1>5, <2>1, <2>2, <2>4 DEF Preparing
  <2> QED
    BY <1>0, <1>4, <2>1, <2>2, <2>5
<1>7. CASE CreateEntry(c)
  <2>1. \/ NoFault /\ Moves(c, "size") /\ UNCHANGED <<meta, req>>
        \/ Fault("storage") /\ Fails(c) /\ Moves(c, "unlock")
             /\ meta' \in {meta, NoMeta}
    BY <1>0, <1>7, CreateIs DEF CreateEntry, Goto, Fails, Moves
  <2>2. CASE NoFault /\ Moves(c, "size") /\ UNCHANGED <<meta, req>>
    <3>1. faults' = faults /\ req'[c] = req[c]
      BY <2>2 DEF NoFault
    <3>2. OutcomeInv(c)'
      BY <1>5, <2>2, <3>1 DEF Preparing
    <3> QED
      BY <1>0, <1>4, <2>2, <3>1, <3>2
  <2>3. CASE Fault("storage") /\ Fails(c) /\ Moves(c, "unlock")
               /\ meta' \in {meta, NoMeta}
    <3>1. faults' \in Nat /\ faults <= faults'
      BY <1>0, <2>3, Counted
    <3>2. NoMeta.status[ENTRYDELETE] = NoLine
      BY <1>0 DEF NoMeta
    <3>3. OutcomeInv(c)'
      BY <1>1, <2>3, <3>1, FailsOutcome
    <3> QED
      BY <1>4, <2>3, <3>1, <3>2, <3>3
  <2> QED
    BY <2>1, <2>2, <2>3
<1>8. CASE CreateSize(c) \/ CreatePassword(c)
  <2>1. /\ req' = req /\ meta'.status = meta.status
        /\ Moves(c, "passwd") \/ Moves(c, "remote")
    BY <1>0, <1>8, CreateIs
  <2>2. faults' = faults
    BY <1>0, <1>8
       DEF CreateSize, CreatePassword, GB_METAUPDATE_OR_GOTO, Fault, NoFault
  <2>3. OutcomeInv(c)'
    BY <1>5, <2>1, <2>2 DEF Preparing
  <2> QED
    BY <1>0, <1>4, <2>1, <2>2, <2>3
<1>9. CASE CreateRemoteAsync(c)
  <2>1. /\ pc[c] = "remote" /\ meta' = meta /\ req' = req /\ Moves(c, "audit")
        /\ \A k \in Keys : work'[c][k] = IF k \in req[c].hosts
                                         THEN "begin" ELSE "none"
        /\ faults' = faults
    BY <1>0, <1>9, CreateIs DEF CreateRemoteAsync
  <2>2. \A h \in Hosts : meta.status[h] = NoLine /\ h \in Keys
    BY <2>1 DEF Known, Before, LifecycleInv, JournalInv, ThreadInv, Preparing,
                Keys
  <2>3. AuditInv(c)'
    BY <2>1, <2>2 DEF AuditInv
  <2>4. LocalsInv(c)'
    BY <1>0, <1>3, <2>1 DEF LocalsInv, Moves
  <2>5. OutcomeInv(c)'
    BY <2>1, <2>3, <2>4 DEF OutcomeInv, FinishInv, ReportInv, Moves, Removing
  <2> QED
    BY <1>0, <1>4, <2>1, <2>5
<1>10. CASE AuditRequest(c)
  <2> DEFINE S == {k \in Listed : meta.status[k] \in AuditSuccess}
  <2>1. /\ pc[c] = "audit" /\ Joined(c) /\ meta' = meta
        /\ Moves(c, "prio") \/ Moves(c, "cleanup")
    BY <1>0, <1>10, CreateIs
  <2>2. \/ /\ NoFault /\ req' = req
           /\ Goto(c, IF Cardinality(req[c].hosts) = Cardinality(S)
                      THEN "prio" ELSE "cleanup")
        \/ /\ Fault("read") /\ Goto(c, "cleanup")
           /\ Set(c, [req[c] EXCEPT !.err = TRUE])
    BY <1>10 DEF AuditRequest
  <2>3. /\ Cardinality(req[c].hosts) = Cardinality(S)
             => \A h \in req[c].hosts : node[h].gbid = meta.gbid
        /\ Cardinality(req[c].hosts) # Cardinality(S) => req[c].since < faults
    BY <2>1, AuditCount
  <2> HIDE DEF S
  <2>4. faults' \in Nat /\ faults <= faults'
    BY <1>0, <2>2, Counted
  <2>5. CASE /\ NoFault /\ req' = req
             /\ Goto(c, IF Cardinality(req[c].hosts) = Cardinality(S)
                        THEN "prio" ELSE "cleanup")
    <3>1. /\ faults' = faults
          /\ \/ pc'[c] = "prio" /\ Cardinality(req[c].hosts) = Cardinality(S)
             \/ pc'[c] = "cleanup" /\ Cardinality(req[c].hosts) # Cardinality(S)
      BY <1>0, <2>5 DEF NoFault, Goto
    <3>2. LocalsInv(c)'
      BY <1>0, <1>3, <2>5, <3>1 DEF LocalsInv
    <3>3. FinishInv(c)' /\ ReportInv(c)' /\ AuditInv(c)'
      BY <1>1, <2>1, <2>3, <2>5, <3>1
         DEF FinishInv, ReportInv, AuditInv, Removing
    <3> QED
      BY <1>4, <2>1, <2>4, <3>2, <3>3 DEF OutcomeInv
  <2>6. CASE /\ Fault("read") /\ Goto(c, "cleanup")
             /\ Set(c, [req[c] EXCEPT !.err = TRUE])
    <3>1. /\ pc'[c] = "cleanup" /\ req'[c].err
          /\ req'[c].since = req[c].since /\ req'[c].asyncret = req[c].asyncret
      BY <1>0, <2>6 DEF Goto, Set, Request
    <3>2. LocalsInv(c)'
      BY <1>0, <1>3, <2>4, <3>1 DEF LocalsInv, Preparing
    <3>3. FinishInv(c)' /\ ReportInv(c)' /\ AuditInv(c)'
      BY <3>1 DEF FinishInv, ReportInv, AuditInv
    <3> QED
      BY <1>4, <2>1, <2>4, <3>2, <3>3 DEF OutcomeInv
  <2> QED
    BY <2>2, <2>5, <2>6
<1> QED
  BY <1>6, <1>7, <1>8, <1>9, <1>10

\* Too much has gone wrong for the request to promise anything.
Spoiled(c) ==
    IF req[c].op = "delete" THEN req[c].since < faults'
    ELSE req[c].err \/ req[c].since + 1 < faults'

\* A fault spoils a cleanup, as does one that was not smooth before.
LEMMA Spoils ==
    ASSUME Known, NEW c \in Coords, faults' \in Nat, faults <= faults',
           pc[c] \in Removing \cup {"cleanup", "collect"},
           faults < faults' \/ ~Smooth(c)
    PROVE  Spoiled(c)
<1>1. /\ faults \in Nat /\ req[c].since \in Nat /\ req[c].since <= faults
      /\ req[c].err \in BOOLEAN /\ req[c].op \in {"create", "delete"}
  BY Counters DEF Known, Before, ResultInv, OutcomeInv, LocalsInv
<1>2. req[c].op = "create" => req[c].err \/ req[c].since < faults
  BY DEF Known, ResultInv, OutcomeInv, FinishInv
<1>3. CASE req[c].op = "delete"
  BY <1>1, <1>3 DEF Smooth, Spoiled
<1>4. CASE req[c].op = "create"
  BY <1>1, <1>2, <1>4 DEF Smooth, Spoiled
<1> QED
  BY <1>1, <1>3, <1>4

\* glusterBlockCleanUp returns: the metafile is gone, or the request is
\* spoiled.
LEMMA ReturnOutcome ==
    ASSUME Known, NEW c \in Coords, NEW r \in Request, NEW failed \in BOOLEAN,
           CleanUpReturn(c, r, failed), r.op = req[c].op,
           r.since = req[c].since, r.err = req[c].err,
           faults' \in Nat, faults <= faults', meta'.exists => Spoiled(c)
    PROVE  OutcomeInv(c)'
<1> DEFINE err == IF r.op = "create" THEN r.err
                  ELSE (r.asyncret /\ ~r.force) \/ failed
<1>0. /\ TypeOK /\ faults \in Nat /\ req[c].since \in Nat
      /\ req[c].since <= faults
      /\ req[c].err \in BOOLEAN /\ req[c].op \in {"create", "delete"}
  BY Counters DEF Known, Before, ResultInv, OutcomeInv, LocalsInv
<1>1. /\ req' = [req EXCEPT ![c] = [r EXCEPT !.err = err]]
      /\ pc' = [pc EXCEPT ![c] = IF err THEN "unlock" ELSE "prio"]
  BY DEF CleanUpReturn, Set, Goto
<1>2. err \in BOOLEAN /\ (r.op = "create" => err = r.err)
  BY DEF Request
<1> HIDE DEF err
<1>3. /\ pc'[c] = IF err THEN "unlock" ELSE "prio"
      /\ req'[c].op = req[c].op /\ req'[c].since = req[c].since
      /\ req'[c].err = err
  BY <1>0, <1>1 DEF TypeOK, Request
<1>4. LocalsInv(c)'
  BY <1>0, <1>2, <1>3 DEF LocalsInv, Preparing
<1>5. ReportInv(c)'
  <2>1. CASE req[c].op = "delete"
    BY <1>0, <1>3, <2>1 DEF ReportInv, Spoiled
  <2>2. CASE req[c].op = "create"
    <3>1. req'[c].err = req[c].err
      BY <1>2, <1>3, <2>2
    <3>2. meta'.exists => req[c].err \/ ~(faults' <= req[c].since + 1)
      BY <1>0, <2>2 DEF Spoiled
    <3> QED
      BY <1>3, <2>2, <3>1, <3>2 DEF ReportInv
  <2> QED
    BY <1>0, <2>1, <2>2
<1> QED
  BY <1>3, <1>4, <1>5 DEF OutcomeInv, AuditInv, FinishInv, Removing

\* A cleanup that was smooth so far counts all hosts.
LEMMA CollectCount ==
    ASSUME Known, NEW c \in Coords, pc[c] = "collect", Joined(c), Smooth(c)
    PROVE  cleanupsuccess(c) = Cardinality(Listed)
<1> DEFINE G == {k \in Keys : work[c][k] = "gone"}
           S == {k \in Listed : meta.status[k] \in DeleteSkips}
<1>1. RemoveInv(c) /\ FinishInv(c)
  BY DEF Known, Before, OrderlyInv, HandlerInv, ResultInv, OutcomeInv
<1>2. meta.status[ENTRYDELETE] = NoLine
  BY NoEntryLine DEF Critical, Steps, Ending
<1>3. IsFiniteSet(Keys)
  BY HostsAssumption, FS_AddElement DEF Keys
<1>4. IsFiniteSet(Listed) /\ Listed \subseteq Keys
  BY <1>3, FS_Subset DEF Listed
<1>5. G \subseteq Listed /\ \A k \in G : k \in Hosts /\ meta.status[k] = "CLEANUPFAIL"
  BY <1>1 DEF RemoveInv, FinishInv, Listed, Keys, NoLine
<1>6. G \cap S = {}
  BY <1>5 DEF DeleteSkips
<1>7. Listed = G \cup S
  <2>1. ASSUME NEW k \in Listed PROVE k \in G \cup S
    <3>1. k \in Hosts /\ k \in Keys /\ meta.status[k] # NoLine
      BY <1>2, <2>1 DEF Listed, Keys
    <3>2. work[c][k] \in {"none", "done", "failed", "gone"}
      BY <3>1 DEF Joined, Finished
    <3>3. work[c][k] = "gone" \/ meta.status[k] \in DeleteSkips
      BY <1>1, <3>1, <3>2 DEF FinishInv, DeleteSkips
    <3> QED
      BY <2>1, <3>1, <3>3
  <2> QED
    BY <1>5, <2>1
<1>8. IsFiniteSet(G) /\ IsFiniteSet(S)
  BY <1>4, <1>7, FS_Subset
<1>9. cleanupsuccess(c) = Cardinality(G) + Cardinality(S)
  BY DEF cleanupsuccess
<1> HIDE DEF G, S
<1>10. Cardinality(G \cap S) = 0
  BY <1>6, FS_EmptySet
<1>11. /\ Cardinality(G) \in Nat /\ Cardinality(S) \in Nat
       /\ Cardinality(G \cup S) = Cardinality(G) + Cardinality(S)
                                    - Cardinality(G \cap S)
  BY <1>8, FS_Union, FS_CardinalityType
<1> QED
  BY <1>7, <1>9, <1>10, <1>11

\* The steps of a cleanup.
LEMMA ResultClean ==
    ASSUME Undisturbed, Known, NEW c \in Coords, CleanUpSteps(c)
    PROVE  ResultInv'
<1>0. /\ TypeOK /\ Before /\ OutcomeInv(c) /\ LocalsInv(c) /\ FinishInv(c)
      /\ Orderly /\ WholeInv
      /\ faults \in Nat /\ req[c].since \in Nat /\ req[c].since <= faults
      /\ req[c].err \in BOOLEAN /\ req[c].asyncret \in BOOLEAN
      /\ req \in [Coords -> Request] /\ pc \in [Coords -> Steps]
      /\ work \in [Coords -> [Keys -> WorkSteps]]
      /\ req[c] \in Request /\ ENTRYDELETE \in Keys /\ ~req[c].force
      /\ "meta" \notin FaultKinds /\ "unlink" \notin FaultKinds
  BY Counters, EntryKey
     DEF Known, Before, ResultInv, OutcomeInv, LocalsInv, Undisturbed, TypeOK,
         Orderly, OrderlyInv, CalmInv
<1>1. /\ UNCHANGED node /\ pc[c] # "efail"
      /\ pc[c] \in Removing \cup {"cleanup", "collect"}
  BY <1>0 DEF CleanUpSteps, CleanUp, DeleteCollect, EntryDelete, DeleteEntry,
         EntryDeleteFail, EntryDeleteDone, DeleteMetaFile, nodeVars, Removing,
         LocalsInv
<1>2. pc[c] \in Critical
  BY <1>1 DEF Critical, Steps, Removing
<1>3. ~req[c].asyncret
  BY <1>0, <1>1 DEF LocalsInv, Removing
<1>4. ASSUME NEW s, Moves(c, s), faults' \in Nat, faults <= faults',
             WholeInv', OutcomeInv(c)'
      PROVE  ResultInv'
  BY <1>2, <1>4, ResultStep
<1>5. ASSUME NEW s, Moves(c, s), s \in Ending \cup {"edelete"}, faults' = faults,
             req'[c].since = req[c].since, req'[c].err = req[c].err,
             req'[c].op = req[c].op, ~req'[c].asyncret
      PROVE  OutcomeInv(c)'
  <2>1. pc'[c] = s
    BY <1>5 DEF Moves
  <2>2. LocalsInv(c)'
    BY <1>0, <1>5, <2>1 DEF LocalsInv, Preparing, Ending
  <2>3. FinishInv(c)'
    BY <1>0, <1>1, <1>5, <2>1 DEF FinishInv, Ending
  <2> QED
    BY <1>5, <2>1, <2>2, <2>3 DEF OutcomeInv, AuditInv, ReportInv, Ending
<1>6. ASSUME NEW s \in Ending, Moves(c, s) PROVE WholeInv'
  BY <1>0, <1>1, <1>6 DEF WholeInv, Moves, Ending
<1>7. CASE CleanUp(c)
  <2>1. /\ pc[c] = "cleanup" /\ meta' = meta
    BY <1>7 DEF CleanUp
  <2>2. PICK s : Moves(c, s)
    BY <1>0, <1>7, CleanIs
  <2>3. WholeInv'
    BY <1>1, <2>1, <2>2, WholeKept DEF Ending
  <2>4. CASE Fault("read") /\ CleanUpReturn(c, req[c], TRUE)
    <3>1. faults' \in Nat /\ faults < faults' /\ faults <= faults'
      BY <1>0, <2>4, Counted
    <3>2. Spoiled(c)
      BY <1>0, <1>1, <3>1, Spoils
    <3>3. OutcomeInv(c)'
      BY <1>0, <2>4, <3>1, <3>2, ReturnOutcome
    <3> QED
      BY <1>0, <1>4, <2>2, <2>3, <3>1, <3>3
  <2>5. CASE /\ NoFault
             /\ work' = [work EXCEPT ![c] =
                          [k \in Keys |-> IF k \in DeleteFillArgs THEN "begin"
                                          ELSE "none"]]
             /\ Goto(c, IF DeleteFillArgs = {} THEN "edelete" ELSE "collect")
             /\ UNCHANGED req
    <3>1. /\ faults' = faults
          /\ \A k \in Keys : work'[c][k] = IF k \in DeleteFillArgs THEN "begin"
                                           ELSE "none"
          /\ pc'[c] \in {"edelete", "collect"}
      BY <1>0, <2>5 DEF NoFault, Goto
    <3>2. CASE pc'[c] = "edelete"
      <4>1. Moves(c, "edelete")
        BY <2>2, <3>2 DEF Moves
      <4>2. OutcomeInv(c)'
        BY <1>3, <1>5, <2>5, <3>1, <4>1
      <4> QED
        BY <1>0, <1>4, <2>3, <3>1, <4>1, <4>2
    <3>3. CASE pc'[c] = "collect"
      <4>1. meta.status[ENTRYDELETE] = NoLine
        BY <1>2, <2>1, NoEntryLine DEF Ending
      <4>2. work'[c][ENTRYDELETE] = "none"
        BY <1>0, <3>1, <4>1 DEF DeleteFillArgs, Listed
      <4>3. ASSUME NEW h \in Hosts
            PROVE  /\ work'[c][h] \in {"none", "begin"}
                   /\ work'[c][h] = "none" =>
                        meta.status[h] \in DeleteSkips \cup {NoLine}
        BY <3>1 DEF DeleteFillArgs, Listed, Keys
      <4>4. LocalsInv(c)'
        BY <1>0, <1>3, <2>5, <3>1, <3>3 DEF LocalsInv, Preparing
      <4>5. FinishInv(c)'
        BY <1>0, <1>1, <2>1, <2>5, <3>1, <3>3, <4>2, <4>3 DEF FinishInv, Removing
      <4>6. OutcomeInv(c)'
        BY <3>3, <4>4, <4>5 DEF OutcomeInv, AuditInv, ReportInv
      <4> QED
        BY <1>0, <1>4, <2>2, <2>3, <3>1, <4>6
    <3> QED
      BY <3>1, <3>2, <3>3
  <2> QED
    BY <1>7, <2>4, <2>5 DEF CleanUp
<1>8. CASE DeleteCollect(c)
  <2>1. pc[c] = "collect" /\ Joined(c) /\ meta' = meta
    BY <1>8 DEF DeleteCollect
  <2>2. PICK s : Moves(c, s)
    BY <1>0, <1>8, CleanIs
  <2>3. WholeInv'
    BY <1>1, <2>1, <2>2, WholeKept DEF Ending
  <2>4. PICK bad \in BOOLEAN :
          /\ \/ NoFault /\ bad = (cleanupsuccess(c) # Cardinality(Listed))
             \/ Fault("read") /\ bad
          /\ LET r == [req[c] EXCEPT !.asyncret = bad] IN
             \/ (r.force \/ ~bad) /\ Set(c, r) /\ Goto(c, "edelete")
             \/ ~r.force /\ bad /\ CleanUpReturn(c, r, FALSE)
    BY <1>8 DEF DeleteCollect
  <2> DEFINE r == [req[c] EXCEPT !.asyncret = bad]
  <2>5. /\ r \in Request /\ r.force = req[c].force /\ r.op = req[c].op
        /\ r.since = req[c].since /\ r.err = req[c].err /\ r.asyncret = bad
    BY <1>0, AsyncType DEF Request
  <2>6. \/ ~bad /\ Set(c, r) /\ Goto(c, "edelete")
        \/ bad /\ CleanUpReturn(c, r, FALSE)
    BY <1>0, <2>4, <2>5
  <2> HIDE DEF r
  <2>7. /\ faults' \in Nat /\ faults <= faults'
        /\ bad => faults < faults' \/ ~Smooth(c)
        /\ ~bad => faults' = faults
    <3>1. CASE NoFault /\ bad = (cleanupsuccess(c) # Cardinality(Listed))
      <4>1. faults' = faults
        BY <3>1 DEF NoFault
      <4>2. bad => ~Smooth(c)
        BY <2>1, <3>1, CollectCount
      <4> QED
        BY <1>0, <4>1, <4>2
    <3>2. CASE Fault("read") /\ bad
      BY <1>0, <3>2, Counted
    <3> QED
      BY <2>4, <3>1, <3>2
  <2>8. CASE ~bad /\ Set(c, r) /\ Goto(c, "edelete")
    <3>1. pc'[c] = "edelete" /\ req'[c] = r
      BY <1>0, <2>8 DEF Set, Goto
    <3>2. Moves(c, "edelete")
      BY <2>2, <3>1 DEF Moves
    <3>3. OutcomeInv(c)'
      BY <1>5, <2>5, <2>7, <2>8, <3>1, <3>2
    <3> QED
      BY <1>4, <2>3, <2>7, <3>2, <3>3
  <2>9. CASE bad /\ CleanUpReturn(c, r, FALSE)
    <3>1. Spoiled(c)
      BY <1>1, <2>7, <2>9, Spoils
    <3>2. OutcomeInv(c)'
      BY <2>5, <2>7, <2>9, <3>1, ReturnOutcome
    <3> QED
      BY <1>4, <2>2, <2>3, <2>7, <3>2
  <2> QED
    BY <2>6, <2>8, <2>9
<1>9. CASE EntryDelete(c) \/ EntryDeleteDone(c)
  <2>1. faults' = faults
    BY <1>0, <1>9
       DEF EntryDelete, EntryDeleteDone, GB_METAUPDATE_OR_GOTO, Fault, NoFault
  <2>2. req' = req /\ \E s \in Ending : Moves(c, s)
    BY <1>0, <1>9, CleanIs DEF Ending
  <2>3. WholeInv' /\ OutcomeInv(c)'
    BY <1>3, <1>5, <1>6, <2>1, <2>2
  <2> QED
    BY <1>0, <1>4, <2>1, <2>2, <2>3
<1>10. CASE DeleteEntry(c)
  <2>1. faults' = faults /\ pc'[c] = "edone"
    BY <1>0, <1>10 DEF DeleteEntry, Fault, NoFault, Goto
  <2>2. req' = req /\ Moves(c, "edone")
    BY <1>0, <1>10, <2>1, CleanIs DEF Moves
  <2>3. WholeInv' /\ OutcomeInv(c)'
    BY <1>3, <1>5, <1>6, <2>1, <2>2 DEF Ending
  <2> QED
    BY <1>0, <1>4, <2>1, <2>2, <2>3
<1>11. CASE DeleteMetaFile(c)
  <2>1. meta' = NoMeta /\ CleanUpReturn(c, req[c], FALSE) /\ faults' = faults
    BY <1>0, <1>11 DEF DeleteMetaFile, Fault, NoFault
  <2>2. ~meta'.exists /\ meta'.status[ENTRYDELETE] = NoLine
    BY <1>0, <2>1 DEF NoMeta
  <2>3. WholeInv'
    BY <1>0, <1>1, <2>2 DEF WholeInv
  <2>4. OutcomeInv(c)'
    <3>1. faults' \in Nat /\ faults <= faults'
      BY <1>0, <2>1
    <3> QED
      BY <1>0, <2>1, <2>2, <3>1, ReturnOutcome
  <2>5. \E s : Moves(c, s)
    BY <1>0, <1>11, CleanIs
  <2> QED
    BY <1>0, <1>4, <2>1, <2>3, <2>4, <2>5
<1>12. ~EntryDeleteFail(c)
  BY <1>1 DEF EntryDeleteFail
<1> QED
  BY <1>7, <1>8, <1>9, <1>10, <1>11, <1>12 DEF CleanUpSteps

\* A thread that fails has met a fault.
LEMMA WorkerFault ==
    ASSUME Orderly, TypeOK, NEW c \in Coords, NEW h \in Hosts, Worker(c, h)
    PROVE  /\ faults' \in Nat /\ faults <= faults'
           /\ work'[c][h] = "failed" => faults < faults'
<1>0. /\ "meta" \notin FaultKinds /\ faults \in Nat /\ h \in Keys
      /\ work \in [Coords -> [Keys -> WorkSteps]] /\ h # ENTRYDELETE
  BY HostsAssumption DEF Orderly, TypeOK, Keys
<1>1. \/ NoFault /\ \E s : To(c, h, s) /\ s # "failed"
      \/ Fault("connect")
  BY <1>0
     DEF Worker, WorkerBegin, WorkerConnect, WorkerResult, WorkerAuth,
         GB_METAUPDATE_OR_GOTO, Fault
<1>2. ASSUME NEW s, To(c, h, s) PROVE work'[c][h] = s
  BY <1>0, <1>2 DEF To
<1> QED
  BY <1>0, <1>1, <1>2, Counted

\* A call that fails has met a fault, and a target it leaves is loaded.
LEMMA RpcFault ==
    ASSUME Undisturbed, Known, NEW c \in Coords, NEW h \in Hosts, Rpc(c, h)
    PROVE  /\ faults' \in Nat /\ faults <= faults'
           /\ work'[c][h] = "err" => faults < faults'
           /\ node'[h].gbid # 0 => node'[h].loaded
<1>0. /\ Orderly /\ TypeOK /\ Before /\ faults \in Nat /\ h \in Keys
      /\ work \in [Coords -> [Keys -> WorkSteps]]
      /\ node \in [Hosts -> NodeState] /\ WholeInv /\ CalmInv /\ HandlerInv(c)
      /\ TargetInv(h) /\ ThreadInv(c, h) /\ meta.gbid \in Nat
      /\ "timeout" \notin FaultKinds
  BY GbidTypes
     DEF Undisturbed, Orderly, Known, Before, TypeOK, ResultInv, OrderlyInv,
         LifecycleInv, JournalInv, Keys
<1>1. pc[c] \in Calling /\ pc[c] \in Holding /\ work[c][h] = "sent"
  BY <1>0, RpcIs, HoldingCritical
<1>2. meta.gbid # 0
  BY <1>0, <1>1 DEF HandlerInv, CalmInv
<1>3. node[h].gbid # 0 => node[h].loaded
  BY <1>0 DEF WholeInv
<1>4. CASE RpcServed(c, h)
  <2>1. PICK r \in {"ok", "err", "notfound"} :
          Serve(h, CallOf(c), r) /\ To(c, h, r)
    BY <1>4 DEF RpcServed
  <2>2. work'[c][h] = r
    BY <1>0, <2>1 DEF To
  <2>3. CASE pc[c] = "audit"
    <3>1. block_create(h, meta.gbid, r)
      BY <2>1, <2>3 DEF Serve, CallOf, Job
    <3>2. node[h].gbid = 0
      BY <1>0, <1>1, <2>3 DEF ThreadInv, Unheard, TargetInv
    <3>3. (NoFault /\ r # "err") \/ Fault("exec")
      BY <3>1, <3>2 DEF block_create
    <3>4. node'[h] = node[h] \/ node'[h] = Configured(meta.gbid)
      BY <1>0, <3>1 DEF block_create
    <3>5. faults' \in Nat /\ faults <= faults' /\ (r = "err" => faults < faults')
      BY <1>0, <3>3, Counted
    <3> QED
      BY <1>3, <2>2, <3>4, <3>5 DEF Configured
  <2>4. CASE pc[c] # "audit"
    <3>1. block_delete(h, meta.gbid, r)
      BY <2>1, <2>4 DEF Serve, CallOf, Job
    <3>2. (NoFault /\ r # "err") \/ Fault("exec")
      BY <1>2, <1>3, <3>1 DEF block_delete
    <3>3. node'[h] = node[h] \/ node'[h] = NoConfig
      BY <1>0, <3>1 DEF block_delete
    <3>4. faults' \in Nat /\ faults <= faults' /\ (r = "err" => faults < faults')
      BY <1>0, <3>2, Counted
    <3> QED
      BY <1>3, <2>2, <3>3, <3>4 DEF NoConfig
  <2> QED
    BY <2>3, <2>4
<1>5. CASE RpcLost(c, h)
  <2>1. faults' \in Nat /\ faults < faults' /\ faults <= faults'
    BY <1>0, <1>5, Counted DEF RpcLost
  <2>2. \/ node'[h] = node[h] \/ node'[h] = Configured(meta.gbid)
        \/ node'[h] = NoConfig
    BY <1>0, <1>5 DEF RpcLost
  <2> QED
    BY <1>3, <2>1, <2>2 DEF Configured, NoConfig
<1>6. ~RpcTimeout(c, h)
  BY <1>0 DEF RpcTimeout, Fault
<1> QED
  BY <1>4, <1>5, <1>6 DEF Rpc

\* A thread writes a line or connects.
LEMMA ResultWorker ==
    ASSUME Undisturbed, Known, NEW c \in Coords, NEW k \in Keys, Worker(c, k)
    PROVE  ResultInv'
<1>0. /\ TypeOK /\ Before /\ OutcomeInv(c) /\ LocalsInv(c) /\ AuditInv(c)
      /\ FinishInv(c) /\ Orderly /\ WholeInv /\ HandlerInv(c)
      /\ faults \in Nat /\ req[c].since \in Nat /\ req[c].since <= faults
      /\ \A h \in Hosts : ThreadInv(c, h)
  BY Counters
     DEF Known, Before, ResultInv, OutcomeInv, LocalsInv, Undisturbed,
         OrderlyInv, LifecycleInv, JournalInv
<1>1. /\ pc[c] \in Calling /\ Moves(c, pc[c])
      /\ UNCHANGED <<node, pc, req>>
      /\ \A l \in Keys \ {k} : /\ meta'.status[l] = meta.status[l]
                               /\ work'[c][l] = work[c][l]
      /\ work[c][k] # "none" /\ work'[c][k] # "none"
  BY <1>0, WorkerIs
<1>2. k \in Hosts /\ k # ENTRYDELETE
  BY <1>0, <1>1, HostsAssumption
     DEF HandlerInv, CreateInv, FinishInv, Calling, Keys
<1>3. /\ faults' \in Nat /\ faults <= faults'
      /\ work'[c][k] = "failed" => faults < faults'
  BY <1>0, <1>2, WorkerFault
<1>4. pc[c] \in Critical /\ pc[c] \notin Ending
  BY <1>1, HoldingCritical DEF Calling, Ending
<1>5. WholeInv'
  BY <1>1, <1>2, <1>4, EntryKey, WholeKept
<1>6. LocalsInv(c)'
  BY <1>0, <1>1, <1>3 DEF LocalsInv
<1>7. /\ req[c].since < faults => req[c].since < faults'
      /\ faults < faults' => req[c].since < faults'
  BY <1>0, <1>3
<1>8. AuditInv(c)'
  <2>1. SUFFICES ASSUME pc[c] = "audit", NEW h \in Hosts
                 PROVE  /\ h \in req[c].hosts <=> work'[c][h] # "none"
                        /\ work'[c][h] = "none" => meta'.status[h] = NoLine
                        /\ work'[c][h] \notin {"notfound", "gone"}
                        /\ work'[c][h] \in {"err", "failed"}
                             => req[c].since < faults'
                        /\ work'[c][h] = "done" =>
                             \/ meta'.status[h] \in AuditSuccess
                             \/ req[c].since < faults'
    BY <1>1 DEF AuditInv
  <2>2. CASE h # k
    BY <1>0, <1>1, <1>7, <2>1, <2>2 DEF AuditInv, Keys
  <2>3. CASE h = k
    <3>1. /\ k \in req[c].hosts /\ work[c][k] \notin {"notfound", "gone"}
          /\ work[c][k] \in {"err", "failed"} => req[c].since < faults
      BY <1>0, <1>1, <1>2, <2>1 DEF AuditInv
    <3>2. work'[c][k] \notin {"notfound", "gone", "err"}
      BY <1>0, <3>1, WorkerIs
    <3>3. work'[c][k] = "done" =>
            meta'.status[k] \in AuditSuccess \/ req[c].since < faults
      BY <1>0, <2>1, <3>1, WorkerIs DEF ResultLine, Job, AuditSuccess
    <3> QED
      BY <1>1, <1>3, <1>7, <2>3, <3>1, <3>2, <3>3
  <2> QED
    BY <2>2, <2>3
<1>9. FinishInv(c)'
  <2>1. CASE pc[c] = "collect"
    <3>1. /\ req[c].op = "create" => req[c].err \/ req[c].since < faults
          /\ work[c][ENTRYDELETE] = "none" /\ RemoveInv(c)
      BY <1>0, <2>1 DEF FinishInv, HandlerInv
    <3>2. Smooth(c)' => Smooth(c) /\ faults' = faults
      BY <1>1, <1>3, <2>1, SmoothBack
    <3>3. ASSUME Smooth(c)'
          PROVE  /\ work'[c][k] \notin {"err", "failed"}
                 /\ work'[c][k] = "done" => meta'.status[k] = "CLEANUPSUCCESS"
      <4>1. faults' = faults /\ work[c][k] # "err" /\ work[c][k] # "auth"
        BY <1>0, <1>2, <2>1, <3>2, <3>3 DEF FinishInv, ThreadInv
      <4>2. work'[c][k] # "failed"
        BY <1>0, <1>3, <4>1
      <4> QED
        BY <1>0, <2>1, <4>1, <4>2, WorkerIs DEF ResultLine, Job
    <3> QED
      BY <1>0, <1>1, <1>2, <1>7, <2>1, <3>1, <3>2, <3>3, EntryKey
         DEF FinishInv, Keys
  <2>2. CASE pc[c] # "collect"
    BY <1>1, <2>2 DEF FinishInv, Calling, Removing
  <2> QED
    BY <2>1, <2>2
<1>10. ReportInv(c)'
  BY <1>1 DEF ReportInv, Calling
<1> QED
  BY <1>1, <1>3, <1>4, <1>5, <1>6, <1>8, <1>9, <1>10, ResultStep DEF OutcomeInv

\* A call is answered or lost.
LEMMA ResultRpc ==
    ASSUME Undisturbed, Known, NEW c \in Coords, NEW h \in Hosts, Rpc(c, h)
    PROVE  ResultInv'
<1>0. /\ TypeOK /\ Before /\ OutcomeInv(c) /\ LocalsInv(c) /\ AuditInv(c)
      /\ FinishInv(c) /\ Orderly /\ WholeInv
      /\ faults \in Nat /\ req[c].since \in Nat /\ req[c].since <= faults
      /\ h \in Keys /\ h # ENTRYDELETE /\ ENTRYDELETE \in Keys
  BY Counters, HostsAssumption
     DEF Known, Before, ResultInv, OutcomeInv, LocalsInv, Undisturbed, Keys
<1>1. /\ pc[c] \in Calling /\ Moves(c, pc[c])
      /\ UNCHANGED <<meta, pc, req>>
      /\ work[c][h] = "sent"
      /\ \A l \in Keys \ {h} : work'[c][l] = work[c][l]
      /\ \A g \in Hosts \ {h} : node'[g] = node[g]
      /\ work'[c][h] \in {"ok", "err", "notfound"}
      /\ work'[c][h] = "notfound" => pc[c] # "audit"
  BY <1>0, RpcIs
<1>2. /\ faults' \in Nat /\ faults <= faults'
      /\ work'[c][h] = "err" => faults < faults'
      /\ node'[h].gbid # 0 => node'[h].loaded
  BY RpcFault
<1>3. pc[c] \in Critical
  BY <1>1, HoldingCritical
<1>4. WholeInv'
  BY <1>0, <1>1, <1>2 DEF WholeInv
<1>5. LocalsInv(c)'
  BY <1>0, <1>1, <1>2 DEF LocalsInv
<1>6. /\ req[c].since < faults => req[c].since < faults'
      /\ faults < faults' => req[c].since < faults'
  BY <1>0, <1>2
<1>7. AuditInv(c)'
  BY <1>0, <1>1, <1>2, <1>6 DEF AuditInv, Keys
<1>8. FinishInv(c)'
  <2>1. CASE pc[c] = "collect"
    <3>1. Smooth(c)' => Smooth(c) /\ faults' = faults
      BY <1>1, <1>2, <2>1, SmoothBack
    <3>2. Smooth(c)' => work'[c][h] # "err"
      BY <1>0, <1>2, <3>1
    <3> QED
      BY <1>0, <1>1, <1>6, <2>1, <3>1, <3>2 DEF FinishInv, Keys
  <2>2. CASE pc[c] # "collect"
    BY <1>1, <2>2 DEF FinishInv, Calling, Removing
  <2> QED
    BY <2>1, <2>2
<1>9. ReportInv(c)'
  BY <1>1 DEF ReportInv, Calling
<1> QED
  BY <1>1, <1>2, <1>3, <1>4, <1>5, <1>7, <1>8, <1>9, ResultStep DEF OutcomeInv

\* The target service restores what is saved.
LEMMA ResultRestore ==
    ASSUME Known, NEW h \in Hosts, Restore(h)
    PROVE  ResultInv'
<1>1. /\ UNCHANGED <<meta, pc, req, work>>
      /\ \A g \in Hosts : node'[g].gbid = node[g].gbid
  BY LoadIs DEF Known
<1>2. faults' = faults /\ faults \in Nat /\ node \in [Hosts -> NodeState]
  BY DEF Restore, Known, Before, TypeOK
<1>3. /\ node'[h].loaded
      /\ \A g \in Hosts \ {h} : node'[g].loaded = node[g].loaded
  BY <1>2 DEF Restore, NodeState
<1>4. WholeInv
  BY DEF Known, ResultInv
<1>5. WholeInv'
  BY <1>1, <1>3, <1>4 DEF WholeInv
<1>6. faults' \in Nat /\ faults <= faults'
  BY <1>2
<1> QED
  BY <1>1, <1>5, <1>6, OutcomeKept DEF ResultInv

-----------------------------------------------------------------------------
(***************************************************************************)
(* The theorems.                                                           *)
(***************************************************************************)

\* Before the first request there is nothing to report.
LEMMA ResultInit == Init => ResultInv
<1> SUFFICES ASSUME Init PROVE ResultInv
  OBVIOUS
<1>1. WholeInv
  BY EntryKey DEF Init, WholeInv, NoConfig, NoMeta
<1>2. \A c \in Coords : OutcomeInv(c)
  BY DEF Init, OutcomeInv, LocalsInv, AuditInv, FinishInv, ReportInv, NoRequest,
         Preparing, Removing
<1> QED
  BY <1>1, <1>2 DEF ResultInv

\* ResultInv is inductive.
LEMMA ResultNext ==
    ASSUME Undisturbed, Known, Next
    PROVE  ResultInv'
<1>1. ASSUME NEW c \in Coords PROVE ~Crash(c)
  BY DEF Undisturbed, Orderly, Crash, Fault
<1>2. ASSUME NEW h \in Hosts PROVE ~ServeStale(h) /\ ~Unload(h)
  BY DEF Known, Before, OrderlyInv, CalmInv, ServeStale, Unload, Undisturbed,
         Fault
<1>3. ASSUME NEW c \in Coords, Handler(c) PROVE ResultInv'
  BY <1>3, ResultAside, ResultCreate, ResultClean DEF Handler, CreateSteps
<1> QED
  BY <1>1, <1>2, <1>3, ResultAside, ResultWorker, ResultRpc, ResultRestore
     DEF Next

\* ResultInv is an invariant of every instance with undisturbed requests.
THEOREM ResultSafety ==
    ASSUME Undisturbed
    PROVE  Spec => []ResultInv
<1>1. Orderly /\ "access" \notin FaultKinds
  BY DEF Undisturbed, Orderly
<1>2. ResultInv /\ UNCHANGED vars => ResultInv'
  BY DEF ResultInv, WholeInv, OutcomeInv, LocalsInv, AuditInv, FinishInv,
         ReportInv, Smooth, vars
<1>3. TypeOK /\ LifecycleInv /\ OrderlyInv /\ ResultInv /\ Next => ResultInv'
  BY ResultNext DEF Known, Before
<1>4. Spec => []LifecycleInv
  BY <1>1, LifecycleSafety
<1>5. Spec => []OrderlyInv
  BY <1>1, OrderlySafety
<1> QED
  BY <1>2, <1>3, <1>4, <1>5, ResultInit, Typing, PTL DEF Spec

\* DeleteFinishes for every instance with undisturbed requests, whatever the
\* requests before the delete left half done.
THEOREM DeleteSafety ==
    ASSUME Undisturbed
    PROVE  Spec => []DeleteFinishes
<1>1. ResultInv => DeleteFinishes
  BY DEF ResultInv, OutcomeInv, ReportInv, DeleteFinishes
<1> QED
  BY <1>1, ResultSafety, PTL

\* CreateResult for every instance with undisturbed requests: a create that
\* meets one fault rolls back, or all of its hosts export the block.
THEOREM CreateSafety ==
    ASSUME Undisturbed
    PROVE  Spec => []CreateResult
<1>1. ResultInv => CreateResult
  BY DEF ResultInv, OutcomeInv, ReportInv, CreateResult
<1> QED
  BY <1>1, ResultSafety, PTL
=============================================================================
