------------------------- MODULE LifecycleInvariant -------------------------
(***************************************************************************)
(* The inductive invariants of BlockLifecycle, in three layers.            *)
(***************************************************************************)
EXTENDS BlockLifecycle

(***************************************************************************)
(* The inductive strengthening of JournalSound and EntrySound.  JournalInv *)
(* needs glfs_access to tell a missing metafile from an error: it holds    *)
(* without the fault "access".                                             *)
(***************************************************************************)

\* A create that has drawn its GBID and called nobody yet.
Preparing == {"entry", "size", "passwd", "remote"}

\* The steps at which threads run.
Calling == {"audit", "collect"}

\* Statuses that say a cleanup reached the host.
CleanUpStatus == {"CLEANUPINPROGRESS", "CLEANUPFAIL", "CLEANUPSUCCESS"}

CreateCall(g) == [op |-> "create", gbid |-> g]

DeleteCall(g) == [op |-> "delete", gbid |-> g]

\* Threads belong to a handler that waits for them.
WorkIdle ==
    \A c \in Coords, k \in Keys : pc[c] \notin Calling => work[c][k] = "none"

\* The file exists when its success is journalled; it is unlinked after the
\* ENTRYDELETE line.
EntryBracket ==
    \A c \in Coords :
      /\ pc[c] = "size" => meta.gbid \in files
      /\ pc[c] = "unlink" => meta.status[ENTRYDELETE] # NoLine

EntryInv == EntryBracket /\ EntrySound

\* GBIDs are drawn in order, so a fresh one is nowhere yet.
GbidBound(h) ==
    /\ node[h].gbid <= gbids
    /\ \A call \in stale[h] : 0 < call.gbid /\ call.gbid <= gbids

\* A create on the wire was not served; a delete on the wire is journalled.
OnTheWire(h) ==
    /\ CreateCall(node[h].gbid) \notin stale[h]
    /\ DeleteCall(meta.gbid) \in stale[h] => meta.status[h] \in CleanUpStatus

\* JournalSound at host h, a line about h belongs to a metafile and a GBID,
\* and a host that is clean stays clean: no create is on its way to it.
LineSound(h) ==
    /\ meta.status[h] # NoLine => meta.exists /\ 0 < meta.gbid
    /\ meta.status[h] \in AuditSuccess => node[h].gbid = meta.gbid
    /\ meta.status[h] = "CLEANUPSUCCESS" =>
         node[h].gbid # meta.gbid /\ CreateCall(meta.gbid) \notin stale[h]

\* Nobody has heard of the GBID in the journal.
Unheard(h) ==
    /\ node[h].gbid # meta.gbid
    /\ \A call \in stale[h] : call.gbid # meta.gbid

\* What the step of a handler and of its thread for h say about h: a create is
\* sent at most once, and a cleanup journals before it calls.
ThreadInv(c, h) ==
    /\ pc[c] \in Preparing =>
         0 < meta.gbid /\ meta.status[h] = NoLine /\ Unheard(h)
    /\ pc[c] = "audit" =>
         /\ 0 < meta.gbid
         /\ meta.status[h] \notin CleanUpStatus
         /\ work[c][h] \in {"begin", "call", "sent"} => Unheard(h)
         /\ work[c][h] \in {"ok", "auth"} => node[h].gbid = meta.gbid
    /\ pc[c] = "collect" =>
         /\ work[c][h] # "auth"
         /\ work[c][h] = "begin" => meta.status[h] # NoLine
         /\ work[c][h] \in {"call", "sent", "ok", "err", "notfound"} =>
              meta.status[h] \in CleanUpStatus
         /\ work[c][h] = "ok" =>
              node[h].gbid # meta.gbid /\ CreateCall(meta.gbid) \notin stale[h]

HostInv(h) == GbidBound(h) /\ OnTheWire(h) /\ LineSound(h)

\* What the proof of JournalSound carries along.
JournalInv ==
    /\ meta.gbid <= gbids
    /\ \A h \in Hosts : HostInv(h) /\ \A c \in Coords : ThreadInv(c, h)

\* The inductive invariant of the life of a block: who holds the lock, whose
\* threads run, what is on the wire and what the journal says fit together at
\* every step of glusterBlockCreateRemoteAsync, glusterBlockDeleteRemoteAsync
\* and glusterBlockCleanUp.
LifecycleInv == MutualExclusion /\ WorkIdle /\ EntryInv /\ JournalInv
-----------------------------------------------------------------------------
(***************************************************************************)
(* The inductive strengthening of NoOrphanTarget, and of the refinement of *)
(* BlockAbs: requests that are carried through (no crash, no failed write  *)
(* of the journal), see each failure at once (no timeout) and force        *)
(* nothing.                                                                *)
(***************************************************************************)

\* The steps between the first line of a metafile and its unlink.
Holding == Preparing \cup {"audit", "cleanup", "collect", "edelete", "unlink",
                           "efail", "edone", "unmeta"}

\* The steps of glusterBlockCleanUp after its threads.
Removing == {"edelete", "unlink", "efail", "edone", "unmeta"}

\* No call without a caller, no force; a name without a metafile has no GBID,
\* and no file has a GBID that is still to be drawn.
CalmInv ==
    /\ \A h \in Hosts : stale[h] = {}
    /\ \A c \in Coords : ~req[c].force
    /\ ~meta.exists => meta = NoMeta
    /\ meta.exists => 0 < meta.gbid
    /\ \A g \in files : 0 < g /\ g <= gbids

\* A target is that of the block in the journal, which has a file and a line
\* about the host; and CONFIGINPROGRESS is the last line of a host with a
\* target only until the thread that called it has journalled the answer.
TargetInv(h) ==
    node[h].gbid # 0 =>
      /\ node[h].gbid = meta.gbid /\ meta.gbid \in files
      /\ meta.status[h] # NoLine
      /\ meta.status[h] = "CONFIGINPROGRESS" =>
           \E c \in Coords : pc[c] = "audit" /\ work[c][h] \in {"ok", "err"}

\* What the step of a create says about the block.
CreateInv(c) ==
    /\ pc[c] \in Preparing \cup {"audit"} =>
         /\ req[c].op = "create"
         /\ \A k \in Keys : ~ClosedBy(meta.status[k])
    /\ pc[c] = "entry" => meta.gbid \notin files
    /\ pc[c] \in {"size", "passwd", "remote", "audit"} => meta.gbid \in files
    /\ pc[c] = "audit" =>
         /\ work[c][ENTRYDELETE] = "none"
         /\ \A h \in Hosts : work[c][h] \in {"call", "sent", "ok", "err"}
                                => meta.status[h] = "CONFIGINPROGRESS"

\* What that of a cleanup does: once it goes on to the files no host has a
\* target, those that answered GB_BLOCK_NOT_FOUND included.
RemoveInv(c) ==
    /\ pc[c] = "collect" =>
         /\ work[c][ENTRYDELETE] \in {"none", "begin", "call", "failed"}
         /\ \A h \in Hosts :
              /\ work[c][h] \in {"notfound", "gone"} => node[h].gbid # meta.gbid
              /\ work[c][h] = "gone" => meta.status[h] = "CLEANUPFAIL"
    /\ pc[c] \in Removing => \A h \in Hosts : node[h].gbid = 0
    /\ pc[c] \in Removing \ {"edelete"} => ClosedBy(meta.status[ENTRYDELETE])
    /\ pc[c] \in {"edone", "unmeta"} /\ req[c].unlink => meta.gbid \notin files

HandlerInv(c) ==
    /\ pc[c] \in Holding => meta.exists
    /\ CreateInv(c)
    /\ RemoveInv(c)

\* The inductive invariant of requests that see their failures: targets, file
\* and metafile are of one GBID, are made in the order of
\* block_create_cli_1_svc_st and go in that of glusterBlockCleanUp.
OrderlyInv ==
    /\ CalmInv
    /\ \A h \in Hosts : TargetInv(h)
    /\ \A c \in Coords : HandlerInv(c)
-----------------------------------------------------------------------------
(***************************************************************************)
(* The inductive strengthening of DeleteFinishes and CreateResult: when    *)
(* moreover no unlink fails and no host reboots, a cleanup in which        *)
(* nothing goes wrong removes the block.                                   *)
(***************************************************************************)

\* Nothing has gone wrong in a delete, at most one thing in a create, and not
\* at the read of the journal.
Smooth(c) ==
    IF req[c].op = "delete" THEN faults = req[c].since
    ELSE ~req[c].err /\ faults <= req[c].since + 1

\* A target is loaded, and a cleanup that starts on the files ends.
WholeInv ==
    /\ \A h \in Hosts : node[h].gbid # 0 => node[h].loaded
    /\ meta.status[ENTRYDELETE] # NoLine =>
         \E c \in Coords : pc[c] \in {"unlink", "edone", "unmeta"}

\* errCode is still 0 where a handler goes on, and a cleanup has no failure to
\* report before its threads are joined.
LocalsInv(c) ==
    /\ req[c].since <= faults
    /\ pc[c] # "efail"
    /\ pc[c] \notin {"prio", "unlock", "format"} => ~req[c].asyncret
    /\ pc[c] \in Preparing \cup {"lock", "access", "audit", "prio"} => ~req[c].err

\* The thread of a create that did not configure its host met a fault.
AuditInv(c) ==
    pc[c] = "audit" =>
      \A h \in Hosts :
        /\ h \in req[c].hosts <=> work[c][h] # "none"
        /\ work[c][h] = "none" => meta.status[h] = NoLine
        /\ work[c][h] \notin {"notfound", "gone"}
        /\ work[c][h] \in {"err", "failed"} => req[c].since < faults
        /\ work[c][h] = "done" =>
             meta.status[h] \in AuditSuccess \/ req[c].since < faults

\* A create has reason to clean up; and a cleanup that meets no fault finds
\* each host withdrawn or without the block.
FinishInv(c) ==
    /\ pc[c] \in Removing \cup {"cleanup", "collect"} /\ req[c].op = "create"
         => req[c].err \/ req[c].since < faults
    /\ pc[c] = "collect" =>
         /\ work[c][ENTRYDELETE] = "none"
         /\ \A h \in Hosts :
              /\ work[c][h] = "none" => meta.status[h] \in DeleteSkips \cup {NoLine}
              /\ Smooth(c) =>
                   /\ work[c][h] \notin {"err", "failed"}
                   /\ work[c][h] = "done" => meta.status[h] = "CLEANUPSUCCESS"

\* What a handler reports.
ReportInv(c) ==
    /\ pc[c] = "unlock" /\ req[c].op = "delete" /\ req[c].since = faults
         => ~(req[c].err /\ meta.exists)
    /\ (/\ pc[c] \in {"prio", "unlock"} /\ req[c].op = "create"
        /\ ~req[c].err /\ meta.exists /\ faults <= req[c].since + 1)
         => \A h \in req[c].hosts : node[h].gbid = meta.gbid

OutcomeInv(c) == LocalsInv(c) /\ AuditInv(c) /\ FinishInv(c) /\ ReportInv(c)

\* The inductive invariant of what requests report: where a handler goes on as
\* if all went well it did, and glusterBlockAuditRequest and glusterBlockCleanUp
\* find a host that was not served only after a fault.
ResultInv == WholeInv /\ \A c \in Coords : OutcomeInv(c)
=============================================================================
