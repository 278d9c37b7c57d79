----------------------------- MODULE BlockReload -----------------------------
(***************************************************************************)
(* The requests that bring the hosts of a block back in line with the      *)
(* journal, composed with the replacements of BlockReplace: a reload       *)
(* (block_reload_cli_1_svc_st), which has every host of the block load it  *)
(* from its saved configuration, and a genconfig                           *)
(* (block_gen_config_cli_1_svc_st), which derives the configuration of a   *)
(* host from the journal alone.  A reload writes no line of the journal; a *)
(* genconfig may give the block a priority path.                           *)
(*                                                                         *)
(* The load-balancing counters are those of BlockLifecycle: here any valid *)
(* host may be the one with the lowest.                                    *)
(***************************************************************************)
EXTENDS BlockReplace

\* blockGetMetaInfo, glusterBlockGetListFromInfo and, without force, the
\* capability check.
ReloadAccess ==
    /\ pc = "access" /\ req.op = "reload"
    /\ \/ /\ req.force \/ Valid \cap down = {}
          /\ NoFault
          /\ Goto("reload")
       \/ ~req.force /\ Valid \cap down # {} /\ NoFault /\ Fails
       \/ Fault("read") /\ Fails
       \/ ~req.force /\ Fault("connect") /\ Fails
    /\ UNCHANGED <<meta, node, down, late, work, past>>

\* Mutant of ReloadFillArgs: passes over a host whose portal was replaced.
ReloadFillArgsConfigured == {h \in Nodes : meta.status[h] \in AuditSuccess}

\* glusterBlockReloadFillArgs.
ReloadFillArgs == Valid

\* glusterBlockReloadRemoteAsync starts a thread per valid host.
ReloadRemoteAsync ==
    /\ pc = "reload"
    /\ work' = [h \in Nodes |-> IF h \in ReloadFillArgs THEN "call" ELSE "none"]
    /\ Goto("gather")
    /\ UNCHANGED <<meta, node, down, late, faults, past>>

\* The threads are joined; with force nothing is a failure.
ReloadGather ==
    /\ pc = "gather"
    /\ \A h \in Nodes : work[h] \in {"none", "ok", "err", "failed"}
    /\ req' = [req EXCEPT !.err =
                 ~req.force /\ \E h \in Nodes : work[h] \in {"err", "failed"}]
    /\ work' = NoWork
    /\ pc' = "unlock"
    /\ UNCHANGED <<meta, node, down, late, faults, past>>

\* getSoTgArraysForAllVolume: under the lock, gives the block a PRIOPATH if it
\* has none.
GenConfig ==
    /\ pc = "idle"
    /\ meta.prio = {}
    /\ \E h \in Valid :
         GB_METAUPDATE_OR_GOTO([meta EXCEPT !.prio = {h}], TRUE, TRUE)
    /\ UNCHANGED <<node, down, late, pc, req, work, past>>

Next ==
    \/ Accept \/ ReplaceHandler \/ Crash
    \/ ReloadAccess \/ ReloadRemoteAsync \/ ReloadGather \/ GenConfig
    \/ \E h \in Nodes : Thread(h) \/ Environment(h)

Spec == Init /\ [][Next]_vars

-----------------------------------------------------------------------------
\* A reload without force that reports SUCCESS has the block loaded on every
\* host of it, replaced ones included, but those that rebooted since it began:
\* the result of restoreconfig is ignored and the check after it counts.
ReloadResult ==
    (pc = "unlock" /\ req.op = "reload" /\ ~req.err /\ ~req.force)
      => \A h \in Valid \ (past.rebooted \cup past.strayed) : node[h].loaded
=============================================================================
