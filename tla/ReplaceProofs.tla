---------------------------- MODULE ReplaceProofs ----------------------------
(***************************************************************************)
(* Replacements and reloads, for any block, any number of repeated         *)
(* requests and any number of faults: the journal is true of the hosts,    *)
(* the hosts fit into the array of the handler, and what a reload reports  *)
(* is so.                                                                  *)
(***************************************************************************)
EXTENDS BlockReload, FiniteSetTheorems, SequenceTheorems, TLAPS

-----------------------------------------------------------------------------
(***************************************************************************)
(* The flow of the handler, and types.                                     *)
(***************************************************************************)

\* Which request is at which step, and where it has threads.
FlowInv ==
    /\ req.op = "replace" => req.old # req.new
    /\ pc \in {"args", "collect", "forced", "prio"} => req.op = "replace"
    /\ pc \in {"reload", "gather"} => req.op = "reload"
    /\ pc \notin {"collect", "gather"} => \A h \in Nodes : work[h] = "none"
    /\ pc = "gather" => \A h \in Nodes :
                          work[h] \in {"none", "call", "sent", "ok", "err",
                                       "failed"}

\* What the type invariant says of a metafile.
MetaOK(m) ==
    /\ m \in Meta
    /\ IsInjective(m.order)
    /\ Range(m.order) = {h \in Nodes : m.status[h] # NoLine}

\* A line for a host changes its status, and the list if it is its first.
LEMMA HostLineIs ==
    ASSUME meta \in Meta, NEW h \in Nodes, NEW s \in MetaStatus
    PROVE  /\ HostLine(h, s) \in Meta
           /\ HostLine(h, s).status = [meta.status EXCEPT ![h] = s]
           /\ HostLine(h, s).prio = meta.prio
           /\ HostLine(h, s).ever = IF blockhostIsValid(s)
                                    THEN meta.ever \cup {h} ELSE meta.ever
           /\ HostLine(h, s).order = IF h \in Range(meta.order) THEN meta.order
                                     ELSE Append(meta.order, h)
<1>1. /\ meta.status \in [Nodes -> MetaStatus \cup {NoLine}]
      /\ meta.order \in Seq(Nodes) /\ meta.ever \subseteq Nodes
      /\ meta.prio \subseteq Nodes
      /\ DOMAIN meta = {"status", "order", "ever", "prio"}
  BY DEF Meta
<1>2. /\ HostLine(h, s).status = [meta.status EXCEPT ![h] = s]
      /\ HostLine(h, s).prio = meta.prio
      /\ HostLine(h, s).ever = IF blockhostIsValid(s)
                               THEN meta.ever \cup {h} ELSE meta.ever
      /\ HostLine(h, s).order = IF h \in Range(meta.order) THEN meta.order
                                ELSE Append(meta.order, h)
  BY <1>1 DEF HostLine
<1>3. /\ [meta.status EXCEPT ![h] = s] \in [Nodes -> MetaStatus \cup {NoLine}]
      /\ (IF h \in Range(meta.order) THEN meta.order ELSE Append(meta.order, h))
           \in Seq(Nodes)
      /\ (IF blockhostIsValid(s) THEN meta.ever \cup {h} ELSE meta.ever)
           \subseteq Nodes
  BY <1>1
<1>4. HostLine(h, s) \in Meta
  BY <1>1, <1>3 DEF HostLine, Meta
<1> QED
  BY <1>2, <1>4

\* The list has every host with a line once.
LEMMA HostLineOK ==
    ASSUME MetaOK(meta), NEW h \in Nodes, NEW s \in MetaStatus
    PROVE  MetaOK(HostLine(h, s))
<1> DEFINE m == HostLine(h, s)
<1>1. /\ m \in Meta
      /\ m.status = [meta.status EXCEPT ![h] = s]
      /\ m.order = IF h \in Range(meta.order) THEN meta.order
                   ELSE Append(meta.order, h)
  BY HostLineIs DEF MetaOK
<1>2. /\ meta.status \in [Nodes -> MetaStatus \cup {NoLine}]
      /\ meta.order \in Seq(Nodes)
      /\ IsInjective(meta.order)
      /\ Range(meta.order) = {g \in Nodes : meta.status[g] # NoLine}
  BY DEF MetaOK, Meta
<1>3. s # NoLine
  BY DEF MetaStatus, NoLine
<1> HIDE DEF m
<1>4. {g \in Nodes : m.status[g] # NoLine} = Range(meta.order) \cup {h}
  BY <1>1, <1>2, <1>3
<1>5. CASE h \in Range(meta.order)
  BY <1>1, <1>2, <1>4, <1>5 DEF MetaOK, m
<1>6. CASE h \notin Range(meta.order)
  <2> DEFINE n == Len(meta.order)
             t == Append(meta.order, h)
  <2>1. /\ n \in Nat /\ DOMAIN meta.order = 1 .. n
        /\ DOMAIN t = 1 .. n + 1 /\ t[n + 1] = h
        /\ \A i \in 1 .. n : t[i] = meta.order[i]
    BY <1>2
  <2>2. /\ Range(meta.order) = {meta.order[i] : i \in 1 .. n}
        /\ Range(t) = {t[i] : i \in 1 .. n + 1}
    BY <2>1 DEF Range
  <2>3. \A i, j \in 1 .. n : meta.order[i] = meta.order[j] => i = j
    BY <1>2, <2>1 DEF IsInjective
  <2> HIDE DEF t, n
  <2>4. \A i \in 1 .. n + 1 : i \in 1 .. n \/ i = n + 1
    BY <2>1
  <2>5. \A i, j \in 1 .. n + 1 : t[i] = t[j] => i = j
    BY <1>6, <2>1, <2>2, <2>3, <2>4
  <2>6. IsInjective(t)
    BY <2>1, <2>5 DEF IsInjective
  <2>7. Range(t) = Range(meta.order) \cup {h}
    <3>1. 1 .. n \subseteq 1 .. n + 1 /\ n + 1 \in 1 .. n + 1
      BY <2>1
    <3> QED
      BY <2>1, <2>2, <2>4, <3>1
  <2>8. m.order = t
    BY <1>1, <1>6 DEF t
  <2> QED
    BY <1>1, <1>4, <2>6, <2>7, <2>8 DEF MetaOK, m
<1> QED
  BY <1>5, <1>6

\* The other update: the priority path.
LEMMA PrioOK ==
    ASSUME MetaOK(meta), NEW p \in SUBSET Nodes
    PROVE  /\ MetaOK([meta EXCEPT !.prio = p])
           /\ [meta EXCEPT !.prio = p].status = meta.status
           /\ [meta EXCEPT !.prio = p].order = meta.order
           /\ [meta EXCEPT !.prio = p].ever = meta.ever
           /\ [meta EXCEPT !.prio = p].prio = p
<1>1. /\ [meta EXCEPT !.prio = p].status = meta.status
      /\ [meta EXCEPT !.prio = p].order = meta.order
      /\ [meta EXCEPT !.prio = p].ever = meta.ever
      /\ [meta EXCEPT !.prio = p].prio = p
  BY DEF MetaOK, Meta
<1>2. [meta EXCEPT !.prio = p] \in Meta
  BY DEF MetaOK, Meta
<1> QED
  BY <1>1, <1>2 DEF MetaOK

\* The calls of the threads.
LEMMA CallToIs ==
    ASSUME req \in Request, req.op = "replace" => req.old # req.new,
           NEW h \in Nodes
    PROVE  /\ CallTo(h) \in Call
           /\ CallTo(h).old = req.old /\ CallTo(h).new = req.new
           /\ CallTo(h).hosts = req.hosts
           /\ req.op = "reload" => CallTo(h).op = "reload"
           /\ req.op = "replace" =>
                CallTo(h).op = IF h = req.new THEN "create"
                               ELSE IF h = req.old THEN "delete" ELSE "portal"
<1>1. /\ req.op \in {"replace", "reload"} /\ req.old \in Nodes
      /\ req.new \in Nodes /\ req.hosts \in SUBSET Nodes
  BY DEF Request
<1>2. /\ CallTo(h).old = req.old /\ CallTo(h).new = req.new
      /\ CallTo(h).hosts = req.hosts
  BY DEF CallTo
<1>3. /\ req.op = "reload" => CallTo(h).op = "reload"
      /\ req.op = "replace" =>
           CallTo(h).op = IF h = req.new THEN "create"
                          ELSE IF h = req.old THEN "delete" ELSE "portal"
  <2>1. CASE req.op = "reload"
    BY <2>1 DEF CallTo
  <2>2. CASE req.op = "replace" /\ h = req.new
    BY <2>2 DEF CallTo
  <2>3. CASE req.op = "replace" /\ h # req.new /\ h = req.old
    BY <2>3 DEF CallTo
  <2>4. CASE req.op = "replace" /\ h # req.new /\ h # req.old
    BY <2>4 DEF CallTo
  <2> QED
    BY <1>1, <2>1, <2>2, <2>3, <2>4
<1>4. CallTo(h).op \in {"create", "portal", "delete", "reload"}
  BY <1>1, <1>3
<1>5. CallTo(h) = [op |-> CallTo(h).op, old |-> req.old, new |-> req.new,
                   hosts |-> req.hosts]
  BY DEF CallTo
<1>6. CallTo(h) \in Call
  BY <1>1, <1>4, <1>5 DEF Call
<1> QED
  BY <1>2, <1>3, <1>6

\* What the handlers on a host answer.
LEMMA Answers ==
    ASSUME NEW s \in NodeState, NEW call \in Call
    PROVE  /\ LET a == block_create(s, call)
              IN \/ s.target /\ a.state = s /\ a.exit = "err"
                 \/ ~s.target /\ a.state = Configured(call.hosts) /\ a.exit = "ok"
           /\ LET a == block_delete(s)
              IN \/ s.target /\ s.loaded /\ a.state = NoConfig /\ a.exit = "ok"
                 \/ ~(s.target /\ s.loaded) /\ a.state = s /\ a.exit = "err"
           /\ LET a == block_replace(s, call)
              IN \/ ~(s.target /\ s.loaded) /\ a.state = s /\ a.exit = "err"
                 \/ /\ s.target /\ s.loaded /\ call.new \in s.portals
                    /\ a.state = s /\ a.exit = "ok"
                 \/ /\ s.target /\ s.loaded
                    /\ call.new \notin s.portals /\ call.old \notin s.portals
                    /\ a.state = s /\ a.exit = "err"
                 \/ /\ s.target /\ s.loaded
                    /\ call.new \notin s.portals /\ call.old \in s.portals
                    /\ a.state.target /\ a.state.loaded
                    /\ a.state.portals = (s.portals \ {call.old}) \cup {call.new}
                    /\ a.state \in NodeState
                    /\ a.exit = "ok"
           /\ LET a == block_reload(s)
              IN \/ /\ s.target /\ a.state.target /\ a.state.loaded
                    /\ a.state.portals = s.portals /\ a.state \in NodeState
                    /\ a.exit = "ok"
                 \/ ~s.target /\ a.state = s /\ a.exit = "err"
<1>1. /\ s.target \in BOOLEAN /\ s.loaded \in BOOLEAN
      /\ s.portals \subseteq Nodes
      /\ call.old \in Nodes /\ call.new \in Nodes /\ call.hosts \in SUBSET Nodes
  BY DEF NodeState, Call
<1>2. LET a == block_create(s, call)
      IN \/ s.target /\ a.state = s /\ a.exit = "err"
         \/ ~s.target /\ a.state = Configured(call.hosts) /\ a.exit = "ok"
  BY <1>1 DEF block_create, Answer
<1>3. LET a == block_delete(s)
      IN \/ s.target /\ s.loaded /\ a.state = NoConfig /\ a.exit = "ok"
         \/ ~(s.target /\ s.loaded) /\ a.state = s /\ a.exit = "err"
  BY <1>1 DEF block_delete, Answer
<1>4. LET a == block_replace(s, call)
      IN \/ ~(s.target /\ s.loaded) /\ a.state = s /\ a.exit = "err"
         \/ /\ s.target /\ s.loaded /\ call.new \in s.portals
            /\ a.state = s /\ a.exit = "ok"
         \/ /\ s.target /\ s.loaded
            /\ call.new \notin s.portals /\ call.old \notin s.portals
            /\ a.state = s /\ a.exit = "err"
         \/ /\ s.target /\ s.loaded
            /\ call.new \notin s.portals /\ call.old \in s.portals
            /\ a.state.target /\ a.state.loaded
            /\ a.state.portals = (s.portals \ {call.old}) \cup {call.new}
            /\ a.state \in NodeState
            /\ a.exit = "ok"
  <2>1. CASE ~(s.target /\ s.loaded)
    BY <1>1, <2>1 DEF block_replace, Answer
  <2>2. CASE s.target /\ s.loaded /\ call.new \in s.portals
    BY <1>1, <2>2 DEF block_replace, Answer
  <2>3. CASE /\ s.target /\ s.loaded
             /\ call.new \notin s.portals /\ call.old \notin s.portals
    BY <1>1, <2>3 DEF block_replace, Answer
  <2>4. CASE /\ s.target /\ s.loaded
             /\ call.new \notin s.portals /\ call.old \in s.portals
    <3> DEFINE p == (s.portals \ {call.old}) \cup {call.new}
               n == [s EXCEPT !.portals = p]
    <3>1. block_replace(s, call) = Answer(n, "ok")
      BY <2>4 DEF block_replace
    <3>2. /\ p \subseteq Nodes
      BY <1>1
    <3>3. n \in NodeState /\ n.target = s.target /\ n.loaded = s.loaded
            /\ n.portals = p
      <4> HIDE DEF p
      <4> QED
        BY <3>2 DEF NodeState
    <3> HIDE DEF n, p
    <3>4. /\ block_replace(s, call).state = n
          /\ block_replace(s, call).exit = "ok"
      BY <3>1 DEF Answer
    <3> QED
      BY <2>4, <3>3, <3>4 DEF p
  <2> QED
    BY <1>1, <2>1, <2>2, <2>3, <2>4
<1>5. LET a == block_reload(s)
      IN \/ /\ s.target /\ a.state.target /\ a.state.loaded
            /\ a.state.portals = s.portals /\ a.state \in NodeState
            /\ a.exit = "ok"
         \/ ~s.target /\ a.state = s /\ a.exit = "err"
  <2> DEFINE n == [s EXCEPT !.loaded = TRUE]
  <2>1. n \in NodeState /\ n.target = s.target /\ n.loaded
          /\ n.portals = s.portals
    BY DEF NodeState
  <2> HIDE DEF n
  <2>2. CASE s.target
    <3>1. block_reload(s).state = n /\ block_reload(s).exit = "ok"
      BY <2>2 DEF block_reload, Answer, n
    <3> QED
      BY <2>1, <2>2, <3>1
  <2>3. CASE ~s.target
    BY <2>3 DEF block_reload, Answer
  <2> QED
    BY <2>2, <2>3
<1> QED
  BY <1>2, <1>3, <1>4, <1>5

\* A host that is told of new portals keeps its target.
LEMMA PortalAnswer ==
    ASSUME NEW s \in NodeState, NEW call \in Call
    PROVE  LET a == block_replace(s, call)
           IN a.state = s \/ (s.target /\ a.state.target)
BY Answers

\* What a host does with a call.
LEMMA ServeIs ==
    ASSUME node \in [Nodes -> NodeState], NEW h \in Nodes, NEW call \in Call
    PROVE  /\ Serve(h, call).state \in NodeState
           /\ Serve(h, call).exit \in {"ok", "err"}
           /\ call.op = "create" => Serve(h, call) = block_create(node[h], call)
           /\ call.op = "delete" => Serve(h, call) = block_delete(node[h])
           /\ call.op = "portal" => Serve(h, call) = block_replace(node[h], call)
           /\ call.op = "reload" => Serve(h, call) = block_reload(node[h])
<1>1. /\ call.op \in {"create", "portal", "delete", "reload"}
      /\ call.old \in Nodes /\ call.new \in Nodes /\ call.hosts \in SUBSET Nodes
  BY DEF Call
<1>2. /\ node[h] \in NodeState
      /\ node[h].target \in BOOLEAN /\ node[h].loaded \in BOOLEAN
      /\ node[h].portals \subseteq Nodes
  BY DEF NodeState
<1>3. /\ call.op = "create" => Serve(h, call) = block_create(node[h], call)
      /\ call.op = "delete" => Serve(h, call) = block_delete(node[h])
      /\ call.op = "portal" => Serve(h, call) = block_replace(node[h], call)
      /\ call.op = "reload" => Serve(h, call) = block_reload(node[h])
  BY DEF Serve
<1>4. NoConfig \in NodeState /\ Configured(call.hosts) \in NodeState
  BY <1>1 DEF NoConfig, Configured, NodeState
<1>5. CASE call.op = "create"
  BY <1>2, <1>3, <1>4, <1>5, Answers
<1>6. CASE call.op = "delete"
  BY <1>2, <1>3, <1>4, <1>6, Answers
<1>7. CASE call.op = "portal"
  <2> DEFINE a == block_replace(node[h], call)
  <2>1. a.state \in NodeState /\ a.exit \in {"ok", "err"}
    BY <1>2, Answers
  <2> HIDE DEF a
  <2>2. Serve(h, call) = a
    BY <1>3, <1>7 DEF a
  <2> QED
    BY <1>3, <1>7, <2>1, <2>2
<1>8. CASE call.op = "reload"
  <2> DEFINE a == block_reload(node[h])
  <2>1. a.state \in NodeState /\ a.exit \in {"ok", "err"}
    BY <1>2, Answers
  <2> HIDE DEF a
  <2>2. Serve(h, call) = a
    BY <1>3, <1>8 DEF a
  <2> QED
    BY <1>3, <1>8, <2>1, <2>2
<1> QED
  BY <1>1, <1>5, <1>6, <1>7, <1>8

\* What a failing command leaves: of a portal call the target and whether it is
\* loaded, of a reload the target and its portals, else one of the states of
\* the call.
LEMMA BrokenIs ==
    ASSUME node \in [Nodes -> NodeState], NEW h \in Nodes, NEW call \in Call,
           NEW s \in Broken(h, call)
    PROVE  /\ s \in NodeState
           /\ call.op = "portal" =>
                s.target = node[h].target /\ s.loaded = node[h].loaded
           /\ call.op = "reload" =>
                s.target = node[h].target /\ s.portals = node[h].portals
           /\ call.op \in {"create", "delete"} =>
                s \in {node[h], Serve(h, call).state}
<1>1. /\ call.old \in Nodes /\ call.new \in Nodes
  BY DEF Call
<1>2. /\ node[h] \in NodeState /\ node[h].portals \subseteq Nodes
  BY DEF NodeState
<1>3. Serve(h, call).state \in NodeState
  BY ServeIs
<1>4. CASE call.op = "portal" /\ Serve(h, call).state # node[h]
  <2>1. PICK p : /\ p \in {node[h].portals, node[h].portals \ {call.old},
                           node[h].portals \cup {call.new},
                           (node[h].portals \ {call.old}) \cup {call.new}}
                 /\ s = [node[h] EXCEPT !.portals = p]
    BY <1>4 DEF Broken
  <2>2. p \subseteq Nodes
    BY <1>1, <1>2, <2>1
  <2> QED
    BY <1>2, <1>4, <2>1, <2>2 DEF NodeState
<1>5. CASE call.op = "reload"
  <2>1. \/ s \in {node[h], Serve(h, call).state}
        \/ s = [node[h] EXCEPT !.loaded = FALSE]
    BY <1>5 DEF Broken
  <2>2. Serve(h, call) = block_reload(node[h])
    BY <1>5, ServeIs
  <2>3. \/ block_reload(node[h]).state = node[h]
        \/ block_reload(node[h]).state = [node[h] EXCEPT !.loaded = TRUE]
    BY DEF block_reload, Answer
  <2>4. CASE s \in {node[h], Serve(h, call).state}
    BY <1>2, <1>3, <1>5, <2>2, <2>3, <2>4 DEF NodeState
  <2>5. CASE s = [node[h] EXCEPT !.loaded = FALSE]
    BY <1>2, <1>5, <2>5 DEF NodeState
  <2> QED
    BY <2>1, <2>4, <2>5
<1>6. CASE /\ ~(call.op = "portal" /\ Serve(h, call).state # node[h])
           /\ call.op # "reload"
  <2>1. s \in {node[h], Serve(h, call).state}
    BY <1>6 DEF Broken
  <2>2. call.op = "portal" => s = node[h]
    BY <1>6, <2>1
  <2> QED
    BY <1>2, <1>3, <1>6, <2>1, <2>2
<1> QED
  BY <1>4, <1>5, <1>6

\* The lines the threads write.
LEMMA LineIs ==
    ASSUME req \in Request, req.op = "replace", req.old # req.new,
           NEW h \in Nodes, NEW c, NEW d, NEW p
    PROVE  Line(h, c, d, p) =
             HostLine(h, IF h = req.new THEN c ELSE IF h = req.old THEN d ELSE p)
<1>1. CallTo(h).op = IF h = req.new THEN "create"
                     ELSE IF h = req.old THEN "delete" ELSE "portal"
  BY CallToIs
<1> QED
  BY <1>1 DEF Line

\* The parts of the type invariant that a step of a thread can change.
LEMMA TypesKeep ==
    ASSUME TypeOK, MetaOK(meta'), node' \in [Nodes -> NodeState],
           late' \in [Nodes -> SUBSET Call], faults' \in Nat,
           work' \in [Nodes -> WorkSteps], past' \in Past,
           down' \in SUBSET Nodes, pc' \in Steps, req' \in Request
    PROVE  TypeOK'
BY DEF TypeOK, MetaOK

\* The locals of a handler that has no request.
LEMMA NoRequestType == NoRequest \in Request /\ NoWork \in [Nodes -> WorkSteps]
<1>1. InitHosts[1] \in Nodes
  BY ReplaceAssumption
<1>2. NoRequest \in Request
  BY <1>1 DEF NoRequest, Request, OpStatus
<1> QED
  BY <1>2 DEF NoWork, WorkSteps

\* The variables have their types at the start.
LEMMA TypesInit == Init => TypeOK /\ FlowInv
<1> SUFFICES ASSUME Init PROVE TypeOK /\ FlowInv
  OBVIOUS
<1> DEFINE R == Range(InitHosts)
           st == [h \in Nodes |-> IF h \notin R THEN NoLine
                                  ELSE IF Auth THEN "AUTHENFORCED"
                                  ELSE "CONFIGSUCCESS"]
<1>1. InitHosts \in Seq(Nodes) /\ InitHosts[1] \in Nodes /\ R \subseteq Nodes
  BY ReplaceAssumption DEF Range
<1>2. PICK p \in {{}, {InitHosts[1]}} :
         meta = [status |-> st, order |-> InitHosts, ever |-> R, prio |-> p]
  BY DEF Init
<1>3. /\ st \in [Nodes -> MetaStatus \cup {NoLine}]
      /\ {h \in Nodes : st[h] # NoLine} = R
  BY <1>1 DEF MetaStatus, NoLine
<1> HIDE DEF st, R
<1>4. MetaOK(meta)
  BY <1>1, <1>2, <1>3, ReplaceAssumption DEF MetaOK, Meta, R
<1>5. NoConfig \in NodeState /\ Configured(R) \in NodeState
  BY <1>1 DEF NoConfig, Configured, NodeState
<1>6. node \in [Nodes -> NodeState]
  BY <1>5 DEF Init, R
<1>7. /\ late \in [Nodes -> SUBSET Call] /\ faults \in Nat /\ pc \in Steps
      /\ down \in SUBSET Nodes /\ past \in Past
  BY DEF Init, Steps, Past
<1>8. TypeOK
  BY <1>4, <1>6, <1>7, NoRequestType DEF TypeOK, MetaOK, Init
<1>9. FlowInv
  BY DEF FlowInv, Init, NoRequest, NoWork
<1> QED
  BY <1>8, <1>9

BaseInv == TypeOK /\ FlowInv

\* What is left to show of a step of a handler.
LEMMA HandlerKeeps ==
    ASSUME TypeOK, MetaOK(meta'), faults' \in Nat,
           work' \in [Nodes -> WorkSteps], past' \in Past, pc' \in Steps,
           req' \in Request, UNCHANGED <<node, down, late>>, FlowInv'
    PROVE  BaseInv'
BY TypesKeep DEF BaseInv, TypeOK

\* A request comes in, and is checked.
LEMMA AccessKeeps ==
    ASSUME BaseInv, Accept \/ ReplaceAccess \/ ReloadAccess
    PROVE  BaseInv'
<1>1. TypeOK /\ FlowInv /\ MetaOK(meta)
  BY DEF BaseInv, TypeOK, MetaOK
<1>2. CASE Accept
  <2>1. PICK r \in Requests :
           /\ req' = [NoRequest EXCEPT !.op = r.op, !.old = r.old,
                                       !.new = r.new, !.force = r.force]
           /\ past' = [past EXCEPT !.rebooted = {},
                         !.pairs = IF r.op = "replace"
                                   THEN @ \cup {<<r.old, r.new>>} ELSE @]
    BY <1>2 DEF Accept
  <2>2. /\ r.op \in {"replace", "reload"} /\ r.old \in Nodes /\ r.new \in Nodes
        /\ r.force \in BOOLEAN /\ (r.op = "replace" => r.old # r.new)
    BY ReplaceAssumption
  <2>3. req' \in Request /\ req'.op = r.op /\ req'.old = r.old /\ req'.new = r.new
    BY <2>1, <2>2, NoRequestType DEF Request
  <2>4. past' \in Past
    <3> DEFINE P == IF r.op = "replace"
                    THEN past.pairs \cup {<<r.old, r.new>>} ELSE past.pairs
    <3>1. past \in Past /\ past.pairs \in SUBSET (Nodes \X Nodes)
      BY <1>1 DEF TypeOK, Past
    <3>2. P \in SUBSET (Nodes \X Nodes)
      BY <2>2, <3>1
    <3>3. past' = [past EXCEPT !.rebooted = {}, !.pairs = P]
      BY <2>1, <3>1 DEF Past
    <3> HIDE DEF P
    <3> QED
      BY <3>1, <3>2, <3>3 DEF Past
  <2>5. UNCHANGED <<meta, node, down, late, faults, work>> /\ pc' = "access"
          /\ pc = "idle"
    BY <1>2 DEF Accept
  <2>6. FlowInv'
    BY <1>1, <2>2, <2>3, <2>5 DEF FlowInv
  <2>7. pc' \in Steps /\ faults' \in Nat /\ work' \in [Nodes -> WorkSteps]
    BY <1>1, <2>5 DEF Steps, TypeOK
  <2> QED
    BY <1>1, <2>3, <2>4, <2>5, <2>6, <2>7, HandlerKeeps
<1>3. CASE ReplaceAccess \/ ReloadAccess
  <2>1. /\ UNCHANGED <<meta, node, down, late, work, past>> /\ pc = "access"
        /\ faults' \in {faults, faults + 1}
    BY <1>3 DEF ReplaceAccess, ReloadAccess, NoFault, Fault
  <2>2. \/ pc' = "args" /\ UNCHANGED req /\ req.op = "replace"
        \/ pc' = "reload" /\ UNCHANGED req /\ req.op = "reload"
        \/ pc' = "unlock" /\ req' = [req EXCEPT !.err = TRUE]
    BY <1>3 DEF ReplaceAccess, ReloadAccess, Goto, Fails
  <2>3. req' \in Request /\ req'.op = req.op /\ req'.old = req.old
          /\ req'.new = req.new
    BY <1>1, <2>2 DEF TypeOK, Request
  <2>4. FlowInv'
    BY <1>1, <2>1, <2>2, <2>3 DEF FlowInv
  <2>5. /\ pc' \in Steps /\ faults' \in Nat /\ work' \in [Nodes -> WorkSteps]
        /\ past' \in Past
    BY <1>1, <2>1, <2>2 DEF Steps, TypeOK
  <2> QED
    BY <1>1, <2>1, <2>3, <2>4, <2>5, HandlerKeeps
<1> QED
  BY <1>2, <1>3

\* The threads of a replace start.
LEMMA RemoteAsyncKeeps ==
    ASSUME BaseInv, ReplaceRemoteAsync
    PROVE  BaseInv'
<1> DEFINE args == FillArgs(req.old)
           hosts == {req.new} \cup Others(req.old)
           r == [req EXCEPT !.args = args, !.prio = meta.prio, !.hosts = hosts]
<1>1. TypeOK /\ FlowInv /\ MetaOK(meta) /\ pc = "args" /\ req.op = "replace"
  BY DEF BaseInv, TypeOK, MetaOK, FlowInv, ReplaceRemoteAsync
<1>2. args \subseteq Nodes /\ hosts \subseteq Nodes /\ meta.prio \subseteq Nodes
  BY <1>1 DEF FillArgs, Others, Valid, TypeOK, Request, MetaOK, Meta
<1>3. UNCHANGED <<meta, node, down, late, past>>
  BY DEF ReplaceRemoteAsync
<1> HIDE DEF args, hosts
<1>4. r \in Request /\ r.op = req.op /\ r.old = req.old /\ r.new = req.new
  BY <1>1, <1>2 DEF TypeOK, Request
<1>5. /\ faults' \in {faults, faults + 1}
      /\ \/ pc' = "unlock" /\ req' = [req EXCEPT !.err = TRUE] /\ UNCHANGED work
         \/ pc' = "forced" /\ req' = [r EXCEPT !.skipped = TRUE] /\ UNCHANGED work
         \/ /\ pc' = "collect"
            /\ \E c \in OpStatus, d \in OpStatus, o \in OpStatus :
                 req' = [r EXCEPT !.cop = c, !.dop = d, !.rop = o]
            /\ work' \in [Nodes -> {"begin", "none"}]
  BY DEF ReplaceRemoteAsync, Fails, NoFault, Fault, OpStatus, args, hosts
<1> HIDE DEF r
<1>6. /\ req' \in Request /\ req'.op = req.op /\ req'.old = req.old
      /\ req'.new = req.new
  <2>1. CASE req' = [req EXCEPT !.err = TRUE]
    BY <1>1, <2>1 DEF TypeOK, Request
  <2>2. CASE req' = [r EXCEPT !.skipped = TRUE]
    BY <1>4, <2>2 DEF Request
  <2>3. ASSUME NEW c \in OpStatus, NEW d \in OpStatus, NEW o \in OpStatus,
               req' = [r EXCEPT !.cop = c, !.dop = d, !.rop = o]
        PROVE  /\ req' \in Request /\ req'.op = r.op /\ req'.old = r.old
               /\ req'.new = r.new
    BY <1>4, <2>3 DEF Request
  <2>4. \/ req' = [req EXCEPT !.err = TRUE]
        \/ req' = [r EXCEPT !.skipped = TRUE]
        \/ \E c \in OpStatus, d \in OpStatus, o \in OpStatus :
             req' = [r EXCEPT !.cop = c, !.dop = d, !.rop = o]
    BY <1>5
  <2>5. CASE \E c \in OpStatus, d \in OpStatus, o \in OpStatus :
               req' = [r EXCEPT !.cop = c, !.dop = d, !.rop = o]
    <3>1. PICK c \in OpStatus, d \in OpStatus, o \in OpStatus :
            req' = [r EXCEPT !.cop = c, !.dop = d, !.rop = o]
      BY <2>5
    <3>2. /\ req' \in Request /\ req'.op = r.op /\ req'.old = r.old
          /\ req'.new = r.new
      BY <2>3, <3>1
    <3> QED
      BY <1>4, <3>2
  <2>6. QED
    BY <1>4, <2>1, <2>2, <2>4, <2>5
<1>7. work' \in [Nodes -> WorkSteps]
  BY <1>1, <1>5 DEF TypeOK, WorkSteps
<1>8. FlowInv'
  BY <1>1, <1>5, <1>6 DEF FlowInv
<1>9. pc' \in Steps /\ faults' \in Nat /\ past' \in Past
  <2>1. faults \in Nat /\ past \in Past /\ past' = past
    BY <1>1, <1>3 DEF TypeOK
  <2>2. faults' \in Nat
    <3>1. faults' \in {faults, faults + 1}
      BY <1>5
    <3> QED
      BY <2>1, <3>1
  <2>3. pc' \in {"unlock", "forced", "collect"}
    BY <1>5
  <2> QED
    BY <2>1, <2>2, <2>3 DEF Steps
<1>10. MetaOK(meta') /\ UNCHANGED <<node, down, late>>
  BY <1>1, <1>3
<1> QED
  BY <1>1, <1>6, <1>7, <1>8, <1>9, <1>10, HandlerKeeps

\* The rest of the handler of a replace.
LEMMA ReplaceEndKeeps ==
    ASSUME BaseInv, Collect \/ ForcedLine \/ PrioLine \/ MetaUnlock
    PROVE  BaseInv'
<1>1. TypeOK /\ FlowInv /\ MetaOK(meta) /\ req \in Request /\ faults \in Nat
  BY DEF BaseInv, TypeOK, MetaOK
<1>2. CASE Collect
  <2>1. \E c \in OpStatus, d \in OpStatus, o \in OpStatus :
          req' = [req EXCEPT !.cop = c, !.dop = d, !.rop = o]
    <3>1. req.cop \in OpStatus /\ req.dop \in OpStatus /\ req.rop \in OpStatus
      BY <1>1 DEF Request
    <3>2. \A h : Exit(h) \in OpStatus
      BY DEF Exit, OpStatus
    <3> QED
      BY <1>2, <3>1, <3>2 DEF Collect
  <2>2. /\ req' \in Request /\ req'.op = req.op /\ req'.old = req.old
        /\ req'.new = req.new
    BY <1>1, <2>1 DEF Request
  <2>3. /\ UNCHANGED <<meta, node, down, late, faults, past>>
        /\ work' = NoWork /\ pc' = "forced" /\ pc = "collect"
    BY <1>2 DEF Collect
  <2>4. FlowInv'
    BY <1>1, <2>2, <2>3 DEF FlowInv, NoWork
  <2> QED
    BY <1>1, <2>2, <2>3, <2>4, NoRequestType, HandlerKeeps DEF TypeOK, Steps
<1>3. CASE ForcedLine
  <2>1. pc = "forced" /\ UNCHANGED <<node, down, late, work>>
    BY <1>3 DEF ForcedLine
  <2>2. MetaOK(HostLine(req.old, "CLEANUPSUCCESS"))
    BY <1>1, HostLineOK DEF Request, MetaStatus
  <2>3. /\ meta' \in {meta, HostLine(req.old, "CLEANUPSUCCESS")}
        /\ faults' \in {faults, faults + 1}
        /\ \/ pc' = "prio" /\ UNCHANGED req
           \/ pc' = "unlock" /\ req' = [req EXCEPT !.err = TRUE]
        /\ \/ past' = past
           \/ past' = [past EXCEPT !.forced =
                         IF req.dop = "failed" THEN @ \cup {req.old} ELSE @]
    BY <1>3 DEF ForcedLine, GB_METAUPDATE_OR_GOTO, Goto, Fails, NoFault, Fault
  <2>4. past' \in Past
    BY <1>1, <2>3 DEF TypeOK, Past, Request
  <2>5. /\ req' \in Request /\ req'.op = req.op /\ req'.old = req.old
        /\ req'.new = req.new
    BY <1>1, <2>3 DEF Request
  <2>6. FlowInv'
    BY <1>1, <2>1, <2>3, <2>5 DEF FlowInv
  <2>7. /\ MetaOK(meta') /\ pc' \in Steps /\ faults' \in Nat
        /\ work' \in [Nodes -> WorkSteps]
    BY <1>1, <2>1, <2>2, <2>3 DEF Steps, TypeOK
  <2> QED
    BY <1>1, <2>1, <2>4, <2>5, <2>6, <2>7, HandlerKeeps
<1>4. CASE PrioLine
  <2>1. pc = "prio" /\ UNCHANGED <<node, down, late, work, past>>
    BY <1>4 DEF PrioLine
  <2>2. MetaOK([meta EXCEPT !.prio = {req.new}])
    BY <1>1, PrioOK DEF Request
  <2>3. /\ meta' \in {meta, [meta EXCEPT !.prio = {req.new}]}
        /\ faults' \in {faults, faults + 1}
        /\ \/ pc' = "unlock" /\ UNCHANGED req
           \/ pc' = "unlock" /\ req' = [req EXCEPT !.err = TRUE]
    BY <1>4 DEF PrioLine, GB_METAUPDATE_OR_GOTO, Goto, Fails, NoFault, Fault
  <2>4. /\ req' \in Request /\ req'.op = req.op /\ req'.old = req.old
        /\ req'.new = req.new
    BY <1>1, <2>3 DEF Request
  <2>5. FlowInv'
    BY <1>1, <2>1, <2>3, <2>4 DEF FlowInv
  <2>6. /\ MetaOK(meta') /\ pc' \in Steps /\ faults' \in Nat
        /\ work' \in [Nodes -> WorkSteps] /\ past' \in Past
    <3>1. MetaOK(meta')
      BY <1>1, <2>2, <2>3
    <3>2. pc' = "unlock" /\ faults' \in Nat
      BY <1>1, <2>3
    <3> QED
      BY <1>1, <2>1, <3>1, <3>2 DEF Steps, TypeOK
  <2> QED
    BY <1>1, <2>1, <2>4, <2>5, <2>6, HandlerKeeps
<1>5. CASE MetaUnlock
  <2>1. /\ pc = "unlock" /\ pc' = "idle" /\ req' = NoRequest
        /\ UNCHANGED <<meta, node, down, late, faults, work, past>>
    BY <1>5 DEF MetaUnlock
  <2>2. FlowInv'
    BY <1>1, <2>1 DEF FlowInv, NoRequest
  <2> QED
    BY <1>1, <2>1, <2>2, NoRequestType, HandlerKeeps DEF Steps, TypeOK
<1> QED
  BY <1>2, <1>3, <1>4, <1>5

\* A reload, and a genconfig.
LEMMA ReloadKeeps ==
    ASSUME BaseInv, ReloadRemoteAsync \/ ReloadGather \/ GenConfig
    PROVE  BaseInv'
<1>1. TypeOK /\ FlowInv /\ MetaOK(meta) /\ req \in Request /\ faults \in Nat
  BY DEF BaseInv, TypeOK, MetaOK
<1>2. CASE ReloadRemoteAsync
  <2>1. /\ pc = "reload" /\ pc' = "gather" /\ UNCHANGED req
        /\ UNCHANGED <<meta, node, down, late, faults, past>>
        /\ work' \in [Nodes -> {"call", "none"}]
    BY <1>2 DEF ReloadRemoteAsync, Goto
  <2>2. FlowInv' /\ work' \in [Nodes -> WorkSteps]
    BY <1>1, <2>1 DEF FlowInv, WorkSteps
  <2> QED
    BY <1>1, <2>1, <2>2, HandlerKeeps DEF Steps, TypeOK
<1>3. CASE ReloadGather
  <2>1. /\ pc = "gather" /\ pc' = "unlock" /\ work' = NoWork
        /\ UNCHANGED <<meta, node, down, late, faults, past>>
        /\ \E e \in BOOLEAN : req' = [req EXCEPT !.err = e]
    BY <1>3 DEF ReloadGather
  <2>2. /\ req' \in Request /\ req'.op = req.op /\ req'.old = req.old
        /\ req'.new = req.new
    BY <1>1, <2>1 DEF Request
  <2>3. FlowInv'
    BY <1>1, <2>1, <2>2 DEF FlowInv, NoWork
  <2> QED
    BY <1>1, <2>1, <2>2, <2>3, NoRequestType, HandlerKeeps DEF Steps, TypeOK
<1>4. CASE GenConfig
  <2>1. /\ UNCHANGED <<node, down, late, pc, req, work, past>>
        /\ faults' \in {faults, faults + 1}
    BY <1>4 DEF GenConfig, GB_METAUPDATE_OR_GOTO, NoFault, Fault
  <2>2. PICK h \in Valid : meta' \in {meta, [meta EXCEPT !.prio = {h}]}
    BY <1>4 DEF GenConfig, GB_METAUPDATE_OR_GOTO
  <2>3. MetaOK(meta')
    BY <1>1, <2>2, PrioOK DEF Valid
  <2>4. FlowInv'
    BY <1>1, <2>1 DEF FlowInv
  <2> QED
    BY <1>1, <2>1, <2>3, <2>4, HandlerKeeps DEF TypeOK
<1> QED
  BY <1>2, <1>3, <1>4

\* Where a thread is at work, and what a line of one is.
LEMMA ThreadFlow ==
    ASSUME BaseInv, NEW h \in Nodes
    PROVE  /\ work[h] # "none" => pc \in {"collect", "gather"}
           /\ work[h] \in {"begin", "auth", "done"} => pc = "collect"
           /\ pc = "collect" => req.op = "replace" /\ req.old # req.new
           /\ pc = "gather" => req.op = "reload"
BY DEF BaseInv, FlowInv, TypeOK

\* The steps of a thread that write a line: at most that line is written, and
\* certainly when the thread goes on to the call or is done.
LEMMA LinesAre ==
    ASSUME BaseInv, NEW h \in Nodes,
           WorkerBegin(h) \/ WorkerResult(h) \/ WorkerAuth(h)
    PROVE  /\ pc = "collect" /\ req.op = "replace"
           /\ UNCHANGED <<node, down, late, pc, req, past>>
           /\ faults' \in {faults, faults + 1}
           /\ \E s \in MetaStatus, x \in {"call", "auth", "done", "failed"} :
                /\ meta' \in {meta, HostLine(h, s)}
                /\ work' = [work EXCEPT ![h] = x]
                /\ x \in {"call", "auth", "done"} => meta' = HostLine(h, s)
                /\ x = "failed" => work[h] = "err" \/ faults' = faults + 1
                /\ \/ /\ work[h] = "begin" /\ x \in {"call", "failed"}
                      /\ s = IF h = req.new THEN "CONFIGINPROGRESS"
                             ELSE IF h = req.old THEN "CLEANUPINPROGRESS"
                             ELSE "RPINPROGRESS"
                   \/ /\ work[h] = "ok"
                      /\ s = IF h = req.new THEN "CONFIGSUCCESS"
                             ELSE IF h = req.old THEN "CLEANUPSUCCESS"
                             ELSE "RPSUCCESS"
                      /\ x = "auth" => h = req.new /\ Auth
                      /\ x = "done" => ~(h = req.new /\ Auth)
                      /\ x # "call"
                   \/ /\ work[h] = "err" /\ x = "failed"
                      /\ s = IF h = req.new THEN "CONFIGFAIL"
                             ELSE IF h = req.old THEN "CLEANUPFAIL"
                             ELSE "RPFAIL"
                   \/ /\ work[h] = "auth" /\ x \in {"done", "failed"}
                      /\ s = "AUTHENFORCED"
<1>1. TypeOK /\ FlowInv /\ req \in Request /\ Auth \in BOOLEAN
  BY ReplaceAssumption DEF BaseInv, TypeOK
<1>2. pc = "collect" /\ req.op = "replace" /\ req.old # req.new
  BY ThreadFlow DEF WorkerBegin, WorkerResult, WorkerAuth
<1>3. UNCHANGED <<node, down, late, pc, req, past>>
  BY DEF WorkerBegin, WorkerResult, WorkerAuth
<1>4. faults' \in {faults, faults + 1}
  BY DEF WorkerBegin, WorkerResult, WorkerAuth, GB_METAUPDATE_OR_GOTO, Fault,
         NoFault
<1>5. CallTo(h).op = "create" <=> h = req.new
  BY <1>1, <1>2, CallToIs
<1>6. CASE WorkerBegin(h)
  <2> DEFINE s == IF h = req.new THEN "CONFIGINPROGRESS"
                  ELSE IF h = req.old THEN "CLEANUPINPROGRESS"
                  ELSE "RPINPROGRESS"
  <2>1. Line(h, "CONFIGINPROGRESS", "CLEANUPINPROGRESS", "RPINPROGRESS")
          = HostLine(h, s)
    BY <1>1, <1>2, LineIs
  <2>2. s \in MetaStatus
    BY DEF MetaStatus
  <2>3. work[h] = "begin"
    BY <1>6 DEF WorkerBegin
  <2>4. \/ meta' = HostLine(h, s) /\ work' = [work EXCEPT ![h] = "call"]
        \/ /\ meta' \in {meta, HostLine(h, s)} /\ faults' = faults + 1
           /\ work' = [work EXCEPT ![h] = "failed"]
    BY <1>6, <2>1 DEF WorkerBegin, GB_METAUPDATE_OR_GOTO, To, Fault
  <2> QED
    BY <1>2, <1>3, <1>4, <2>2, <2>3, <2>4
<1>7. CASE WorkerResult(h)
  <2>1. CASE work[h] = "ok"
    <3> DEFINE s == IF h = req.new THEN "CONFIGSUCCESS"
                    ELSE IF h = req.old THEN "CLEANUPSUCCESS" ELSE "RPSUCCESS"
               x == IF CallTo(h).op = "create" /\ Auth THEN "auth" ELSE "done"
    <3>1. Line(h, "CONFIGSUCCESS", "CLEANUPSUCCESS", "RPSUCCESS")
            = HostLine(h, s)
      BY <1>1, <1>2, LineIs
    <3>2. s \in MetaStatus
      BY DEF MetaStatus
    <3>3. \/ meta' = HostLine(h, s) /\ work' = [work EXCEPT ![h] = x]
          \/ /\ meta' \in {meta, HostLine(h, s)} /\ faults' = faults + 1
             /\ work' = [work EXCEPT ![h] = "failed"]
      BY <1>7, <2>1, <3>1 DEF WorkerResult, GB_METAUPDATE_OR_GOTO, To, Fault
    <3>4. /\ x \in {"auth", "done"} /\ (x = "auth" => h = req.new /\ Auth)
          /\ (x = "done" => ~(h = req.new /\ Auth))
      BY <1>1, <1>5
    <3> HIDE DEF x
    <3>5. CASE meta' = HostLine(h, s) /\ work' = [work EXCEPT ![h] = x]
      BY <1>2, <1>3, <1>4, <2>1, <3>2, <3>4, <3>5
    <3>6. CASE /\ meta' \in {meta, HostLine(h, s)} /\ faults' = faults + 1
               /\ work' = [work EXCEPT ![h] = "failed"]
      BY <1>2, <1>3, <1>4, <2>1, <3>2, <3>6
    <3> QED
      BY <3>3, <3>5, <3>6
  <2>2. CASE work[h] = "err"
    <3> DEFINE s == IF h = req.new THEN "CONFIGFAIL"
                    ELSE IF h = req.old THEN "CLEANUPFAIL" ELSE "RPFAIL"
    <3>1. Line(h, "CONFIGFAIL", "CLEANUPFAIL", "RPFAIL") = HostLine(h, s)
      BY <1>1, <1>2, LineIs
    <3>2. s \in MetaStatus
      BY DEF MetaStatus
    <3>3. /\ meta' \in {meta, HostLine(h, s)}
          /\ work' = [work EXCEPT ![h] = "failed"]
      BY <1>7, <2>2, <3>1 DEF WorkerResult, GB_METAUPDATE_OR_GOTO, To
    <3> QED
      BY <1>2, <1>3, <1>4, <2>2, <3>2, <3>3
  <2> QED
    BY <1>7, <2>1, <2>2 DEF WorkerResult
<1>8. CASE WorkerAuth(h)
  <2>1. work[h] = "auth" /\ "AUTHENFORCED" \in MetaStatus
    BY <1>8 DEF WorkerAuth, MetaStatus
  <2>2. \/ meta' = HostLine(h, "AUTHENFORCED") /\ work' = [work EXCEPT ![h] = "done"]
        \/ /\ meta' \in {meta, HostLine(h, "AUTHENFORCED")}
           /\ work' = [work EXCEPT ![h] = "failed"] /\ faults' = faults + 1
    BY <1>8 DEF WorkerAuth, GB_METAUPDATE_OR_GOTO, To, Fault
  <2> QED
    BY <1>2, <1>3, <1>4, <2>1, <2>2
<1> QED
  BY <1>6, <1>7, <1>8

\* The steps of a call: the host is left as it was or as the call makes it, or,
\* by a command that fails half way, with other portals or unloaded; and "ok" is
\* answered for nothing but the work that was done.
LEMMA CallsAre ==
    ASSUME BaseInv, NEW h \in Nodes,
           \/ RpcServed(h) \/ RpcBroken(h) \/ RpcLost(h) \/ RpcTimeout(h)
    PROVE  /\ work[h] = "sent" /\ pc \in {"collect", "gather"}
           /\ UNCHANGED <<meta, down, pc, req>>
           /\ faults' \in {faults, faults + 1}
           /\ CallTo(h) \in Call
           /\ \E x \in {"ok", "err"}, n \in NodeState :
                /\ work' = [work EXCEPT ![h] = x]
                /\ node' = [node EXCEPT ![h] = n]
                /\ \/ n \in {node[h], Serve(h, CallTo(h)).state}
                   \/ /\ n \in Broken(h, CallTo(h))
                      /\ CallTo(h).op = "reload" \/ past'.torn = past.torn \cup {h}
                /\ x = "ok" => Serve(h, CallTo(h)).exit = "ok"
                                 /\ n = Serve(h, CallTo(h)).state
           /\ past' \in Past
           /\ past'.pairs = past.pairs /\ past'.rebooted = past.rebooted
           /\ past'.forced = past.forced
           /\ past.strayed \subseteq past'.strayed
           /\ past.torn \subseteq past'.torn
           /\ \/ late' = late
              \/ /\ late' = [late EXCEPT ![h] = @ \cup {CallTo(h)}]
                 /\ h \in past'.strayed
           /\ late' \in [Nodes -> SUBSET Call]
<1>1. /\ TypeOK /\ FlowInv /\ req \in Request /\ node \in [Nodes -> NodeState]
      /\ past \in Past /\ node[h] \in NodeState /\ late \in [Nodes -> SUBSET Call]
      /\ (req.op = "replace" => req.old # req.new)
  BY DEF BaseInv, TypeOK, FlowInv
<1>2. /\ work[h] = "sent" /\ UNCHANGED <<meta, down, pc, req>>
      /\ faults' \in {faults, faults + 1}
  BY DEF RpcServed, RpcBroken, RpcLost, RpcTimeout, NoFault, Fault
<1>3. pc \in {"collect", "gather"}
  BY <1>2, ThreadFlow
<1>4. CallTo(h) \in Call
  BY <1>1, CallToIs
<1> DEFINE a == Serve(h, CallTo(h))
<1>5. a.state \in NodeState /\ a.exit \in {"ok", "err"}
  BY <1>1, <1>4, ServeIs
<1>6. node = [node EXCEPT ![h] = node[h]]
  BY <1>1
<1> HIDE DEF a
<1> DEFINE W(x, n) == /\ work' = [work EXCEPT ![h] = x]
                      /\ node' = [node EXCEPT ![h] = n]
                      /\ \/ n \in {node[h], a.state}
                         \/ /\ n \in Broken(h, CallTo(h))
                            /\ \/ CallTo(h).op = "reload"
                               \/ past'.torn = past.torn \cup {h}
                      /\ x = "ok" => a.exit = "ok" /\ n = a.state
           P == /\ past' \in Past
                /\ past'.pairs = past.pairs /\ past'.rebooted = past.rebooted
                /\ past'.forced = past.forced
                /\ past.strayed \subseteq past'.strayed
                /\ past.torn \subseteq past'.torn
                /\ \/ late' = late
                   \/ /\ late' = [late EXCEPT ![h] = @ \cup {CallTo(h)}]
                      /\ h \in past'.strayed
                /\ late' \in [Nodes -> SUBSET Call]
<1>7. CASE RpcServed(h)
  <2>1. /\ node' = [node EXCEPT ![h] = a.state] /\ UNCHANGED <<late, past>>
        /\ work' = [work EXCEPT ![h] = a.exit]
    BY <1>7 DEF RpcServed, Becomes, To, a
  <2>2. W(a.exit, a.state)
    BY <2>1
  <2>3. P
    BY <1>1, <2>1
  <2> QED
    BY <1>2, <1>3, <1>4, <1>5, <2>2, <2>3 DEF a
<1>8. CASE RpcBroken(h)
  <2>1. PICK n \in Broken(h, CallTo(h)) :
           /\ node' = [node EXCEPT ![h] = n]
           /\ past' = [past EXCEPT !.torn =
                         IF n \in {node[h], a.state} \/ req.op = "reload"
                         THEN @ ELSE @ \cup {h}]
    BY <1>8 DEF RpcBroken, Becomes, a
  <2>2. work' = [work EXCEPT ![h] = "err"] /\ UNCHANGED late
    BY <1>8 DEF RpcBroken, To
  <2>3. n \in NodeState
    BY <1>1, <1>4, BrokenIs
  <2> DEFINE T == IF n \in {node[h], a.state} \/ req.op = "reload"
                  THEN past.torn ELSE past.torn \cup {h}
  <2>4. past' = [past EXCEPT !.torn = T] /\ T \subseteq Nodes
    BY <1>1, <2>1 DEF Past
  <2>5. past.torn \subseteq T
    OBVIOUS
  <2>6. \/ n \in {node[h], a.state} \/ T = past.torn \cup {h}
        \/ CallTo(h).op = "reload"
    BY DEF CallTo
  <2> HIDE DEF T
  <2>7. P /\ past'.torn = T
    BY <1>1, <2>2, <2>4, <2>5 DEF Past
  <2>8. W("err", n)
    BY <2>1, <2>2, <2>6, <2>7
  <2> HIDE DEF P
  <2> QED
    BY <1>2, <1>3, <1>4, <2>3, <2>7, <2>8 DEF a, P
<1>9. CASE RpcLost(h)
  <2>1. /\ work' = [work EXCEPT ![h] = "err"] /\ UNCHANGED <<late, past>>
        /\ node' = node \/ \E n \in {node[h], a.state} :
                             node' = [node EXCEPT ![h] = n]
    BY <1>9 DEF RpcLost, Becomes, To, a
  <2>2. PICK n \in {node[h], a.state} : node' = [node EXCEPT ![h] = n]
    BY <1>6, <2>1
  <2>3. W("err", n) /\ n \in NodeState
    BY <1>1, <1>5, <2>1, <2>2
  <2>4. P
    BY <1>1, <2>1
  <2> HIDE DEF P
  <2> QED
    BY <1>2, <1>3, <1>4, <2>3, <2>4 DEF a, P
<1>10. CASE RpcTimeout(h)
  <2>1. /\ work' = [work EXCEPT ![h] = "err"] /\ UNCHANGED node
        /\ late' = [late EXCEPT ![h] = @ \cup {CallTo(h)}]
        /\ past' = [past EXCEPT !.strayed = @ \cup {h}]
    BY <1>10 DEF RpcTimeout, To
  <2>2. W("err", node[h])
    BY <1>6, <2>1
  <2>3. P
    BY <1>1, <1>4, <2>1 DEF Past
  <2> HIDE DEF P
  <2> QED
    BY <1>1, <1>2, <1>3, <1>4, <2>2, <2>3 DEF a, P
<1> QED
  BY <1>7, <1>8, <1>9, <1>10

\* A step of a thread keeps the types and the flow.
LEMMA ThreadKeeps ==
    ASSUME BaseInv, NEW h \in Nodes, Thread(h)
    PROVE  BaseInv'
<1>1. /\ TypeOK /\ FlowInv /\ MetaOK(meta) /\ work \in [Nodes -> WorkSteps]
      /\ node \in [Nodes -> NodeState] /\ late \in [Nodes -> SUBSET Call]
      /\ past \in Past /\ faults \in Nat /\ down \in SUBSET Nodes
      /\ pc \in Steps /\ req \in Request
  BY DEF BaseInv, TypeOK, MetaOK
<1> SUFFICES /\ MetaOK(meta') /\ node' \in [Nodes -> NodeState]
             /\ late' \in [Nodes -> SUBSET Call] /\ faults' \in Nat
             /\ work' \in [Nodes -> WorkSteps] /\ past' \in Past
             /\ UNCHANGED <<down, pc, req>> /\ FlowInv'
  BY <1>1, TypesKeep DEF BaseInv
<1>2. CASE WorkerBegin(h) \/ WorkerResult(h) \/ WorkerAuth(h)
  <2>1. /\ pc = "collect" /\ faults' \in {faults, faults + 1}
        /\ UNCHANGED <<node, down, late, pc, req, past>>
    BY <1>2, LinesAre
  <2>2. PICK s \in MetaStatus, x \in {"call", "auth", "done", "failed"} :
           /\ meta' \in {meta, HostLine(h, s)}
           /\ work' = [work EXCEPT ![h] = x]
    BY <1>2, LinesAre
  <2>3. MetaOK(meta')
    BY <1>1, <2>2, HostLineOK
  <2>4. work' \in [Nodes -> WorkSteps]
    BY <1>1, <2>2 DEF WorkSteps
  <2>5. FlowInv'
    BY <1>1, <2>1 DEF FlowInv
  <2> QED
    BY <1>1, <2>1, <2>3, <2>4, <2>5
<1>3. CASE WorkerConnect(h)
  <2>1. /\ UNCHANGED <<meta, node, down, late, pc, req, past>>
        /\ faults' \in {faults, faults + 1} /\ work[h] = "call"
    BY <1>3 DEF WorkerConnect, NoFault, Fault
  <2>2. PICK x \in {"sent", "failed"} : work' = [work EXCEPT ![h] = x]
    BY <1>3 DEF WorkerConnect, To
  <2>3. work' \in [Nodes -> WorkSteps]
    BY <1>1, <2>2 DEF WorkSteps
  <2>4. pc \in {"collect", "gather"}
    BY <2>1, ThreadFlow
  <2>5. FlowInv'
    BY <1>1, <2>1, <2>2, <2>4 DEF FlowInv
  <2> QED
    BY <1>1, <2>1, <2>3, <2>5
<1>4. CASE RpcServed(h) \/ RpcBroken(h) \/ RpcLost(h) \/ RpcTimeout(h)
  <2>1. /\ pc \in {"collect", "gather"} /\ UNCHANGED <<meta, down, pc, req>>
        /\ faults' \in {faults, faults + 1} /\ past' \in Past
        /\ late' \in [Nodes -> SUBSET Call]
    BY <1>4, CallsAre
  <2>2. PICK x \in {"ok", "err"}, n \in NodeState :
           /\ work' = [work EXCEPT ![h] = x]
           /\ node' = [node EXCEPT ![h] = n]
    BY <1>4, CallsAre
  <2>3. work' \in [Nodes -> WorkSteps] /\ node' \in [Nodes -> NodeState]
    BY <1>1, <2>2 DEF WorkSteps
  <2>4. FlowInv'
    BY <1>1, <2>1, <2>2 DEF FlowInv
  <2> QED
    BY <1>1, <2>1, <2>3, <2>4
<1> QED
  BY <1>2, <1>3, <1>4 DEF Thread

\* What the environment does to a host.
LEMMA EnvironmentIs ==
    ASSUME BaseInv, NEW h \in Nodes, Environment(h)
    PROVE  /\ UNCHANGED <<meta, pc, req, work>>
           /\ faults' \in {faults, faults + 1}
           /\ \/ UNCHANGED <<node, late, past>> /\ faults' = faults + 1
              \/ /\ UNCHANGED <<late, down>>
                 /\ past' \in Past /\ past'.rebooted = past.rebooted \cup {h}
                 /\ past'.strayed = past.strayed /\ past'.torn = past.torn
                 /\ past'.forced = past.forced /\ past'.pairs = past.pairs
                 /\ faults' = faults + 1
                 /\ \E n \in NodeState :
                      /\ node' = [node EXCEPT ![h] = n]
                      /\ n.target = node[h].target /\ ~n.loaded
                      /\ n.portals = node[h].portals
              \/ /\ UNCHANGED <<past, down, faults>>
                 /\ \E call \in late[h] :
                      /\ late' = [late EXCEPT ![h] = @ \ {call}]
                      /\ node' = [node EXCEPT ![h] = Serve(h, call).state]
                      /\ Serve(h, call).state \in NodeState
           /\ down' \in SUBSET Nodes
<1>1. /\ node \in [Nodes -> NodeState] /\ late \in [Nodes -> SUBSET Call]
      /\ past \in Past /\ faults \in Nat /\ down \in SUBSET Nodes
      /\ node[h] \in NodeState /\ late[h] \subseteq Call
  BY DEF BaseInv, TypeOK
<1>2. CASE ServeLate(h)
  <2>1. PICK call \in late[h] :
           /\ late' = [late EXCEPT ![h] = @ \ {call}]
           /\ node' = [node EXCEPT ![h] = Serve(h, call).state]
    BY <1>2 DEF ServeLate, Becomes
  <2>2. Serve(h, call).state \in NodeState
    BY <1>1, ServeIs
  <2>3. UNCHANGED <<meta, down, faults, pc, req, work, past>>
    BY <1>2 DEF ServeLate
  <2> QED
    BY <1>1, <2>1, <2>2, <2>3
<1>3. CASE Die(h)
  BY <1>1, <1>3 DEF Die, Fault
<1>4. CASE Reboot(h)
  <2>1. /\ UNCHANGED <<meta, down, late, pc, req, work>>
        /\ faults' = faults + 1
        /\ node' = [node EXCEPT ![h] = [node[h] EXCEPT !.loaded = FALSE]]
        /\ past' = [past EXCEPT !.rebooted = @ \cup {h}]
    BY <1>4 DEF Reboot, Fault, Becomes
  <2> DEFINE n == [node[h] EXCEPT !.loaded = FALSE]
  <2>2. /\ n \in NodeState /\ n.target = node[h].target /\ ~n.loaded
        /\ n.portals = node[h].portals
    BY <1>1 DEF NodeState
  <2>3. /\ past' \in Past /\ past'.rebooted = past.rebooted \cup {h}
        /\ past'.strayed = past.strayed /\ past'.torn = past.torn
        /\ past'.forced = past.forced /\ past'.pairs = past.pairs
    BY <1>1, <2>1 DEF Past
  <2>4. node' = [node EXCEPT ![h] = n]
    BY <2>1
  <2> HIDE DEF n
  <2> QED
    BY <1>1, <2>1, <2>2, <2>3, <2>4
<1> QED
  BY <1>2, <1>3, <1>4 DEF Environment

\* What a crash leaves.
LEMMA CrashIs ==
    ASSUME BaseInv, Crash
    PROVE  /\ UNCHANGED <<meta, node, down>>
           /\ pc' = "idle" /\ req' = NoRequest /\ work' = NoWork
           /\ faults' = faults + 1
           /\ \A h \in Nodes : late'[h] = late[h] \/ h \in past'.strayed
           /\ late' \in [Nodes -> SUBSET Call]
           /\ past' \in Past
           /\ past.strayed \subseteq past'.strayed /\ past'.torn = past.torn
           /\ past'.forced = past.forced /\ past'.pairs = past.pairs
           /\ past'.rebooted = past.rebooted
<1>1. /\ late \in [Nodes -> SUBSET Call] /\ req \in Request
      /\ past \in Past /\ (req.op = "replace" => req.old # req.new)
  BY DEF BaseInv, TypeOK, FlowInv
<1>2. /\ UNCHANGED <<meta, node, down>>
      /\ pc' = "idle" /\ req' = NoRequest /\ work' = NoWork
      /\ faults' = faults + 1
      /\ past' = [past EXCEPT !.strayed =
                    @ \cup {h \in Nodes : work[h] = "sent"}]
      /\ late' = [h \in Nodes |-> IF work[h] = "sent"
                                  THEN late[h] \cup {CallTo(h)} ELSE late[h]]
  BY DEF Crash, Fault
<1>3. /\ past' \in Past /\ past'.rebooted = past.rebooted
      /\ past'.strayed = past.strayed \cup {h \in Nodes : work[h] = "sent"}
      /\ past'.torn = past.torn /\ past'.forced = past.forced
      /\ past'.pairs = past.pairs
  BY <1>1, <1>2 DEF Past
<1>4. \A h \in Nodes : CallTo(h) \in Call
  BY <1>1, CallToIs
<1>5. late' \in [Nodes -> SUBSET Call]
  BY <1>1, <1>2, <1>4
<1>6. \A h \in Nodes : late'[h] = late[h] \/ h \in past'.strayed
  BY <1>2, <1>3
<1> QED
  BY <1>2, <1>3, <1>5, <1>6

\* Every step keeps the types and the flow.
LEMMA BaseKeeps == BaseInv /\ [Next]_vars => BaseInv'
<1> SUFFICES ASSUME BaseInv, [Next]_vars PROVE BaseInv'
  OBVIOUS
<1>1. CASE \E h \in Nodes : Thread(h)
  BY <1>1, ThreadKeeps
<1>2. CASE \E h \in Nodes : Environment(h)
  <2>1. PICK h \in Nodes : Environment(h)
    BY <1>2
  <2>2. /\ TypeOK /\ FlowInv /\ MetaOK(meta) /\ work \in [Nodes -> WorkSteps]
        /\ node \in [Nodes -> NodeState] /\ late \in [Nodes -> SUBSET Call]
        /\ past \in Past /\ faults \in Nat /\ down \in SUBSET Nodes
        /\ pc \in Steps /\ req \in Request
    BY DEF BaseInv, TypeOK, MetaOK
  <2>3. /\ UNCHANGED <<meta, pc, req, work>> /\ down' \in SUBSET Nodes
        /\ faults' \in {faults, faults + 1}
    BY <2>1, EnvironmentIs
  <2>4. past' \in Past /\ node' \in [Nodes -> NodeState]
          /\ late' \in [Nodes -> SUBSET Call]
    BY <2>1, <2>2, EnvironmentIs
  <2>5. FlowInv'
    BY <2>2, <2>3 DEF FlowInv
  <2> QED
    BY <2>2, <2>3, <2>4, <2>5, TypesKeep DEF BaseInv
<1>3. CASE Crash
  <2>1. /\ TypeOK /\ MetaOK(meta) /\ node \in [Nodes -> NodeState]
        /\ faults \in Nat /\ down \in SUBSET Nodes
    BY DEF BaseInv, TypeOK, MetaOK
  <2>2. FlowInv'
    BY <1>3, CrashIs DEF FlowInv, NoRequest, NoWork
  <2>3. pc' \in Steps
    BY <1>3, CrashIs DEF Steps
  <2> QED
    BY <1>3, <2>1, <2>2, <2>3, CrashIs, NoRequestType, TypesKeep DEF BaseInv
<1>4. CASE UNCHANGED vars
  BY <1>4 DEF BaseInv, FlowInv, TypeOK, vars
<1> QED
  BY <1>1, <1>2, <1>3, <1>4, AccessKeeps, RemoteAsyncKeeps, ReplaceEndKeeps,
     ReloadKeeps DEF Next, ReplaceHandler

\* The list of hosts in the journal has each host with a line once, and every
\* variable its type, whatever requests are repeated and whatever fails.
THEOREM ReplaceTyping == Spec => []TypeOK
<1>1. Init => BaseInv
  BY TypesInit DEF BaseInv
<1>2. BaseInv => TypeOK
  BY DEF BaseInv
<1> QED
  BY <1>1, <1>2, BaseKeeps, PTL DEF Spec

-----------------------------------------------------------------------------
(***************************************************************************)
(* What a reload reports.  A thread that got "ok" saw its host loaded, and *)
(* every valid host has a thread: a reload writes no line, so the valid    *)
(* hosts are the same when the threads are joined.                         *)
(***************************************************************************)

\* Calls without a caller are to hosts that the properties know of.
LateInv == \A h \in Nodes : late[h] # {} => h \in past.strayed

Undisturbed(h) == h \notin past.rebooted \cup past.strayed

GatherInv ==
    pc = "gather" =>
      \A h \in Nodes : /\ h \in Valid => work[h] # "none"
                       /\ work[h] = "ok" /\ Undisturbed(h) => node[h].loaded

ReloadInv == LateInv /\ GatherInv /\ ReloadResult

\* What a request that comes in changes of the history.
LEMMA AcceptIs ==
    ASSUME BaseInv, Accept
    PROVE  /\ UNCHANGED <<meta, node, down, late, faults, work>>
           /\ pc = "idle" /\ pc' = "access"
           /\ past'.strayed = past.strayed /\ past'.torn = past.torn
           /\ past'.forced = past.forced /\ past.pairs \subseteq past'.pairs
           /\ \E r \in Requests :
                /\ req'.op = r.op /\ req'.old = r.old /\ req'.new = r.new
                /\ req'.force = r.force
                /\ past'.pairs = IF r.op = "replace"
                                 THEN past.pairs \cup {<<r.old, r.new>>}
                                 ELSE past.pairs
                /\ req'.err = FALSE /\ req'.skipped = FALSE
                /\ req'.cop = "none" /\ req'.rop = "none"
<1>1. past \in Past
  BY DEF BaseInv, TypeOK
<1>2. PICK r \in Requests :
           /\ req' = [NoRequest EXCEPT !.op = r.op, !.old = r.old,
                                       !.new = r.new, !.force = r.force]
           /\ past' = [past EXCEPT !.rebooted = {},
                         !.pairs = IF r.op = "replace"
                                   THEN @ \cup {<<r.old, r.new>>} ELSE @]
  BY DEF Accept
<1>3. /\ past'.strayed = past.strayed /\ past'.torn = past.torn
      /\ past'.forced = past.forced
      /\ past'.pairs = IF r.op = "replace"
                       THEN past.pairs \cup {<<r.old, r.new>>} ELSE past.pairs
  BY <1>1, <1>2 DEF Past
<1>4. /\ req'.op = r.op /\ req'.old = r.old /\ req'.new = r.new
      /\ req'.force = r.force /\ req'.err = FALSE /\ req'.skipped = FALSE
      /\ req'.cop = "none" /\ req'.rop = "none"
  BY <1>2 DEF NoRequest
<1>5. UNCHANGED <<meta, node, down, late, faults, work>> /\ pc = "idle"
        /\ pc' = "access"
  BY DEF Accept
<1> QED
  BY <1>3, <1>4, <1>5

\* A step of a handler, or of one that comes in or goes: no call is left.
LEMMA HandlerLate ==
    ASSUME BaseInv, LateInv,
           \/ Accept \/ ReplaceHandler \/ ReloadAccess \/ ReloadRemoteAsync
           \/ ReloadGather \/ GenConfig
    PROVE  LateInv' /\ UNCHANGED <<node, down, late>>
             /\ past'.strayed = past.strayed
<1>1. UNCHANGED <<node, down, late>>
  BY DEF Accept, ReplaceHandler, ReplaceAccess, ReplaceRemoteAsync, Collect,
         ForcedLine, PrioLine, MetaUnlock, ReloadAccess, ReloadRemoteAsync,
         ReloadGather, GenConfig
<1>2. past'.strayed = past.strayed
  <2>1. CASE Accept
    BY <2>1, AcceptIs
  <2>2. CASE ForcedLine
    <3>1. past \in Past
      BY DEF BaseInv, TypeOK
    <3> QED
      BY <2>2, <3>1 DEF ForcedLine, Past
  <2>3. CASE \/ ReplaceAccess \/ ReplaceRemoteAsync \/ Collect \/ PrioLine
             \/ MetaUnlock \/ ReloadAccess \/ ReloadRemoteAsync \/ ReloadGather
             \/ GenConfig
    BY <2>3 DEF ReplaceAccess, ReplaceRemoteAsync, Collect, PrioLine,
                MetaUnlock, ReloadAccess, ReloadRemoteAsync, ReloadGather,
                GenConfig
  <2> QED
    BY <2>1, <2>2, <2>3 DEF ReplaceHandler
<1> QED
  BY <1>1, <1>2 DEF LateInv

\* The invariant of a reload is one of every step.
LEMMA ReloadInvKeeps == BaseInv /\ ReloadInv /\ [Next]_vars => ReloadInv'
<1> SUFFICES ASSUME BaseInv, ReloadInv, [Next]_vars PROVE ReloadInv'
  OBVIOUS
<1>1. /\ LateInv /\ GatherInv /\ ReloadResult /\ FlowInv
      /\ node \in [Nodes -> NodeState] /\ late \in [Nodes -> SUBSET Call]
      /\ work \in [Nodes -> WorkSteps] /\ req \in Request
      /\ meta \in Meta
  BY DEF ReloadInv, BaseInv, TypeOK
<1>2. CASE \/ Accept \/ ReplaceHandler \/ ReloadAccess \/ ReloadRemoteAsync
           \/ ReloadGather \/ GenConfig
  <2>1. LateInv' /\ UNCHANGED <<node, down, late>> /\ past'.strayed = past.strayed
    BY <1>1, <1>2, HandlerLate
  <2>2. CASE ReloadRemoteAsync
    <3>1. /\ work' = [h \in Nodes |-> IF h \in Valid THEN "call" ELSE "none"]
          /\ pc' = "gather" /\ UNCHANGED meta
      BY <2>2 DEF ReloadRemoteAsync, ReloadFillArgs, Goto
    <3>2. Valid' = Valid
      BY <3>1 DEF Valid
    <3>3. GatherInv'
      BY <3>1, <3>2 DEF GatherInv
    <3> QED
      BY <2>1, <3>1, <3>3 DEF ReloadInv, ReloadResult
  <2>3. CASE ReloadGather
    <3>1. /\ pc = "gather" /\ pc' = "unlock" /\ UNCHANGED <<meta, past>>
          /\ \A h \in Nodes : work[h] \in {"none", "ok", "err", "failed"}
          /\ req' = [req EXCEPT !.err =
                       ~req.force /\ \E h \in Nodes : work[h] \in {"err", "failed"}]
      BY <2>3 DEF ReloadGather
    <3>2. Valid' = Valid
      BY <3>1 DEF Valid
    <3>3. GatherInv'
      BY <3>1 DEF GatherInv
    <3>4. ASSUME ~req'.err, ~req'.force
          PROVE  \A h \in Valid' \ (past'.rebooted \cup past'.strayed) :
                   node'[h].loaded
      <4>1. /\ req'.force = req.force
            /\ req'.err = (~req.force /\ \E h \in Nodes : work[h] \in {"err", "failed"})
        BY <1>1, <3>1 DEF Request
      <4>2. \A h \in Nodes : work[h] \in {"none", "ok"}
        BY <3>1, <3>4, <4>1
      <4>3. Valid \subseteq Nodes
        BY DEF Valid
      <4> QED
        BY <1>1, <2>1, <3>1, <3>2, <4>2, <4>3 DEF GatherInv, Undisturbed
    <3>5. ReloadResult'
      BY <3>1, <3>4 DEF ReloadResult
    <3> QED
      BY <2>1, <3>3, <3>5 DEF ReloadInv
  <2>4. CASE Accept
    <3>1. pc' = "access"
      BY <2>4 DEF Accept
    <3> QED
      BY <2>1, <3>1 DEF ReloadInv, GatherInv, ReloadResult
  <2>5. CASE GenConfig
    <3>1. pc' = "idle"
      BY <2>5 DEF GenConfig
    <3> QED
      BY <2>1, <3>1 DEF ReloadInv, GatherInv, ReloadResult
  <2>6. CASE ReplaceAccess \/ ReloadAccess
    <3>1. \/ pc' \in {"args", "reload"}
          \/ pc' = "unlock" /\ req' = [req EXCEPT !.err = TRUE]
      BY <2>6 DEF ReplaceAccess, ReloadAccess, Goto, Fails
    <3>2. pc' \in {"args", "reload"} \/ (pc' = "unlock" /\ req'.err)
      BY <1>1, <3>1 DEF Request
    <3> QED
      BY <2>1, <3>2 DEF ReloadInv, GatherInv, ReloadResult
  <2>7. CASE ReplaceRemoteAsync \/ Collect \/ ForcedLine \/ PrioLine
    <3>1. req.op = "replace"
      BY <1>1, <2>7 DEF FlowInv, ReplaceRemoteAsync, Collect, ForcedLine, PrioLine
    <3>2. pc' # "gather"
      BY <2>7 DEF ReplaceRemoteAsync, Collect, ForcedLine, PrioLine, Goto, Fails,
                  GB_METAUPDATE_OR_GOTO
    <3>3. pc' = "unlock" => \/ req' = req \/ req' = [req EXCEPT !.err = TRUE]
      BY <2>7 DEF ReplaceRemoteAsync, Collect, ForcedLine, PrioLine, Goto, Fails,
                  GB_METAUPDATE_OR_GOTO
    <3>4. pc' = "unlock" => req'.op = "replace"
      BY <1>1, <3>1, <3>3 DEF Request
    <3> QED
      BY <2>1, <3>2, <3>4 DEF ReloadInv, GatherInv, ReloadResult
  <2>8. CASE MetaUnlock
    <3>1. pc' = "idle"
      BY <2>8 DEF MetaUnlock
    <3> QED
      BY <2>1, <3>1 DEF ReloadInv, GatherInv, ReloadResult
  <2> QED
    BY <1>2, <2>2, <2>3, <2>4, <2>5, <2>6, <2>7, <2>8 DEF ReplaceHandler
<1>3. CASE Crash
  BY <1>1, <1>3, CrashIs DEF ReloadInv, LateInv, GatherInv, ReloadResult
<1>4. ASSUME NEW h \in Nodes, WorkerBegin(h) \/ WorkerResult(h) \/ WorkerAuth(h)
      PROVE  ReloadInv'
  <2>1. pc' = "collect" /\ UNCHANGED <<late, past>>
    BY <1>4, LinesAre
  <2> QED
    BY <1>1, <2>1 DEF ReloadInv, LateInv, GatherInv, ReloadResult
<1>5. ASSUME NEW h \in Nodes, WorkerConnect(h)
      PROVE  ReloadInv'
  <2>1. /\ UNCHANGED <<meta, node, down, late, pc, req, past>>
        /\ \E x \in {"sent", "failed"} : work' = [work EXCEPT ![h] = x]
        /\ work[h] = "call"
    BY <1>5 DEF WorkerConnect, To
  <2>2. pc' # "unlock" /\ Valid' = Valid
    BY <2>1, ThreadFlow DEF Valid
  <2> QED
    BY <1>1, <2>1, <2>2 DEF ReloadInv, LateInv, GatherInv, ReloadResult,
                            Undisturbed
<1>6. ASSUME NEW h \in Nodes,
             \/ RpcServed(h) \/ RpcBroken(h) \/ RpcLost(h) \/ RpcTimeout(h)
      PROVE  ReloadInv'
  <2>1. /\ pc \in {"collect", "gather"} /\ UNCHANGED <<meta, pc, req>>
        /\ past.strayed \subseteq past'.strayed
        /\ past'.rebooted = past.rebooted
        /\ \A g \in Nodes : late'[g] = late[g] \/ g \in past'.strayed
    BY <1>1, <1>6, CallsAre
  <2>2. PICK x \in {"ok", "err"}, n \in NodeState :
           /\ work' = [work EXCEPT ![h] = x]
           /\ node' = [node EXCEPT ![h] = n]
           /\ x = "ok" => Serve(h, CallTo(h)).exit = "ok"
                            /\ n = Serve(h, CallTo(h)).state
    BY <1>6, CallsAre
  <2>3. Valid' = Valid
    BY <2>1 DEF Valid
  <2>4. ASSUME pc = "gather", x = "ok" PROVE n.loaded
    <3>1. CallTo(h) \in Call /\ CallTo(h).op = "reload"
      BY <1>1, <2>4, CallToIs DEF FlowInv
    <3>2. Serve(h, CallTo(h)) = block_reload(node[h]) /\ node[h] \in NodeState
      BY <1>1, <3>1, ServeIs
    <3>3. LET a == block_reload(node[h])
          IN a.state.loaded \/ a.exit = "err"
      BY <3>1, <3>2, Answers
    <3> QED
      BY <2>2, <2>4, <3>2, <3>3
  <2>5. LateInv'
    BY <1>1, <2>1 DEF LateInv
  <2>6. GatherInv'
    BY <1>1, <2>1, <2>2, <2>3, <2>4 DEF GatherInv, Undisturbed
  <2> QED
    BY <2>1, <2>5, <2>6 DEF ReloadInv, ReloadResult
<1>7. ASSUME NEW h \in Nodes, Environment(h)
      PROVE  ReloadInv'
  <2>1. UNCHANGED <<meta, pc, req, work>> /\ Valid' = Valid
    BY <1>7, EnvironmentIs DEF Valid
  <2>2. \/ UNCHANGED <<node, late, past>>
        \/ /\ past'.rebooted = past.rebooted \cup {h} /\ UNCHANGED late
           /\ past'.strayed = past.strayed
           /\ \A g \in Nodes \ {h} : node'[g] = node[g]
        \/ /\ UNCHANGED past /\ late[h] # {}
           /\ \A g \in Nodes \ {h} : late'[g] = late[g] /\ node'[g] = node[g]
    BY <1>1, <1>7, EnvironmentIs
  <2>3. LateInv'
    BY <1>1, <2>2 DEF LateInv
  <2>4. GatherInv'
    BY <1>1, <2>1, <2>2 DEF GatherInv, LateInv, Undisturbed
  <2>5. ReloadResult'
    <3>1. Valid \subseteq Nodes
      BY DEF Valid
    <3> QED
      BY <1>1, <2>1, <2>2, <3>1 DEF ReloadResult, LateInv
  <2> QED
    BY <2>3, <2>4, <2>5 DEF ReloadInv
<1>8. CASE UNCHANGED vars
  BY <1>1, <1>8 DEF ReloadInv, LateInv, GatherInv, ReloadResult, vars, Valid,
                    Undisturbed
<1> QED
  BY <1>2, <1>3, <1>4, <1>5, <1>6, <1>7, <1>8 DEF Next, Thread

\* It holds at the start.
LEMMA ReloadInit == Init => ReloadInv
BY DEF Init, ReloadInv, LateInv, GatherInv, ReloadResult

\* A reload without force that reports SUCCESS has the block loaded on every
\* host of it that did not reboot meanwhile and has no stray call, for every
\* number of hosts and whatever replacements came before.
THEOREM ReloadSafety == Spec => []ReloadResult
<1>1. Init => BaseInv /\ ReloadInv
  BY TypesInit, ReloadInit DEF BaseInv
<1>2. ReloadInv => ReloadResult
  BY DEF ReloadInv
<1> QED
  BY <1>1, <1>2, BaseKeeps, ReloadInvKeeps, PTL DEF Spec

-----------------------------------------------------------------------------
(***************************************************************************)
(* The journal, when all replacements are of one host, Old, by whatever    *)
(* others: what a line says of a host is true of it.  While the delete is  *)
(* under way, or after it broke off, the line of Old commits to nothing.   *)
(* Were two hosts replaced, one that is left in CLEANUPINPROGRESS by the   *)
(* first replacement is valid, and a portal thread of the second would     *)
(* journal it as RPINPROGRESS, whether it has its target or not.           *)
(***************************************************************************)

RP == {"RPSUCCESS", "RPINPROGRESS", "RPFAIL"}

\* The statuses of a host that has the target.
Up == AuditSuccess \cup RP

\* The statuses of a host it is taken from.
Gone == {"CLEANUPINPROGRESS", "CLEANUPSUCCESS", "CLEANUPFAIL"}

StatusInv(Old) ==
    \A h \in Nodes :
      /\ meta.status[h] \in {NoLine, "CONFIGINPROGRESS", "CONFIGFAIL"} \cup Up
                              \cup Gone
      /\ meta.status[h] \in Gone => h = Old

\* What the thread of the new host has done.
CreateInv(h) ==
    work[h] \in {"ok", "auth"} /\ h \notin past.strayed => node[h].target

\* What that of the old host has.
DeleteInv(h) ==
    /\ work[h] \in {"call", "sent", "ok", "err"}
         => meta.status[h] = "CLEANUPINPROGRESS"
    /\ work[h] = "ok" /\ h \notin past.strayed => ~node[h].target
    /\ work[h] # "auth"
    /\ req.dop = "skipped" => work[h] = "none"

\* Those of the others are on hosts that have the target.
PortalInv(h) ==
    work[h] # "none" => meta.status[h] \in Up /\ work[h] # "auth"

ThreadInv(h) ==
    /\ h = req.new => CreateInv(h)
    /\ h = req.old => DeleteInv(h)
    /\ h \notin {req.new, req.old} => PortalInv(h)

JournalInv(Old) ==
    /\ req.op = "replace" => req.old = Old
    /\ StatusInv(Old)
    /\ ReplaceJournal
    /\ pc = "collect" =>
         /\ \A h \in Nodes : ThreadInv(h)
         /\ req.dop \in {"none", "skipped"}
    /\ \/ pc = "collect" /\ req.dop = "skipped"
       \/ pc = "forced" /\ req.dop \in {"none", "skipped"}
       => meta.status[req.old] = "CLEANUPSUCCESS"

\* What the start of the threads decides.
LEMMA StartIs ==
    ASSUME BaseInv, ReplaceRemoteAsync
    PROVE  /\ pc = "args" /\ req.op = "replace" /\ req.old # req.new
           /\ UNCHANGED <<meta, node, down, late, past>>
           /\ req'.op = req.op /\ req'.old = req.old /\ req'.new = req.new
           /\ req'.force = req.force
           /\ \/ /\ pc' = "unlock" /\ req'.err /\ work' = work
                 /\ faults' = faults + 1
                      \/ (faults' = faults /\ Refused(FillArgs(req.old)))
              \/ /\ pc' = "forced" /\ work' = work /\ faults' = faults
                 /\ ~Refused(FillArgs(req.old)) /\ Replaced(FillArgs(req.old))
                 /\ req'.prio = meta.prio /\ req'.err = req.err
                 /\ req'.cop = req.cop /\ req'.dop = req.dop
                 /\ req'.rop = req.rop
              \/ /\ pc' = "collect" /\ faults' = faults
                 /\ ~Refused(FillArgs(req.old)) /\ ~Replaced(FillArgs(req.old))
                 /\ work' = [h \in Nodes |->
                              IF \/ h = req.new /\ ~cCheck
                                 \/ h = req.old /\ ~dCheck
                                 \/ h \in FillArgs(req.old)
                                      /\ rCheck(FillArgs(req.old))
                              THEN "begin" ELSE "none"]
                 /\ req'.args = FillArgs(req.old) /\ req'.prio = meta.prio
                 /\ req'.hosts = {req.new} \cup Others(req.old)
                 /\ req'.err = req.err /\ req'.skipped = req.skipped
                 /\ req'.cop = IF cCheck THEN "skipped" ELSE "none"
                 /\ req'.dop = IF dCheck THEN "skipped" ELSE "none"
                 /\ req'.rop = IF rCheck(FillArgs(req.old)) THEN "none"
                               ELSE IF MPath = 1 THEN "success" ELSE "skipped"
<1> DEFINE args == FillArgs(req.old)
           hosts == {req.new} \cup Others(req.old)
           cop == IF cCheck THEN "skipped" ELSE "none"
           dop == IF dCheck THEN "skipped" ELSE "none"
           rop == IF rCheck(args) THEN "none"
                  ELSE IF MPath = 1 THEN "success" ELSE "skipped"
           r == [req EXCEPT !.args = args, !.prio = meta.prio, !.hosts = hosts]
           W == [h \in Nodes |-> IF \/ h = req.new /\ ~cCheck
                                    \/ h = req.old /\ ~dCheck
                                    \/ h \in args /\ rCheck(args)
                                 THEN "begin" ELSE "none"]
<1>1. /\ pc = "args" /\ req.op = "replace" /\ req.old # req.new
      /\ req \in Request
  BY DEF BaseInv, TypeOK, FlowInv, ReplaceRemoteAsync
<1>2. UNCHANGED <<meta, node, down, late, past>>
  BY DEF ReplaceRemoteAsync
<1>3. \/ /\ pc' = "unlock" /\ req' = [req EXCEPT !.err = TRUE] /\ work' = work
         /\ faults' = faults + 1 \/ (faults' = faults /\ Refused(args))
      \/ /\ pc' = "forced" /\ req' = [r EXCEPT !.skipped = TRUE] /\ work' = work
         /\ faults' = faults /\ ~Refused(args) /\ Replaced(args)
      \/ /\ pc' = "collect" /\ faults' = faults
         /\ ~Refused(args) /\ ~Replaced(args)
         /\ req' = [r EXCEPT !.cop = cop, !.dop = dop, !.rop = rop]
         /\ work' = W
  BY DEF ReplaceRemoteAsync, Fails, NoFault, Fault
<1> HIDE DEF args, hosts, cop, dop, rop, W
<1>4. /\ r.op = req.op /\ r.old = req.old /\ r.new = req.new
      /\ r.force = req.force /\ r.args = args /\ r.prio = meta.prio
      /\ r.hosts = hosts /\ r.cop = req.cop /\ r.dop = req.dop
      /\ r.rop = req.rop /\ r.err = req.err /\ r.skipped = req.skipped
      /\ DOMAIN r = DOMAIN req
  BY <1>1 DEF Request
<1>5. DOMAIN req = {"op", "old", "new", "force", "args", "hosts", "prio", "cop",
                    "dop", "rop", "skipped", "err"}
  BY <1>1 DEF Request
<1> HIDE DEF r
<1>6. CASE /\ pc' = "unlock" /\ req' = [req EXCEPT !.err = TRUE] /\ work' = work
           /\ faults' = faults + 1 \/ (faults' = faults /\ Refused(args))
  BY <1>1, <1>2, <1>5, <1>6 DEF args
<1>7. CASE /\ pc' = "forced" /\ req' = [r EXCEPT !.skipped = TRUE] /\ work' = work
           /\ faults' = faults /\ ~Refused(args) /\ Replaced(args)
  BY <1>1, <1>2, <1>4, <1>5, <1>7 DEF args
<1>8. CASE /\ pc' = "collect" /\ faults' = faults
           /\ ~Refused(args) /\ ~Replaced(args)
           /\ req' = [r EXCEPT !.cop = cop, !.dop = dop, !.rop = rop]
           /\ work' = W
  <2>1. /\ req'.op = req.op /\ req'.old = req.old /\ req'.new = req.new
        /\ req'.force = req.force /\ req'.args = args /\ req'.prio = meta.prio
        /\ req'.hosts = hosts /\ req'.err = req.err
        /\ req'.skipped = req.skipped
        /\ req'.cop = cop /\ req'.dop = dop /\ req'.rop = rop
    BY <1>4, <1>5, <1>8
  <2> QED
    BY <1>1, <1>2, <1>8, <2>1 DEF args, hosts, cop, dop, rop, W
<1> QED
  BY <1>3, <1>6, <1>7, <1>8

\* A step that touches neither the statuses nor the hosts.
LEMMA JournalQuiet ==
    ASSUME NEW Old, JournalInv(Old), meta'.status = meta.status, UNCHANGED node,
           past.strayed \subseteq past'.strayed,
           past.forced \subseteq past'.forced,
           pc' \notin {"collect", "forced"},
           req'.op = "replace" => req'.old = Old
    PROVE  JournalInv(Old)'
BY DEF JournalInv, StatusInv, ReplaceJournal

\* Those of the handlers that do not, and a crash.
LEMMA JournalHandler ==
    ASSUME NEW Old, \A r \in Requests : r.op = "replace" => r.old = Old,
           BaseInv, JournalInv(Old),
           \/ Accept \/ ReplaceAccess \/ PrioLine \/ MetaUnlock \/ ReloadAccess
           \/ ReloadRemoteAsync \/ ReloadGather \/ GenConfig \/ Crash
    PROVE  JournalInv(Old)'
<1>1. /\ req \in Request /\ MetaOK(meta)
      /\ (req.op = "replace" => req.old = Old)
  BY DEF BaseInv, TypeOK, MetaOK, JournalInv
<1>2. CASE Accept
  BY <1>2, AcceptIs, JournalQuiet
<1>3. CASE Crash
  <2>1. req'.op = "reload"
    BY <1>3, CrashIs DEF NoRequest
  <2> QED
    BY <1>3, <2>1, CrashIs, JournalQuiet
<1>4. CASE PrioLine
  <2>1. UNCHANGED <<node, past>> /\ pc' = "unlock"
    BY <1>4 DEF PrioLine, GB_METAUPDATE_OR_GOTO, Goto, Fails
  <2>2. /\ meta' \in {meta, [meta EXCEPT !.prio = {req.new}]}
        /\ UNCHANGED req \/ req' = [req EXCEPT !.err = TRUE]
    BY <1>4 DEF PrioLine, GB_METAUPDATE_OR_GOTO, Goto, Fails
  <2>3. meta'.status = meta.status
    <3>1. [meta EXCEPT !.prio = {req.new}].status = meta.status
      BY <1>1, PrioOK DEF Request
    <3> QED
      BY <2>2, <3>1
  <2>4. req'.op = req.op /\ req'.old = req.old
    BY <1>1, <2>2 DEF Request
  <2> QED
    BY <1>1, <2>1, <2>3, <2>4, JournalQuiet
<1>5. CASE GenConfig
  <2>1. UNCHANGED <<node, past, req>> /\ pc' = "idle"
    BY <1>5 DEF GenConfig
  <2>2. PICK h \in Valid : meta' \in {meta, [meta EXCEPT !.prio = {h}]}
    BY <1>5 DEF GenConfig, GB_METAUPDATE_OR_GOTO
  <2>3. meta'.status = meta.status
    <3>1. [meta EXCEPT !.prio = {h}].status = meta.status
      BY <1>1, PrioOK DEF Valid
    <3> QED
      BY <2>2, <3>1
  <2> QED
    BY <1>1, <2>1, <2>3, JournalQuiet
<1>6. CASE \/ ReplaceAccess \/ MetaUnlock \/ ReloadAccess \/ ReloadRemoteAsync
           \/ ReloadGather
  <2>1. UNCHANGED <<meta, node, past>> /\ pc' \notin {"collect", "forced"}
    BY <1>6 DEF ReplaceAccess, MetaUnlock, ReloadAccess, ReloadRemoteAsync,
                ReloadGather, Goto, Fails
  <2>2. \/ UNCHANGED req \/ \E e \in BOOLEAN : req' = [req EXCEPT !.err = e]
        \/ req' = NoRequest
    BY <1>6 DEF ReplaceAccess, MetaUnlock, ReloadAccess, ReloadRemoteAsync,
                ReloadGather, Goto, Fails
  <2>3. req'.op = "replace" => req'.old = Old
    BY <1>1, <2>2 DEF Request, NoRequest
  <2> QED
    BY <2>1, <2>3, JournalQuiet
<1> QED
  BY <1>2, <1>3, <1>4, <1>5, <1>6

\* The threads of a replace start, and are joined.
LEMMA JournalStart ==
    ASSUME NEW Old, BaseInv, JournalInv(Old), ReplaceRemoteAsync \/ Collect
    PROVE  JournalInv(Old)'
<1>1. /\ req \in Request /\ (req.op = "replace" => req.old = Old)
      /\ meta.status \in [Nodes -> MetaStatus \cup {NoLine}]
      /\ req.old \in Nodes /\ req.new \in Nodes
  BY DEF BaseInv, TypeOK, Meta, Request, JournalInv
<1>2. StatusInv(Old) /\ ReplaceJournal
  BY DEF JournalInv
<1>3. CASE ReplaceRemoteAsync
  <2> DEFINE args == FillArgs(req.old)
  <2>1. /\ req.op = "replace" /\ UNCHANGED <<meta, node, past>>
        /\ req'.op = req.op /\ req'.old = req.old /\ req'.new = req.new
        /\ req.old = Old /\ req.old # req.new
    BY <1>1, <1>3, StartIs
  <2>2. StatusInv(Old)' /\ ReplaceJournal'
    BY <1>2, <2>1 DEF StatusInv, ReplaceJournal
  <2>3. CASE pc' = "unlock"
    BY <2>1, <2>2, <2>3 DEF JournalInv
  <2>4. CASE pc' = "forced"
    <3>1. Replaced(args)
      BY <1>3, <2>4, StartIs
    <3>2. meta'.status[req'.old] = "CLEANUPSUCCESS"
      BY <2>1, <3>1 DEF Replaced, dCheck
    <3> QED
      BY <2>1, <2>2, <2>4, <3>2 DEF JournalInv
  <2>5. CASE pc' = "collect"
    <3>1. /\ work' = [h \in Nodes |-> IF \/ h = req.new /\ ~cCheck
                                         \/ h = req.old /\ ~dCheck
                                         \/ h \in args /\ rCheck(args)
                                      THEN "begin" ELSE "none"]
          /\ req'.dop = IF dCheck THEN "skipped" ELSE "none"
      BY <1>3, <2>5, StartIs
    <3>2. args \subseteq Valid \ {req.old}
      BY DEF FillArgs, Others
    <3> HIDE DEF args
    <3>3. ASSUME NEW h \in Nodes PROVE ThreadInv(h)'
      <4>1. work'[h] \in {"begin", "none"}
        BY <3>1
      <4>2. h = req.new => CreateInv(h)'
        BY <4>1 DEF CreateInv
      <4>3. h = req.old => DeleteInv(h)'
        <5>1. h = req.old /\ dCheck => work'[h] = "none"
          BY <2>1, <3>1, <3>2
        <5> QED
          BY <3>1, <4>1, <5>1 DEF DeleteInv
      <4>4. h \notin {req.new, req.old} => PortalInv(h)'
        <5>1. ASSUME h \notin {req.new, req.old}, work'[h] # "none"
              PROVE  meta.status[h] \in Up
          <6>1. h \in Valid
            BY <3>1, <3>2, <5>1
          <6>2. meta.status[h] \notin Gone
            BY <1>2, <2>1, <5>1 DEF StatusInv
          <6> QED
            BY <1>2, <6>1, <6>2 DEF Valid, blockhostIsValid, StatusInv, NoLine
        <5> QED
          BY <2>1, <4>1, <5>1 DEF PortalInv
      <4> QED
        BY <2>1, <4>2, <4>3, <4>4 DEF ThreadInv
    <3>4. dCheck => meta.status[req.old] = "CLEANUPSUCCESS"
      BY DEF dCheck
    <3> QED
      BY <2>1, <2>2, <2>5, <3>1, <3>3, <3>4 DEF JournalInv
  <2> QED
    BY <1>3, <2>3, <2>4, <2>5, StartIs
<1>4. CASE Collect
  <2>1. pc = "collect" /\ UNCHANGED <<meta, node, past>> /\ pc' = "forced"
    BY <1>4 DEF Collect
  <2>2. /\ req'.op = req.op /\ req'.old = req.old
        /\ req'.dop = IF req.dop = "none" THEN Exit(req.old) ELSE req.dop
    BY <1>1, <1>4 DEF Collect, Request
  <2>3. StatusInv(Old)' /\ ReplaceJournal'
    BY <1>2, <2>1 DEF StatusInv, ReplaceJournal
  <2>4. /\ req.dop \in {"none", "skipped"}
        /\ (req.dop = "skipped" => meta.status[req.old] = "CLEANUPSUCCESS")
    BY <2>1 DEF JournalInv
  <2>5. Exit(req.old) \in {"success", "failed"}
    BY DEF Exit
  <2> QED
    BY <1>1, <2>1, <2>2, <2>3, <2>4, <2>5 DEF JournalInv
<1> QED
  BY <1>3, <1>4

\* The line of a delete that did not succeed.
LEMMA JournalForced ==
    ASSUME NEW Old, BaseInv, JournalInv(Old), ForcedLine
    PROVE  JournalInv(Old)'
<1>1. /\ req \in Request /\ MetaOK(meta) /\ past \in Past
      /\ req.old \in Nodes /\ req.dop \in OpStatus /\ pc = "forced"
      /\ meta.status \in [Nodes -> MetaStatus \cup {NoLine}]
      /\ "CLEANUPSUCCESS" \in MetaStatus
  BY DEF BaseInv, TypeOK, MetaOK, Meta, Request, ForcedLine, MetaStatus
<1>2. req.old = Old /\ StatusInv(Old) /\ ReplaceJournal
  BY <1>1 DEF JournalInv, BaseInv, FlowInv
<1>3. UNCHANGED node /\ pc' \in {"prio", "unlock"}
        /\ (UNCHANGED req \/ req' = [req EXCEPT !.err = TRUE])
  BY DEF ForcedLine, GB_METAUPDATE_OR_GOTO, Goto, Fails
<1>4. req'.old = Old
  BY <1>1, <1>2, <1>3 DEF Request
<1>5. \/ UNCHANGED <<meta, past>>
      \/ /\ req.dop # "success"
         /\ meta' \in {meta, HostLine(req.old, "CLEANUPSUCCESS")}
         /\ past' = [past EXCEPT !.forced =
                       IF req.dop = "failed" THEN @ \cup {req.old} ELSE @]
  BY DEF ForcedLine, GB_METAUPDATE_OR_GOTO
<1>6. CASE UNCHANGED <<meta, past>>
  BY <1>2, <1>3, <1>4, <1>6, JournalQuiet
<1>7. CASE /\ req.dop # "success"
           /\ meta' \in {meta, HostLine(req.old, "CLEANUPSUCCESS")}
           /\ past' = [past EXCEPT !.forced =
                         IF req.dop = "failed" THEN @ \cup {req.old} ELSE @]
  <2>1. /\ past'.strayed = past.strayed
        /\ past'.forced = IF req.dop = "failed" THEN past.forced \cup {req.old}
                          ELSE past.forced
    BY <1>1, <1>7 DEF Past
  <2>2. \/ meta'.status = meta.status
        \/ meta'.status = [meta.status EXCEPT ![req.old] = "CLEANUPSUCCESS"]
    <3>1. HostLine(req.old, "CLEANUPSUCCESS").status
            = [meta.status EXCEPT ![req.old] = "CLEANUPSUCCESS"]
      BY <1>1, HostLineIs DEF MetaOK
    <3> QED
      BY <1>7, <3>1
  <2>3. req.dop # "failed" => meta.status[req.old] = "CLEANUPSUCCESS"
    BY <1>1, <1>7 DEF JournalInv, OpStatus
  <2>4. StatusInv(Old)'
    BY <1>1, <1>2, <2>2 DEF StatusInv, Gone
  <2>5. ReplaceJournal'
    <3>1. "CLEANUPSUCCESS" \notin AuditSuccess \cup {"RPSUCCESS",
                                                     "RPINPROGRESS", "RPFAIL"}
      BY DEF AuditSuccess
    <3> QED
      BY <1>1, <1>2, <1>3, <2>1, <2>2, <2>3, <3>1 DEF ReplaceJournal
  <2> QED
    BY <1>3, <1>4, <2>4, <2>5 DEF JournalInv
<1> QED
  BY <1>5, <1>6, <1>7

\* The lines of the threads.
LEMMA JournalLines ==
    ASSUME NEW Old, BaseInv, JournalInv(Old), NEW h \in Nodes,
           WorkerBegin(h) \/ WorkerResult(h) \/ WorkerAuth(h)
    PROVE  JournalInv(Old)'
<1>1. /\ meta \in Meta /\ work \in [Nodes -> WorkSteps]
      /\ meta.status \in [Nodes -> MetaStatus \cup {NoLine}]
  BY DEF BaseInv, TypeOK, Meta
<1>2. /\ pc = "collect" /\ req.op = "replace"
      /\ UNCHANGED <<node, down, late, pc, req, past>>
  BY LinesAre
<1>3. /\ req.old = Old /\ req.old # req.new /\ StatusInv(Old) /\ ReplaceJournal
      /\ \A g \in Nodes : ThreadInv(g)
      /\ req.dop \in {"none", "skipped"}
      /\ (req.dop = "skipped" => meta.status[req.old] = "CLEANUPSUCCESS")
  BY <1>2 DEF JournalInv, BaseInv, FlowInv
<1>4. PICK s \in MetaStatus, x \in {"call", "auth", "done", "failed"} :
         /\ meta' \in {meta, HostLine(h, s)}
         /\ work' = [work EXCEPT ![h] = x]
         /\ x \in {"call", "auth", "done"} => meta' = HostLine(h, s)
         /\ \/ /\ work[h] = "begin" /\ x \in {"call", "failed"}
               /\ s = IF h = req.new THEN "CONFIGINPROGRESS"
                      ELSE IF h = req.old THEN "CLEANUPINPROGRESS"
                      ELSE "RPINPROGRESS"
            \/ /\ work[h] = "ok"
               /\ s = IF h = req.new THEN "CONFIGSUCCESS"
                      ELSE IF h = req.old THEN "CLEANUPSUCCESS"
                      ELSE "RPSUCCESS"
               /\ x = "auth" => h = req.new /\ Auth
               /\ x = "done" => ~(h = req.new /\ Auth)
               /\ x # "call"
            \/ /\ work[h] = "err" /\ x = "failed"
               /\ s = IF h = req.new THEN "CONFIGFAIL"
                      ELSE IF h = req.old THEN "CLEANUPFAIL"
                      ELSE "RPFAIL"
            \/ /\ work[h] = "auth" /\ x \in {"done", "failed"}
               /\ s = "AUTHENFORCED"
  BY LinesAre
<1>5. /\ work[h] # "none" /\ work'[h] = x
      /\ \A g \in Nodes \ {h} : work'[g] = work[g]
  BY <1>1, <1>4
<1>6. HostLine(h, s).status = [meta.status EXCEPT ![h] = s]
  BY <1>1, HostLineIs
<1>7. /\ meta'.status[h] \in {meta.status[h], s}
      /\ \A g \in Nodes \ {h} : meta'.status[g] = meta.status[g]
      /\ x \in {"call", "auth", "done"} => meta'.status[h] = s
  BY <1>1, <1>4, <1>6
<1>8. /\ h = req.new => CreateInv(h)
      /\ h = req.old => DeleteInv(h)
      /\ h \notin {req.new, req.old} => PortalInv(h)
  BY <1>3 DEF ThreadInv
\* What the line is, by the role of the host.
<1>9. /\ h = req.new => s \in {"CONFIGINPROGRESS", "CONFIGSUCCESS", "CONFIGFAIL",
                               "AUTHENFORCED"}
      /\ h = req.old => s \in {"CLEANUPINPROGRESS", "CLEANUPSUCCESS",
                               "CLEANUPFAIL"}
      /\ h \notin {req.new, req.old} => s \in RP
  BY <1>3, <1>4, <1>5, <1>8 DEF DeleteInv, PortalInv, RP
<1>10. StatusInv(Old)'
  BY <1>3, <1>7, <1>9 DEF StatusInv, Up, RP, Gone, AuditSuccess
<1>11. ReplaceJournal'
  <2>1. \A g \in Nodes \ {h} : node'[g] = node[g]
    BY <1>2
  <2>2. ASSUME h \notin past.strayed, meta'.status[h] \in Up
        PROVE  node[h].target
    <3>1. CASE meta'.status[h] = meta.status[h]
      BY <1>3, <2>2, <3>1 DEF ReplaceJournal, Up, RP
    <3>2. CASE meta'.status[h] = s /\ h = req.new
      <4>1. s \in {"CONFIGSUCCESS", "AUTHENFORCED"}
        BY <1>9, <2>2, <3>2 DEF Up, RP, AuditSuccess
      <4>2. work[h] \in {"ok", "auth"}
        BY <1>4, <3>2, <4>1
      <4> QED
        BY <1>8, <2>2, <3>2, <4>2 DEF CreateInv
    <3>3. CASE meta'.status[h] = s /\ h = req.old
      BY <1>9, <2>2, <3>3 DEF Up, RP, AuditSuccess
    <3>4. CASE h \notin {req.new, req.old}
      BY <1>3, <1>5, <1>8, <2>2, <3>4 DEF PortalInv, ReplaceJournal, Up, RP
    <3> QED
      BY <1>7, <3>1, <3>2, <3>3, <3>4
  <2>3. ASSUME h \notin past.strayed, h \notin past.forced,
               meta'.status[h] = "CLEANUPSUCCESS"
        PROVE  ~node[h].target
    <3>1. CASE meta'.status[h] = meta.status[h]
      BY <1>3, <2>3, <3>1 DEF ReplaceJournal
    <3>2. CASE meta'.status[h] = s
      <4>1. h = req.old
        BY <1>9, <2>3, <3>2 DEF RP
      <4>2. work[h] = "ok"
        BY <1>3, <1>4, <2>3, <3>2, <4>1
      <4> QED
        BY <1>8, <2>3, <4>1, <4>2 DEF DeleteInv
    <3> QED
      BY <1>7, <3>1, <3>2
  <2> QED
    BY <1>2, <1>3, <1>7, <2>2, <2>3 DEF ReplaceJournal, Up, RP
<1>12. ASSUME NEW g \in Nodes PROVE ThreadInv(g)'
  <2>1. CASE g # h
    <3>1. /\ work'[g] = work[g] /\ meta'.status[g] = meta.status[g]
          /\ node' = node /\ req' = req /\ past' = past
      BY <1>2, <1>5, <1>7, <2>1
    <3>2. ThreadInv(g)
      BY <1>3
    <3> QED
      BY <3>1, <3>2 DEF ThreadInv, CreateInv, DeleteInv, PortalInv
  <2>2. CASE g = h
    <3>1. h = req.new => CreateInv(h)'
      BY <1>2, <1>4, <1>5, <1>8 DEF CreateInv
    <3>2. h = req.old => DeleteInv(h)'
      BY <1>2, <1>3, <1>4, <1>5, <1>7, <1>8 DEF DeleteInv
    <3>3. h \notin {req.new, req.old} => PortalInv(h)'
      BY <1>4, <1>5, <1>7, <1>8, <1>9 DEF PortalInv, Up
    <3> QED
      BY <1>2, <2>2, <3>1, <3>2, <3>3 DEF ThreadInv
  <2> QED
    BY <2>1, <2>2
<1>13. req.dop = "skipped" => meta'.status[req.old] = "CLEANUPSUCCESS"
  <2>1. req.dop = "skipped" => h # req.old
    BY <1>5, <1>8 DEF DeleteInv
  <2>2. req.old \in Nodes
    BY DEF BaseInv, TypeOK, Request
  <2> QED
    BY <1>3, <1>7, <2>1, <2>2
<1> QED
  BY <1>2, <1>3, <1>10, <1>11, <1>12, <1>13 DEF JournalInv

\* The calls of the threads: on a host whose line says anything of its target
\* the target stays as it is.
LEMMA JournalCalls ==
    ASSUME NEW Old, BaseInv, JournalInv(Old), NEW h \in Nodes,
           \/ RpcServed(h) \/ RpcBroken(h) \/ RpcLost(h) \/ RpcTimeout(h)
    PROVE  JournalInv(Old)'
<1>1. /\ work \in [Nodes -> WorkSteps] /\ node \in [Nodes -> NodeState]
      /\ req \in Request /\ node[h] \in NodeState
      /\ node[h].target \in BOOLEAN /\ req.old \in Nodes
  BY DEF BaseInv, TypeOK, NodeState, Request
<1>2. /\ work[h] = "sent" /\ pc \in {"collect", "gather"}
      /\ UNCHANGED <<meta, pc, req>> /\ CallTo(h) \in Call
      /\ past'.forced = past.forced
      /\ past.strayed \subseteq past'.strayed
  BY CallsAre
<1>3. PICK x \in {"ok", "err"}, n \in NodeState :
         /\ work' = [work EXCEPT ![h] = x]
         /\ node' = [node EXCEPT ![h] = n]
         /\ \/ n \in {node[h], Serve(h, CallTo(h)).state}
            \/ n \in Broken(h, CallTo(h))
         /\ x = "ok" => Serve(h, CallTo(h)).exit = "ok"
                          /\ n = Serve(h, CallTo(h)).state
  BY CallsAre
<1>4. /\ (req.op = "replace" => req.old = Old) /\ StatusInv(Old)
      /\ ReplaceJournal
  BY DEF JournalInv
<1>5. /\ work'[h] = x /\ node'[h] = n
      /\ \A g \in Nodes \ {h} : work'[g] = work[g] /\ node'[g] = node[g]
  BY <1>1, <1>3
<1>6. StatusInv(Old)'
  BY <1>2, <1>4 DEF StatusInv
<1>7. CASE pc = "gather"
  <2>1. CallTo(h).op = "reload"
    BY <1>1, <1>7, CallToIs, ThreadFlow DEF BaseInv, FlowInv
  <2>2. Serve(h, CallTo(h)) = block_reload(node[h])
    BY <1>1, <1>2, <2>1, ServeIs
  <2>3. LET a == block_reload(node[h])
        IN (node[h].target /\ a.state.target) \/ a.state = node[h]
    BY <1>1, <1>2, Answers
  <2>4. n \in Broken(h, CallTo(h)) => n.target = node[h].target
    BY <1>1, <1>2, <2>1, BrokenIs
  <2>5. n.target \in BOOLEAN
    BY DEF NodeState
  <2>6. n.target <=> node[h].target
    BY <1>3, <2>2, <2>3, <2>4
  <2>7. ReplaceJournal'
    BY <1>2, <1>4, <1>5, <2>6 DEF ReplaceJournal
  <2> QED
    BY <1>2, <1>4, <1>6, <1>7, <2>7 DEF JournalInv
<1>8. CASE pc = "collect"
  <2>1. /\ req.op = "replace" /\ req.old # req.new
        /\ \A g \in Nodes : ThreadInv(g)
        /\ req.dop \in {"none", "skipped"}
        /\ (req.dop = "skipped" => meta.status[req.old] = "CLEANUPSUCCESS")
    BY <1>8, ThreadFlow DEF JournalInv
  <2>2. CallTo(h).op = IF h = req.new THEN "create"
                       ELSE IF h = req.old THEN "delete" ELSE "portal"
    BY <1>1, <2>1, CallToIs
  <2>3. /\ h = req.old => DeleteInv(h)
        /\ h \notin {req.new, req.old} => PortalInv(h)
    BY <2>1 DEF ThreadInv
  <2>4. CASE h = req.new
    <3>1. Serve(h, CallTo(h)) = block_create(node[h], CallTo(h))
            /\ CallTo(h).op = "create"
      BY <1>1, <1>2, <2>2, <2>4, ServeIs
    <3>2. LET a == block_create(node[h], CallTo(h))
          IN \/ node[h].target /\ a.state = node[h] /\ a.exit = "err"
             \/ /\ ~node[h].target /\ a.state = Configured(CallTo(h).hosts)
                /\ a.exit = "ok"
      BY <1>1, <1>2, Answers
    <3>3. Configured(CallTo(h).hosts).target
      BY DEF Configured
    <3>4. n \in {node[h], Serve(h, CallTo(h)).state}
      BY <1>1, <1>2, <1>3, <3>1, BrokenIs
    <3>5. (node[h].target => n.target) /\ (x = "ok" => n.target)
      BY <1>3, <3>1, <3>2, <3>3, <3>4
    <3>6. meta.status[h] # "CLEANUPSUCCESS"
      BY <1>4, <2>1, <2>4 DEF StatusInv, Gone
    <3>7. ReplaceJournal'
      BY <1>2, <1>4, <1>5, <3>5, <3>6 DEF ReplaceJournal
    <3>8. ASSUME NEW g \in Nodes PROVE ThreadInv(g)'
      <4>1. CASE g = h
        BY <1>2, <1>5, <2>1, <2>4, <3>5, <4>1 DEF ThreadInv, CreateInv
      <4>2. CASE g # h
        <5>1. ThreadInv(g) /\ work'[g] = work[g] /\ node'[g] = node[g]
          BY <1>5, <2>1, <4>2
        <5> QED
          BY <1>2, <5>1 DEF ThreadInv, CreateInv, DeleteInv, PortalInv
      <4> QED
        BY <4>1, <4>2
    <3> QED
      BY <1>2, <1>4, <1>6, <2>1, <3>7, <3>8 DEF JournalInv
  <2>5. CASE h = req.old
    <3>1. Serve(h, CallTo(h)) = block_delete(node[h])
      BY <1>1, <1>2, <2>1, <2>2, <2>5, ServeIs
    <3>2. LET a == block_delete(node[h])
          IN a.state = NoConfig \/ a.exit = "err"
      BY <1>1, <1>2, Answers
    <3>3. x = "ok" => ~n.target
      BY <1>3, <3>1, <3>2 DEF NoConfig
    <3>4. meta.status[h] = "CLEANUPINPROGRESS"
      BY <1>2, <2>3, <2>5 DEF DeleteInv
    <3>5. ReplaceJournal'
      BY <1>2, <1>4, <1>5, <3>4 DEF ReplaceJournal, AuditSuccess
    <3>6. ASSUME NEW g \in Nodes PROVE ThreadInv(g)'
      <4>1. CASE g = h
        BY <1>2, <1>5, <2>1, <2>3, <2>5, <3>3, <3>4, <4>1
        DEF ThreadInv, DeleteInv
      <4>2. CASE g # h
        <5>1. ThreadInv(g) /\ work'[g] = work[g] /\ node'[g] = node[g]
          BY <1>5, <2>1, <4>2
        <5> QED
          BY <1>2, <5>1 DEF ThreadInv, CreateInv, DeleteInv, PortalInv
      <4> QED
        BY <4>1, <4>2
    <3> QED
      BY <1>2, <1>4, <1>6, <2>1, <3>5, <3>6 DEF JournalInv
  <2>6. CASE h \notin {req.new, req.old}
    <3>1. Serve(h, CallTo(h)) = block_replace(node[h], CallTo(h))
            /\ CallTo(h).op = "portal"
      BY <1>1, <1>2, <2>2, <2>6, ServeIs
    <3>2. LET a == block_replace(node[h], CallTo(h))
          IN a.state = node[h] \/ (node[h].target /\ a.state.target)
      BY <1>1, <1>2, PortalAnswer
    <3>3. n \in Broken(h, CallTo(h)) => n.target = node[h].target
      BY <1>1, <1>2, <3>1, BrokenIs
    <3>4. n.target <=> node[h].target
      BY <1>3, <3>1, <3>2, <3>3
    <3>5. ReplaceJournal'
      BY <1>2, <1>4, <1>5, <3>4 DEF ReplaceJournal
    <3>6. ASSUME NEW g \in Nodes PROVE ThreadInv(g)'
      <4>1. CASE g = h
        BY <1>2, <1>5, <2>3, <2>6, <4>1 DEF ThreadInv, PortalInv
      <4>2. CASE g # h
        <5>1. ThreadInv(g) /\ work'[g] = work[g] /\ node'[g] = node[g]
          BY <1>5, <2>1, <4>2
        <5> QED
          BY <1>2, <5>1 DEF ThreadInv, CreateInv, DeleteInv, PortalInv
      <4> QED
        BY <4>1, <4>2
    <3> QED
      BY <1>2, <1>4, <1>6, <2>1, <3>5, <3>6 DEF JournalInv
  <2> QED
    BY <2>4, <2>5, <2>6
<1> QED
  BY <1>2, <1>7, <1>8

\* A thread connects; the environment.
LEMMA JournalRest ==
    ASSUME NEW Old, BaseInv, LateInv, JournalInv(Old), NEW h \in Nodes,
           WorkerConnect(h) \/ Environment(h)
    PROVE  JournalInv(Old)'
<1>1. /\ work \in [Nodes -> WorkSteps] /\ node \in [Nodes -> NodeState]
      /\ late \in [Nodes -> SUBSET Call]
  BY DEF BaseInv, TypeOK
<1>2. UNCHANGED <<meta, pc, req>>
  BY EnvironmentIs DEF WorkerConnect
<1>3. CASE WorkerConnect(h)
  <2>1. UNCHANGED <<node, past>> /\ work[h] = "call"
          /\ \E x \in {"sent", "failed"} : work' = [work EXCEPT ![h] = x]
    BY <1>3 DEF WorkerConnect, To
  <2>2. ASSUME pc = "collect", NEW g \in Nodes PROVE ThreadInv(g)'
    <3>1. ThreadInv(g)
      BY <2>2 DEF JournalInv
    <3> QED
      BY <1>1, <1>2, <2>1, <3>1 DEF ThreadInv, CreateInv, DeleteInv, PortalInv
  <2>3. ReplaceJournal' /\ StatusInv(Old)'
    BY <1>2, <2>1 DEF JournalInv, ReplaceJournal, StatusInv
  <2> QED
    BY <1>2, <2>2, <2>3 DEF JournalInv
<1>4. CASE Environment(h)
  <2>1. /\ past'.forced = past.forced /\ past'.strayed = past.strayed
        /\ UNCHANGED work
        /\ \A g \in Nodes : \/ node'[g].target <=> node[g].target
                            \/ g \in past.strayed
    BY <1>1, <1>4, EnvironmentIs DEF LateInv
  <2>2. ASSUME pc = "collect", NEW g \in Nodes PROVE ThreadInv(g)'
    <3>1. ThreadInv(g)
      BY <2>2 DEF JournalInv
    <3> QED
      BY <1>2, <2>1, <3>1 DEF ThreadInv, CreateInv, DeleteInv, PortalInv
  <2>3. ReplaceJournal' /\ StatusInv(Old)'
    BY <1>2, <2>1 DEF JournalInv, ReplaceJournal, StatusInv
  <2> QED
    BY <1>2, <2>2, <2>3 DEF JournalInv
<1> QED
  BY <1>3, <1>4

\* The invariant of the journal is one of every step.
LEMMA JournalKeeps ==
    ASSUME NEW Old, \A r \in Requests : r.op = "replace" => r.old = Old
    PROVE  BaseInv /\ ReloadInv /\ JournalInv(Old) /\ [Next]_vars
             => JournalInv(Old)'
<1> SUFFICES ASSUME BaseInv, ReloadInv, JournalInv(Old), [Next]_vars
             PROVE  JournalInv(Old)'
  OBVIOUS
<1>1. LateInv
  BY DEF ReloadInv
<1>2. CASE UNCHANGED vars
  BY <1>2 DEF vars, JournalInv, StatusInv, ReplaceJournal, ThreadInv, CreateInv,
              DeleteInv, PortalInv
<1>3. CASE \E h \in Nodes : Thread(h) \/ Environment(h)
  BY <1>1, <1>3, JournalLines, JournalCalls, JournalRest DEF Thread
<1>4. CASE \/ Accept \/ ReplaceHandler \/ Crash \/ ReloadAccess
           \/ ReloadRemoteAsync \/ ReloadGather \/ GenConfig
  BY <1>4, JournalHandler, JournalStart, JournalForced DEF ReplaceHandler
<1> QED
  BY <1>2, <1>3, <1>4 DEF Next

\* It holds at the start.
LEMMA JournalInit == ASSUME NEW Old PROVE Init => JournalInv(Old)
<1> SUFFICES ASSUME Init PROVE JournalInv(Old)
  OBVIOUS
<1>1. /\ pc = "idle" /\ req = NoRequest /\ req.op = "reload"
  BY DEF Init, NoRequest
<1>2. \A h \in Nodes :
        meta.status[h] = IF h \notin Range(InitHosts) THEN NoLine
                         ELSE IF Auth THEN "AUTHENFORCED" ELSE "CONFIGSUCCESS"
  BY DEF Init
<1>3. \A h \in Nodes : h \in Range(InitHosts) => node[h].target
  BY DEF Init, Configured
<1>4. StatusInv(Old)
  BY <1>2 DEF StatusInv, NoLine, Up, AuditSuccess, Gone
<1>5. ReplaceJournal
  BY <1>2, <1>3 DEF ReplaceJournal, NoLine, AuditSuccess
<1> QED
  BY <1>1, <1>4, <1>5 DEF JournalInv

\* The journal is true of the hosts: one that is configured, or has a portal
\* line, has the target, and one that is cleaned up has not, unless force said
\* so.  For any number of repeated replacements of a host, by whatever new
\* hosts, and any crashes, failures and lost calls between two lines; only the
\* hosts with a call that outlived its caller are exempt.
THEOREM ReplaceJournalSafety ==
    ASSUME NEW Old, \A r \in Requests : r.op = "replace" => r.old = Old
    PROVE  Spec => []ReplaceJournal
<1>1. Init => BaseInv /\ ReloadInv /\ JournalInv(Old)
  BY TypesInit, ReloadInit, JournalInit DEF BaseInv
<1>2. JournalInv(Old) => ReplaceJournal
  BY DEF JournalInv
<1> QED
  BY <1>1, <1>2, BaseKeeps, ReloadInvKeeps, JournalKeeps, PTL DEF Spec

-----------------------------------------------------------------------------
(***************************************************************************)
(* One replacement, of Old by New, repeated as often as it takes: the new  *)
(* host joins the list at its end and the others keep their place, so      *)
(* args[] has exactly the hosts that keep the block.                       *)
(***************************************************************************)

OnePair(Old, New) ==
    /\ Old \in Range(InitHosts) /\ New \in Nodes \ Range(InitHosts)
    /\ \A r \in Requests : r.op = "replace" => r.old = Old /\ r.new = New

\* The hosts that keep the block, and all it has after the replacement.
Keepers(Old) == Range(InitHosts) \ {Old}

NewHosts(Old, New) == Keepers(Old) \cup {New}

\* Only Old and New get other lines than those of a replaced portal.
PairInv(Old, New) ==
    /\ req.op = "replace" => req.new = New
    /\ \A h \in Keepers(Old) : meta.status[h] \in Up
    /\ \A h \in Nodes \ (Range(InitHosts) \cup {New}) : meta.status[h] = NoLine
    /\ meta.order \in {InitHosts, Append(InitHosts, New)}

\* The list of the hosts at the start, and with the new host.
LEMMA InitHostsAre ==
    /\ MPath \in Nat \ {0} /\ InitHosts \in [1 .. MPath -> Nodes]
    /\ Range(InitHosts) = {InitHosts[i] : i \in 1 .. MPath}
    /\ Range(InitHosts) \subseteq Nodes
    /\ \A i, j \in 1 .. MPath : InitHosts[i] = InitHosts[j] => i = j
    /\ IsFiniteSet(Range(InitHosts)) /\ Cardinality(Range(InitHosts)) = MPath
<1>1. InitHosts \in Seq(Nodes) /\ InitHosts # <<>> /\ IsInjective(InitHosts)
        /\ IsFiniteSet(Nodes)
  BY ReplaceAssumption
<1>2. MPath \in Nat \ {0} /\ InitHosts \in [1 .. MPath -> Nodes]
  BY <1>1 DEF MPath
<1>3. Range(InitHosts) = {InitHosts[i] : i \in 1 .. MPath}
  BY <1>2 DEF Range
<1>4. \A i, j \in 1 .. MPath : InitHosts[i] = InitHosts[j] => i = j
  BY <1>1, <1>2 DEF IsInjective
<1>5. Range(InitHosts) \subseteq Nodes
  BY <1>2, <1>3
<1>6. InitHosts \in Bijection(1 .. MPath, Range(InitHosts))
  BY <1>2, <1>3, <1>4 DEF Bijection, Injection, Surjection, IsInjective
<1>7. Cardinality(Range(InitHosts)) = MPath
  BY <1>2, <1>6, FS_CountingElements DEF ExistsBijection
<1>8. IsFiniteSet(Range(InitHosts))
  BY <1>1, <1>5, FS_Subset
<1> QED
  BY <1>2, <1>3, <1>4, <1>5, <1>7, <1>8

\* How many keep the block.
LEMMA KeepersAre ==
    ASSUME NEW Old, NEW New, OnePair(Old, New)
    PROVE  /\ IsFiniteSet(Keepers(Old)) /\ Cardinality(Keepers(Old)) = MPath - 1
           /\ IsFiniteSet(NewHosts(Old, New))
           /\ Cardinality(NewHosts(Old, New)) = MPath
           /\ Keepers(Old) \subseteq Nodes /\ NewHosts(Old, New) \subseteq Nodes
           /\ Old \in Nodes /\ New \in Nodes /\ Old # New
           /\ Old \notin NewHosts(Old, New) /\ New \notin Keepers(Old)
<1>1. /\ Old \in Range(InitHosts) /\ New \in Nodes /\ New \notin Range(InitHosts)
      /\ Range(InitHosts) \subseteq Nodes
  BY InitHostsAre DEF OnePair
<1>2. IsFiniteSet(Keepers(Old)) /\ Cardinality(Keepers(Old)) = MPath - 1
  BY <1>1, InitHostsAre, FS_RemoveElement DEF Keepers
<1>3. /\ IsFiniteSet(NewHosts(Old, New))
      /\ Cardinality(NewHosts(Old, New)) = MPath
  <2>1. New \notin Keepers(Old)
    BY <1>1 DEF Keepers
  <2>2. MPath \in Nat
    BY InitHostsAre
  <2> QED
    BY <1>2, <2>1, <2>2, FS_AddElement DEF NewHosts
<1> QED
  BY <1>1, <1>2, <1>3 DEF Keepers, NewHosts

\* The places of the hosts in the list.
LEMMA Places ==
    ASSUME NEW Old, NEW New, OnePair(Old, New), BaseInv, PairInv(Old, New)
    PROVE  /\ \A i \in 1 .. MPath : Place(InitHosts[i]) = i
           /\ meta.order = Append(InitHosts, New) => Place(New) = MPath + 1
           /\ Range(InitHosts) \subseteq Range(meta.order)
           /\ meta.order # InitHosts => New \in Range(meta.order)
           /\ New \in Range(meta.order) => meta.order = Append(InitHosts, New)
<1> DEFINE n == MPath
<1>1. /\ n \in Nat \ {0} /\ InitHosts \in [1 .. n -> Nodes] /\ n = Len(InitHosts)
      /\ Range(InitHosts) = {InitHosts[i] : i \in 1 .. n}
      /\ InitHosts \in Seq(Nodes)
      /\ \A i, j \in 1 .. n : InitHosts[i] = InitHosts[j] => i = j
  BY InitHostsAre, ReplaceAssumption DEF MPath
<1>2. New \in Nodes /\ New \notin Range(InitHosts)
  BY DEF OnePair
<1>3. meta.order \in {InitHosts, Append(InitHosts, New)}
  BY DEF PairInv
<1> HIDE DEF n
<1>4. CASE meta.order = InitHosts
  <2>1. DOMAIN meta.order = 1 .. n
    BY <1>1, <1>4
  <2>2. ASSUME NEW i \in 1 .. n PROVE Place(InitHosts[i]) = i
    BY <1>1, <1>4, <2>1 DEF Place
  <2>3. InitHosts # Append(InitHosts, New)
    <3>1. Len(Append(InitHosts, New)) = n + 1
      BY <1>1, <1>2
    <3>2. n = Len(InitHosts)
      BY <1>1, Zenon
    <3>3. n \in Nat
      BY <1>1
    <3>4. n # n + 1
      BY <3>3
    <3> QED
      BY <3>1, <3>2, <3>4, Zenon
  <2> QED
    BY <1>2, <1>4, <2>2, <2>3 DEF n
<1>5. CASE meta.order = Append(InitHosts, New)
  <2> DEFINE t == Append(InitHosts, New)
  <2>1. /\ DOMAIN t = 1 .. n + 1 /\ t[n + 1] = New
        /\ \A i \in 1 .. n : t[i] = InitHosts[i]
    BY <1>1, <1>2
  <2>2. \A i \in 1 .. n + 1 : i \in 1 .. n \/ i = n + 1
    BY <1>1
  <2>3. 1 .. n \subseteq 1 .. n + 1 /\ n + 1 \in 1 .. n + 1
    BY <1>1
  <2>4. Range(t) = {t[i] : i \in 1 .. n + 1}
    BY <2>1 DEF Range
  <2> HIDE DEF t
  <2>5. meta.order = t
    BY <1>5 DEF t
  <2>6. \A i \in 1 .. n + 1 : t[i] = New => i = n + 1
    BY <1>1, <1>2, <2>1, <2>2
  <2>7. \A i \in 1 .. n : \A j \in 1 .. n + 1 : t[j] = InitHosts[i] => j = i
    BY <1>1, <1>2, <2>1, <2>2
  <2>8. ASSUME NEW i \in 1 .. n PROVE Place(InitHosts[i]) = i
    BY <2>1, <2>3, <2>5, <2>7 DEF Place
  <2>9. Place(New) = n + 1
    BY <2>1, <2>3, <2>5, <2>6 DEF Place
  <2>10. Range(InitHosts) \subseteq Range(t) /\ New \in Range(t)
    BY <1>1, <2>1, <2>3, <2>4
  <2> QED
    BY <1>5, <2>5, <2>8, <2>9, <2>10 DEF n
<1> QED
  BY <1>3, <1>4, <1>5

\* The others than Old are those that keep the block, and New once it is valid.
LEMMA OthersAre ==
    ASSUME NEW Old, NEW New, OnePair(Old, New), BaseInv, JournalInv(Old),
           PairInv(Old, New)
    PROVE  /\ Others(Old) = IF New \in Valid THEN NewHosts(Old, New)
                            ELSE Keepers(Old)
           /\ New \in Valid <=> meta.status[New] \in Up
<1>1. /\ Keepers(Old) \subseteq Nodes /\ New \in Nodes /\ Old # New
      /\ \A h \in Nodes : h \in Keepers(Old) \/ h = Old \/ h = New
                            \/ h \notin Range(InitHosts) \cup {New}
      /\ Old \notin Keepers(Old)
  BY KeepersAre DEF Keepers
<1>2. \A h \in Keepers(Old) : h \in Valid
  BY <1>1 DEF PairInv, Valid, blockhostIsValid, Up, RP, AuditSuccess
<1>3. \A h \in Nodes \ (Range(InitHosts) \cup {New}) : h \notin Valid
  BY DEF PairInv, Valid, blockhostIsValid, NoLine
<1>4. Valid \subseteq Nodes
  BY DEF Valid
<1>5. New \in Valid <=> meta.status[New] \in Up
  BY <1>1 DEF JournalInv, StatusInv, Valid, blockhostIsValid, Up, RP,
              AuditSuccess, Gone, NoLine
<1> QED
  BY <1>1, <1>2, <1>3, <1>4, <1>5 DEF Others, NewHosts

\* args[] has the hosts that keep the block.
LEMMA FillArgsIs ==
    ASSUME NEW Old, NEW New, OnePair(Old, New), BaseInv, JournalInv(Old),
           PairInv(Old, New)
    PROVE  FillArgs(Old) = Keepers(Old)
<1> DEFINE n == MPath
           K == Keepers(Old)
           S == Others(Old)
<1>1. /\ n \in Nat \ {0} /\ IsFiniteSet(K) /\ Cardinality(K) = n - 1
      /\ New \notin K /\ New \in Nodes
      /\ \A h \in K : \E i \in 1 .. n : h = InitHosts[i]
  BY InitHostsAre, KeepersAre DEF Keepers
<1>2. S \in {K, K \cup {New}} /\ (New \in S => New \in Valid)
  BY <1>1, OthersAre DEF NewHosts
<1>3. New \in Valid => Place(New) = n + 1
  <2>1. New \in Valid => New \in Range(meta.order)
    BY <1>1 DEF Valid, blockhostIsValid, NoLine, BaseInv, TypeOK
  <2> QED
    BY <2>1, Places
<1>4. \A h \in K : Place(h) \in 1 .. n
  BY <1>1, Places
<1> HIDE DEF n, K, S
<1>5. ASSUME NEW h \in K PROVE Cardinality(Before(h, S)) < n - 1
  <2>1. Before(h, S) \subseteq K \ {h}
    BY <1>1, <1>2, <1>3, <1>4 DEF Before
  <2>2. IsFiniteSet(K \ {h}) /\ Cardinality(K \ {h}) = n - 2
    BY <1>1, FS_RemoveElement
  <2>3. /\ Cardinality(Before(h, S)) <= n - 2
        /\ Cardinality(Before(h, S)) \in Nat
    <3>1. IsFiniteSet(Before(h, S))
            /\ Cardinality(Before(h, S)) <= Cardinality(K \ {h})
      BY <2>1, <2>2, FS_Subset
    <3>2. Cardinality(Before(h, S)) \in Nat
      BY <3>1, FS_CardinalityType
    <3> QED
      BY <2>2, <3>1, <3>2
  <2> QED
    BY <1>1, <2>3
<1>6. ASSUME New \in S PROVE ~(Cardinality(Before(New, S)) < n - 1)
  <2>1. Place(New) = n + 1 /\ S = K \cup {New}
    BY <1>1, <1>2, <1>3, <1>6
  <2>2. Before(New, S) = K
    BY <1>1, <1>4, <2>1 DEF Before
  <2> QED
    BY <1>1, <2>2
<1>7. FillArgs(Old) = {h \in S : Cardinality(Before(h, S)) < n - 1}
  BY DEF FillArgs, S, n
<1> QED
  BY <1>1, <1>2, <1>5, <1>6, <1>7 DEF K

\* The last of them is one of them.
LEMMA LastArgIs ==
    ASSUME NEW Old, NEW New, OnePair(Old, New), BaseInv, PairInv(Old, New),
           Keepers(Old) # {}
    PROVE  LastArg(Keepers(Old)) \in Keepers(Old)
<1> DEFINE n == MPath
           K == Keepers(Old)
<1>1. /\ n \in Nat \ {0} /\ \A i \in 1 .. n : Place(InitHosts[i]) = i
      /\ K = {InitHosts[i] : i \in 1 .. n} \ {Old}
      /\ \E i \in 1 .. n : Old = InitHosts[i]
  BY InitHostsAre, Places DEF Keepers, OnePair
<1> SUFFICES \E h \in K : Before(h, K) = K \ {h}
  BY DEF LastArg
<1>2. K # {}
  OBVIOUS
<1> HIDE DEF n, K
<1>3. n \in 1 .. n
  BY <1>1
<1>4. CASE InitHosts[n] # Old
  <2>1. InitHosts[n] \in K
    BY <1>1, <1>3, <1>4
  <2>2. \A g \in K \ {InitHosts[n]} : Place(g) < n
    BY <1>1, <1>3
  <2>3. Before(InitHosts[n], K) = K \ {InitHosts[n]}
    BY <1>1, <1>3, <2>2 DEF Before
  <2> QED
    BY <2>1, <2>3
<1>5. CASE InitHosts[n] = Old
  <2>1. PICK i \in 1 .. n : InitHosts[i] \in K
    BY <1>1, <1>2
  <2>2. i # n
    BY <1>1, <1>5, <2>1
  <2>3. n - 1 \in 1 .. n
    BY <1>1, <2>1, <2>2
  <2>4. InitHosts[n - 1] # Old
    BY <1>1, <1>3, <1>5, <2>3
  <2>5. InitHosts[n - 1] \in K
    BY <1>1, <2>3, <2>4
  <2>6. \A g \in K \ {InitHosts[n - 1]} : Place(g) < n - 1
    <3> SUFFICES ASSUME NEW j \in 1 .. n, InitHosts[j] # Old,
                        InitHosts[j] # InitHosts[n - 1]
                 PROVE  j < n - 1
      BY <1>1
    <3>1. j # n /\ j # n - 1
      BY <1>5
    <3> QED
      BY <1>1, <3>1
  <2>7. Before(InitHosts[n - 1], K) = K \ {InitHosts[n - 1]}
    BY <1>1, <2>3, <2>6 DEF Before
  <2> QED
    BY <2>5, <2>7
<1> QED
  BY <1>4, <1>5

\* A line for a host of the list leaves the list; one for New that is not in it
\* puts it at the end.
LEMMA PairLine ==
    ASSUME NEW Old, NEW New, OnePair(Old, New), BaseInv, PairInv(Old, New),
           NEW h \in Range(InitHosts) \cup {New}, NEW s \in MetaStatus,
           h \in Keepers(Old) => s \in Up,
           meta' \in {meta, HostLine(h, s)}, UNCHANGED <<req>>
    PROVE  PairInv(Old, New)'
<1>1. /\ meta \in Meta /\ h \in Nodes
      /\ meta.status \in [Nodes -> MetaStatus \cup {NoLine}]
      /\ Keepers(Old) \subseteq Nodes
  BY InitHostsAre, KeepersAre DEF BaseInv, TypeOK, Meta, OnePair
<1>2. /\ HostLine(h, s).status = [meta.status EXCEPT ![h] = s]
      /\ HostLine(h, s).order = IF h \in Range(meta.order) THEN meta.order
                                ELSE Append(meta.order, h)
  BY <1>1, HostLineIs
<1>3. /\ Range(InitHosts) \subseteq Range(meta.order)
      /\ meta.order # InitHosts => New \in Range(meta.order)
      /\ meta.order \in {InitHosts, Append(InitHosts, New)}
  BY Places DEF PairInv
<1>4. meta'.order \in {InitHosts, Append(InitHosts, New)}
  BY <1>2, <1>3
<1>5. /\ meta'.status[h] \in {meta.status[h], s}
      /\ \A g \in Nodes \ {h} : meta'.status[g] = meta.status[g]
  BY <1>1, <1>2
<1> QED
  BY <1>1, <1>4, <1>5 DEF PairInv

\* A step that touches neither the statuses nor the list.
LEMMA PairQuiet ==
    ASSUME NEW Old, NEW New, PairInv(Old, New), meta'.status = meta.status,
           meta'.order = meta.order, req'.op = "replace" => req'.new = New
    PROVE  PairInv(Old, New)'
BY DEF PairInv

\* Every step keeps the roles of the hosts.
LEMMA PairKeeps ==
    ASSUME NEW Old, NEW New, OnePair(Old, New)
    PROVE  BaseInv /\ JournalInv(Old) /\ PairInv(Old, New) /\ [Next]_vars
             => PairInv(Old, New)'
<1> SUFFICES ASSUME BaseInv, JournalInv(Old), PairInv(Old, New), [Next]_vars
             PROVE  PairInv(Old, New)'
  OBVIOUS
<1>1. /\ req \in Request /\ MetaOK(meta) /\ meta \in Meta
      /\ (req.op = "replace" => req.new = New)
      /\ (req.op = "replace" => req.old = Old)
      /\ Old \in Range(InitHosts) /\ New \notin Range(InitHosts)
      /\ req.old \in Nodes /\ req.new \in Nodes
      /\ \A r \in Requests : r.op = "replace" => r.new = New
  BY DEF BaseInv, TypeOK, MetaOK, PairInv, JournalInv, OnePair, Request
<1>2. ASSUME NEW h \in Nodes, WorkerBegin(h) \/ WorkerResult(h) \/ WorkerAuth(h)
      PROVE  PairInv(Old, New)'
  <2>1. pc = "collect" /\ req.op = "replace" /\ UNCHANGED req
    BY <1>2, LinesAre
  <2>2. PICK s \in MetaStatus :
           /\ meta' \in {meta, HostLine(h, s)}
           /\ work[h] # "none"
           /\ h \notin {req.new, req.old} /\ work[h] # "auth" => s \in RP
    <3>1. PICK s \in MetaStatus, x \in {"call", "auth", "done", "failed"} :
             /\ meta' \in {meta, HostLine(h, s)}
             /\ \/ /\ work[h] = "begin"
                   /\ s = IF h = req.new THEN "CONFIGINPROGRESS"
                          ELSE IF h = req.old THEN "CLEANUPINPROGRESS"
                          ELSE "RPINPROGRESS"
                \/ /\ work[h] = "ok"
                   /\ s = IF h = req.new THEN "CONFIGSUCCESS"
                          ELSE IF h = req.old THEN "CLEANUPSUCCESS"
                          ELSE "RPSUCCESS"
                \/ /\ work[h] = "err"
                   /\ s = IF h = req.new THEN "CONFIGFAIL"
                          ELSE IF h = req.old THEN "CLEANUPFAIL"
                          ELSE "RPFAIL"
                \/ work[h] = "auth"
      BY <1>2, LinesAre
    <3> QED
      BY <3>1 DEF RP
  <2>3. ThreadInv(h)
    BY <2>1 DEF JournalInv
  <2>4. h \notin {req.new, req.old} => meta.status[h] \in Up /\ work[h] # "auth"
    BY <2>2, <2>3 DEF ThreadInv, PortalInv
  <2>5. h \in Range(InitHosts) \cup {New}
    <3>1. NoLine \notin Up
      BY DEF NoLine, Up, RP, AuditSuccess
    <3> QED
      BY <1>1, <2>1, <2>4, <3>1 DEF PairInv
  <2>6. h \in Keepers(Old) => s \in Up
    BY <1>1, <2>1, <2>2, <2>4 DEF Keepers, Up
  <2> QED
    BY <2>1, <2>2, <2>5, <2>6, PairLine
<1>3. CASE ForcedLine
  <2>1. req.op = "replace" /\ "CLEANUPSUCCESS" \in MetaStatus
    BY <1>3 DEF ForcedLine, BaseInv, FlowInv, MetaStatus
  <2>2. /\ meta' \in {meta, HostLine(Old, "CLEANUPSUCCESS")}
        /\ UNCHANGED req \/ req' = [req EXCEPT !.err = TRUE]
    BY <1>1, <1>3, <2>1 DEF ForcedLine, GB_METAUPDATE_OR_GOTO, Goto, Fails
  <2>3. req'.op = req.op /\ req'.new = req.new
    BY <1>1, <2>2 DEF Request
  <2>4. Range(InitHosts) \subseteq Range(meta.order) /\ Old \in Nodes
    BY Places, KeepersAre
  <2>5. /\ HostLine(Old, "CLEANUPSUCCESS").order = meta.order
        /\ HostLine(Old, "CLEANUPSUCCESS").status
             = [meta.status EXCEPT ![Old] = "CLEANUPSUCCESS"]
    BY <1>1, <2>1, <2>4, HostLineIs
  <2>6. \A h \in Nodes \ {Old} : meta'.status[h] = meta.status[h]
    <3>1. meta.status \in [Nodes -> MetaStatus \cup {NoLine}]
      BY <1>1 DEF Meta
    <3> QED
      BY <2>2, <2>5, <3>1
  <2>7. meta'.order = meta.order
    BY <2>2, <2>5
  <2> QED
    BY <1>1, <2>3, <2>6, <2>7, KeepersAre DEF PairInv, Keepers
<1>4. CASE PrioLine \/ GenConfig
  <2>1. \E p \in SUBSET Nodes : meta' \in {meta, [meta EXCEPT !.prio = p]}
    <3>1. CASE PrioLine
      <4>1. meta' \in {meta, [meta EXCEPT !.prio = {req.new}]}
        BY <3>1 DEF PrioLine, GB_METAUPDATE_OR_GOTO
      <4>2. {req.new} \in SUBSET Nodes
        BY <1>1
      <4> QED
        BY <4>1, <4>2
    <3>2. CASE GenConfig
      <4>1. PICK h \in Valid : meta' \in {meta, [meta EXCEPT !.prio = {h}]}
        BY <3>2 DEF GenConfig, GB_METAUPDATE_OR_GOTO
      <4>2. {h} \in SUBSET Nodes
        BY DEF Valid
      <4> QED
        BY <4>1, <4>2
    <3> QED
      BY <1>4, <3>1, <3>2
  <2>2. meta'.status = meta.status /\ meta'.order = meta.order
    BY <1>1, <2>1, PrioOK
  <2>3. UNCHANGED req \/ req' = [req EXCEPT !.err = TRUE]
    BY <1>4 DEF PrioLine, GenConfig, GB_METAUPDATE_OR_GOTO, Goto, Fails
  <2>4. req'.op = req.op /\ req'.new = req.new
    BY <1>1, <2>3 DEF Request
  <2> QED
    BY <1>1, <2>2, <2>4, PairQuiet
<1>5. CASE Accept
  BY <1>1, <1>5, AcceptIs, PairQuiet
<1>6. CASE Crash
  <2>1. req'.op = "reload" /\ meta' = meta
    BY <1>6, CrashIs DEF NoRequest
  <2> QED
    BY <2>1, PairQuiet
<1>7. CASE ReplaceRemoteAsync
  BY <1>1, <1>7, StartIs, PairQuiet
<1>8. CASE Collect
  <2>1. UNCHANGED meta /\ req'.op = req.op /\ req'.new = req.new
    BY <1>1, <1>8 DEF Collect, Request
  <2> QED
    BY <1>1, <2>1, PairQuiet
<1>9. CASE \/ ReplaceAccess \/ MetaUnlock \/ ReloadAccess \/ ReloadRemoteAsync
           \/ ReloadGather
  <2>1. /\ UNCHANGED meta
        /\ \/ UNCHANGED req \/ \E e \in BOOLEAN : req' = [req EXCEPT !.err = e]
           \/ req' = NoRequest
    BY <1>9 DEF ReplaceAccess, MetaUnlock, ReloadAccess, ReloadRemoteAsync,
                ReloadGather, Goto, Fails
  <2>2. req'.op = "replace" => req'.new = New
    BY <1>1, <2>1 DEF Request, NoRequest
  <2> QED
    BY <2>1, <2>2, PairQuiet
<1>10. ASSUME NEW h \in Nodes,
              \/ WorkerConnect(h) \/ Environment(h)
              \/ RpcServed(h) \/ RpcBroken(h) \/ RpcLost(h) \/ RpcTimeout(h)
       PROVE  PairInv(Old, New)'
  <2>1. UNCHANGED <<meta, req>>
    BY <1>10, CallsAre, EnvironmentIs DEF WorkerConnect
  <2> QED
    BY <1>1, <2>1, PairQuiet
<1>11. CASE UNCHANGED vars
  BY <1>1, <1>11, PairQuiet DEF vars
<1> QED
  BY <1>2, <1>3, <1>4, <1>5, <1>6, <1>7, <1>8, <1>9, <1>10, <1>11
  DEF Next, Thread, ReplaceHandler

\* They are so at the start.
LEMMA PairInit ==
    ASSUME NEW Old, NEW New, OnePair(Old, New)
    PROVE  Init => PairInv(Old, New)
<1> SUFFICES ASSUME Init PROVE PairInv(Old, New)
  OBVIOUS
<1>1. req.op = "reload" /\ meta.order = InitHosts
  BY DEF Init, NoRequest
<1>2. \A h \in Nodes :
        meta.status[h] = IF h \notin Range(InitHosts) THEN NoLine
                         ELSE IF Auth THEN "AUTHENFORCED" ELSE "CONFIGSUCCESS"
  BY DEF Init
<1>3. Keepers(Old) \subseteq Nodes /\ Keepers(Old) \subseteq Range(InitHosts)
  BY KeepersAre DEF Keepers
<1> QED
  BY <1>1, <1>2, <1>3 DEF PairInv, Up, AuditSuccess

\* A request that is not started yet has no results.
FreshInv ==
    pc \in {"access", "args"} => /\ ~req.skipped /\ ~req.err
                                /\ req.cop = "none" /\ req.rop = "none"

\* Only Accept leads to the first of these steps.
LEMMA FreshKeeps == BaseInv /\ FreshInv /\ [Next]_vars => FreshInv'
<1> SUFFICES ASSUME BaseInv, FreshInv, [Next]_vars PROVE FreshInv'
  OBVIOUS
<1>1. CASE Accept
  BY <1>1, AcceptIs DEF FreshInv
<1>2. CASE ReplaceAccess \/ ReloadAccess
  BY <1>2 DEF ReplaceAccess, ReloadAccess, Goto, Fails, FreshInv
<1>3. CASE \/ Collect \/ ForcedLine \/ PrioLine \/ MetaUnlock
           \/ ReloadRemoteAsync \/ ReloadGather \/ Crash
  BY <1>3 DEF Collect, ForcedLine, PrioLine, MetaUnlock, ReloadRemoteAsync,
              ReloadGather, Crash, GB_METAUPDATE_OR_GOTO, Goto, Fails, FreshInv
<1>4. CASE ReplaceRemoteAsync
  <2>1. pc' \in {"unlock", "forced", "collect"}
    BY <1>4, StartIs
  <2> QED
    BY <2>1 DEF FreshInv
<1>5. ASSUME NEW h \in Nodes, Thread(h) \/ Environment(h) PROVE FreshInv'
  <2>1. UNCHANGED <<pc, req>>
    BY <1>5, LinesAre, CallsAre, EnvironmentIs DEF Thread, WorkerConnect
  <2> QED
    BY <2>1 DEF FreshInv
<1>6. CASE GenConfig \/ UNCHANGED vars
  BY <1>6 DEF GenConfig, vars, FreshInv
<1> QED
  BY <1>1, <1>2, <1>3, <1>4, <1>5, <1>6 DEF Next, ReplaceHandler

\* The invariants together.
LEMMA PairHolds ==
    ASSUME NEW Old, NEW New, OnePair(Old, New)
    PROVE  Spec => [](BaseInv /\ ReloadInv /\ FreshInv /\ JournalInv(Old)
                        /\ PairInv(Old, New))
<1>1. \A r \in Requests : r.op = "replace" => r.old = Old
  BY DEF OnePair
<1>2. Init => BaseInv /\ ReloadInv /\ FreshInv /\ JournalInv(Old)
                /\ PairInv(Old, New)
  <2>1. Init => FreshInv
    BY DEF Init, FreshInv
  <2> QED
    BY <2>1, TypesInit, ReloadInit, JournalInit, PairInit DEF BaseInv
<1>3. BaseInv /\ ReloadInv /\ JournalInv(Old) /\ [Next]_vars => JournalInv(Old)'
  BY <1>1, JournalKeeps
<1>4. BaseInv /\ JournalInv(Old) /\ PairInv(Old, New) /\ [Next]_vars
        => PairInv(Old, New)'
  BY PairKeeps
<1> QED
  BY <1>2, <1>3, <1>4, BaseKeeps, ReloadInvKeeps, FreshKeeps, PTL DEF Spec

\* However often a replacement is repeated, forced and broken off, and however
\* many hosts the block has, the hosts glusterBlockReplaceNodeRemoteAsync finds
\* valid fill its args[] and fit into it.
THEOREM ArgsSafety ==
    ASSUME NEW Old, NEW New, OnePair(Old, New)
    PROVE  Spec => []ArgsFit
<1>1. BaseInv /\ JournalInv(Old) /\ PairInv(Old, New) => ArgsFit
  <2> SUFFICES ASSUME BaseInv, JournalInv(Old), PairInv(Old, New), pc = "args"
               PROVE  ArgsFilled
    BY DEF ArgsFit
  <2>1. req.old = Old
    BY DEF BaseInv, FlowInv, JournalInv
  <2>2. Others(Old) \in {NewHosts(Old, New), Keepers(Old)}
    BY OthersAre
  <2> QED
    BY <2>1, <2>2, KeepersAre DEF ArgsFilled
<1> QED
  BY <1>1, PairHolds, PTL

-----------------------------------------------------------------------------
(***************************************************************************)
(* What a replacement reports.  The portals' status is that of the last    *)
(* thread alone, so the portals of all hosts are known to be replaced only *)
(* when there is one such host: with three or more paths the last may have *)
(* been replaced and another not.                                          *)
(***************************************************************************)

\* The portals of a host are those of before or of after the replacement, and
\* of after once a line or an answer says so.
PortalsInv(Old, New) ==
    /\ \A h \in Keepers(Old) \ (past.strayed \cup past.torn) :
         /\ node[h].portals \in {Range(InitHosts), NewHosts(Old, New)}
         /\ meta.status[h] = "RPSUCCESS" => node[h].portals = NewHosts(Old, New)
         /\ pc = "collect" /\ work[h] = "ok"
              => node[h].portals = NewHosts(Old, New)
    /\ New \notin past.strayed /\ node[New].target
         => node[New].portals = NewHosts(Old, New)

\* What the exit of a thread, and a thread that was not started, says.
CollectInv(Old, New) ==
    pc = "collect" =>
      /\ req.args = Keepers(Old) /\ req.hosts = NewHosts(Old, New)
      /\ req.cop \in {"none", "skipped"} /\ ~req.skipped
      /\ work[New] = "done" \/ req.cop = "skipped"
           => meta.status[New] \in AuditSuccess
      /\ req.cop = "skipped" => work[New] = "none"
      /\ work[Old] = "done" => meta.status[Old] = "CLEANUPSUCCESS"
      /\ \A h \in Keepers(Old) :
           /\ work[h] = "done" \/ req.rop # "none"
                => meta.status[h] = "RPSUCCESS"
           /\ req.rop # "none" => work[h] = "none"
      /\ req.rop = "none" => Keepers(Old) # {}

\* What the three statuses of a replace say when the threads are joined, that
\* of the portals only when it is the status of all of them.
EndInv(Old, New) ==
    req.op = "replace" /\ ~req.err =>
      /\ pc \in {"forced", "prio", "unlock"} =>
           /\ req.cop # "failed" \/ req.skipped
                => meta.status[New] \in AuditSuccess
           /\ MPath <= 2 /\ (req.rop # "failed" \/ req.skipped)
                => \A h \in Keepers(Old) : meta.status[h] = "RPSUCCESS"
           /\ req.dop # "failed" \/ req.skipped \/ (req.force /\ pc # "forced")
                => meta.status[Old] = "CLEANUPSUCCESS"
      /\ pc \in {"collect", "forced", "prio"} => req.prio = meta.prio
      /\ pc = "unlock" => meta.prio # {Old}

PrioInv(New) ==
    \A h \in meta.prio : meta.prio = {h} /\ h \in Range(InitHosts) \cup {New}

ResultInv(Old, New) ==
    /\ PortalsInv(Old, New) /\ CollectInv(Old, New) /\ EndInv(Old, New)
    /\ PrioInv(New)

\* A step that touches none of it and leads to no step of a replace, nor to the
\* end of one without an error.
LEMMA ResultQuiet ==
    ASSUME NEW Old, NEW New, ResultInv(Old, New), UNCHANGED node,
           meta'.status = meta.status, PrioInv(New)',
           past.strayed \subseteq past'.strayed, past.torn \subseteq past'.torn,
           pc' \notin {"collect", "forced", "prio"},
           pc' = "unlock" => req'.op # "replace" \/ req'.err
    PROVE  ResultInv(Old, New)'
<1>1. PortalsInv(Old, New)'
  BY DEF ResultInv, PortalsInv
<1>2. CollectInv(Old, New)' /\ EndInv(Old, New)'
  BY DEF CollectInv, EndInv
<1> QED
  BY <1>1, <1>2 DEF ResultInv

\* Those of the handlers that do not, and a crash.
LEMMA ResultHandler ==
    ASSUME NEW Old, NEW New, OnePair(Old, New), BaseInv, JournalInv(Old),
           PairInv(Old, New), ResultInv(Old, New),
           \/ Accept \/ ReplaceAccess \/ MetaUnlock \/ ReloadAccess
           \/ ReloadRemoteAsync \/ ReloadGather \/ GenConfig \/ Crash
    PROVE  ResultInv(Old, New)'
<1>1. req \in Request /\ MetaOK(meta) /\ PrioInv(New) /\ FlowInv
  BY DEF BaseInv, TypeOK, MetaOK, ResultInv
<1>2. CASE Accept
  <2>1. PrioInv(New)'
    BY <1>1, <1>2, AcceptIs DEF PrioInv
  <2> QED
    BY <1>2, <2>1, AcceptIs, ResultQuiet
<1>3. CASE Crash
  <2>1. PrioInv(New)'
    BY <1>1, <1>3, CrashIs DEF PrioInv
  <2> QED
    BY <1>3, <2>1, CrashIs, ResultQuiet
<1>4. CASE GenConfig
  <2>1. UNCHANGED <<node, past, req>> /\ pc' = "idle"
    BY <1>4 DEF GenConfig
  <2>2. PICK h \in Valid : meta' \in {meta, [meta EXCEPT !.prio = {h}]}
    BY <1>4 DEF GenConfig, GB_METAUPDATE_OR_GOTO
  <2>3. h \in Nodes /\ {h} \in SUBSET Nodes
    BY DEF Valid
  <2>4. /\ [meta EXCEPT !.prio = {h}].status = meta.status
        /\ [meta EXCEPT !.prio = {h}].prio = {h}
    BY <1>1, <2>3, PrioOK
  <2>5. meta'.status = meta.status /\ meta'.prio \in {meta.prio, {h}}
    BY <2>2, <2>4
  <2>6. h \in Range(InitHosts) \cup {New}
    BY <2>3 DEF PairInv, Valid, blockhostIsValid, NoLine
  <2>7. PrioInv(New)'
    BY <1>1, <2>5, <2>6 DEF PrioInv
  <2> QED
    BY <2>1, <2>5, <2>7, ResultQuiet
<1>5. CASE \/ ReplaceAccess \/ MetaUnlock \/ ReloadAccess \/ ReloadRemoteAsync
           \/ ReloadGather
  <2>1. /\ UNCHANGED <<meta, node, past>>
        /\ pc' \notin {"collect", "forced", "prio"}
    BY <1>5 DEF ReplaceAccess, MetaUnlock, ReloadAccess, ReloadRemoteAsync,
                ReloadGather, Goto, Fails
  <2>2. pc' = "unlock" => \/ req' = [req EXCEPT !.err = TRUE]
                          \/ /\ req.op = "reload"
                             /\ \E e \in BOOLEAN : req' = [req EXCEPT !.err = e]
    BY <1>1, <1>5 DEF ReplaceAccess, MetaUnlock, ReloadAccess,
                ReloadRemoteAsync, ReloadGather, Goto, Fails, FlowInv
  <2>3. pc' = "unlock" => req'.op # "replace" \/ req'.err
    BY <1>1, <2>2 DEF Request
  <2>4. PrioInv(New)'
    BY <1>1, <2>1 DEF PrioInv
  <2> QED
    BY <2>1, <2>3, <2>4, ResultQuiet
<1> QED
  BY <1>2, <1>3, <1>4, <1>5

\* The threads start.
LEMMA ResultStart ==
    ASSUME NEW Old, NEW New, OnePair(Old, New), BaseInv, JournalInv(Old),
           PairInv(Old, New), FreshInv, ResultInv(Old, New), ReplaceRemoteAsync
    PROVE  ResultInv(Old, New)'
<1> DEFINE K == Keepers(Old)
<1>1. /\ req.old = Old /\ req.new = New /\ req'.old = Old /\ req'.new = New
      /\ req'.op = "replace" /\ UNCHANGED <<meta, node, past>>
      /\ req.op = "replace" /\ req'.force = req.force
  BY StartIs DEF JournalInv, PairInv
<1>2. FillArgs(req.old) = K
  BY <1>1, FillArgsIs
<1>3. /\ K \subseteq Nodes /\ New \in Nodes /\ Old \in Nodes /\ New \notin K
      /\ Old \notin K /\ Old # New
  BY KeepersAre DEF Keepers
<1>4. PrioInv(New)'
  BY <1>1 DEF ResultInv, PrioInv
<1> HIDE DEF K
<1>5. ~rCheck(K) => \A h \in K : meta.status[h] = "RPSUCCESS"
  BY DEF rCheck, Status
<1>6. CASE pc' = "unlock"
  <2>1. req'.err
    BY <1>6, StartIs
  <2> QED
    BY <1>1, <1>4, <1>6, <2>1, ResultQuiet
<1>7. CASE pc' = "forced"
  <2>1. Replaced(K) /\ req'.prio = meta.prio
    BY <1>2, <1>7, StartIs
  <2>2. /\ meta.status[New] \in AuditSuccess
        /\ meta.status[Old] = "CLEANUPSUCCESS"
        /\ \A h \in K : meta.status[h] = "RPSUCCESS"
    BY <1>1, <1>5, <2>1 DEF Replaced, cCheck, dCheck
  <2>3. PortalsInv(Old, New)'
    BY <1>1, <1>7 DEF ResultInv, PortalsInv
  <2>4. CollectInv(Old, New)' /\ EndInv(Old, New)'
    BY <1>1, <1>7, <2>1, <2>2 DEF CollectInv, EndInv, K
  <2> QED
    BY <1>4, <2>3, <2>4 DEF ResultInv
<1>8. CASE pc' = "collect"
  <2>1. /\ work' = [h \in Nodes |->
                      IF \/ h = New /\ ~cCheck
                         \/ h = Old /\ ~dCheck
                         \/ h \in K /\ rCheck(K)
                      THEN "begin" ELSE "none"]
        /\ req'.args = K /\ req'.prio = meta.prio
        /\ req'.hosts = {New} \cup Others(Old)
        /\ req'.cop = IF cCheck THEN "skipped" ELSE "none"
        /\ req'.rop = IF rCheck(K) THEN "none"
                      ELSE IF MPath = 1 THEN "success" ELSE "skipped"
        /\ ~req'.skipped
    BY <1>1, <1>2, <1>8, StartIs DEF FreshInv
  <2>2. {New} \cup Others(Old) = NewHosts(Old, New)
    BY OthersAre DEF NewHosts
  <2>3. rCheck(K) => K # {}
    BY DEF rCheck, Status
  <2>4. cCheck => meta.status[New] \in AuditSuccess
    BY <1>1 DEF cCheck
  <2>5. \A h \in Nodes : work'[h] \in {"begin", "none"}
    BY <2>1
  <2>6. /\ cCheck => work'[New] = "none"
        /\ ~rCheck(K) => \A h \in K : work'[h] = "none"
    BY <1>3, <2>1
  <2>7. CollectInv(Old, New)'
    BY <1>1, <1>3, <1>5, <2>1, <2>2, <2>3, <2>4, <2>5, <2>6 DEF CollectInv, K
  <2>8. PortalsInv(Old, New)'
    BY <1>1, <1>3, <2>5 DEF ResultInv, PortalsInv, K
  <2>9. EndInv(Old, New)'
    BY <1>1, <1>8, <2>1 DEF EndInv
  <2> QED
    BY <1>4, <2>7, <2>8, <2>9 DEF ResultInv
<1> QED
  BY <1>6, <1>7, <1>8, StartIs

\* The threads are joined.
LEMMA ResultCollect ==
    ASSUME NEW Old, NEW New, OnePair(Old, New), BaseInv, JournalInv(Old),
           PairInv(Old, New), ResultInv(Old, New), Collect
    PROVE  ResultInv(Old, New)'
<1> DEFINE K == Keepers(Old)
           l == LastArg(K)
<1>1. pc = "collect" /\ UNCHANGED <<meta, node, past>> /\ pc' = "forced"
        /\ req.op = "replace" /\ req \in Request
  BY DEF Collect, BaseInv, FlowInv, TypeOK
<1>2. /\ req.old = Old /\ req.new = New /\ CollectInv(Old, New)
      /\ req.dop \in {"none", "skipped"}
      /\ req.dop = "skipped" => meta.status[Old] = "CLEANUPSUCCESS"
      /\ req.args = K
  BY <1>1 DEF JournalInv, PairInv, ResultInv, CollectInv
<1>3. /\ req'.op = req.op /\ req'.prio = req.prio /\ req'.err = req.err
      /\ req'.skipped = req.skipped
      /\ req'.cop = IF req.cop = "none" THEN Exit(New) ELSE req.cop
      /\ req'.dop = IF req.dop = "none" THEN Exit(Old) ELSE req.dop
      /\ req'.rop = IF req.rop = "none" THEN Exit(l) ELSE req.rop
  BY <1>1, <1>2 DEF Collect, Request
<1>4. req'.cop # "failed" => meta.status[New] \in AuditSuccess
  BY <1>1, <1>2, <1>3 DEF CollectInv, Exit
<1>5. req'.dop # "failed" => meta.status[Old] = "CLEANUPSUCCESS"
  BY <1>1, <1>2, <1>3 DEF CollectInv, Exit
<1>6. ASSUME MPath <= 2, req'.rop # "failed"
      PROVE  \A h \in K : meta.status[h] = "RPSUCCESS"
  <2>1. CASE req.rop # "none"
    BY <1>1, <1>2, <2>1 DEF CollectInv
  <2>2. CASE req.rop = "none"
    <3>1. l \in K
      BY <1>1, <1>2, <2>2, LastArgIs DEF CollectInv
    <3>2. work[l] = "done"
      BY <1>3, <1>6, <2>2 DEF Exit
    <3>3. \A h \in K : h = l
      <4>1. IsFiniteSet(K) /\ Cardinality(K) <= 1 /\ Cardinality(K) \in Nat
        BY <1>6, KeepersAre, InitHostsAre, FS_CardinalityType
      <4>2. Cardinality(K) # 0
        BY <3>1, <4>1, FS_EmptySet
      <4>3. Cardinality(K) = 1
        BY <4>1, <4>2
      <4>4. \E x : K = {x}
        BY <4>1, <4>3, FS_Singleton
      <4> QED
        BY <3>1, <4>4
    <3> QED
      BY <1>1, <1>2, <3>1, <3>2, <3>3 DEF CollectInv
  <2> QED
    BY <2>1, <2>2
<1>7. PortalsInv(Old, New)' /\ PrioInv(New)'
  BY <1>1 DEF ResultInv, PortalsInv, PrioInv
<1>8. CollectInv(Old, New)'
  BY <1>1 DEF CollectInv
<1>9. EndInv(Old, New)'
  <2>1. (~req.err => req.prio = meta.prio) /\ ~req.skipped
    BY <1>1, <1>2 DEF ResultInv, EndInv, CollectInv
  <2> QED
    BY <1>1, <1>3, <1>4, <1>5, <1>6, <2>1 DEF EndInv
<1> QED
  BY <1>7, <1>8, <1>9 DEF ResultInv

\* The line of a forced delete, and the priority path.
LEMMA ResultLast ==
    ASSUME NEW Old, NEW New, OnePair(Old, New), BaseInv, JournalInv(Old),
           PairInv(Old, New), ResultInv(Old, New), ForcedLine \/ PrioLine
    PROVE  ResultInv(Old, New)'
<1>1. /\ req \in Request /\ MetaOK(meta) /\ meta \in Meta /\ past \in Past
      /\ meta.status \in [Nodes -> MetaStatus \cup {NoLine}]
      /\ req.op = "replace" /\ req.force \in BOOLEAN
      /\ "CLEANUPSUCCESS" \in MetaStatus
  BY DEF BaseInv, TypeOK, MetaOK, Meta, FlowInv, ForcedLine, PrioLine, Request,
         MetaStatus
<1>2. /\ req.old = Old /\ req.new = New /\ Old \in Nodes /\ New \in Nodes
      /\ Old # New /\ Keepers(Old) \subseteq Nodes /\ Old \notin Keepers(Old)
  BY <1>1, KeepersAre DEF JournalInv, PairInv, Keepers
<1>3. PrioInv(New) /\ EndInv(Old, New) /\ PortalsInv(Old, New)
  BY DEF ResultInv
<1>4. CASE ForcedLine
  <2>1. /\ pc = "forced" /\ UNCHANGED node
        /\ \/ pc' = "prio" /\ UNCHANGED req
           \/ pc' = "unlock" /\ req' = [req EXCEPT !.err = TRUE]
    BY <1>4 DEF ForcedLine, GB_METAUPDATE_OR_GOTO, Goto, Fails
  <2>2. /\ past'.strayed = past.strayed /\ past'.torn = past.torn
    BY <1>1, <1>4 DEF ForcedLine, Past
  <2>3. /\ meta' \in {meta, HostLine(Old, "CLEANUPSUCCESS")}
        /\ (pc' = "prio" /\ req.force /\ req.dop # "success"
              => meta' = HostLine(Old, "CLEANUPSUCCESS"))
    BY <1>1, <1>2, <1>4 DEF ForcedLine, GB_METAUPDATE_OR_GOTO, Goto, Fails
  <2>4. /\ HostLine(Old, "CLEANUPSUCCESS").status
             = [meta.status EXCEPT ![Old] = "CLEANUPSUCCESS"]
        /\ HostLine(Old, "CLEANUPSUCCESS").prio = meta.prio
    BY <1>1, <1>2, HostLineIs
  <2>5. /\ \A h \in Nodes \ {Old} : meta'.status[h] = meta.status[h]
        /\ meta'.status[Old] \in {meta.status[Old], "CLEANUPSUCCESS"}
        /\ (pc' = "prio" /\ req.force /\ req.dop # "success"
              => meta'.status[Old] = "CLEANUPSUCCESS")
        /\ meta'.prio = meta.prio
    BY <1>1, <1>2, <2>3, <2>4
  <2>6. PrioInv(New)' /\ CollectInv(Old, New)'
    BY <1>3, <2>1, <2>5 DEF PrioInv, CollectInv
  <2>7. PortalsInv(Old, New)'
    BY <1>2, <1>3, <2>1, <2>2, <2>5 DEF PortalsInv
  <2>8. EndInv(Old, New)'
    <3>1. CASE pc' = "prio" /\ UNCHANGED req
      BY <1>1, <1>2, <1>3, <2>1, <2>5, <3>1 DEF EndInv
    <3>2. CASE pc' = "unlock" /\ req' = [req EXCEPT !.err = TRUE]
      <4>1. req'.err
        BY <1>1, <3>2 DEF Request
      <4> QED
        BY <4>1 DEF EndInv
    <3> QED
      BY <2>1, <3>1, <3>2
  <2> QED
    BY <2>6, <2>7, <2>8 DEF ResultInv
<1>5. CASE PrioLine
  <2>1. /\ pc = "prio" /\ UNCHANGED <<node, past>> /\ pc' = "unlock"
        /\ \/ UNCHANGED req
           \/ req' = [req EXCEPT !.err = TRUE]
    BY <1>5 DEF PrioLine, GB_METAUPDATE_OR_GOTO, Goto, Fails
  <2>2. /\ meta' \in {meta, [meta EXCEPT !.prio = {New}]}
        /\ \/ req' = [req EXCEPT !.err = TRUE]
           \/ req.prio = {Old} /\ meta' = [meta EXCEPT !.prio = {New}]
           \/ req.prio # {Old} /\ meta' = meta
    BY <1>2, <1>5 DEF PrioLine, GB_METAUPDATE_OR_GOTO, Goto, Fails
  <2>3. /\ [meta EXCEPT !.prio = {New}].status = meta.status
        /\ [meta EXCEPT !.prio = {New}].prio = {New}
    BY <1>1, <1>2, PrioOK
  <2>4. /\ meta'.status = meta.status /\ meta'.prio \in {meta.prio, {New}}
        /\ \/ req' = [req EXCEPT !.err = TRUE]
           \/ meta'.prio = {New}
           \/ req.prio # {Old} /\ meta'.prio = meta.prio
    BY <2>2, <2>3
  <2>5. PrioInv(New)' /\ CollectInv(Old, New)'
    BY <1>3, <2>1, <2>4 DEF PrioInv, CollectInv
  <2>6. PortalsInv(Old, New)'
    BY <1>3, <2>1, <2>4 DEF PortalsInv
  <2>7. EndInv(Old, New)'
    <3>1. CASE UNCHANGED req /\ ~req.err
      <4>1. req' # [req EXCEPT !.err = TRUE]
        BY <1>1, <3>1 DEF Request
      <4>2. {New} # {Old}
        BY <1>2
      <4> QED
        BY <1>1, <1>3, <2>1, <2>4, <3>1, <4>1, <4>2 DEF EndInv
    <3>2. CASE req.err \/ req' = [req EXCEPT !.err = TRUE]
      <4>1. req'.err
        BY <1>1, <2>1, <3>2 DEF Request
      <4> QED
        BY <4>1 DEF EndInv
    <3> QED
      BY <2>1, <3>1, <3>2
  <2> QED
    BY <2>5, <2>6, <2>7 DEF ResultInv
<1> QED
  BY <1>4, <1>5

\* The lines of the threads.
LEMMA ResultLines ==
    ASSUME NEW Old, NEW New, OnePair(Old, New), BaseInv, JournalInv(Old),
           PairInv(Old, New), ResultInv(Old, New), NEW h \in Nodes,
           WorkerBegin(h) \/ WorkerResult(h) \/ WorkerAuth(h)
    PROVE  ResultInv(Old, New)'
<1> DEFINE K == Keepers(Old)
<1>1. /\ meta \in Meta /\ work \in [Nodes -> WorkSteps]
      /\ meta.status \in [Nodes -> MetaStatus \cup {NoLine}]
  BY DEF BaseInv, TypeOK, Meta
<1>2. /\ pc = "collect" /\ req.op = "replace"
      /\ UNCHANGED <<node, down, late, pc, req, past>>
  BY LinesAre
<1>3. /\ req.old = Old /\ req.new = New /\ Old \in Nodes /\ New \in Nodes
      /\ Old # New /\ K \subseteq Nodes /\ Old \notin K /\ New \notin K
  BY <1>2, KeepersAre DEF JournalInv, PairInv, Keepers
<1>4. CollectInv(Old, New) /\ PortalsInv(Old, New) /\ EndInv(Old, New)
        /\ PrioInv(New)
  BY DEF ResultInv
<1>5. PICK s \in MetaStatus, x \in {"call", "auth", "done", "failed"} :
         /\ meta' \in {meta, HostLine(h, s)}
         /\ work' = [work EXCEPT ![h] = x]
         /\ x \in {"call", "auth", "done"} => meta' = HostLine(h, s)
         /\ \/ /\ work[h] = "begin" /\ x \in {"call", "failed"}
               /\ s = IF h = req.new THEN "CONFIGINPROGRESS"
                      ELSE IF h = req.old THEN "CLEANUPINPROGRESS"
                      ELSE "RPINPROGRESS"
            \/ /\ work[h] = "ok"
               /\ s = IF h = req.new THEN "CONFIGSUCCESS"
                      ELSE IF h = req.old THEN "CLEANUPSUCCESS"
                      ELSE "RPSUCCESS"
               /\ x # "call"
            \/ /\ work[h] = "err" /\ x = "failed"
               /\ s = IF h = req.new THEN "CONFIGFAIL"
                      ELSE IF h = req.old THEN "CLEANUPFAIL"
                      ELSE "RPFAIL"
            \/ /\ work[h] = "auth" /\ x \in {"done", "failed"}
               /\ s = "AUTHENFORCED"
  BY LinesAre
<1>6. /\ HostLine(h, s).status = [meta.status EXCEPT ![h] = s]
      /\ HostLine(h, s).prio = meta.prio
  BY <1>1, HostLineIs
<1>7. /\ meta'.status[h] \in {meta.status[h], s}
      /\ \A g \in Nodes \ {h} : meta'.status[g] = meta.status[g]
      /\ x \in {"call", "auth", "done"} => meta'.status[h] = s
      /\ meta'.prio = meta.prio
  BY <1>1, <1>5, <1>6
<1>8. /\ work'[h] = x /\ work[h] # "none"
      /\ \A g \in Nodes \ {h} : work'[g] = work[g]
  BY <1>1, <1>5
<1>9. work[h] = "auth" => h = New
  BY <1>2, <1>3 DEF JournalInv, ThreadInv, DeleteInv, PortalInv
\* What "done" says of the line.
<1>10. /\ x = "done" /\ h = New => s \in AuditSuccess
       /\ x = "done" /\ h = Old => s = "CLEANUPSUCCESS"
       /\ x = "done" /\ h \in K => s = "RPSUCCESS"
  BY <1>3, <1>5, <1>9 DEF AuditSuccess
<1>11. h \in K /\ s = "RPSUCCESS" => work[h] = "ok"
  BY <1>3, <1>5
<1> HIDE DEF K
<1>12. PortalsInv(Old, New)'
  <2>1. ASSUME NEW g \in K \ (past.strayed \cup past.torn)
        PROVE  /\ node[g].portals \in {Range(InitHosts), NewHosts(Old, New)}
               /\ meta'.status[g] = "RPSUCCESS"
                    => node[g].portals = NewHosts(Old, New)
               /\ work'[g] = "ok" => node[g].portals = NewHosts(Old, New)
    <3>1. /\ node[g].portals \in {Range(InitHosts), NewHosts(Old, New)}
          /\ meta.status[g] = "RPSUCCESS" => node[g].portals = NewHosts(Old, New)
          /\ work[g] = "ok" => node[g].portals = NewHosts(Old, New)
          /\ g \in Nodes
      BY <1>2, <1>3, <1>4, <2>1 DEF PortalsInv, K
    <3>2. CASE g # h
      BY <1>7, <1>8, <3>1, <3>2
    <3>3. CASE g = h
      BY <1>7, <1>8, <1>11, <3>1, <3>3
    <3> QED
      BY <3>2, <3>3
  <2> QED
    BY <1>2, <1>4, <2>1 DEF PortalsInv, K
<1>13. CollectInv(Old, New)'
  <2>1. /\ req.args = K /\ req.hosts = NewHosts(Old, New)
        /\ req.cop \in {"none", "skipped"} /\ ~req.skipped
        /\ work[New] = "done" \/ req.cop = "skipped"
             => meta.status[New] \in AuditSuccess
        /\ req.cop = "skipped" => work[New] = "none"
        /\ work[Old] = "done" => meta.status[Old] = "CLEANUPSUCCESS"
        /\ \A g \in K :
             /\ work[g] = "done" \/ req.rop # "none"
                  => meta.status[g] = "RPSUCCESS"
             /\ req.rop # "none" => work[g] = "none"
        /\ req.rop = "none" => K # {}
    BY <1>2, <1>4 DEF CollectInv, K
  <2>2. /\ work'[New] = "done" \/ req.cop = "skipped"
             => meta'.status[New] \in AuditSuccess
        /\ req.cop = "skipped" => work'[New] = "none"
    BY <1>3, <1>7, <1>8, <1>10, <2>1
  <2>3. work'[Old] = "done" => meta'.status[Old] = "CLEANUPSUCCESS"
    BY <1>3, <1>7, <1>8, <1>10, <2>1
  <2>4. \A g \in K : /\ work'[g] = "done" \/ req.rop # "none"
                          => meta'.status[g] = "RPSUCCESS"
                     /\ req.rop # "none" => work'[g] = "none"
    BY <1>3, <1>7, <1>8, <1>10, <2>1
  <2> QED
    BY <1>2, <2>1, <2>2, <2>3, <2>4 DEF CollectInv, K
<1>14. EndInv(Old, New)' /\ PrioInv(New)'
  BY <1>2, <1>4, <1>7 DEF EndInv, PrioInv
<1> QED
  BY <1>12, <1>13, <1>14 DEF ResultInv

\* What a portal call makes of the portals of before or after.
LEMMA PortalCall ==
    ASSUME NEW Old, NEW New, OnePair(Old, New), BaseInv, NEW h \in Nodes,
           NEW call \in Call, call.op = "portal", call.old = Old,
           call.new = New,
           node[h].portals \in {Range(InitHosts), NewHosts(Old, New)}
    PROVE  /\ Serve(h, call).state.portals
                \in {Range(InitHosts), NewHosts(Old, New)}
           /\ node[h].portals = NewHosts(Old, New)
                => Serve(h, call).state.portals = NewHosts(Old, New)
           /\ Serve(h, call).exit = "ok"
                => Serve(h, call).state.portals = NewHosts(Old, New)
           /\ node[h].target /\ node[h].loaded =>
                /\ Serve(h, call).exit = "ok"
                /\ Serve(h, call).state.target /\ Serve(h, call).state.loaded
<1> DEFINE s == node[h]
           a == block_replace(s, call)
<1>1. node \in [Nodes -> NodeState] /\ s \in NodeState
  BY DEF BaseInv, TypeOK
<1>2. Serve(h, call) = a
  BY <1>1, ServeIs
<1>3. \/ ~(s.target /\ s.loaded) /\ a.state = s /\ a.exit = "err"
      \/ /\ s.target /\ s.loaded /\ call.new \in s.portals
         /\ a.state = s /\ a.exit = "ok"
      \/ /\ s.target /\ s.loaded
         /\ call.new \notin s.portals /\ call.old \notin s.portals
         /\ a.state = s /\ a.exit = "err"
      \/ /\ s.target /\ s.loaded
         /\ call.new \notin s.portals /\ call.old \in s.portals
         /\ a.state.target /\ a.state.loaded
         /\ a.state.portals = (s.portals \ {call.old}) \cup {call.new}
         /\ a.state \in NodeState
         /\ a.exit = "ok"
  BY <1>1, Answers
<1>4. /\ Old \in Range(InitHosts) /\ New \notin Range(InitHosts)
      /\ New \in NewHosts(Old, New)
      /\ (Range(InitHosts) \ {Old}) \cup {New} = NewHosts(Old, New)
  BY DEF OnePair, NewHosts, Keepers
<1> HIDE DEF a, s
<1>5. s.portals \in {Range(InitHosts), NewHosts(Old, New)}
  BY DEF s
<1> QED
  BY <1>2, <1>3, <1>4, <1>5 DEF s

\* The calls of the threads.
LEMMA ResultCalls ==
    ASSUME NEW Old, NEW New, OnePair(Old, New), BaseInv, JournalInv(Old),
           PairInv(Old, New), ResultInv(Old, New), NEW h \in Nodes,
           \/ RpcServed(h) \/ RpcBroken(h) \/ RpcLost(h) \/ RpcTimeout(h)
    PROVE  ResultInv(Old, New)'
<1> DEFINE K == Keepers(Old)
           N == NewHosts(Old, New)
           a == Serve(h, CallTo(h))
<1>1. /\ work \in [Nodes -> WorkSteps] /\ node \in [Nodes -> NodeState]
      /\ req \in Request /\ node[h] \in NodeState
      /\ node[h].target \in BOOLEAN
  BY DEF BaseInv, TypeOK, NodeState
<1>2. /\ work[h] = "sent" /\ pc \in {"collect", "gather"}
      /\ UNCHANGED <<meta, pc, req>> /\ CallTo(h) \in Call
      /\ past.strayed \subseteq past'.strayed /\ past.torn \subseteq past'.torn
  BY CallsAre
<1>3. PICK x \in {"ok", "err"}, n \in NodeState :
         /\ work' = [work EXCEPT ![h] = x]
         /\ node' = [node EXCEPT ![h] = n]
         /\ \/ n \in {node[h], a.state}
            \/ /\ n \in Broken(h, CallTo(h))
               /\ CallTo(h).op = "reload" \/ past'.torn = past.torn \cup {h}
         /\ x = "ok" => a.exit = "ok" /\ n = a.state
  BY CallsAre
<1>4. /\ work'[h] = x /\ node'[h] = n
      /\ \A g \in Nodes \ {h} : work'[g] = work[g] /\ node'[g] = node[g]
  BY <1>1, <1>3
<1>5. /\ K \subseteq Nodes /\ New \in Nodes /\ Old \in Nodes /\ New \notin K
      /\ Old \notin K /\ Old # New
  BY KeepersAre DEF Keepers
<1>6. CollectInv(Old, New) /\ PortalsInv(Old, New) /\ EndInv(Old, New)
        /\ PrioInv(New)
  BY DEF ResultInv
\* The call of a reload leaves target and portals.
<1>7. ASSUME pc = "gather"
      PROVE  (n.target <=> node[h].target) /\ n.portals = node[h].portals
  <2>1. CallTo(h).op = "reload"
    BY <1>1, <1>7, CallToIs, ThreadFlow DEF BaseInv, FlowInv
  <2>2. a = block_reload(node[h])
    BY <1>1, <1>2, <2>1, ServeIs
  <2>3. LET b == block_reload(node[h])
        IN \/ node[h].target /\ b.state.target /\ b.state.portals = node[h].portals
           \/ b.state = node[h]
    BY <1>1, <1>2, Answers
  <2>4. n \in Broken(h, CallTo(h)) =>
          n.target = node[h].target /\ n.portals = node[h].portals
    BY <1>1, <1>2, <2>1, BrokenIs
  <2> HIDE DEF a
  <2>5. \/ node[h].target /\ a.state.target /\ a.state.portals = node[h].portals
        \/ a.state = node[h]
    BY <2>2, <2>3
  <2> QED
    BY <1>3, <2>4, <2>5
\* That of a replace by the role of the host.
<1>8. ASSUME pc = "collect"
      PROVE  /\ req.old = Old /\ req.new = New /\ req.op = "replace"
             /\ CallTo(h).old = Old /\ CallTo(h).new = New
             /\ CallTo(h).hosts = N
             /\ CallTo(h).op = IF h = New THEN "create"
                               ELSE IF h = Old THEN "delete" ELSE "portal"
  <2>1. req.old = Old /\ req.new = New /\ req.op = "replace" /\ Old # New
    BY <1>5, <1>8, ThreadFlow DEF JournalInv, PairInv
  <2> QED
    BY <1>1, <1>6, <1>8, <2>1, CallToIs DEF CollectInv
<1>9. ASSUME h \in K, h \notin past'.strayed \cup past'.torn
      PROVE  /\ n.portals \in {Range(InitHosts), N}
             /\ node[h].portals = N => n.portals = N
             /\ pc = "collect" /\ x = "ok" => n.portals = N
  <2>1. node[h].portals \in {Range(InitHosts), N}
    BY <1>2, <1>6, <1>9 DEF PortalsInv
  <2>2. CASE pc = "gather"
    BY <1>7, <2>1, <2>2
  <2>3. CASE pc = "collect"
    <3>0. n \in {node[h], a.state}
      BY <1>3, <1>8, <1>9, <2>3
    <3>1. /\ a.state.portals \in {Range(InitHosts), N}
          /\ node[h].portals = N => a.state.portals = N
          /\ a.exit = "ok" => a.state.portals = N
      BY <1>2, <1>5, <1>8, <1>9, <2>1, <2>3, PortalCall
    <3> HIDE DEF a, N
    <3> QED
      BY <1>3, <2>1, <3>0, <3>1
  <2> QED
    BY <1>2, <2>2, <2>3
<1>10. ASSUME h = New, New \notin past'.strayed, n.target
       PROVE  n.portals = N
  <2>1. New \notin past.strayed /\ (node[h].target => node[h].portals = N)
    BY <1>2, <1>6, <1>10 DEF PortalsInv
  <2>2. CASE pc = "gather"
    BY <1>7, <1>10, <2>1, <2>2
  <2>3. CASE pc = "collect"
    <3>1. CallTo(h).op = "create" /\ a = block_create(node[h], CallTo(h))
            /\ CallTo(h).hosts = N
      BY <1>1, <1>2, <1>8, <1>10, <2>3, ServeIs
    <3>2. LET b == block_create(node[h], CallTo(h))
          IN \/ node[h].target /\ b.state = node[h] /\ b.exit = "err"
             \/ /\ ~node[h].target /\ b.state = Configured(CallTo(h).hosts)
                /\ b.exit = "ok"
      BY <1>1, <1>2, Answers
    <3>3. n \in {node[h], a.state}
      BY <1>1, <1>2, <1>3, <3>1, BrokenIs
    <3> HIDE DEF a
    <3>4. a.state = node[h] \/ a.state = Configured(CallTo(h).hosts)
      BY <3>1, <3>2
    <3>5. Configured(CallTo(h).hosts).portals = N
      BY <3>1 DEF Configured
    <3> QED
      BY <1>10, <2>1, <3>3, <3>4, <3>5
  <2> QED
    BY <1>2, <2>2, <2>3
<1> HIDE DEF K, N, a
<1>11. PortalsInv(Old, New)'
  <2>1. ASSUME NEW g \in K \ (past'.strayed \cup past'.torn)
        PROVE  /\ node'[g].portals \in {Range(InitHosts), N}
               /\ meta.status[g] = "RPSUCCESS" => node'[g].portals = N
               /\ pc = "collect" /\ work'[g] = "ok" => node'[g].portals = N
    <3>1. /\ node[g].portals \in {Range(InitHosts), N}
          /\ meta.status[g] = "RPSUCCESS" => node[g].portals = N
          /\ pc = "collect" /\ work[g] = "ok" => node[g].portals = N
          /\ g \in Nodes
      BY <1>2, <1>5, <1>6, <2>1 DEF PortalsInv, K, N
    <3>2. CASE g # h
      BY <1>4, <3>1, <3>2
    <3>3. CASE g = h
      BY <1>4, <1>9, <2>1, <3>1, <3>3
    <3> QED
      BY <3>2, <3>3
  <2>2. ASSUME New \notin past'.strayed, node'[New].target
        PROVE  node'[New].portals = N
    <3>1. CASE New = h
      BY <1>4, <1>10, <2>2, <3>1
    <3>2. CASE New # h
      BY <1>2, <1>4, <1>5, <1>6, <2>2, <3>2 DEF PortalsInv, N
    <3> QED
      BY <3>1, <3>2
  <2> QED
    BY <1>2, <2>1, <2>2 DEF PortalsInv, K, N
<1>12. CollectInv(Old, New)'
  BY <1>2, <1>4, <1>5, <1>6 DEF CollectInv, K
<1>13. EndInv(Old, New)' /\ PrioInv(New)'
  BY <1>2, <1>6 DEF EndInv, PrioInv
<1> QED
  BY <1>11, <1>12, <1>13 DEF ResultInv

\* A thread connects; the environment.
LEMMA ResultRest ==
    ASSUME NEW Old, NEW New, OnePair(Old, New), BaseInv, LateInv,
           JournalInv(Old), PairInv(Old, New), ResultInv(Old, New),
           NEW h \in Nodes, WorkerConnect(h) \/ Environment(h)
    PROVE  ResultInv(Old, New)'
<1>1. /\ work \in [Nodes -> WorkSteps] /\ node \in [Nodes -> NodeState]
      /\ late \in [Nodes -> SUBSET Call]
  BY DEF BaseInv, TypeOK
<1>2. /\ Keepers(Old) \subseteq Nodes /\ New \in Nodes /\ Old \in Nodes
  BY KeepersAre
<1>3. CollectInv(Old, New) /\ PortalsInv(Old, New) /\ EndInv(Old, New)
        /\ PrioInv(New)
  BY DEF ResultInv
<1>4. UNCHANGED <<meta, pc, req>>
  BY EnvironmentIs DEF WorkerConnect
<1>5. EndInv(Old, New)' /\ PrioInv(New)'
  BY <1>3, <1>4 DEF EndInv, PrioInv
<1>6. CASE WorkerConnect(h)
  <2>1. UNCHANGED <<node, past>> /\ work[h] = "call"
          /\ \E x \in {"sent", "failed"} : work' = [work EXCEPT ![h] = x]
    BY <1>6 DEF WorkerConnect, To
  <2>2. /\ work'[h] \in {"sent", "failed"}
        /\ \A g \in Nodes \ {h} : work'[g] = work[g]
    BY <1>1, <2>1
  <2>3. PortalsInv(Old, New)'
    BY <1>2, <1>3, <1>4, <2>1, <2>2 DEF PortalsInv
  <2>4. CollectInv(Old, New)'
    BY <1>2, <1>3, <1>4, <2>1, <2>2 DEF CollectInv
  <2> QED
    BY <1>5, <2>3, <2>4 DEF ResultInv
<1>7. CASE Environment(h)
  <2>1. /\ past'.torn = past.torn /\ past'.strayed = past.strayed
        /\ UNCHANGED work
        /\ \A g \in Nodes : \/ /\ node'[g].target <=> node[g].target
                               /\ node'[g].portals = node[g].portals
                            \/ g \in past.strayed
    BY <1>1, <1>7, EnvironmentIs DEF LateInv
  <2>2. PortalsInv(Old, New)'
    BY <1>2, <1>3, <1>4, <2>1 DEF PortalsInv
  <2>3. CollectInv(Old, New)'
    BY <1>3, <1>4, <2>1 DEF CollectInv
  <2> QED
    BY <1>5, <2>2, <2>3 DEF ResultInv
<1> QED
  BY <1>6, <1>7

\* It holds at the start.
LEMMA ResultInit ==
    ASSUME NEW Old, NEW New, OnePair(Old, New)
    PROVE  Init => ResultInv(Old, New)
<1> SUFFICES ASSUME Init PROVE ResultInv(Old, New)
  OBVIOUS
<1>1. /\ pc = "idle" /\ meta.prio \in {{}, {InitHosts[1]}}
      /\ InitHosts[1] \in Range(InitHosts)
  BY InitHostsAre DEF Init
<1>2. \A h \in Nodes :
        meta.status[h] = IF h \notin Range(InitHosts) THEN NoLine
                         ELSE IF Auth THEN "AUTHENFORCED" ELSE "CONFIGSUCCESS"
  BY DEF Init
<1>3. \A h \in Nodes : IF h \in Range(InitHosts)
                       THEN node[h].portals = Range(InitHosts)
                       ELSE ~node[h].target
  BY DEF Init, Configured, NoConfig
<1>4. Keepers(Old) \subseteq Nodes /\ Keepers(Old) \subseteq Range(InitHosts)
        /\ New \in Nodes /\ New \notin Range(InitHosts)
  BY KeepersAre DEF Keepers, OnePair
<1>5. PortalsInv(Old, New)
  BY <1>1, <1>2, <1>3, <1>4 DEF PortalsInv
<1>6. PrioInv(New)
  BY <1>1 DEF PrioInv
<1> QED
  BY <1>1, <1>5, <1>6 DEF ResultInv, CollectInv, EndInv

\* Every step keeps it.
LEMMA ResultKeeps ==
    ASSUME NEW Old, NEW New, OnePair(Old, New)
    PROVE  BaseInv /\ ReloadInv /\ FreshInv /\ JournalInv(Old)
             /\ PairInv(Old, New) /\ ResultInv(Old, New) /\ [Next]_vars
             => ResultInv(Old, New)'
<1> SUFFICES ASSUME BaseInv, ReloadInv, FreshInv, JournalInv(Old),
                    PairInv(Old, New), ResultInv(Old, New), [Next]_vars
             PROVE  ResultInv(Old, New)'
  OBVIOUS
<1>1. LateInv
  BY DEF ReloadInv
<1>2. CASE UNCHANGED vars
  <2>1. UNCHANGED <<meta, node, pc, req, work, past>>
    BY <1>2 DEF vars
  <2> QED
    BY <2>1 DEF ResultInv, PortalsInv, CollectInv, EndInv, PrioInv
<1>3. CASE \E h \in Nodes : Thread(h) \/ Environment(h)
  BY <1>1, <1>3, ResultLines, ResultCalls, ResultRest DEF Thread
<1>4. CASE \/ Accept \/ ReplaceHandler \/ Crash \/ ReloadAccess
           \/ ReloadRemoteAsync \/ ReloadGather \/ GenConfig
  BY <1>4, ResultHandler, ResultStart, ResultCollect, ResultLast
  DEF ReplaceHandler
<1> QED
  BY <1>2, <1>3, <1>4 DEF Next

\* What a replacement reports is so, whatever attempts, crashes and failures
\* came before it: the new host has the target and the old has not, the
\* priority is with a valid host, and every host has the portals of exactly the
\* hosts of the block.  For a block of one or two paths: see above.
THEOREM ReplaceResultSafety ==
    ASSUME NEW Old, NEW New, OnePair(Old, New), MPath <= 2
    PROVE  Spec => []ReplaceResult
<1>1. Init => ResultInv(Old, New)
  BY ResultInit
<1>2. BaseInv /\ JournalInv(Old) /\ PairInv(Old, New) /\ ResultInv(Old, New)
        => ReplaceResult
  <2> SUFFICES ASSUME BaseInv, JournalInv(Old), PairInv(Old, New),
                      ResultInv(Old, New),
                      Reported("SUCCESS") \/ Reported("SKIPPED")
               PROVE  /\ req.new \notin past.strayed => node[req.new].target
                      /\ req.old \notin past.strayed \cup past.forced
                           => ~node[req.old].target
                      /\ meta.prio \subseteq Valid
                      /\ \A h \in Valid \ (past.strayed \cup past.torn) :
                           node[h].portals = GenConfigPortals(h)
    BY DEF ReplaceResult
  <2>1. /\ pc = "unlock" /\ req.op = "replace" /\ ~req.err
        /\ \/ req.skipped
           \/ /\ req.cop # "failed" /\ req.rop # "failed"
              /\ req.dop # "failed" \/ req.force
    BY DEF Reported, ReplaceFormatResponse
  <2>2. req.old = Old /\ req.new = New
    BY <2>1 DEF JournalInv, PairInv
  <2>3. /\ meta.status[New] \in AuditSuccess
        /\ meta.status[Old] = "CLEANUPSUCCESS"
        /\ \A h \in Keepers(Old) : meta.status[h] = "RPSUCCESS"
        /\ meta.prio # {Old}
    BY <2>1 DEF ResultInv, EndInv
  <2>4. /\ Old \in Nodes /\ New \in Nodes /\ Keepers(Old) \subseteq Nodes
        /\ Range(InitHosts) = Keepers(Old) \cup {Old}
        /\ NewHosts(Old, New) = Keepers(Old) \cup {New}
        /\ Old \notin NewHosts(Old, New)
    BY KeepersAre DEF Keepers, NewHosts, OnePair
  <2>5. Valid = NewHosts(Old, New)
    <3>1. \A h \in Keepers(Old) \cup {New} : h \in Valid
      BY <2>3, <2>4 DEF Valid, blockhostIsValid, AuditSuccess
    <3>2. Old \notin Valid
      BY <2>3 DEF Valid, blockhostIsValid
    <3>3. \A h \in Nodes \ (Range(InitHosts) \cup {New}) : h \notin Valid
      BY DEF PairInv, Valid, blockhostIsValid, NoLine
    <3>4. Valid \subseteq Nodes
      BY DEF Valid
    <3> QED
      BY <2>4, <3>1, <3>2, <3>3, <3>4
  <2>6. /\ New \notin past.strayed => node[New].target
        /\ Old \notin past.strayed \cup past.forced => ~node[Old].target
    BY <2>3, <2>4 DEF JournalInv, ReplaceJournal
  <2>7. meta.prio \subseteq Valid
    BY <2>3, <2>4, <2>5 DEF ResultInv, PrioInv
  <2>8. ASSUME NEW h \in Valid \ (past.strayed \cup past.torn)
        PROVE  node[h].portals = GenConfigPortals(h)
    <3>1. GenConfigPortals(h) = NewHosts(Old, New)
      BY <2>5, <2>8 DEF GenConfigPortals
    <3>2. CASE h = New
      BY <2>6, <2>8, <3>1, <3>2 DEF ResultInv, PortalsInv
    <3>3. CASE h \in Keepers(Old)
      BY <2>3, <2>8, <3>1, <3>3 DEF ResultInv, PortalsInv
    <3> QED
      BY <2>4, <2>5, <2>8, <3>2, <3>3
  <2> QED
    BY <2>2, <2>6, <2>7, <2>8
<1> QED
  BY <1>1, <1>2, PairHolds, ResultKeeps, PTL DEF Spec

-----------------------------------------------------------------------------
(***************************************************************************)
(* A host that died can be replaced.  When nothing but the death of Old    *)
(* ever went wrong, every thread but that of the delete gets through, so   *)
(* that attempts without force leave New configured and all portals        *)
(* replaced, or nothing done at all, and the attempt with force is not     *)
(* refused.                                                                *)
(***************************************************************************)

\* Every node that is gone took a fault.
DownInv ==
    /\ down # {} => faults >= 1
    /\ faults <= 1 => \A g, h \in down : g = h

\* Nothing ever went wrong but the death of Old.
Clean(Old) == faults = 0 \/ (faults = 1 /\ down = {Old})

\* The hosts.
CleanHosts(Old, New) ==
    /\ past.strayed = {} /\ past.torn = {}
    /\ \A h \in Keepers(Old) : node[h].target /\ node[h].loaded
    /\ meta.status[New] = NoLine => ~node[New].target

\* The journal between two attempts: the replacement is done, but for the
\* delete, or not begun.
CleanLines(Old, New) ==
    pc # "collect" =>
      \/ meta.status[New] = NoLine
      \/ /\ meta.status[New] \in AuditSuccess
         /\ \A h \in Keepers(Old) : meta.status[h] = "RPSUCCESS"

\* The threads: none of those that matter fails.
CleanThreads(Old, New) ==
    pc = "collect" =>
      /\ work[New] \in {"begin", "call", "sent"} => ~node[New].target
      /\ work[New] \in {"call", "sent"} => meta.status[New] # NoLine
      /\ req.rop # "failed"
      /\ req.cop = "none" => work[New] \notin {"none", "err", "failed"}
      /\ req.rop = "none" =>
           \A h \in Keepers(Old) : work[h] \notin {"none", "err", "failed"}

\* The results.
CleanEnd ==
    req.op = "replace" =>
      /\ req.err => ~req.force
      /\ pc \in {"forced", "prio", "unlock"} /\ ~req.err
           => req.cop # "failed" /\ req.rop # "failed"

CleanState(Old, New) ==
    CleanHosts(Old, New) /\ CleanLines(Old, New) /\ CleanThreads(Old, New)
      /\ CleanEnd

CleanInv(Old, New) == DownInv /\ (Clean(Old) => CleanState(Old, New))

\* Which step takes a fault, and which a node.
LEMMA FaultsStep ==
    ASSUME BaseInv, [Next]_vars
    PROVE  \/ down' = down /\ faults' \in {faults, faults + 1}
           \/ \E h \in Nodes : Die(h)
<1>1. CASE \/ Accept \/ ReplaceAccess \/ ReplaceRemoteAsync \/ Collect
           \/ ForcedLine \/ PrioLine \/ MetaUnlock
  BY <1>1 DEF Accept, ReplaceAccess, ReplaceRemoteAsync, Collect, ForcedLine,
              PrioLine, MetaUnlock, GB_METAUPDATE_OR_GOTO, Fault, NoFault
<1>2. CASE \/ Crash \/ ReloadAccess \/ ReloadRemoteAsync \/ ReloadGather
           \/ GenConfig
  BY <1>2 DEF Crash, ReloadAccess, ReloadRemoteAsync, ReloadGather, GenConfig,
              GB_METAUPDATE_OR_GOTO, Fault, NoFault
<1>3. ASSUME NEW h \in Nodes, Thread(h)
      PROVE  down' = down /\ faults' \in {faults, faults + 1}
  BY <1>3, LinesAre, CallsAre DEF Thread, WorkerConnect, Fault, NoFault
<1>4. ASSUME NEW h \in Nodes, ServeLate(h) \/ Reboot(h)
      PROVE  down' = down /\ faults' \in {faults, faults + 1}
  BY <1>4 DEF ServeLate, Reboot, Fault
<1>5. CASE UNCHANGED vars
  BY <1>5 DEF vars
<1> QED
  BY <1>1, <1>2, <1>3, <1>4, <1>5 DEF Next, ReplaceHandler, Environment

\* The count of the nodes that are gone.
LEMMA DownKeeps == BaseInv /\ DownInv /\ [Next]_vars => DownInv'
<1> SUFFICES ASSUME BaseInv, DownInv, [Next]_vars PROVE DownInv'
  OBVIOUS
<1>1. faults \in Nat
  BY DEF BaseInv, TypeOK
<1>2. CASE down' = down /\ faults' \in {faults, faults + 1}
  BY <1>1, <1>2 DEF DownInv
<1>3. CASE \E h \in Nodes : Die(h)
  <2>1. PICK h \in Nodes : Die(h)
    BY <1>3
  <2>2. faults' = faults + 1 /\ down' = down \cup {h}
    BY <2>1 DEF Die, Fault
  <2>3. faults' >= 1
    BY <1>1, <2>2
  <2>4. faults' <= 1 => down = {}
    BY <1>1, <2>2 DEF DownInv
  <2> QED
    BY <2>2, <2>3, <2>4 DEF DownInv
<1> QED
  BY <1>2, <1>3, FaultsStep

\* A step that leads to a clean state takes no fault, but for the death.
LEMMA CleanBack ==
    ASSUME NEW Old, BaseInv, DownInv, Clean(Old)', down' = down,
           faults' \in {faults, faults + 1}
    PROVE  Clean(Old) /\ faults' = faults /\ down \subseteq {Old}
<1>1. faults \in Nat
  BY DEF BaseInv, TypeOK
<1>2. faults' # faults + 1
  BY <1>1 DEF Clean, DownInv
<1> QED
  BY <1>1, <1>2 DEF Clean, DownInv

\* A step of a handler that leaves the hosts, the statuses and the threads.
LEMMA CleanQuiet ==
    ASSUME NEW Old, NEW New, CleanState(Old, New), UNCHANGED node,
           meta'.status = meta.status, past'.strayed = past.strayed,
           past'.torn = past.torn, pc # "collect", pc' # "collect", CleanEnd'
    PROVE  CleanState(Old, New)'
BY DEF CleanState, CleanHosts, CleanLines, CleanThreads

\* The steps of the handlers that do.
LEMMA CleanHandler ==
    ASSUME NEW Old, NEW New, OnePair(Old, New), BaseInv, JournalInv(Old),
           FreshInv, CleanState(Old, New), faults' = faults,
           down \subseteq {Old},
           \/ Accept \/ ReplaceAccess \/ PrioLine \/ MetaUnlock \/ ReloadAccess
           \/ ReloadRemoteAsync \/ ReloadGather \/ GenConfig
    PROVE  CleanState(Old, New)'
<1>1. /\ req \in Request /\ MetaOK(meta) /\ CleanEnd /\ faults \in Nat
      /\ req.force \in BOOLEAN
      /\ (req.op = "replace" => req.old = Old)
  BY DEF BaseInv, TypeOK, MetaOK, CleanState, JournalInv, Request
<1>2. faults' # faults + 1
  BY <1>1
<1>3. CASE Accept
  <2>1. CleanEnd'
    BY <1>3, AcceptIs DEF CleanEnd
  <2>2. pc # "collect" /\ pc' # "collect" /\ UNCHANGED <<meta, node>>
          /\ past'.strayed = past.strayed /\ past'.torn = past.torn
    BY <1>3, AcceptIs
  <2> QED
    BY <2>1, <2>2, CleanQuiet
<1>4. CASE ReplaceAccess
  <2>1. UNCHANGED <<meta, node, past>> /\ pc = "access" /\ req.op = "replace"
    BY <1>4 DEF ReplaceAccess
  <2>2. \/ pc' = "args" /\ UNCHANGED req
        \/ /\ pc' = "unlock" /\ req' = [req EXCEPT !.err = TRUE]
           /\ (meta.ever \ (IF req.force THEN {req.old} ELSE {})) \cap down # {}
    BY <1>2, <1>4 DEF ReplaceAccess, Goto, Fails, Fault
  <2>3. CASE pc' = "args" /\ UNCHANGED req
    <3>1. CleanEnd'
      BY <1>1, <2>3 DEF CleanEnd
    <3> QED
      BY <2>1, <2>3, <3>1, CleanQuiet
  <2>4. CASE /\ pc' = "unlock" /\ req' = [req EXCEPT !.err = TRUE]
             /\ (meta.ever \ (IF req.force THEN {req.old} ELSE {})) \cap down # {}
    <3>1. ~req.force
      BY <1>1, <2>1, <2>4
    <3>2. req'.err /\ req'.force = req.force
      BY <1>1, <2>4 DEF Request
    <3>3. CleanEnd'
      BY <3>1, <3>2 DEF CleanEnd
    <3> QED
      BY <2>1, <2>4, <3>3, CleanQuiet
  <2> QED
    BY <2>2, <2>3, <2>4
<1>5. CASE PrioLine
  <2>1. /\ pc = "prio" /\ UNCHANGED <<node, past, req>> /\ pc' = "unlock"
        /\ meta' \in {meta, [meta EXCEPT !.prio = {req.new}]}
    BY <1>2, <1>5 DEF PrioLine, GB_METAUPDATE_OR_GOTO, Goto, Fault
  <2>2. [meta EXCEPT !.prio = {req.new}].status = meta.status
    BY <1>1, PrioOK DEF Request
  <2>3. meta'.status = meta.status
    BY <2>1, <2>2
  <2>4. CleanEnd'
    BY <1>1, <2>1 DEF CleanEnd
  <2> QED
    BY <2>1, <2>3, <2>4, CleanQuiet
<1>6. CASE GenConfig
  <2>1. UNCHANGED <<node, past, req>> /\ pc = "idle" /\ pc' = "idle"
    BY <1>6 DEF GenConfig
  <2>2. PICK h \in Valid : meta' \in {meta, [meta EXCEPT !.prio = {h}]}
    BY <1>6 DEF GenConfig, GB_METAUPDATE_OR_GOTO
  <2>3. {h} \in SUBSET Nodes
    BY DEF Valid
  <2>4. meta'.status = meta.status
    BY <1>1, <2>2, <2>3, PrioOK
  <2>5. CleanEnd'
    BY <1>1, <2>1 DEF CleanEnd
  <2> QED
    BY <2>1, <2>4, <2>5, CleanQuiet
<1>7. CASE MetaUnlock \/ ReloadAccess \/ ReloadRemoteAsync \/ ReloadGather
  <2>1. /\ UNCHANGED <<meta, node, past>> /\ pc # "collect" /\ pc' # "collect"
    BY <1>7 DEF MetaUnlock, ReloadAccess, ReloadRemoteAsync, ReloadGather, Goto,
                Fails
  <2>2. \/ req' = NoRequest
        \/ /\ req.op = "reload"
           /\ UNCHANGED req \/ \E e \in BOOLEAN : req' = [req EXCEPT !.err = e]
    BY <1>7 DEF MetaUnlock, ReloadAccess, ReloadRemoteAsync, ReloadGather, Goto,
                Fails, BaseInv, FlowInv
  <2>3. req'.op = "reload"
    BY <1>1, <2>2 DEF Request, NoRequest
  <2>4. CleanEnd'
    BY <2>3 DEF CleanEnd
  <2> QED
    BY <2>1, <2>4, CleanQuiet
<1> QED
  BY <1>3, <1>4, <1>5, <1>6, <1>7

\* The request is not refused, and starts its threads.
LEMMA CleanStart ==
    ASSUME NEW Old, NEW New, OnePair(Old, New), BaseInv, JournalInv(Old),
           PairInv(Old, New), FreshInv, CleanState(Old, New), faults' = faults,
           ReplaceRemoteAsync
    PROVE  CleanState(Old, New)'
<1> DEFINE K == Keepers(Old)
<1>1. /\ req.old = Old /\ req.new = New /\ pc = "args"
      /\ UNCHANGED <<meta, node, past>> /\ req'.force = req.force
      /\ req.op = "replace" /\ req'.op = "replace"
      /\ ~req.err /\ req.cop = "none" /\ req.rop = "none"
  BY StartIs DEF JournalInv, PairInv, FreshInv
<1>2. FillArgs(req.old) = K
  BY <1>1, FillArgsIs
<1>3. /\ K \subseteq Nodes /\ New \in Nodes /\ Old \in Nodes /\ New \notin K
      /\ Old \notin K /\ Old # New /\ faults \in Nat
  BY KeepersAre DEF Keepers, BaseInv, TypeOK
<1>4. /\ CleanHosts(Old, New)
      /\ \/ meta.status[New] = NoLine
         \/ /\ meta.status[New] \in AuditSuccess
            /\ \A h \in K : meta.status[h] = "RPSUCCESS"
  BY <1>1 DEF CleanState, CleanLines
<1>5. meta.status[Old] # NoLine
  <2>1. Old \in Range(meta.order)
    BY Places DEF OnePair
  <2> QED
    BY <2>1 DEF BaseInv, TypeOK
<1> HIDE DEF K
<1>6. ~Refused(K)
  <2>1. ~(New \in Valid /\ ~cCheck)
    BY <1>1, <1>4 DEF Valid, blockhostIsValid, NoLine, cCheck
  <2>2. ~(cCheck /\ Flag(K))
    <3>1. cCheck => \A h \in K : meta.status[h] = "RPSUCCESS"
      BY <1>1, <1>4 DEF cCheck, NoLine, AuditSuccess
    <3> QED
      BY <3>1 DEF Flag, Status
  <2> QED
    BY <1>1, <1>5, <2>1, <2>2 DEF Refused
<1>7. CASE pc' = "forced"
  <2>1. req'.err = req.err /\ req'.cop = req.cop /\ req'.rop = req.rop
    BY <1>7, StartIs
  <2>2. CleanEnd'
    BY <1>1, <2>1 DEF CleanEnd
  <2> QED
    BY <1>1, <1>7, <2>2, CleanQuiet
<1>8. CASE pc' = "collect"
  <2>1. /\ work' = [h \in Nodes |->
                      IF \/ h = New /\ ~cCheck
                         \/ h = Old /\ ~dCheck
                         \/ h \in K /\ rCheck(K)
                      THEN "begin" ELSE "none"]
        /\ req'.err = req.err
        /\ req'.cop = IF cCheck THEN "skipped" ELSE "none"
        /\ req'.rop = IF rCheck(K) THEN "none"
                      ELSE IF MPath = 1 THEN "success" ELSE "skipped"
    BY <1>1, <1>2, <1>8, StartIs
  <2>2. /\ cCheck => work'[New] = "none"
        /\ ~cCheck => work'[New] = "begin"
        /\ rCheck(K) => \A h \in K : work'[h] = "begin"
    BY <1>3, <2>1
  <2>3. ~cCheck => ~node[New].target
    BY <1>1, <1>4 DEF cCheck, CleanHosts
  <2>4. CleanThreads(Old, New)'
    BY <1>1, <2>1, <2>2, <2>3 DEF CleanThreads, K
  <2>5. CleanHosts(Old, New)'
    BY <1>1, <1>4 DEF CleanHosts
  <2>6. CleanLines(Old, New)' /\ CleanEnd'
    BY <1>1, <1>8, <2>1 DEF CleanLines, CleanEnd
  <2> QED
    BY <2>4, <2>5, <2>6 DEF CleanState
<1>9. pc' \in {"forced", "collect"}
  BY <1>2, <1>3, <1>6, StartIs
<1> QED
  BY <1>7, <1>8, <1>9

\* They are joined, and all but the delete have succeeded.
LEMMA CleanCollect ==
    ASSUME NEW Old, NEW New, OnePair(Old, New), BaseInv, JournalInv(Old),
           PairInv(Old, New), ResultInv(Old, New), CleanState(Old, New), Collect
    PROVE  CleanState(Old, New)'
<1> DEFINE K == Keepers(Old)
           l == LastArg(K)
<1>1. /\ pc = "collect" /\ UNCHANGED <<meta, node, past>> /\ pc' = "forced"
      /\ req.op = "replace" /\ req \in Request /\ Joined
  BY DEF Collect, BaseInv, FlowInv, TypeOK
<1>2. /\ req.new = New /\ CollectInv(Old, New) /\ req.args = K
      /\ CleanThreads(Old, New) /\ CleanEnd /\ CleanHosts(Old, New)
      /\ K \subseteq Nodes /\ New \in Nodes
  BY <1>1, KeepersAre DEF PairInv, ResultInv, CollectInv, CleanState
<1>3. /\ req'.op = req.op /\ req'.err = req.err /\ req'.force = req.force
      /\ req'.cop = IF req.cop = "none" THEN Exit(New) ELSE req.cop
      /\ req'.rop = IF req.rop = "none" THEN Exit(l) ELSE req.rop
      /\ req.rop \in OpStatus
  BY <1>1, <1>2 DEF Collect, Request
<1>4. \A h \in Nodes : work[h] \notin {"none", "err", "failed"}
                         => work[h] = "done" /\ Exit(h) = "success"
  BY <1>1 DEF Joined, Exit
<1>5. req'.cop # "failed" /\ meta.status[New] \in AuditSuccess
  BY <1>1, <1>2, <1>3, <1>4 DEF CollectInv, CleanThreads
<1>6. \A h \in K : meta.status[h] = "RPSUCCESS"
  BY <1>1, <1>2, <1>4 DEF CollectInv, CleanThreads
<1>7. req.rop = "none" => req'.rop # "failed"
  <2>1. req.rop = "none" => l \in K
    BY <1>1, <1>2, LastArgIs DEF CollectInv
  <2> QED
    BY <1>1, <1>2, <1>3, <1>4, <2>1 DEF CleanThreads
<1>8. req.rop # "failed"
  BY <1>1, <1>2 DEF CleanThreads
<1>9. CleanHosts(Old, New)' /\ CleanThreads(Old, New)'
  BY <1>1, <1>2 DEF CleanHosts, CleanThreads
<1>10. CleanLines(Old, New)'
  BY <1>1, <1>5, <1>6 DEF CleanLines
<1>11. CleanEnd'
  BY <1>1, <1>2, <1>3, <1>5, <1>7, <1>8 DEF CleanEnd
<1> QED
  BY <1>9, <1>10, <1>11 DEF CleanState

\* The line of a forced delete is one of Old.
LEMMA CleanForced ==
    ASSUME NEW Old, NEW New, OnePair(Old, New), BaseInv, JournalInv(Old),
           CleanState(Old, New), faults' = faults, ForcedLine
    PROVE  CleanState(Old, New)'
<1>1. /\ pc = "forced" /\ UNCHANGED node /\ req.op = "replace"
      /\ meta \in Meta /\ past \in Past /\ faults \in Nat
      /\ meta.status \in [Nodes -> MetaStatus \cup {NoLine}]
      /\ "CLEANUPSUCCESS" \in MetaStatus
  BY DEF ForcedLine, BaseInv, TypeOK, FlowInv, Meta, MetaStatus
<1>2. /\ req.old = Old /\ Old \in Nodes /\ New \in Nodes /\ Old # New
      /\ Keepers(Old) \subseteq Nodes /\ Old \notin Keepers(Old)
  BY <1>1, KeepersAre DEF JournalInv, Keepers
<1>3. past'.strayed = past.strayed /\ past'.torn = past.torn
  BY <1>1 DEF ForcedLine, Past
<1>4. /\ pc' = "prio" /\ UNCHANGED req
      /\ meta' \in {meta, HostLine(Old, "CLEANUPSUCCESS")}
  <2>1. faults' # faults + 1
    BY <1>1
  <2> QED
    BY <1>2, <2>1 DEF ForcedLine, GB_METAUPDATE_OR_GOTO, Goto, Fault
<1>5. HostLine(Old, "CLEANUPSUCCESS").status
        = [meta.status EXCEPT ![Old] = "CLEANUPSUCCESS"]
  BY <1>1, <1>2, HostLineIs
<1>6. \A h \in Nodes \ {Old} : meta'.status[h] = meta.status[h]
  BY <1>1, <1>2, <1>4, <1>5
<1>7. CleanHosts(Old, New)'
  BY <1>1, <1>2, <1>3, <1>6 DEF CleanState, CleanHosts
<1>8. CleanLines(Old, New)'
  BY <1>1, <1>2, <1>6 DEF CleanState, CleanLines
<1>9. CleanThreads(Old, New)' /\ CleanEnd'
  BY <1>1, <1>4 DEF CleanState, CleanThreads, CleanEnd
<1> QED
  BY <1>7, <1>8, <1>9 DEF CleanState

\* The lines of the threads.
LEMMA CleanWrites ==
    ASSUME NEW Old, NEW New, OnePair(Old, New), BaseInv, JournalInv(Old),
           PairInv(Old, New), ResultInv(Old, New), CleanState(Old, New),
           faults' = faults, NEW h \in Nodes,
           WorkerBegin(h) \/ WorkerResult(h) \/ WorkerAuth(h)
    PROVE  CleanState(Old, New)'
<1> DEFINE K == Keepers(Old)
<1>1. /\ meta \in Meta /\ work \in [Nodes -> WorkSteps] /\ faults \in Nat
      /\ meta.status \in [Nodes -> MetaStatus \cup {NoLine}]
  BY DEF BaseInv, TypeOK, Meta
<1>2. /\ pc = "collect" /\ UNCHANGED <<node, pc, req, past>>
  BY LinesAre
<1>3. /\ New \in Nodes /\ K \subseteq Nodes /\ New \notin K
  BY KeepersAre
<1>4. PICK s \in MetaStatus, x \in {"call", "auth", "done", "failed"} :
         /\ meta' \in {meta, HostLine(h, s)}
         /\ work' = [work EXCEPT ![h] = x]
         /\ x \in {"call", "auth", "done"} => meta' = HostLine(h, s)
         /\ x = "failed" => work[h] = "err" \/ faults' = faults + 1
         /\ work[h] # "begin" => x # "call"
         /\ work[h] \in {"begin", "ok", "err", "auth"}
  BY LinesAre
<1>5. x = "failed" => work[h] = "err"
  BY <1>1, <1>4
<1>6. HostLine(h, s).status = [meta.status EXCEPT ![h] = s]
  BY <1>1, HostLineIs
<1>7. NoLine \notin MetaStatus
  BY DEF NoLine, MetaStatus
<1>8. /\ meta'.status[h] \in {meta.status[h], s} /\ s # NoLine
      /\ \A g \in Nodes \ {h} : meta'.status[g] = meta.status[g]
      /\ x = "call" => meta'.status[h] = s
  BY <1>1, <1>4, <1>6, <1>7
<1>9. /\ work'[h] = x /\ \A g \in Nodes \ {h} : work'[g] = work[g]
  BY <1>1, <1>4
<1>10. CollectInv(Old, New) /\ CleanThreads(Old, New) /\ CleanHosts(Old, New)
         /\ CleanEnd
  BY DEF CleanState, ResultInv
<1> HIDE DEF K
<1>11. CleanHosts(Old, New)'
  BY <1>2, <1>3, <1>8, <1>10 DEF CleanHosts
<1>12. /\ work'[New] \in {"begin", "call", "sent"} => ~node[New].target
       /\ work'[New] \in {"call", "sent"} => meta'.status[New] # NoLine
  <2>1. /\ work[New] \in {"begin", "call", "sent"} => ~node[New].target
        /\ work[New] \in {"call", "sent"} => meta.status[New] # NoLine
    BY <1>2, <1>10 DEF CleanThreads
  <2>2. CASE h = New
    BY <1>4, <1>8, <1>9, <2>1, <2>2
  <2>3. CASE h # New
    BY <1>3, <1>8, <1>9, <2>1, <2>3
  <2> QED
    BY <2>2, <2>3
<1>13. req.cop = "none" => work'[New] \notin {"none", "err", "failed"}
  BY <1>2, <1>3, <1>4, <1>5, <1>9, <1>10 DEF CleanThreads
<1>14. req.rop = "none" =>
         \A g \in K : work'[g] \notin {"none", "err", "failed"}
  BY <1>2, <1>3, <1>4, <1>5, <1>9, <1>10 DEF CleanThreads, K
<1>15. CleanThreads(Old, New)'
  BY <1>2, <1>10, <1>12, <1>13, <1>14 DEF CleanThreads, K
<1>16. CleanLines(Old, New)' /\ CleanEnd'
  BY <1>2, <1>10 DEF CleanLines, CleanEnd
<1> QED
  BY <1>11, <1>15, <1>16 DEF CleanState

\* All hosts but Old are there to be connected to.
LEMMA CleanConnect ==
    ASSUME NEW Old, NEW New, OnePair(Old, New), BaseInv, CleanState(Old, New),
           faults' = faults, down \subseteq {Old}, NEW h \in Nodes,
           WorkerConnect(h)
    PROVE  CleanState(Old, New)'
<1>1. /\ work \in [Nodes -> WorkSteps] /\ faults \in Nat
      /\ UNCHANGED <<meta, node, pc, req, past>>
  BY DEF BaseInv, TypeOK, WorkerConnect
<1>2. /\ New \in Nodes /\ Keepers(Old) \subseteq Nodes /\ Old # New
      /\ Old \notin Keepers(Old)
  BY KeepersAre DEF Keepers
<1>3. faults' # faults + 1
  BY <1>1
<1>4. /\ work[h] = "call"
      /\ \/ work' = [work EXCEPT ![h] = "sent"]
         \/ work' = [work EXCEPT ![h] = "failed"] /\ h = Old
  BY <1>3 DEF WorkerConnect, To, Fault
<1>5. /\ \A g \in Nodes \ {h} : work'[g] = work[g]
      /\ work'[h] = "sent" \/ h = Old
  BY <1>1, <1>4
<1>6. CleanThreads(Old, New)'
  BY <1>1, <1>2, <1>4, <1>5 DEF CleanState, CleanThreads
<1> QED
  BY <1>1, <1>6 DEF CleanState, CleanHosts, CleanLines, CleanEnd

\* The calls: all but the delete are served and succeed.
LEMMA CleanCalls ==
    ASSUME NEW Old, NEW New, OnePair(Old, New), BaseInv, JournalInv(Old),
           PairInv(Old, New), ResultInv(Old, New), CleanState(Old, New),
           faults' = faults, down \subseteq {Old}, NEW h \in Nodes,
           \/ RpcServed(h) \/ RpcBroken(h) \/ RpcLost(h) \/ RpcTimeout(h)
    PROVE  CleanState(Old, New)'
<1> DEFINE K == Keepers(Old)
           a == Serve(h, CallTo(h))
<1>1. /\ work \in [Nodes -> WorkSteps] /\ node \in [Nodes -> NodeState]
      /\ req \in Request /\ node[h] \in NodeState /\ faults \in Nat
      /\ node[h].target \in BOOLEAN /\ node[h].loaded \in BOOLEAN
  BY DEF BaseInv, TypeOK, NodeState
<1>2. /\ work[h] = "sent" /\ pc \in {"collect", "gather"}
      /\ UNCHANGED <<meta, pc, req>> /\ CallTo(h) \in Call
  BY CallsAre
<1>3. /\ UNCHANGED past
      /\ \/ /\ node' = [node EXCEPT ![h] = a.state]
            /\ work' = [work EXCEPT ![h] = a.exit]
         \/ /\ h = Old /\ UNCHANGED node
            /\ work' = [work EXCEPT ![h] = "err"]
  <2>1. faults' # faults + 1
    BY <1>1
  <2> QED
    BY <2>1 DEF RpcServed, RpcBroken, RpcLost, RpcTimeout, Fault, Becomes, To
<1>4. /\ K \subseteq Nodes /\ New \in Nodes /\ Old \in Nodes /\ New \notin K
      /\ Old \notin K /\ Old # New
  BY KeepersAre DEF Keepers
<1>5. CollectInv(Old, New) /\ PortalsInv(Old, New) /\ CleanHosts(Old, New)
        /\ CleanLines(Old, New) /\ CleanThreads(Old, New) /\ CleanEnd
  BY DEF ResultInv, CleanState
<1>6. ASSUME pc = "gather"
      PROVE  /\ a.state.target <=> node[h].target
             /\ node[h].loaded => a.state.loaded
  <2>1. CallTo(h).op = "reload"
    BY <1>1, <1>6, CallToIs, ThreadFlow DEF BaseInv, FlowInv
  <2>2. a = block_reload(node[h])
    BY <1>1, <1>2, <2>1, ServeIs
  <2>3. LET b == block_reload(node[h])
        IN \/ node[h].target /\ b.state.target /\ b.state.loaded
           \/ b.state = node[h]
    BY <1>1, <1>2, Answers
  <2> HIDE DEF a
  <2> QED
    BY <1>1, <2>2, <2>3
<1>7. ASSUME pc = "collect"
      PROVE  /\ CallTo(h).old = Old /\ CallTo(h).new = New
             /\ CallTo(h).op = IF h = New THEN "create"
                               ELSE IF h = Old THEN "delete" ELSE "portal"
  <2>1. req.old = Old /\ req.new = New /\ req.op = "replace" /\ Old # New
    BY <1>4, <1>7, ThreadFlow DEF JournalInv, PairInv
  <2> QED
    BY <1>1, <2>1, CallToIs
\* A host that keeps the block replaces its portal.
<1>8. ASSUME h \in K
      PROVE  /\ a.state.target /\ a.state.loaded
             /\ pc = "collect" => a.exit = "ok"
  <2>1. node[h].target /\ node[h].loaded
    BY <1>5, <1>8 DEF CleanHosts
  <2>2. CASE pc = "gather"
    BY <1>6, <2>1, <2>2
  <2>3. CASE pc = "collect"
    <3>1. node[h].portals \in {Range(InitHosts), NewHosts(Old, New)}
      BY <1>5, <1>8 DEF PortalsInv, CleanHosts
    <3>2. CallTo(h).op = "portal"
      BY <1>4, <1>7, <1>8, <2>3
    <3>3. /\ a.exit = "ok" /\ a.state.target /\ a.state.loaded
      BY <1>2, <1>7, <2>1, <2>3, <3>1, <3>2, PortalCall
    <3> QED
      BY <3>3
  <2> QED
    BY <1>2, <2>2, <2>3
\* The new one is configured.
<1>9. ASSUME h = New, pc = "collect" PROVE a.exit = "ok"
  <2>1. ~node[h].target
    BY <1>2, <1>5, <1>9 DEF CleanThreads
  <2>2. a = block_create(node[h], CallTo(h))
    BY <1>1, <1>2, <1>7, <1>9, ServeIs
  <2>3. LET b == block_create(node[h], CallTo(h))
        IN \/ node[h].target /\ b.state = node[h] /\ b.exit = "err"
           \/ /\ ~node[h].target /\ b.state = Configured(CallTo(h).hosts)
              /\ b.exit = "ok"
    BY <1>1, <1>2, Answers
  <2> HIDE DEF a
  <2> QED
    BY <2>1, <2>2, <2>3
<1> HIDE DEF a, K
<1>10. /\ \A g \in Nodes \ {h} : work'[g] = work[g] /\ node'[g] = node[g]
       /\ \/ node'[h] = a.state /\ work'[h] = a.exit
          \/ h = Old /\ node'[h] = node[h] /\ work'[h] = "err"
  BY <1>1, <1>3
<1>11. CleanHosts(Old, New)'
  <2>1. \A g \in K : node[g].target /\ node[g].loaded
    BY <1>5 DEF CleanHosts, K
  <2>2. \A g \in K : node'[g].target /\ node'[g].loaded
    BY <1>4, <1>8, <1>10, <2>1
  <2>3. meta.status[New] = NoLine => ~node'[New].target
    <3>1. CASE h # New
      BY <1>4, <1>5, <1>10, <3>1 DEF CleanHosts
    <3>2. CASE h = New /\ pc = "collect"
      BY <1>2, <1>5, <3>2 DEF CleanThreads
    <3>3. CASE h = New /\ pc = "gather"
      BY <1>4, <1>5, <1>6, <1>10, <3>3 DEF CleanHosts
    <3> QED
      BY <1>2, <3>1, <3>2, <3>3
  <2> QED
    BY <1>2, <1>3, <1>5, <2>2, <2>3 DEF CleanHosts, K
<1>12. CleanThreads(Old, New)'
  <2> SUFFICES ASSUME pc = "collect" PROVE CleanThreads(Old, New)'
    BY <1>2 DEF CleanThreads
  <2>1. /\ work[New] \in {"begin", "call", "sent"} => ~node[New].target
        /\ work[New] \in {"call", "sent"} => meta.status[New] # NoLine
        /\ req.rop # "failed"
        /\ req.cop = "none" => work[New] \notin {"none", "err", "failed"}
        /\ req.rop = "none" =>
             \A g \in K : work[g] \notin {"none", "err", "failed"}
    BY <1>5 DEF CleanThreads, K
  <2>2. /\ work'[New] \in {"begin", "call", "sent"} => ~node'[New].target
        /\ work'[New] \in {"call", "sent"} => meta.status[New] # NoLine
        /\ req.cop = "none" => work'[New] \notin {"none", "err", "failed"}
    BY <1>4, <1>9, <1>10, <2>1
  <2>3. req.rop = "none" =>
          \A g \in K : work'[g] \notin {"none", "err", "failed"}
    BY <1>4, <1>8, <1>10, <2>1
  <2> QED
    BY <1>2, <2>1, <2>2, <2>3 DEF CleanThreads, K
<1>13. CleanLines(Old, New)' /\ CleanEnd'
  BY <1>2, <1>5 DEF CleanLines, CleanEnd
<1> QED
  BY <1>11, <1>12, <1>13 DEF CleanState

\* The environment does nothing else, and the death of Old changes nothing.
LEMMA CleanEnvironment ==
    ASSUME NEW Old, NEW New, BaseInv, LateInv, DownInv,
           Clean(Old) => CleanState(Old, New), Clean(Old)', NEW h \in Nodes,
           Environment(h)
    PROVE  CleanState(Old, New)'
<1>1. faults \in Nat /\ late \in [Nodes -> SUBSET Call]
  BY DEF BaseInv, TypeOK
<1>2. CASE ServeLate(h)
  <2>1. UNCHANGED <<down, faults, past>> /\ late[h] # {}
    BY <1>2 DEF ServeLate
  <2>2. Clean(Old)
    BY <1>1, <2>1, CleanBack
  <2>3. late[h] = {}
    BY <2>2 DEF CleanState, CleanHosts, LateInv
  <2> QED
    BY <2>1, <2>3
<1>3. CASE Reboot(h)
  <2>1. down' = down /\ faults' = faults + 1
    BY <1>3 DEF Reboot, Fault
  <2>2. faults' = faults
    BY <1>1, <2>1, CleanBack
  <2> QED
    BY <1>1, <2>1, <2>2
<1>4. CASE Die(h)
  <2>1. /\ faults' = faults + 1 /\ UNCHANGED <<meta, node, pc, req, work, past>>
    BY <1>4 DEF Die, Fault
  <2>2. Clean(Old)
    BY <1>1, <2>1 DEF Clean
  <2> QED
    BY <2>1, <2>2
    DEF CleanState, CleanHosts, CleanLines, CleanThreads, CleanEnd
<1> QED
  BY <1>2, <1>3, <1>4 DEF Environment

\* Every step keeps it.
LEMMA CleanKeeps ==
    ASSUME NEW Old, NEW New, OnePair(Old, New)
    PROVE  BaseInv /\ ReloadInv /\ FreshInv /\ JournalInv(Old)
             /\ PairInv(Old, New) /\ ResultInv(Old, New) /\ CleanInv(Old, New)
             /\ [Next]_vars
             => CleanInv(Old, New)'
<1> SUFFICES ASSUME BaseInv, ReloadInv, FreshInv, JournalInv(Old),
                    PairInv(Old, New), ResultInv(Old, New), CleanInv(Old, New),
                    [Next]_vars
             PROVE  CleanInv(Old, New)'
  OBVIOUS
<1>1. /\ LateInv /\ DownInv /\ (Clean(Old) => CleanState(Old, New))
      /\ faults \in Nat
  BY DEF ReloadInv, CleanInv, BaseInv, TypeOK
<1>2. DownInv'
  BY <1>1, DownKeeps
<1> SUFFICES ASSUME Clean(Old)' PROVE CleanState(Old, New)'
  BY <1>2 DEF CleanInv
<1>3. CASE \E h \in Nodes : Environment(h)
  BY <1>1, <1>3, CleanEnvironment
<1>4. CASE down' = down /\ faults' \in {faults, faults + 1}
  <2>1. CleanState(Old, New) /\ faults' = faults /\ down \subseteq {Old}
    BY <1>1, <1>4, CleanBack
  <2>2. CASE UNCHANGED vars
    <3>1. UNCHANGED <<meta, node, pc, req, work, past>>
      BY <2>2 DEF vars
    <3> QED
      BY <2>1, <3>1
      DEF CleanState, CleanHosts, CleanLines, CleanThreads, CleanEnd
  <2>3. ASSUME NEW h \in Nodes, Thread(h) PROVE CleanState(Old, New)'
    BY <2>1, <2>3, CleanWrites, CleanConnect, CleanCalls DEF Thread
  <2>4. CASE \/ Accept \/ ReplaceHandler \/ ReloadAccess \/ ReloadRemoteAsync
             \/ ReloadGather \/ GenConfig
    BY <2>1, <2>4, CleanHandler, CleanStart, CleanCollect, CleanForced
    DEF ReplaceHandler
  <2>5. ~Crash
    BY <1>1, <2>1 DEF Crash, Fault
  <2> QED
    BY <1>3, <2>2, <2>3, <2>4, <2>5 DEF Next
<1> QED
  BY <1>3, <1>4, FaultsStep DEF Environment

\* A node that died can be replaced: when nothing but the death of the old host
\* ever went wrong, a replace with force does not report FAIL, at the first
\* attempt and after any number of attempts without force.
THEOREM ForceSafety ==
    ASSUME NEW Old, NEW New, OnePair(Old, New)
    PROVE  Spec => []ForceCompletes
<1>1. Init => ResultInv(Old, New) /\ CleanInv(Old, New)
  <2> SUFFICES ASSUME Init PROVE CleanInv(Old, New)
    BY ResultInit
  <2>1. /\ pc = "idle" /\ down = {} /\ faults = 0 /\ req.op = "reload"
        /\ past.strayed = {} /\ past.torn = {}
    BY DEF Init, NoRequest
  <2>2. New \in Nodes /\ New \notin Range(InitHosts)
          /\ Keepers(Old) \subseteq Nodes /\ Keepers(Old) \subseteq Range(InitHosts)
    BY KeepersAre DEF OnePair, Keepers
  <2>3. meta.status[New] = NoLine /\ ~node[New].target
    BY <2>2 DEF Init, NoConfig
  <2>4. \A h \in Keepers(Old) : node[h].target /\ node[h].loaded
    BY <2>2 DEF Init, Configured
  <2> QED
    BY <2>1, <2>3, <2>4 DEF CleanInv, DownInv, CleanState, CleanHosts,
                            CleanLines, CleanThreads, CleanEnd
<1>2. BaseInv /\ JournalInv(Old) /\ CleanInv(Old, New) => ForceCompletes
  <2> SUFFICES ASSUME BaseInv, JournalInv(Old), CleanInv(Old, New),
                      Reported("FAIL"), req.force,
                      ~(faults > Cardinality(down \cap {req.old}))
               PROVE  FALSE
    BY DEF ForceCompletes
  <2>1. /\ pc = "unlock" /\ req.op = "replace" /\ faults \in Nat
        /\ req.old = Old
    BY DEF Reported, BaseInv, TypeOK, JournalInv
  <2>2. Clean(Old)
    <3>1. CASE Old \in down
      <4>1. down \cap {Old} = {Old}
        BY <3>1
      <4>2. Cardinality({Old}) = 1
        BY FS_Singleton
      <4>3. faults <= 1
        BY <2>1, <4>1, <4>2
      <4> QED
        BY <2>1, <3>1, <4>3 DEF Clean, CleanInv, DownInv
    <3>2. CASE Old \notin down
      <4>1. down \cap {Old} = {}
        BY <3>2
      <4>2. Cardinality({}) = 0
        BY FS_EmptySet
      <4> QED
        BY <2>1, <4>1, <4>2 DEF Clean
    <3> QED
      BY <3>1, <3>2
  <2>3. CleanEnd
    BY <2>2 DEF CleanInv, CleanState
  <2>4. ~req.err /\ req.cop # "failed" /\ req.rop # "failed"
    BY <2>1, <2>3 DEF CleanEnd
  <2> QED
    BY <2>4 DEF Reported, ReplaceFormatResponse
<1> QED
  BY <1>1, <1>2, PairHolds, ResultKeeps, CleanKeeps, PTL DEF Spec
=============================================================================
