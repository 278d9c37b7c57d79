---------------------------- MODULE ModifyProofs ----------------------------
(***************************************************************************)
(* Changing authentication and size, for every set of hosts, sizes and     *)
(* requests: what a status says of a host is true, no target outgrows the  *)
(* file, and what a request reports holds.  Each theorem names the faults  *)
(* and requests it excludes, and none excludes more than its run does.     *)
(***************************************************************************)
EXTENDS BlockModify, TLAPS

-----------------------------------------------------------------------------
(***************************************************************************)
(* The inductive invariants.                                               *)
(***************************************************************************)

\* The steps at which threads run, and those at which mobj is filled.
Running == {"collect", "undone"}

Filled == {"remote", "collect", "unwind", "reread", "undo", "undone"}

\* Where a handler is in its own operation, and what its calls carry.
HandlerInv ==
    /\ pc \notin Running => work = NoWork
    /\ pc \in {"passwd", "unwind", "reread", "undo", "undone"}
         => req.op = "auth"
    /\ pc \in {"resize", "sizeline"} => req.op = "size"
    /\ pc \in Filled =>
         /\ req.mobj.op = req.op
         /\ req.op = "size" => req.mobj.size = req.size

\* StatusSound at host h.
LineTrue(h) ==
    /\ meta.status[h] = "RSSUCCESS" => dev[h].size = meta.known[h]
    /\ meta.status[h] = "AUTHENFORCED" => dev[h].auth
    /\ meta.status[h] = "AUTHCLEARENFORCED" => ~dev[h].auth

\* A host is called after the line that says so, nothing is on the wire to one
\* that nobody gave up on, and a call that was answered took effect.
ThreadInv(h) ==
    /\ late[h] = {}
    /\ work[h] \in {"call", "sent", "ok", "err"} => meta.status[h] = BeginLine
    /\ work[h] = "ok" =>
         IF req.op = "size" THEN dev[h].size = req.size
         ELSE dev[h].auth = req.mobj.mode
    /\ LineTrue(h)

StatusInv == HandlerInv /\ \A h \in Hosts \ strayed : ThreadInv(h)

\* Requests that grow: targets, calls on the wire and the calls to come stay
\* below the size in the journal, and that below the file, which grows before
\* the journal says so.
GrowInv ==
    /\ meta.size <= file
    /\ \A h \in Hosts :
         /\ dev[h].size <= meta.size
         /\ \A call \in late[h] : call.op = "size" => call.size <= meta.size
    /\ ~req.force
    /\ pc \in {"resize", "sizeline"} => meta.size <= req.size
    /\ pc = "sizeline" => req.size = file
    /\ pc \in Filled /\ req.op = "size" => req.size <= meta.size

\* The line of h is from before the SIZE line of the request under way, which
\* has yet to overwrite it.
Outdated(h) ==
    /\ req.op = "size" /\ req.info.size # req.size
    /\ pc = "remote" \/ (pc = "collect" /\ work[h] = "begin")

\* A resize that is never cut short: RSSUCCESS is at the size in the journal,
\* and the request has every host there when its threads are through.
SizeInv ==
    /\ strayed = {}
    /\ pc \in {"resize", "sizeline"} => req.info.size = meta.size
    /\ pc \in Filled /\ req.op = "size" => meta.size = req.size
    /\ \A h \in Hosts :
         /\ late[h] = {}
         /\ meta.status[h] = "RSSUCCESS" =>
              dev[h].size = meta.size \/ Outdated(h)
         /\ pc = "collect" /\ req.op = "size"
              /\ work[h] \in {"none", "ok", "done"}
              => dev[h].size = req.size
    /\ SizeResult

\* The target of h asks for the password in the journal.
Enforced(h) ==
    dev[h].auth /\ dev[h].passwd = meta.passwd /\ meta.passwd # 0

\* Enables and resizes that are never cut short: AUTHENFORCED is with the
\* password in the journal, but while an enable is undone.
EnableInv ==
    /\ pc # "idle" /\ req.op = "auth" => req.mode
    /\ pc = "passwd" => req.info.passwd = meta.passwd
    /\ pc \in {"remote", "collect"} /\ req.op = "auth" =>
         req.mobj.mode /\ req.mobj.passwd = meta.passwd /\ meta.passwd # 0
    /\ pc \in {"unwind", "reread"} => req.mobj.mode
    /\ pc \in {"undo", "undone"} => ~req.mobj.mode
    /\ pc \in {"unwind", "reread", "undo", "undone"} => req.err
    /\ \A h \in Hosts :
         /\ meta.status[h] = "AUTHENFORCED" =>
              \/ Enforced(h) \/ pc \in {"reread", "undo"}
              \/ pc = "undone" /\ work[h] = "begin"
         /\ pc = "collect" /\ req.op = "auth"
              /\ work[h] \in {"none", "ok", "done"}
              => Enforced(h)
    /\ EnableResult

\* The file is as long as the journal says, but between the two writes, and
\* a thread fails through a fault alone.
ShrinkInv ==
    /\ pc = "sizeline" => file = req.size
    /\ pc # "sizeline" => file = meta.size
    /\ pc = "resize" => req.info.size = meta.size
    /\ pc # "idle" => req.since <= faults
    /\ \A h \in Hosts : work[h] \in {"err", "failed"} => req.since < faults
    /\ ShrinkResult

-----------------------------------------------------------------------------
(***************************************************************************)
(* Types.                                                                  *)
(***************************************************************************)

\* The constants NoCall and NoRequest have their types.
LEMMA NoTypes == NoCall \in Call /\ NoRequest \in Locals
BY ModifyAssumption DEF NoCall, NoRequest, Call, Locals

\* What an update of one field keeps of a metafile.
LEMMA MetaTypes ==
    ASSUME NEW m \in Meta
    PROVE  /\ m = [size |-> m.size, passwd |-> m.passwd, status |-> m.status,
                   known |-> m.known]
           /\ \A p \in Nat : [m EXCEPT !.passwd = p] \in Meta
           /\ \A s \in Sizes : [m EXCEPT !.size = s] \in Meta
           /\ \A h \in Hosts, s \in ModifyStatus :
                [m EXCEPT !.status[h] = s] \in Meta
           /\ \A h \in Hosts, s \in ModifyStatus, k \in Sizes :
                [m EXCEPT !.status[h] = s, !.known[h] = k] \in Meta
BY DEF Meta

\* What a line of a worker, before or after the call, makes of the metafile.
LEMMA LineTypes ==
    ASSUME TypeOK, NEW h \in Hosts, NEW ok \in BOOLEAN
    PROVE  /\ HostLine(h, BeginLine) \in Meta
           /\ ResultLine(h, ok) \in Meta
<1>1. BeginLine \in ModifyStatus
  BY DEF BeginLine, ModifyStatus
<1>2. HostLine(h, BeginLine) \in Meta
  BY <1>1, MetaTypes DEF HostLine, TypeOK
<1>3. CASE req.op = "size"
  <2> DEFINE s == IF ok THEN "RSSUCCESS" ELSE "RSFAIL"
             k == IF ok THEN req.size ELSE meta.known[h]
  <2>1. s \in ModifyStatus
    BY DEF ModifyStatus
  <2>2. k \in Sizes
    BY DEF TypeOK, Meta, Locals
  <2> HIDE DEF s, k
  <2>3. [meta EXCEPT !.status[h] = s, !.known[h] = k] \in Meta
    BY <2>1, <2>2, MetaTypes DEF TypeOK
  <2>4. ResultLine(h, ok) = [meta EXCEPT !.status[h] = s, !.known[h] = k]
    BY <1>3 DEF ResultLine, s, k
  <2> QED
    BY <1>2, <2>3, <2>4
<1>4. CASE req.op # "size"
  <2> DEFINE s == CASE req.mobj.mode /\ ok -> "AUTHENFORCED"
                    [] req.mobj.mode /\ ~ok -> "AUTHENFORCEFAIL"
                    [] ~req.mobj.mode /\ ok -> "AUTHCLEARENFORCED"
                    [] ~req.mobj.mode /\ ~ok -> "AUTHCLEARENFORCEFAIL"
  <2>1. s \in ModifyStatus
    BY DEF ModifyStatus
  <2> HIDE DEF s
  <2>2. ResultLine(h, ok) = [meta EXCEPT !.status[h] = s]
    BY <1>4 DEF ResultLine, HostLine, s
  <2>3. [meta EXCEPT !.status[h] = s] \in Meta
    BY <2>1, MetaTypes DEF TypeOK
  <2> QED
    BY <1>2, <2>2, <2>3
<1> QED
  BY <1>3, <1>4

\* What a call makes of a target.
LEMMA ServedTypes ==
    ASSUME TypeOK, NEW h \in Hosts, NEW call \in Call
    PROVE  Served(h, call) \in Dev
<1>1. /\ dev[h] \in Dev /\ call.size \in Sizes /\ call.passwd \in Nat
      /\ call.mode \in BOOLEAN
  BY DEF TypeOK, Call
<1> DEFINE d == dev[h]
<1> HIDE DEF d
<1>2. /\ [d EXCEPT !.size = call.size] \in Dev
      /\ [d EXCEPT !.auth = TRUE, !.passwd = call.passwd] \in Dev
      /\ [d EXCEPT !.auth = FALSE] \in Dev
  BY <1>1 DEF Dev, d
<1> QED
  BY <1>2 DEF Served, d

\* The initial states have their types.
LEMMA InitTypes == Init => TypeOK
BY NoTypes, ModifyAssumption
   DEF Init, TypeOK, Meta, Dev, ModifyStatus, Steps, WorkSteps, NoWork

\* An update of the metafile keeps its type, whether it fails or not.
LEMMA UpdateTypes ==
    ASSUME TypeOK, NEW new \in Meta, NEW ACTION Then, NEW ACTION Else,
           GB_METAUPDATE_OR_GOTO(new, Then, Else)
    PROVE  /\ meta' \in Meta /\ faults' \in Nat
           /\ Then \/ Else
BY DEF GB_METAUPDATE_OR_GOTO, TypeOK, Fault, NoFault

\* Where Goto and Fails lead.
LEMMA StepTypes ==
    ASSUME TypeOK
    PROVE  /\ Fails => pc' \in Steps /\ req' \in Locals
           /\ \A step \in Steps : Goto(step) => pc' \in Steps /\ req' \in Locals
BY DEF TypeOK, Fails, Goto, Steps, Locals

\* The steps of the handler keep the types.
LEMMA HandlerTypes ==
    ASSUME TypeOK, Request \/ Handler
    PROVE  TypeOK'
<1> USE ModifyAssumption
<1>1. CASE Request
  <2>1. PICK r \in Requests :
          req' = [NoRequest EXCEPT !.op = r.op, !.mode = r.mode,
                    !.size = r.size, !.force = r.force, !.since = faults]
    BY <1>1 DEF Request
  <2>2. /\ r.op \in {"auth", "size"} /\ r.mode \in BOOLEAN
        /\ r.size \in Sizes /\ r.force \in BOOLEAN /\ faults \in Nat
    BY DEF TypeOK
  <2>3. req' \in Locals
    BY <2>1, <2>2, NoTypes DEF Locals
  <2> QED
    BY <1>1, <2>3 DEF Request, TypeOK, Steps
<1>2. CASE Access
  <2>1. Refused \in BOOLEAN
    BY DEF Refused
  <2>2. meta.size \in Sizes /\ meta.passwd \in Nat
    BY DEF TypeOK, Meta
  <2>3. [req EXCEPT !.info = [size |-> meta.size, passwd |-> meta.passwd],
                    !.err = Refused] \in Locals
    BY <2>1, <2>2 DEF TypeOK, Locals
  <2>4. req.op \in {"auth", "size"}
    BY DEF TypeOK, Locals
  <2>5. pc' \in Steps /\ req' \in Locals /\ faults' \in Nat
    BY <1>2, <2>3, <2>4, StepTypes DEF Access, TypeOK, Steps, Fault, NoFault
  <2> QED
    BY <1>2, <2>5 DEF Access, TypeOK
<1>3. CASE ModifyPassword
  <2> DEFINE mobj(p) == [NoCall EXCEPT !.mode = req.mode, !.passwd = p]
             Carry(p) == /\ req' = [req EXCEPT !.mobj = mobj(p)]
                         /\ pc' = "remote"
  <2>1. ASSUME NEW p \in Nat, Carry(p) \/ Fails
        PROVE  pc' \in Steps /\ req' \in Locals
    <3>1. mobj(p) \in Call
      BY NoTypes DEF TypeOK, Locals, Call
    <3> QED
      BY <2>1, <3>1, StepTypes DEF TypeOK, Steps, Locals
  <2> HIDE DEF mobj, Carry
  <2>2. meta' \in Meta /\ faults' \in Nat /\ drawn' \in Nat
        /\ pc' \in Steps /\ req' \in Locals
    <3>1. CASE ~req.mode
      <4>1. [meta EXCEPT !.passwd = 0] \in Meta
        BY MetaTypes DEF TypeOK
      <4>2. /\ GB_METAUPDATE_OR_GOTO([meta EXCEPT !.passwd = 0], Carry(0),
                                     Fails)
            /\ UNCHANGED drawn
        BY <1>3, <3>1 DEF ModifyPassword, mobj, Carry
      <4>3. meta' \in Meta /\ faults' \in Nat /\ (Carry(0) \/ Fails)
        BY <4>1, <4>2 DEF GB_METAUPDATE_OR_GOTO, TypeOK, Fault, NoFault
      <4> QED
        BY <4>2, <4>3, <2>1 DEF TypeOK
    <3>2. CASE req.mode /\ req.info.passwd # 0
      <4>1. Carry(req.info.passwd) /\ NoFault /\ UNCHANGED <<meta, drawn>>
        BY <1>3, <3>2 DEF ModifyPassword, mobj, Carry
      <4>2. req.info.passwd \in Nat
        BY DEF TypeOK, Locals
      <4> QED
        BY <4>1, <4>2, <2>1 DEF TypeOK, NoFault
    <3>3. CASE req.mode /\ req.info.passwd = 0
      <4>0. drawn + 1 \in Nat
        BY DEF TypeOK
      <4>1. [meta EXCEPT !.passwd = drawn + 1] \in Meta
        BY <4>0, MetaTypes DEF TypeOK
      <4>2. /\ drawn' = drawn + 1
            /\ GB_METAUPDATE_OR_GOTO([meta EXCEPT !.passwd = drawn + 1],
                                     Carry(drawn + 1), Fails)
        BY <1>3, <3>3 DEF ModifyPassword, mobj, Carry
      <4>3. meta' \in Meta /\ faults' \in Nat /\ (Carry(drawn + 1) \/ Fails)
        BY <4>1, <4>2 DEF GB_METAUPDATE_OR_GOTO, TypeOK, Fault, NoFault
      <4> QED
        BY <4>0, <4>2, <4>3, <2>1
    <3> QED
      BY <3>1, <3>2, <3>3
  <2> QED
    BY <1>3, <2>2 DEF ModifyPassword, TypeOK
<1>4. CASE ResizeEntry
  <2>1. req.size \in Sizes
    BY DEF TypeOK, Locals
  <2> QED
    BY <1>4, <2>1, StepTypes
       DEF ResizeEntry, TypeOK, Steps, Fault, NoFault
<1>5. CASE SizeLine
  <2>1. req.size \in Sizes
    BY DEF TypeOK, Locals
  <2>2. [meta EXCEPT !.size = req.size] \in Meta
    BY <2>1, MetaTypes DEF TypeOK
  <2>3. [NoCall EXCEPT !.op = "size", !.size = req.size] \in Call
    BY <2>1, NoTypes DEF Call
  <2>4. meta' \in Meta /\ faults' \in Nat
    BY <1>5, <2>2, UpdateTypes DEF SizeLine
  <2>5. pc' \in Steps /\ req' \in Locals
    BY <1>5, <2>3, StepTypes
       DEF SizeLine, GB_METAUPDATE_OR_GOTO, TypeOK, Steps, Locals
  <2> QED
    BY <1>5, <2>4, <2>5 DEF SizeLine, TypeOK
<1>6. CASE ModifyRemoteAsync
  BY <1>6, StepTypes DEF ModifyRemoteAsync, Start, TypeOK, Steps, WorkSteps
<1>7. CASE Collect
  <2>1. SomeFailed \in BOOLEAN
    BY DEF SomeFailed
  <2> QED
    BY <1>7, <2>1
       DEF Collect, TypeOK, Steps, WorkSteps, NoWork, Locals
<1>8. CASE Unwind
  <2>1. [meta EXCEPT !.passwd = 0] \in Meta
    BY MetaTypes DEF TypeOK
  <2>2. meta' \in Meta /\ faults' \in Nat /\ (Goto("reread") \/ Fails)
    BY <1>8, <2>1, UpdateTypes DEF Unwind
  <2> QED
    BY <1>8, <2>2, StepTypes DEF Unwind, TypeOK, Steps
<1>9. CASE Reread
  <2>1. req.mobj.mode \in BOOLEAN
    BY DEF TypeOK, Locals, Call
  <2>2. [req EXCEPT !.mobj.mode = ~@] \in Locals
    BY <2>1 DEF TypeOK, Locals, Call
  <2> QED
    BY <1>9, <2>2, StepTypes DEF Reread, TypeOK, Steps, Fault, NoFault
<1>10. CASE Undo
  BY <1>10, StepTypes DEF Undo, Start, TypeOK, Steps, WorkSteps
<1>11. CASE Undone
  BY <1>11, StepTypes DEF Undone, TypeOK, Steps, WorkSteps, NoWork
<1>12. CASE MetaUnlock
  BY <1>12, NoTypes DEF MetaUnlock, TypeOK, Steps
<1> QED
  BY <1>1, <1>2, <1>3, <1>4, <1>5, <1>6, <1>7, <1>8, <1>9, <1>10, <1>11, <1>12
     DEF Handler

\* The steps of the threads and of the environment keep the types.
LEMMA ThreadTypes ==
    ASSUME TypeOK, Crash \/ \E h \in Hosts : Thread(h) \/ ServeLate(h)
    PROVE  TypeOK'
<1> USE ModifyAssumption
<1>0. req.mobj \in Call
  BY DEF TypeOK, Locals
<1>1. CASE Crash
  BY <1>0, <1>1, NoTypes
     DEF Crash, TypeOK, Steps, WorkSteps, NoWork, Fault
<1>2. ASSUME NEW h \in Hosts, WorkerBegin(h) PROVE TypeOK'
  <2>1. meta' \in Meta /\ faults' \in Nat
    BY <1>2, LineTypes, UpdateTypes DEF WorkerBegin
  <2> QED
    BY <1>2, <2>1
       DEF WorkerBegin, GB_METAUPDATE_OR_GOTO, To, TypeOK, WorkSteps
<1>3. ASSUME NEW h \in Hosts, WorkerConnect(h) PROVE TypeOK'
  BY <1>3 DEF WorkerConnect, To, TypeOK, WorkSteps, Fault, NoFault
<1>4. ASSUME NEW h \in Hosts, RpcServed(h) PROVE TypeOK'
  <2>1. dev' \in [Hosts -> Dev]
    BY <1>0, <1>4, ServedTypes DEF RpcServed, TypeOK
  <2> QED
    BY <1>4, <2>1 DEF RpcServed, To, TypeOK, WorkSteps, Fault, NoFault
<1>5. ASSUME NEW h \in Hosts, RpcTimeout(h) PROVE TypeOK'
  BY <1>0, <1>5 DEF RpcTimeout, To, TypeOK, WorkSteps, Fault
<1>6. ASSUME NEW h \in Hosts, WorkerResult(h) PROVE TypeOK'
  <2> DEFINE ok == work[h] = "ok"
  <2>1. ResultLine(h, ok) \in Meta
    BY LineTypes
  <2>2. meta' \in Meta /\ faults' \in Nat
    BY <1>6, <2>1, UpdateTypes DEF WorkerResult
  <2> QED
    BY <1>6, <2>2
       DEF WorkerResult, GB_METAUPDATE_OR_GOTO, To, TypeOK, WorkSteps
<1>7. ASSUME NEW h \in Hosts, ServeLate(h) PROVE TypeOK'
  <2>1. PICK call \in late[h] :
          /\ late' = [late EXCEPT ![h] = @ \ {call}]
          /\ dev' = [dev EXCEPT ![h] = Served(h, call)]
    BY <1>7 DEF ServeLate
  <2>2. Served(h, call) \in Dev
    BY ServedTypes DEF TypeOK
  <2> QED
    BY <1>7, <2>1, <2>2 DEF ServeLate, TypeOK
<1> QED
  BY <1>1, <1>2, <1>3, <1>4, <1>5, <1>6, <1>7 DEF Thread

\* Every step keeps the types.
LEMMA NextTypes == TypeOK /\ [Next]_vars => TypeOK'
<1>1. TypeOK /\ UNCHANGED vars => TypeOK'
  BY DEF TypeOK, vars
<1> QED
  BY <1>1, HandlerTypes, ThreadTypes DEF Next

\* Types, for every instance: sizes, passwords, statuses and calls keep their
\* types through failed, undone and interrupted requests of both kinds.
THEOREM ModifyTyping == Spec => []TypeOK
BY InitTypes, NextTypes, PTL DEF Spec

-----------------------------------------------------------------------------
(***************************************************************************)
(* What single steps do, for the proofs below.                             *)
(***************************************************************************)

\* The status in the line after a call.
ResultStatus(ok) ==
    IF req.op = "size" THEN (IF ok THEN "RSSUCCESS" ELSE "RSFAIL")
    ELSE IF req.mobj.mode
    THEN (IF ok THEN "AUTHENFORCED" ELSE "AUTHENFORCEFAIL")
    ELSE (IF ok THEN "AUTHCLEARENFORCED" ELSE "AUTHCLEARENFORCEFAIL")

\* The line before a call changes one status.
LEMMA BeginFields ==
    ASSUME TypeOK, NEW h \in Hosts, NEW m, m = HostLine(h, BeginLine)
    PROVE  /\ m.size = meta.size /\ m.passwd = meta.passwd
           /\ m.known = meta.known
           /\ m.status = [meta.status EXCEPT ![h] = BeginLine]
BY DEF HostLine, TypeOK, Meta

\* The line after it one status and, for a resize, what is known of its size.
LEMMA ResultFields ==
    ASSUME TypeOK, NEW h \in Hosts, NEW ok \in BOOLEAN,
           NEW m, m = ResultLine(h, ok)
    PROVE  /\ m.size = meta.size /\ m.passwd = meta.passwd
           /\ m.status = [meta.status EXCEPT ![h] = ResultStatus(ok)]
           /\ \A g \in Hosts :
                m.known[g] = IF g = h /\ req.op = "size" /\ ok
                             THEN req.size ELSE meta.known[g]
<1>1. CASE req.op = "size"
  BY <1>1 DEF ResultLine, ResultStatus, TypeOK, Meta
<1>2. CASE req.op # "size"
  <2> DEFINE s == CASE req.mobj.mode /\ ok -> "AUTHENFORCED"
                    [] req.mobj.mode /\ ~ok -> "AUTHENFORCEFAIL"
                    [] ~req.mobj.mode /\ ok -> "AUTHCLEARENFORCED"
                    [] ~req.mobj.mode /\ ~ok -> "AUTHCLEARENFORCEFAIL"
  <2>1. s = ResultStatus(ok)
    BY <1>2 DEF ResultStatus
  <2>2. ResultLine(h, ok) = [meta EXCEPT !.status[h] = s]
    BY <1>2 DEF ResultLine, HostLine
  <2> HIDE DEF s
  <2> QED
    BY <1>2, <2>1, <2>2 DEF TypeOK, Meta
<1> QED
  BY <1>1, <1>2

\* What a request is about, and what it read, stays.
SameRequest ==
    /\ req'.op = req.op /\ req'.mode = req.mode /\ req'.size = req.size
    /\ req'.force = req.force /\ req'.info = req.info
    /\ req'.since = req.since

\* Only mobj changes when a request is about to call.
LEMMA CarryFields ==
    ASSUME TypeOK, NEW c, req' = [req EXCEPT !.mobj = c]
    PROVE  req'.mobj = c /\ SameRequest /\ req'.err = req.err
BY DEF TypeOK, Locals, SameRequest

\* The PASSWORD line is written, found unnecessary, or fails.
LEMMA PasswordStep ==
    ASSUME TypeOK, ModifyPassword
    PROVE  \/ Fails /\ Fault("meta")
           \/ \E p \in Nat :
                /\ NoFault
                /\ pc' = "remote"
                /\ SameRequest /\ req'.err = req.err
                /\ req'.mobj.op = "auth" /\ req'.mobj.mode = req.mode
                /\ req'.mobj.passwd = p
                /\ \/ /\ ~req.mode /\ p = 0
                      /\ meta' = [meta EXCEPT !.passwd = p]
                   \/ /\ req.mode /\ p # 0 /\ p = req.info.passwd
                      /\ meta' = meta
                   \/ /\ req.mode /\ p = drawn + 1 /\ req.info.passwd = 0
                      /\ meta' = [meta EXCEPT !.passwd = p]
<1> DEFINE mobj(p) == [NoCall EXCEPT !.mode = req.mode, !.passwd = p]
           Carry(p) == /\ req' = [req EXCEPT !.mobj = mobj(p)]
                       /\ pc' = "remote"
           Carried(p) == /\ pc' = "remote"
                         /\ SameRequest /\ req'.err = req.err
                         /\ req'.mobj.op = "auth" /\ req'.mobj.mode = req.mode
                         /\ req'.mobj.passwd = p
<1>1. ASSUME NEW p, Carry(p) PROVE Carried(p)
  <2>1. /\ mobj(p).op = "auth" /\ mobj(p).mode = req.mode
        /\ mobj(p).passwd = p
    BY DEF NoCall
  <2> HIDE DEF mobj
  <2> QED
    BY <1>1, <2>1, CarryFields
<1>2. drawn + 1 \in Nat /\ req.info.passwd \in Nat
  BY DEF TypeOK, Locals
<1>3. CASE ~req.mode
  <2>1. GB_METAUPDATE_OR_GOTO([meta EXCEPT !.passwd = 0], Carry(0), Fails)
    BY <1>3 DEF ModifyPassword
  <2> HIDE DEF Carry, Carried
  <2>2. \/ Fails /\ Fault("meta")
        \/ NoFault /\ Carried(0) /\ meta' = [meta EXCEPT !.passwd = 0]
    BY <1>1, <2>1 DEF GB_METAUPDATE_OR_GOTO
  <2> QED
    BY <1>3, <2>2 DEF Carried
<1>4. CASE req.mode /\ req.info.passwd # 0
  <2>1. Carry(req.info.passwd) /\ NoFault /\ meta' = meta
    BY <1>4 DEF ModifyPassword
  <2> HIDE DEF Carry, Carried
  <2>2. Carried(req.info.passwd)
    BY <1>1, <2>1
  <2> QED
    BY <1>2, <1>4, <2>1, <2>2 DEF Carried
<1>5. CASE req.mode /\ req.info.passwd = 0
  <2>1. GB_METAUPDATE_OR_GOTO([meta EXCEPT !.passwd = drawn + 1],
                              Carry(drawn + 1), Fails)
    BY <1>5 DEF ModifyPassword
  <2> HIDE DEF Carry, Carried
  <2>2. \/ Fails /\ Fault("meta")
        \/ /\ NoFault /\ Carried(drawn + 1)
           /\ meta' = [meta EXCEPT !.passwd = drawn + 1]
    BY <1>1, <2>1 DEF GB_METAUPDATE_OR_GOTO
  <2> QED
    BY <1>2, <1>5, <2>2 DEF Carried
<1> QED
  BY <1>3, <1>4, <1>5

\* The SIZE line is written, or fails.
LEMMA SizeStep ==
    ASSUME TypeOK, SizeLine
    PROVE  \/ /\ Fails /\ Fault("meta")
              /\ meta' \in {meta, [meta EXCEPT !.size = req.size]}
           \/ /\ NoFault
              /\ pc' = "remote"
              /\ meta' = [meta EXCEPT !.size = req.size]
              /\ SameRequest /\ req'.err = req.err
              /\ req'.mobj.op = "size" /\ req'.mobj.size = req.size
<1> DEFINE mobj == [NoCall EXCEPT !.op = "size", !.size = req.size]
<1>1. mobj.op = "size" /\ mobj.size = req.size
  BY DEF NoCall
<1>2. GB_METAUPDATE_OR_GOTO(
        [meta EXCEPT !.size = req.size],
        pc' = "remote" /\ req' = [req EXCEPT !.mobj = mobj], Fails)
  BY DEF SizeLine
<1> HIDE DEF mobj
<1> QED
  BY <1>1, <1>2, CarryFields DEF GB_METAUPDATE_OR_GOTO

\* Only err changes when a request fails.
LEMMA FailFields ==
    ASSUME TypeOK, Fails
    PROVE  /\ pc' = "unlock" /\ req'.err
           /\ SameRequest /\ req'.mobj = req.mobj
BY DEF TypeOK, Locals, Fails, SameRequest

\* A request comes in.
LEMMA RequestStep ==
    ASSUME TypeOK, Request
    PROVE  /\ pc = "idle" /\ pc' = "access" /\ req'.since = faults
           /\ UNCHANGED <<meta, file, dev, late, faults, work>>
           /\ \E r \in Requests : /\ req'.op = r.op /\ req'.mode = r.mode
                                  /\ req'.size = r.size /\ req'.force = r.force
BY DEF Request, NoRequest

\* The metafile is read, or the request fails.
LEMMA AccessStep ==
    ASSUME TypeOK, Access
    PROVE  /\ pc = "access" /\ UNCHANGED <<meta, file, dev, late, work>>
           /\ \/ Fails /\ (Fault("read") \/ Fault("connect"))
              \/ /\ NoFault
                 /\ req'.op = req.op /\ req'.mode = req.mode
                 /\ req'.size = req.size /\ req'.force = req.force
                 /\ req'.since = req.since
                 /\ req'.info.size = meta.size
                 /\ req'.info.passwd = meta.passwd
                 /\ req'.err <=> Refused
                 /\ \/ Refused /\ pc' = "unlock" /\ req.op = "size"
                    \/ ~Refused /\ pc' = "passwd" /\ req.op = "auth"
                    \/ ~Refused /\ pc' = "resize" /\ req.op = "size"
<1>0. Refused \in BOOLEAN
  BY DEF Refused
<1>1. req.op \in {"auth", "size"} /\ (Refused => req.op = "size")
  BY DEF TypeOK, Locals, Refused
<1>2. /\ pc = "access" /\ UNCHANGED <<meta, file, dev, late, work>>
      /\ \/ Fails /\ (Fault("read") \/ Fault("connect"))
         \/ /\ NoFault
            /\ req' = [req EXCEPT !.info = [size |-> meta.size,
                                            passwd |-> meta.passwd],
                                  !.err = Refused]
            /\ pc' = CASE Refused -> "unlock"
                       [] ~Refused /\ req.op = "auth" -> "passwd"
                       [] ~Refused /\ req.op = "size" -> "resize"
  BY DEF Access
<1>3. ASSUME req' = [req EXCEPT !.info = [size |-> meta.size,
                                          passwd |-> meta.passwd],
                                !.err = Refused]
      PROVE  /\ req'.op = req.op /\ req'.mode = req.mode
             /\ req'.size = req.size /\ req'.force = req.force
             /\ req'.since = req.since
             /\ req'.info.size = meta.size
             /\ req'.info.passwd = meta.passwd
             /\ req'.err <=> Refused
  BY <1>0, <1>3 DEF TypeOK, Locals
<1> QED
  BY <1>1, <1>2, <1>3

\* The threads are joined.
LEMMA CollectStep ==
    ASSUME TypeOK, Collect
    PROVE  /\ pc = "collect" /\ Joined /\ work' = NoWork
           /\ UNCHANGED <<meta, file, dev, late, faults>>
           /\ SameRequest /\ req'.mobj = req.mobj
           /\ req'.err <=> SomeFailed
           /\ pc' = IF SomeFailed /\ req.op = "auth"
                    THEN (IF req.mode THEN "unwind" ELSE "reread") ELSE "unlock"
<1>1. SomeFailed \in BOOLEAN
  BY DEF SomeFailed
<1>2. req' = [req EXCEPT !.err = SomeFailed]
  BY DEF Collect
<1>3. SameRequest /\ req'.mobj = req.mobj /\ (req'.err <=> SomeFailed)
  BY <1>1, <1>2 DEF TypeOK, Locals, SameRequest
<1> QED
  BY <1>3 DEF Collect

\* mobj.mode is toggled, or the request ends.
LEMMA RereadStep ==
    ASSUME TypeOK, Reread
    PROVE  /\ pc = "reread" /\ UNCHANGED <<meta, file, dev, late, work>>
           /\ \/ Fault("read") /\ Fails
              \/ /\ NoFault /\ pc' = "undo" /\ SameRequest
                 /\ req'.err = req.err /\ req'.mobj.op = req.mobj.op
                 /\ req'.mobj.mode <=> ~req.mobj.mode
<1>1. req.mobj.mode \in BOOLEAN
  BY DEF TypeOK, Locals, Call
<1>2. ASSUME req' = [req EXCEPT !.mobj.mode = ~@]
      PROVE  /\ SameRequest /\ req'.err = req.err
             /\ req'.mobj.op = req.mobj.op
             /\ req'.mobj.mode <=> ~req.mobj.mode
  BY <1>1, <1>2 DEF TypeOK, Locals, Call, SameRequest
<1> QED
  BY <1>2 DEF Reread

-----------------------------------------------------------------------------
(***************************************************************************)
(* What a status says of a host.                                           *)
(***************************************************************************)

\* What the handler itself writes to the metafile is about no host.
LEMMA HandlerLines ==
    ASSUME TypeOK, Request \/ Handler
    PROVE  /\ UNCHANGED <<dev, late, strayed>>
           /\ meta'.status = meta.status /\ meta'.known = meta.known
BY DEF TypeOK, Meta, Handler, Request, Access, ModifyPassword, ResizeEntry,
       SizeLine, ModifyRemoteAsync, Collect, Unwind, Reread, Undo, Undone,
       MetaUnlock, GB_METAUPDATE_OR_GOTO

\* A step of the handler starts threads, ends them or has none.
LEMMA HandlerWork ==
    ASSUME TypeOK, HandlerInv, Request \/ Handler
    PROVE  \A h \in Hosts : work'[h] \in {"none", "begin"}
BY DEF TypeOK, HandlerInv, Running, NoWork, Handler, Request, Access,
       ModifyPassword, ResizeEntry, SizeLine, ModifyRemoteAsync, Collect,
       Unwind, Reread, Undo, Undone, MetaUnlock, Start

\* Every step keeps what a handler knows of itself.
LEMMA HandlerKept ==
    ASSUME TypeOK, HandlerInv, [Next]_vars
    PROVE  HandlerInv'
<1> USE DEF HandlerInv, Running, Filled
<1>1. CASE Request
  BY <1>1 DEF Request
<1>2. CASE Access
  BY <1>2 DEF Access, Fails, TypeOK, Locals
<1>3. CASE ModifyPassword
  <2>1. req.op = "auth" /\ work = NoWork /\ work' = work
    BY <1>3 DEF ModifyPassword
  <2>2. \/ pc' = "unlock"
        \/ pc' = "remote" /\ req'.op = req.op /\ req'.mobj.op = "auth"
    BY <1>3, PasswordStep DEF Fails, SameRequest
  <2> QED
    BY <2>1, <2>2
<1>4. CASE ResizeEntry
  BY <1>4 DEF ResizeEntry, Goto, Fails
<1>5. CASE SizeLine
  <2>1. req.op = "size" /\ work = NoWork /\ work' = work
    BY <1>5 DEF SizeLine
  <2>2. \/ pc' = "unlock"
        \/ /\ pc' = "remote" /\ req'.op = req.op /\ req'.size = req.size
           /\ req'.mobj.op = "size" /\ req'.mobj.size = req.size
    BY <1>5, SizeStep DEF Fails, SameRequest
  <2> QED
    BY <2>1, <2>2
<1>6. CASE ModifyRemoteAsync
  BY <1>6 DEF ModifyRemoteAsync, Goto
<1>7. CASE Collect
  BY <1>7 DEF Collect, TypeOK, Locals
<1>8. CASE Unwind
  BY <1>8 DEF Unwind, GB_METAUPDATE_OR_GOTO, Goto, Fails
<1>9. CASE Reread
  BY <1>9 DEF Reread, Fails, TypeOK, Locals, Call
<1>10. CASE Undo
  BY <1>10 DEF Undo, Goto
<1>11. CASE Undone
  BY <1>11 DEF Undone, Goto
<1>12. CASE MetaUnlock
  BY <1>12 DEF MetaUnlock
<1>13. CASE Crash
  BY <1>13 DEF Crash
<1>14. ASSUME NEW h \in Hosts, Thread(h) PROVE HandlerInv'
  <2>1. UNCHANGED <<pc, req>> /\ work[h] # "none"
    BY <1>14 DEF Thread, WorkerBegin, WorkerConnect, RpcServed, RpcTimeout,
                 WorkerResult
  <2>2. pc \in Running
    BY <2>1 DEF NoWork
  <2> QED
    BY <2>1, <2>2
<1>15. ASSUME NEW h \in Hosts, ServeLate(h) PROVE HandlerInv'
  BY <1>15 DEF ServeLate
<1>16. CASE UNCHANGED vars
  BY <1>16 DEF vars
<1> QED
  BY <1>1, <1>2, <1>3, <1>4, <1>5, <1>6, <1>7, <1>8, <1>9, <1>10, <1>11,
     <1>12, <1>13, <1>14, <1>15, <1>16 DEF Next, Handler

\* A step of the thread for h, seen from another host.
LEMMA OtherHost ==
    ASSUME TypeOK, NEW h \in Hosts, NEW g \in Hosts, g # h,
           Thread(h) \/ ServeLate(h)
    PROVE  /\ work'[g] = work[g] /\ dev'[g] = dev[g] /\ late'[g] = late[g]
           /\ meta'.status[g] = meta.status[g]
           /\ meta'.known[g] = meta.known[g]
           /\ g \in strayed' <=> g \in strayed
<1> USE DEF TypeOK, Meta
<1>1. CASE WorkerBegin(h)
  BY <1>1 DEF WorkerBegin, GB_METAUPDATE_OR_GOTO, HostLine, To
<1>2. CASE WorkerConnect(h)
  BY <1>2 DEF WorkerConnect, To
<1>3. CASE RpcServed(h)
  BY <1>3 DEF RpcServed, To
<1>4. CASE RpcTimeout(h)
  BY <1>4 DEF RpcTimeout, To
<1>5. CASE WorkerResult(h)
  <2> DEFINE ok == work[h] = "ok"
  <2>1. meta' \in {meta, ResultLine(h, ok)}
    BY <1>5 DEF WorkerResult, GB_METAUPDATE_OR_GOTO
  <2>2. ok \in BOOLEAN
    OBVIOUS
  <2> HIDE DEF ok
  <2>3. CASE meta' = ResultLine(h, ok)
    <3>1. /\ meta'.status = [meta.status EXCEPT ![h] = ResultStatus(ok)]
          /\ meta'.known[g] = meta.known[g]
      BY <2>2, <2>3, ResultFields
    <3>2. meta'.status[g] = meta.status[g]
      BY <3>1
    <3> QED
      BY <1>5, <3>1, <3>2 DEF WorkerResult, GB_METAUPDATE_OR_GOTO, To
  <2>4. CASE meta' = meta
    BY <1>5, <2>4 DEF WorkerResult, GB_METAUPDATE_OR_GOTO, To
  <2> QED
    BY <2>1, <2>3, <2>4
<1>6. CASE ServeLate(h)
  BY <1>6 DEF ServeLate
<1> QED
  BY <1>1, <1>2, <1>3, <1>4, <1>5, <1>6 DEF Thread

\* The line before a call, at its host.
LEMMA BeginStep ==
    ASSUME TypeOK, NEW h \in Hosts, WorkerBegin(h)
    PROVE  /\ work[h] = "begin" /\ UNCHANGED <<file, dev, late, pc, req>>
           /\ meta'.size = meta.size /\ meta'.passwd = meta.passwd
           /\ meta'.known = meta.known
           /\ \/ /\ NoFault
                 /\ work'[h] = "call" /\ meta'.status[h] = BeginLine
              \/ /\ Fault("meta")
                 /\ work'[h] = "failed"
                 /\ meta'.status[h] \in {meta.status[h], BeginLine}
<1>1. /\ work[h] = "begin" /\ UNCHANGED <<file, dev, late, pc, req>>
      /\ meta' \in {meta, HostLine(h, BeginLine)}
      /\ \/ NoFault /\ work'[h] = "call" /\ meta' = HostLine(h, BeginLine)
         \/ Fault("meta") /\ work'[h] = "failed"
  BY DEF WorkerBegin, GB_METAUPDATE_OR_GOTO, To, TypeOK
<1>2. CASE meta' = meta /\ meta' # HostLine(h, BeginLine)
  BY <1>1, <1>2
<1>3. CASE meta' = HostLine(h, BeginLine)
  <2>1. /\ meta'.size = meta.size /\ meta'.passwd = meta.passwd
        /\ meta'.known = meta.known
        /\ meta'.status = [meta.status EXCEPT ![h] = BeginLine]
    BY <1>3, BeginFields
  <2>2. meta'.status[h] = BeginLine
    BY <2>1 DEF TypeOK, Meta
  <2> QED
    BY <1>1, <2>1, <2>2
<1> QED
  BY <1>1, <1>2, <1>3

\* The line after a call, at its host.
LEMMA ResultStep ==
    ASSUME TypeOK, NEW h \in Hosts, WorkerResult(h)
    PROVE  /\ work[h] \in {"ok", "err"} /\ UNCHANGED <<file, dev, late, pc, req>>
           /\ meta'.size = meta.size /\ meta'.passwd = meta.passwd
           /\ \/ /\ NoFault
                 /\ work'[h] = IF work[h] = "ok" THEN "done" ELSE "failed"
              \/ Fault("meta") /\ work'[h] = "failed"
           /\ \/ meta' = meta /\ Fault("meta")
              \/ /\ meta'.status[h] = ResultStatus(work[h] = "ok")
                 /\ meta'.known[h] = IF req.op = "size" /\ work[h] = "ok"
                                     THEN req.size ELSE meta.known[h]
<1> DEFINE ok == work[h] = "ok"
<1>1. /\ work[h] \in {"ok", "err"} /\ UNCHANGED <<file, dev, late, pc, req>>
      /\ \/ /\ NoFault /\ meta' = ResultLine(h, ok)
            /\ work'[h] = IF ok THEN "done" ELSE "failed"
         \/ /\ Fault("meta") /\ work'[h] = "failed"
            /\ meta' \in {meta, ResultLine(h, ok)}
  BY DEF WorkerResult, GB_METAUPDATE_OR_GOTO, To, TypeOK
<1>2. ok \in BOOLEAN
  OBVIOUS
<1>3. ASSUME meta' = ResultLine(h, ok)
      PROVE  /\ meta'.size = meta.size /\ meta'.passwd = meta.passwd
             /\ meta'.status[h] = ResultStatus(ok)
             /\ meta'.known[h] = IF req.op = "size" /\ ok
                                 THEN req.size ELSE meta.known[h]
  <2> HIDE DEF ok
  <2>1. /\ meta'.size = meta.size /\ meta'.passwd = meta.passwd
        /\ meta'.status = [meta.status EXCEPT ![h] = ResultStatus(ok)]
        /\ meta'.known[h] = IF req.op = "size" /\ ok
                            THEN req.size ELSE meta.known[h]
    BY <1>2, <1>3, ResultFields
  <2> QED
    BY <2>1 DEF TypeOK, Meta
<1> QED
  BY <1>1, <1>3

\* A host whose call is answered exports what the call asked for.
LEMMA ServedStep ==
    ASSUME TypeOK, NEW h \in Hosts, NEW call \in Call, NEW d,
           d = Served(h, call)
    PROVE  /\ call.op = "size" =>
                /\ d.size = call.size /\ d.auth = dev[h].auth
                /\ d.passwd = dev[h].passwd
           /\ call.op # "size" => d.size = dev[h].size /\ d.auth = call.mode
           /\ call.op # "size" /\ call.mode => d.passwd = call.passwd
<1>1. call.mode = TRUE \/ call.mode = FALSE
  BY DEF Call
<1>2. CASE call.mode = TRUE
  BY <1>2 DEF Served, TypeOK, Dev
<1>3. CASE call.mode = FALSE
  BY <1>3 DEF Served, TypeOK, Dev
<1> QED
  BY <1>1, <1>2, <1>3

\* A step of the thread for h keeps what is said of h.
LEMMA ThreadKept ==
    ASSUME TypeOK, HandlerInv, NEW h \in Hosts \ strayed', ThreadInv(h),
           Thread(h)
    PROVE  ThreadInv(h)'
<1>1. CASE WorkerBegin(h)
  BY <1>1, BeginStep DEF ThreadInv, LineTrue, BeginLine
<1>2. CASE WorkerConnect(h)
  BY <1>2 DEF WorkerConnect, To, TypeOK, ThreadInv, LineTrue, BeginLine
<1>3. CASE RpcServed(h)
  <2>1. pc \in Running /\ req.mobj \in Call
    BY <1>3 DEF RpcServed, HandlerInv, NoWork, TypeOK, Locals
  <2>2. req.mobj.op = req.op /\ (req.op = "size" => req.mobj.size = req.size)
    BY <2>1 DEF HandlerInv, Running, Filled
  <2>3. req.mobj.mode \in BOOLEAN /\ req.op \in {"auth", "size"}
    BY <2>1 DEF Call, TypeOK, Locals
  <2>4. /\ UNCHANGED <<meta, late, req>> /\ meta.status[h] = BeginLine
        /\ \/ dev'[h] = Served(h, req.mobj) /\ work'[h] = "ok"
           \/ work'[h] = "err"
    BY <1>3 DEF RpcServed, To, TypeOK, ThreadInv
  <2>5. LineTrue(h)' /\ BeginLine' = BeginLine
    BY <2>4 DEF LineTrue, BeginLine
  <2>6. work'[h] = "ok" => IF req.op = "size" THEN dev'[h].size = req.size
                           ELSE dev'[h].auth = req.mobj.mode
    BY <2>1, <2>2, <2>3, <2>4, ServedStep
  <2> QED
    BY <2>4, <2>5, <2>6 DEF ThreadInv
<1>4. CASE RpcTimeout(h)
  BY <1>4 DEF RpcTimeout
<1>5. CASE WorkerResult(h)
  <2>1. /\ UNCHANGED <<dev, late, req>> /\ work'[h] \in {"done", "failed"}
        /\ \/ meta' = meta
           \/ /\ meta'.status[h] = ResultStatus(work[h] = "ok")
              /\ meta'.known[h] = IF req.op = "size" /\ work[h] = "ok"
                                  THEN req.size ELSE meta.known[h]
    BY <1>5, ResultStep
  <2>2. work[h] = "ok" => IF req.op = "size" THEN dev[h].size = req.size
                          ELSE dev[h].auth <=> req.mobj.mode
    <3>1. dev[h].auth \in BOOLEAN /\ req.mobj.mode \in BOOLEAN
      BY DEF TypeOK, Dev, Locals, Call
    <3>2. work[h] = "ok" => IF req.op = "size" THEN dev[h].size = req.size
                            ELSE dev[h].auth = req.mobj.mode
      BY DEF ThreadInv
    <3> QED
      BY <3>1, <3>2
  <2>3. CASE meta' = meta
    BY <2>1, <2>3 DEF ThreadInv, LineTrue
  <2>4. CASE work[h] = "ok" /\ meta' # meta
    BY <2>1, <2>2, <2>4 DEF ThreadInv, LineTrue, ResultStatus
  <2>5. CASE work[h] # "ok" /\ meta' # meta
    BY <2>1, <2>5 DEF ThreadInv, LineTrue, ResultStatus
  <2> QED
    BY <2>3, <2>4, <2>5
<1> QED
  BY <1>1, <1>2, <1>3, <1>4, <1>5 DEF Thread

\* Every step keeps what is said of the hosts nobody gave up on.
LEMMA StatusKept ==
    ASSUME TypeOK, StatusInv, [Next]_vars
    PROVE  StatusInv'
<1> SUFFICES ASSUME NEW g \in Hosts \ strayed' PROVE ThreadInv(g)'
  BY HandlerKept DEF StatusInv
<1>1. CASE Request \/ Handler
  BY <1>1, HandlerLines, HandlerWork DEF StatusInv, ThreadInv, LineTrue
<1>2. CASE Crash
  BY <1>2 DEF Crash, StatusInv, ThreadInv, LineTrue, NoWork
<1>3. ASSUME NEW h \in Hosts, Thread(h) \/ ServeLate(h) PROVE ThreadInv(g)'
  <2>1. g \notin strayed /\ UNCHANGED req
    BY <1>3 DEF Thread, WorkerBegin, WorkerConnect, RpcServed, RpcTimeout,
                WorkerResult, ServeLate
  <2>2. CASE g # h
    BY <1>3, <2>1, <2>2, OtherHost
       DEF StatusInv, ThreadInv, LineTrue, BeginLine
  <2>3. CASE g = h /\ ServeLate(h)
    BY <2>1, <2>3 DEF ServeLate, StatusInv, ThreadInv
  <2>4. CASE g = h /\ Thread(h)
    BY <2>1, <2>4, ThreadKept DEF StatusInv
  <2> QED
    BY <1>3, <2>2, <2>3, <2>4
<1>4. CASE UNCHANGED vars
  BY <1>4 DEF vars, StatusInv, ThreadInv, LineTrue, BeginLine
<1> QED
  BY <1>1, <1>2, <1>3, <1>4 DEF Next

\* It holds for a block just created.
LEMMA InitStatus == Init => StatusInv
BY DEF Init, StatusInv, HandlerInv, ThreadInv, LineTrue, Running, Filled,
       NoWork

\* Types and statuses, together.
LEMMA StatusHolds == Spec => [](TypeOK /\ StatusInv)
<1>1. Init => TypeOK /\ StatusInv
  BY InitTypes, InitStatus
<1>2. TypeOK /\ StatusInv /\ [Next]_vars => (TypeOK /\ StatusInv)'
  BY NextTypes, StatusKept
<1> QED
  BY <1>1, <1>2, PTL DEF Spec

\* RSSUCCESS, AUTHENFORCED and AUTHCLEARENFORCED are true of every host but
\* those a call outlived its caller on: for all requests, faults and crashes,
\* as glusterBlockModifyRemote and glusterBlockModifySizeRemote write a line
\* before they call.
THEOREM StatusSafety == Spec => []StatusSound
<1>1. StatusInv => StatusSound
  BY DEF StatusInv, ThreadInv, LineTrue, StatusSound
<1> QED
  BY <1>1, StatusHolds, PTL

-----------------------------------------------------------------------------
(***************************************************************************)
(* Targets and the file.                                                   *)
(***************************************************************************)

\* Sizes are numbers.
LEMMA SizeTypes ==
    ASSUME TypeOK
    PROVE  /\ meta.size \in Nat /\ file \in Nat /\ req.size \in Nat
           /\ req.info.size \in Nat /\ faults \in Nat /\ req.since \in Nat
           /\ \A h \in Hosts : /\ dev[h].size \in Nat
                               /\ \A call \in late[h] : call.size \in Nat
<1>1. Sizes \subseteq Nat
  BY ModifyAssumption
<1>2. /\ meta.size \in Sizes /\ file \in Sizes /\ req.size \in Sizes
      /\ req.info.size \in Sizes /\ faults \in Nat /\ req.since \in Nat
  BY DEF TypeOK, Meta, Locals
<1>3. \A h \in Hosts : dev[h].size \in Sizes
  BY DEF TypeOK, Dev
<1>4. \A h \in Hosts : \A call \in late[h] : call.size \in Sizes
  BY DEF TypeOK, Call
<1> QED
  BY <1>1, <1>2, <1>3, <1>4

\* The steps of the handler keep the sizes in order.
LEMMA GrowHandler ==
    ASSUME \A r \in Requests : ~r.force,
           TypeOK, HandlerInv, GrowInv, Request \/ Handler
    PROVE  GrowInv'
<1> USE SizeTypes DEF Filled
<1>0. UNCHANGED <<dev, late>>
  BY HandlerLines
<1>1. CASE Request
  BY <1>1, RequestStep DEF GrowInv
<1>2. CASE Access
  <2>1. ~Refused /\ req.op = "size" => meta.size <= req.size
    BY DEF Refused, GrowInv
  <2> QED
    BY <1>2, <2>1, AccessStep, FailFields DEF GrowInv, SameRequest
<1>3. CASE ModifyPassword
  <2>1. /\ pc = "passwd" /\ req.op = "auth" /\ meta'.size = meta.size
        /\ file' = file
    BY <1>3 DEF ModifyPassword, HandlerInv, GB_METAUPDATE_OR_GOTO, TypeOK, Meta
  <2> QED
    BY <1>0, <1>3, <2>1, PasswordStep, FailFields DEF GrowInv, SameRequest
<1>4. CASE ResizeEntry
  <2>1. /\ pc = "resize" /\ meta' = meta
        /\ \/ file' = req.size /\ pc' = "sizeline" /\ req' = req
           \/ file' \in {file, req.size} /\ Fails
    BY <1>4 DEF ResizeEntry, Goto
  <2> QED
    BY <1>0, <2>1, FailFields DEF GrowInv, SameRequest
<1>5. CASE SizeLine
  <2>1. pc = "sizeline" /\ file' = file /\ meta'.size \in {meta.size, req.size}
    BY <1>5, SizeStep DEF SizeLine, TypeOK, Meta
  <2>2. pc' = "remote" => meta'.size = req.size
    BY <1>5, SizeStep DEF TypeOK, Meta, Fails
  <2> QED
    BY <1>0, <1>5, <2>1, <2>2, SizeStep, FailFields DEF GrowInv, SameRequest
<1>6. CASE ModifyRemoteAsync
  BY <1>6 DEF ModifyRemoteAsync, Goto, GrowInv
<1>7. CASE Collect
  BY <1>7, CollectStep DEF GrowInv, SameRequest
<1>8. CASE Unwind
  <2>1. pc = "unwind" /\ meta'.size = meta.size /\ file' = file
    BY <1>8 DEF Unwind, GB_METAUPDATE_OR_GOTO, TypeOK, Meta
  <2>2. \/ pc' = "reread" /\ req' = req
        \/ Fails
    BY <1>8 DEF Unwind, GB_METAUPDATE_OR_GOTO, Goto
  <2> QED
    BY <1>0, <2>1, <2>2, FailFields DEF GrowInv, SameRequest
<1>9. CASE Reread
  BY <1>9, RereadStep, FailFields DEF GrowInv, SameRequest
<1>10. CASE Undo
  BY <1>10 DEF Undo, Goto, GrowInv
<1>11. CASE Undone
  BY <1>11 DEF Undone, Goto, GrowInv
<1>12. CASE MetaUnlock
  BY <1>12 DEF MetaUnlock, NoRequest, GrowInv
<1> QED
  BY <1>1, <1>2, <1>3, <1>4, <1>5, <1>6, <1>7, <1>8, <1>9, <1>10, <1>11, <1>12
     DEF Handler

\* A call asks for no more than the journal says, at once or late.
LEMMA GrowThread ==
    ASSUME TypeOK, HandlerInv, GrowInv, NEW h \in Hosts,
           Thread(h) \/ ServeLate(h)
    PROVE  GrowInv'
<1> USE SizeTypes DEF Filled
<1>1. UNCHANGED <<file, pc, req>>
  BY DEF Thread, WorkerBegin, WorkerConnect, RpcServed, RpcTimeout,
         WorkerResult, ServeLate
<1>2. meta'.size = meta.size
  BY BeginStep, ResultStep
     DEF Thread, WorkerConnect, RpcServed, RpcTimeout, ServeLate
<1>3. ASSUME NEW call \in Call, call.op = "size" => call.size <= meta.size
      PROVE  Served(h, call).size <= meta.size
  <2>1. Served(h, call).size \in {dev[h].size, call.size}
        /\ (call.op # "size" => Served(h, call).size = dev[h].size)
    BY ServedStep
  <2> QED
    BY <1>3, <2>1 DEF GrowInv
<1>4. work[h] = "sent" =>
        req.mobj \in Call /\ (req.mobj.op = "size" => req.mobj.size <= meta.size)
  BY DEF HandlerInv, NoWork, Running, GrowInv, TypeOK, Locals
<1>5. ASSUME NEW g \in Hosts
      PROVE  /\ dev'[g].size <= meta.size
             /\ \A call \in late'[g] : call.op = "size" => call.size <= meta.size
  <2>1. CASE g # h
    BY <2>1, OtherHost DEF GrowInv
  <2>2. CASE g = h /\ UNCHANGED <<dev, late>>
    BY <2>2 DEF GrowInv
  <2>3. CASE g = h /\ RpcServed(h)
    BY <1>3, <1>4, <2>3 DEF RpcServed, GrowInv, TypeOK
  <2>4. CASE g = h /\ RpcTimeout(h)
    BY <1>4, <2>4 DEF RpcTimeout, GrowInv, TypeOK
  <2>5. CASE g = h /\ ServeLate(h)
    <3>1. PICK call \in late[h] :
            /\ late' = [late EXCEPT ![h] = @ \ {call}]
            /\ dev' = [dev EXCEPT ![h] = Served(h, call)]
      BY <2>5 DEF ServeLate
    <3>2. call \in Call /\ (call.op = "size" => call.size <= meta.size)
      BY DEF TypeOK, GrowInv
    <3> QED
      BY <1>3, <2>5, <3>1, <3>2 DEF GrowInv, TypeOK
  <2> QED
    BY <2>1, <2>2, <2>3, <2>4, <2>5
       DEF Thread, WorkerBegin, WorkerConnect, WorkerResult
<1> QED
  BY <1>1, <1>2, <1>5 DEF GrowInv

\* A call that is on the wire when its caller dies is one of them.
LEMMA GrowCrash ==
    ASSUME TypeOK, HandlerInv, GrowInv, Crash
    PROVE  GrowInv'
<1>1. \A h \in Hosts : work[h] = "sent" =>
        (req.mobj.op = "size" => req.mobj.size <= meta.size)
  BY SizeTypes DEF HandlerInv, NoWork, Running, Filled, GrowInv
<1>2. /\ UNCHANGED <<meta, file, dev>> /\ pc' = "idle" /\ ~req'.force
      /\ \A h \in Hosts : \/ late'[h] = late[h]
                          \/ /\ work[h] = "sent"
                             /\ late'[h] = late[h] \cup {req.mobj}
  BY DEF Crash, NoRequest
<1> QED
  BY <1>1, <1>2 DEF GrowInv, Filled

\* No target exports more than the file holds, when no request forces a shrink:
\* for any sizes and hosts, and whichever request fails or dies between
\* glusterBlockResizeEntry, the SIZE line and the calls.
THEOREM DevWithinFileSafety ==
    ASSUME \A r \in Requests : ~r.force
    PROVE  Spec => []DevWithinFile
<1>1. Init => GrowInv
  BY ModifyAssumption DEF Init, GrowInv, NoRequest, Filled
<1>2. TypeOK /\ StatusInv /\ GrowInv /\ [Next]_vars => GrowInv'
  <2> SUFFICES ASSUME TypeOK, StatusInv, GrowInv, [Next]_vars PROVE GrowInv'
    OBVIOUS
  <2>1. HandlerInv
    BY DEF StatusInv
  <2>2. CASE UNCHANGED vars
    BY <2>2 DEF vars, GrowInv
  <2> QED
    BY <2>1, <2>2, GrowHandler, GrowThread, GrowCrash DEF Next
<1>3. TypeOK /\ GrowInv => DevWithinFile
  BY SizeTypes DEF GrowInv, DevWithinFile
<1> QED
  BY <1>1, <1>2, <1>3, StatusHolds, PTL DEF Spec

-----------------------------------------------------------------------------
(***************************************************************************)
(* What a resize reports.                                                  *)
(***************************************************************************)

\* Requests are not cut short: no handler dies, no line is lost and no call
\* outlives its caller.
Uncut == FaultKinds \cap {"crash", "meta", "timeout"} = {}

\* Where SizeInv speaks of the hosts one by one.
SizeAt(h) ==
    /\ late[h] = {}
    /\ meta.status[h] = "RSSUCCESS" => dev[h].size = meta.size \/ Outdated(h)
    /\ (pc = "collect" /\ req.op = "size" /\ work[h] \in {"none", "ok", "done"})
         => dev[h].size = req.size

\* A step of the handler that neither starts nor ends threads, outside of a
\* resize that is past its SIZE line.
LEMMA SizeQuiet ==
    ASSUME TypeOK, SizeInv, NEW h \in Hosts, UNCHANGED <<dev, late>>,
           meta'.status = meta.status, meta'.size = meta.size,
           pc' # "collect", ~Outdated(h)
    PROVE  SizeAt(h)'
BY DEF SizeInv, SizeAt

\* The steps of the handler keep RSSUCCESS at the size in the journal.
LEMMA SizeHandler ==
    ASSUME Uncut, TypeOK, HandlerInv, SizeInv, Request \/ Handler
    PROVE  SizeInv'
<1> USE SizeTypes DEF Filled
<1>0. /\ UNCHANGED <<dev, late, strayed>> /\ meta'.status = meta.status
      /\ ~Fault("meta")
  BY HandlerLines DEF Fault, Uncut
<1>a. ASSUME pc \notin {"remote", "collect"} PROVE \A h \in Hosts : ~Outdated(h)
  BY <1>a DEF Outdated
<1>b. SUFFICES /\ pc' \in {"resize", "sizeline"} => req'.info.size = meta'.size
               /\ pc' \in Filled /\ req'.op = "size" => meta'.size = req'.size
               /\ \A h \in Hosts : SizeAt(h)'
               /\ SizeResult'
  BY <1>0 DEF SizeInv, SizeAt
<1>1. CASE Request
  BY <1>0, <1>1, <1>a, RequestStep, SizeQuiet DEF SizeResult, SizeReported
<1>2. CASE Access
  BY <1>0, <1>2, <1>a, AccessStep, SizeQuiet, FailFields
     DEF SizeResult, SizeReported, SameRequest
<1>3. CASE ModifyPassword
  <2>1. /\ pc = "passwd" /\ req.op = "auth" /\ meta'.size = meta.size
    BY <1>3 DEF ModifyPassword, HandlerInv, GB_METAUPDATE_OR_GOTO, TypeOK, Meta
  <2>2. pc' = "remote" /\ req'.op = "auth"
    BY <1>0, <1>3, <2>1, PasswordStep DEF SameRequest
  <2> QED
    BY <1>0, <1>a, <2>1, <2>2, SizeQuiet DEF SizeResult, SizeReported
<1>4. CASE ResizeEntry
  <2>1. /\ pc = "resize" /\ meta' = meta
        /\ \/ pc' = "sizeline" /\ req' = req
           \/ Fails
    BY <1>4 DEF ResizeEntry, Goto
  <2> QED
    BY <1>0, <1>a, <2>1, SizeQuiet, FailFields
       DEF SizeResult, SizeReported, SizeInv
<1>5. CASE SizeLine
  <2>1. /\ pc = "sizeline" /\ pc' = "remote" /\ req.op = "size"
        /\ meta' = [meta EXCEPT !.size = req.size]
        /\ req'.op = "size" /\ req'.size = req.size /\ req'.info = req.info
    BY <1>0, <1>5, SizeStep DEF SizeLine, SameRequest, HandlerInv
  <2>2. meta'.size = req.size /\ req.info.size = meta.size
    BY <2>1 DEF TypeOK, Meta, SizeInv
  <2>3. ASSUME NEW h \in Hosts PROVE SizeAt(h)'
    BY <1>0, <1>a, <2>1, <2>2 DEF SizeInv, SizeAt, Outdated
  <2> QED
    BY <2>1, <2>2, <2>3 DEF SizeResult, SizeReported
<1>6. CASE ModifyRemoteAsync
  <2>1. pc = "remote" /\ pc' = "collect" /\ req' = req /\ meta' = meta
    BY <1>6 DEF ModifyRemoteAsync, Goto
  <2>2. req.op = "size" => /\ meta.size = req.size /\ req.mobj.size = req.size
    BY <2>1 DEF SizeInv, HandlerInv
  <2>3. ASSUME NEW h \in Hosts PROVE SizeAt(h)'
    <3>1. CASE req.op # "size"
      BY <1>0, <2>1, <3>1 DEF SizeInv, SizeAt, Outdated
    <3>2. CASE req.op = "size" /\ h \in ModifySizeArgsFill
      <4>1. work'[h] = "begin"
        BY <1>6, <3>2 DEF ModifyRemoteAsync, Start
      <4> QED
        BY <1>0, <2>1, <4>1 DEF SizeInv, SizeAt, Outdated
    <3>3. CASE req.op = "size" /\ h \notin ModifySizeArgsFill
      <4>1. req.info.size = req.size /\ meta.status[h] = "RSSUCCESS"
        BY <2>2, <3>3 DEF ModifySizeArgsFill
      <4> QED
        BY <1>0, <2>1, <2>2, <4>1 DEF SizeInv, SizeAt, Outdated
    <3> QED
      BY <3>1, <3>2, <3>3
  <2> QED
    BY <2>1, <2>2, <2>3 DEF SizeResult, SizeReported
<1>7. CASE Collect
  <2>1. /\ pc = "collect" /\ Joined /\ SameRequest /\ meta' = meta
        /\ (req'.err <=> SomeFailed)
        /\ pc' = IF SomeFailed /\ req.op = "auth"
                 THEN (IF req.mode THEN "unwind" ELSE "reread") ELSE "unlock"
    BY <1>7, CollectStep
  <2>2. \A h \in Hosts : ~Outdated(h)
    BY <2>1 DEF Outdated, Joined
  <2>3. SizeResult'
    BY <1>0, <2>1 DEF SizeResult, SizeReported, SomeFailed, Joined, SizeInv,
                      SameRequest
  <2> QED
    BY <1>0, <2>1, <2>2, <2>3, SizeQuiet DEF SameRequest
<1>8. CASE Unwind
  <2>1. pc = "unwind" /\ meta'.size = meta.size
    BY <1>8 DEF Unwind, GB_METAUPDATE_OR_GOTO, TypeOK, Meta
  <2>2. pc' = "reread" /\ req' = req /\ req.op = "auth"
    BY <1>0, <1>8, <2>1 DEF Unwind, GB_METAUPDATE_OR_GOTO, Goto, HandlerInv
  <2> QED
    BY <1>0, <1>a, <2>1, <2>2, SizeQuiet DEF SizeResult, SizeReported
<1>9. CASE Reread
  <2>1. req.op = "auth"
    BY <1>9 DEF Reread, HandlerInv
  <2> QED
    BY <1>0, <1>9, <1>a, <2>1, RereadStep, SizeQuiet, FailFields
       DEF SizeResult, SizeReported, SameRequest
<1>10. CASE Undo
  BY <1>0, <1>10, <1>a, SizeQuiet
     DEF Undo, Goto, SizeResult, SizeReported, HandlerInv
<1>11. CASE Undone
  BY <1>0, <1>11, <1>a, SizeQuiet
     DEF Undone, Goto, SizeResult, SizeReported, HandlerInv
<1>12. CASE MetaUnlock
  BY <1>0, <1>12, <1>a, SizeQuiet DEF MetaUnlock, SizeResult, SizeReported
<1> QED
  BY <1>1, <1>2, <1>3, <1>4, <1>5, <1>6, <1>7, <1>8, <1>9, <1>10, <1>11, <1>12
     DEF Handler

\* Nor does a step of a thread, nor a crash or a late call, as there is none.
LEMMA SizeThread ==
    ASSUME Uncut, TypeOK, StatusInv, SizeInv,
           Crash \/ \E h \in Hosts : Thread(h) \/ ServeLate(h)
    PROVE  SizeInv'
<1> USE SizeTypes DEF Filled
<1>0. ~Fault("crash") /\ ~Fault("meta") /\ ~Fault("timeout")
  BY DEF Fault, Uncut
<1>1. PICK h \in Hosts : Thread(h) /\ ~RpcTimeout(h)
  BY <1>0 DEF Crash, ServeLate, SizeInv, RpcTimeout
<1>2. /\ pc' = pc /\ req' = req /\ pc \in Running /\ strayed' = strayed
      /\ meta'.size = meta.size
  <2>1. pc' = pc /\ req' = req /\ work[h] # "none" /\ strayed' = strayed
    BY <1>1 DEF Thread, WorkerBegin, WorkerConnect, RpcServed, WorkerResult
  <2>2. meta'.size = meta.size
    BY <1>1, BeginStep, ResultStep DEF Thread, WorkerConnect, RpcServed
  <2> QED
    BY <2>1, <2>2 DEF StatusInv, HandlerInv, NoWork
<1>3. ASSUME NEW g \in Hosts PROVE SizeAt(g)'
  <2>1. CASE g # h
    <3>1. /\ work'[g] = work[g] /\ dev'[g] = dev[g] /\ late'[g] = late[g]
          /\ meta'.status[g] = meta.status[g]
      BY <1>1, <2>1, OtherHost
    <3> QED
      BY <1>2, <3>1 DEF SizeInv, SizeAt, Outdated
  <2>2. CASE g = h /\ WorkerBegin(h)
    BY <1>0, <1>2, <2>2, BeginStep DEF SizeInv, SizeAt, BeginLine
  <2>3. CASE g = h /\ WorkerConnect(h)
    BY <1>2, <2>3 DEF WorkerConnect, To, TypeOK, SizeInv, SizeAt, Outdated
  <2>4. CASE g = h /\ RpcServed(h)
    <3>1. req.mobj \in Call /\ req.mobj.op = req.op
          /\ (req.op = "size" => req.mobj.size = req.size)
      BY <1>2 DEF StatusInv, HandlerInv, Running, TypeOK, Locals
    <3>2. meta.status[h] = BeginLine /\ meta' = meta
      BY <2>4 DEF RpcServed, StatusInv, ThreadInv, SizeInv
    <3>3. \/ dev'[h] = Served(h, req.mobj) /\ work'[h] = "ok"
          \/ work'[h] = "err"
      BY <2>4 DEF RpcServed, To, TypeOK
    <3>4. work'[h] = "ok" /\ req.op = "size" => dev'[h].size = req.size
      BY <3>1, <3>3, ServedStep
    <3>5. late'[h] = {}
      BY <2>4 DEF RpcServed, SizeInv
    <3> QED
      BY <1>2, <2>4, <3>2, <3>3, <3>4, <3>5 DEF SizeAt, BeginLine
  <2>5. CASE g = h /\ WorkerResult(h)
    <3>1. /\ UNCHANGED <<dev, late, pc, req>>
          /\ work[h] \in {"ok", "err"}
          /\ work'[h] = IF work[h] = "ok" THEN "done" ELSE "failed"
          /\ meta'.status[h] = ResultStatus(work[h] = "ok")
      BY <1>0, <2>5, ResultStep
    <3>2. req.op = "size" => pc = "collect" /\ meta.size = req.size
      BY <1>2 DEF StatusInv, HandlerInv, Running, SizeInv
    <3>3. CASE work[h] = "ok"
      BY <1>2, <2>5, <3>1, <3>2, <3>3 DEF SizeInv, SizeAt, ResultStatus
    <3>4. CASE work[h] = "err"
      BY <1>2, <2>5, <3>1, <3>4 DEF SizeInv, SizeAt, ResultStatus
    <3> QED
      BY <3>1, <3>3, <3>4
  <2> QED
    BY <1>1, <2>1, <2>2, <2>3, <2>4, <2>5 DEF Thread
<1> QED
  BY <1>2, <1>3 DEF SizeInv, SizeAt, SizeResult, SizeReported, Running

\* SizeInv holds of requests that are not cut short.
LEMMA SizeHolds ==
    ASSUME Uncut
    PROVE  Spec => [](TypeOK /\ SizeInv)
<1>1. Init => SizeInv
  BY DEF Init, SizeInv, NoRequest, Filled, SizeResult, SizeReported
<1>2. TypeOK /\ StatusInv /\ SizeInv /\ [Next]_vars => SizeInv'
  <2> SUFFICES ASSUME TypeOK, StatusInv, SizeInv, [Next]_vars PROVE SizeInv'
    OBVIOUS
  <2>1. HandlerInv
    BY DEF StatusInv
  <2>2. CASE UNCHANGED vars
    BY <2>2 DEF vars, SizeInv, Outdated, SizeResult, SizeReported
  <2> QED
    BY <2>1, <2>2, SizeHandler, SizeThread DEF Next
<1> QED
  BY <1>1, <1>2, StatusHolds, PTL DEF Spec

\* A resize that reports success has every host at the new size, the hosts with
\* an RSSUCCESS that glusterBlockModifySizeArgsFill passed over included: for
\* all requests and hosts, when requests are not cut short.
THEOREM SizeSafety ==
    ASSUME FaultKinds \cap {"crash", "meta", "timeout"} = {}
    PROVE  Spec => []SizeResult
<1>1. Uncut
  BY DEF Uncut
<1>2. SizeInv => SizeResult
  BY DEF SizeInv
<1> QED
  BY <1>1, <1>2, SizeHolds, PTL

\* A resize that failed somewhere is not refused as the current size before
\* every host has it, for the same requests and faults, while the statuses
\* are those glusterBlockIsResizeFailed looks for.
THEOREM RetrySafety ==
    ASSUME FaultKinds \cap {"crash", "meta", "timeout"} = {}
    PROVE  Spec => []RetryAccepted
<1>1. Uncut
  BY DEF Uncut
<1>2. TypeOK /\ SizeInv => RetryAccepted
  BY SizeTypes
     DEF SizeInv, RetryAccepted, Refused, IsResizeFailed, Outdated
<1> QED
  BY <1>1, <1>2, SizeHolds, PTL

-----------------------------------------------------------------------------
(***************************************************************************)
(* What an enable reports.                                                 *)
(***************************************************************************)

\* No request disables, and an undo is not broken off by a failed read.
EnablesOnly ==
    /\ \A r \in Requests : r.op = "auth" => r.mode
    /\ Uncut /\ "read" \notin FaultKinds

\* Where EnableInv speaks of the hosts one by one.
EnableAt(h) ==
    /\ meta.status[h] = "AUTHENFORCED" =>
         \/ Enforced(h) \/ pc \in {"reread", "undo"}
         \/ pc = "undone" /\ work[h] = "begin"
    /\ (pc = "collect" /\ req.op = "auth" /\ work[h] \in {"none", "ok", "done"})
         => Enforced(h)

\* Where EnableInv speaks of the request.
EnableStep ==
    /\ pc # "idle" /\ req.op = "auth" => req.mode
    /\ pc = "passwd" => req.info.passwd = meta.passwd
    /\ pc \in {"remote", "collect"} /\ req.op = "auth" =>
         req.mobj.mode /\ req.mobj.passwd = meta.passwd /\ meta.passwd # 0
    /\ pc \in {"unwind", "reread"} => req.mobj.mode
    /\ pc \in {"undo", "undone"} => ~req.mobj.mode
    /\ pc \in {"unwind", "reread", "undo", "undone"} => req.err

\* A step of the handler that starts and ends no threads and leaves the
\* password alone.
LEMMA EnableQuiet ==
    ASSUME TypeOK, EnableInv, NEW h \in Hosts, UNCHANGED dev,
           meta'.status = meta.status, meta'.passwd = meta.passwd,
           pc' # "collect",
           pc \notin {"reread", "undo", "undone"}
    PROVE  EnableAt(h)'
BY DEF EnableInv, EnableAt, Enforced

\* The steps of the handler keep AUTHENFORCED with the password in the journal.
LEMMA EnableHandler ==
    ASSUME EnablesOnly, TypeOK, HandlerInv, EnableInv, Request \/ Handler
    PROVE  EnableInv'
<1>0. /\ UNCHANGED dev /\ meta'.status = meta.status
      /\ ~Fault("meta") /\ ~Fault("read")
  BY HandlerLines DEF Fault, Uncut, EnablesOnly
<1>a. EnableStep
  BY DEF EnableInv, EnableStep
<1>b. SUFFICES EnableStep' /\ (\A h \in Hosts : EnableAt(h)') /\ EnableResult'
  BY DEF EnableInv, EnableAt, EnableStep
<1> USE DEF AuthReported, EnableResult
<1>1. CASE Request
  BY <1>0, <1>1, RequestStep, EnableQuiet DEF EnableStep, EnablesOnly
<1>2. CASE Access
  BY <1>0, <1>2, <1>a, AccessStep, EnableQuiet, FailFields
     DEF EnableStep, SameRequest
<1>3. CASE ModifyPassword
  <2>1. /\ pc = "passwd" /\ req.op = "auth" /\ req.mode
        /\ req.info.passwd = meta.passwd
    BY <1>3, <1>a DEF ModifyPassword, HandlerInv, EnableStep
  <2>2. PICK p \in Nat :
          /\ pc' = "remote" /\ SameRequest /\ req'.err = req.err
          /\ req'.mobj.mode = req.mode /\ req'.mobj.passwd = p
          /\ \/ p # 0 /\ p = req.info.passwd /\ meta' = meta
             \/ /\ p = drawn + 1 /\ req.info.passwd = 0
                /\ meta' = [meta EXCEPT !.passwd = p]
    BY <1>0, <1>3, <2>1, PasswordStep
  <2>3. p # 0 /\ meta'.passwd = p
    BY <2>1, <2>2 DEF TypeOK, Meta
  <2>4. \A h \in Hosts : meta.status[h] = "AUTHENFORCED" => meta'.passwd = meta.passwd
    BY <2>1, <2>2 DEF EnableInv, Enforced
  <2>5. \A h \in Hosts : EnableAt(h)'
    BY <1>0, <2>1, <2>2, <2>4 DEF EnableInv, EnableAt, Enforced
  <2> QED
    BY <2>1, <2>2, <2>3, <2>5 DEF EnableStep, SameRequest
<1>4. CASE ResizeEntry
  <2>1. /\ pc = "resize" /\ meta' = meta /\ req.op = "size"
        /\ \/ pc' = "sizeline" /\ req' = req
           \/ Fails
    BY <1>4 DEF ResizeEntry, Goto, HandlerInv
  <2> QED
    BY <1>0, <2>1, EnableQuiet, FailFields DEF EnableStep, SameRequest
<1>5. CASE SizeLine
  <2>1. /\ pc = "sizeline" /\ pc' = "remote" /\ req'.op = "size"
        /\ meta'.passwd = meta.passwd
    BY <1>0, <1>5, SizeStep DEF SizeLine, SameRequest, HandlerInv, TypeOK, Meta
  <2> QED
    BY <1>0, <2>1, EnableQuiet DEF EnableStep
<1>6. CASE ModifyRemoteAsync
  <2>1. pc = "remote" /\ pc' = "collect" /\ req' = req /\ meta' = meta
    BY <1>6 DEF ModifyRemoteAsync, Goto
  <2>2. ASSUME NEW h \in Hosts PROVE EnableAt(h)'
    <3>1. CASE req.op # "auth"
      BY <1>0, <2>1, <3>1 DEF EnableInv, EnableAt, Enforced
    <3>2. CASE req.op = "auth" /\ meta.status[h] = "AUTHENFORCED"
      BY <1>0, <2>1, <3>2 DEF EnableInv, EnableAt, Enforced
    <3>3. CASE req.op = "auth" /\ meta.status[h] # "AUTHENFORCED"
      <4>1. req.mobj.mode /\ meta.status[h] \in ModifyStatus
        BY <1>a, <2>1, <3>3 DEF EnableStep, TypeOK, Meta
      <4>2. h \in ModifyArgsFill(req.mobj.mode)
        BY <3>3, <4>1 DEF ModifyArgsFill, ModifyStatus
      <4>3. work'[h] = "begin"
        BY <1>6, <3>3, <4>2 DEF ModifyRemoteAsync, Start
      <4> QED
        BY <1>0, <2>1, <3>3, <4>3 DEF EnableAt
    <3> QED
      BY <3>1, <3>2, <3>3
  <2> QED
    BY <1>a, <2>1, <2>2 DEF EnableStep
<1>7. CASE Collect
  <2>1. /\ pc = "collect" /\ Joined /\ SameRequest /\ meta' = meta
        /\ req'.mobj = req.mobj /\ (req'.err <=> SomeFailed)
        /\ pc' = IF SomeFailed /\ req.op = "auth"
                 THEN (IF req.mode THEN "unwind" ELSE "reread") ELSE "unlock"
    BY <1>7, CollectStep
  <2>2. EnableResult'
    BY <1>0, <2>1 DEF SomeFailed, Joined, EnableInv, SameRequest, Enforced
  <2>3. EnableStep'
    BY <1>a, <2>1 DEF EnableStep, SameRequest
  <2> QED
    BY <1>0, <2>1, <2>2, <2>3, EnableQuiet
<1>8. CASE Unwind
  <2>1. pc = "unwind" /\ pc' = "reread" /\ req' = req
    BY <1>0, <1>8 DEF Unwind, GB_METAUPDATE_OR_GOTO, Goto
  <2> QED
    BY <1>a, <2>1 DEF EnableStep, EnableAt
<1>9. CASE Reread
  <2>1. /\ pc = "reread" /\ pc' = "undo" /\ SameRequest /\ req'.err = req.err
        /\ req'.mobj.mode <=> ~req.mobj.mode
    BY <1>0, <1>9, RereadStep
  <2> QED
    BY <1>a, <2>1 DEF EnableStep, EnableAt, SameRequest
<1>10. CASE Undo
  <2>1. pc = "undo" /\ pc' = "undone" /\ req' = req /\ meta' = meta
    BY <1>10 DEF Undo, Goto
  <2>2. ASSUME NEW h \in Hosts, meta.status[h] = "AUTHENFORCED"
        PROVE  work'[h] = "begin"
    BY <1>10, <1>a, <2>1, <2>2 DEF Undo, Start, ModifyArgsFill, EnableStep
  <2> QED
    BY <1>a, <2>1, <2>2 DEF EnableStep, EnableAt
<1>11. CASE Undone
  <2>1. /\ pc = "undone" /\ pc' = "unlock" /\ req' = req /\ meta' = meta
        /\ Joined /\ req.err
    BY <1>11, <1>a DEF Undone, Goto, EnableStep
  <2>2. \A h \in Hosts : EnableAt(h)'
    BY <1>0, <2>1 DEF Joined, EnableInv, EnableAt, Enforced
  <2> QED
    BY <1>a, <2>1, <2>2 DEF EnableStep
<1>12. CASE MetaUnlock
  BY <1>0, <1>12, EnableQuiet DEF MetaUnlock, EnableStep
<1> QED
  BY <1>1, <1>2, <1>3, <1>4, <1>5, <1>6, <1>7, <1>8, <1>9, <1>10, <1>11, <1>12
     DEF Handler

\* So do the steps of the threads; a crash or a late call there is not.
LEMMA EnableThread ==
    ASSUME EnablesOnly, TypeOK, StatusInv, SizeInv, EnableInv,
           Crash \/ \E h \in Hosts : Thread(h) \/ ServeLate(h)
    PROVE  EnableInv'
<1>0. ~Fault("crash") /\ ~Fault("meta") /\ ~Fault("timeout")
  BY DEF Fault, Uncut, EnablesOnly
<1>1. PICK h \in Hosts : Thread(h) /\ ~RpcTimeout(h)
  BY <1>0 DEF Crash, ServeLate, SizeInv, RpcTimeout
<1>2. /\ pc' = pc /\ req' = req /\ pc \in Running
      /\ meta'.passwd = meta.passwd
  <2>1. pc' = pc /\ req' = req /\ work[h] # "none"
    BY <1>1 DEF Thread, WorkerBegin, WorkerConnect, RpcServed, WorkerResult
  <2>2. meta'.passwd = meta.passwd
    BY <1>1, BeginStep, ResultStep DEF Thread, WorkerConnect, RpcServed
  <2> QED
    BY <2>1, <2>2 DEF StatusInv, HandlerInv, NoWork
<1>3. work[h] \in {"call", "sent", "ok", "err"}
        => meta.status[h] # "AUTHENFORCED"
  BY DEF SizeInv, StatusInv, ThreadInv, BeginLine
<1>4. ASSUME NEW g \in Hosts PROVE EnableAt(g)'
  <2>1. CASE g # h
    <3>1. /\ work'[g] = work[g] /\ dev'[g] = dev[g]
          /\ meta'.status[g] = meta.status[g]
      BY <1>1, <2>1, OtherHost
    <3> QED
      BY <1>2, <3>1 DEF EnableInv, EnableAt, Enforced
  <2>2. CASE g = h /\ WorkerBegin(h)
    BY <1>0, <1>2, <2>2, BeginStep DEF EnableAt, BeginLine
  <2>3. CASE g = h /\ WorkerConnect(h)
    BY <1>2, <1>3, <2>3 DEF WorkerConnect, To, TypeOK, EnableAt
  <2>4. CASE g = h /\ RpcServed(h)
    <3>1. req.mobj \in Call /\ req.mobj.op = req.op
      BY <1>2 DEF StatusInv, HandlerInv, Running, Filled, TypeOK, Locals
    <3>2. meta.status[h] # "AUTHENFORCED" /\ meta' = meta
      BY <1>3, <2>4 DEF RpcServed
    <3>3. \/ dev'[h] = Served(h, req.mobj) /\ work'[h] = "ok"
          \/ work'[h] = "err"
      BY <2>4 DEF RpcServed, To, TypeOK
    <3>4. ASSUME work'[h] = "ok", req.op = "auth", pc = "collect"
          PROVE  Enforced(h)'
      <4>1. /\ req.mobj.mode /\ req.mobj.passwd = meta.passwd
            /\ meta.passwd # 0
        BY <3>4 DEF EnableInv
      <4>2. dev'[h].auth = req.mobj.mode /\ dev'[h].passwd = req.mobj.passwd
        BY <3>1, <3>3, <3>4, <4>1, ServedStep
      <4> QED
        BY <1>2, <4>1, <4>2 DEF Enforced
    <3> QED
      BY <1>2, <2>4, <3>2, <3>3, <3>4 DEF EnableAt
  <2>5. CASE g = h /\ WorkerResult(h)
    <3>1. /\ UNCHANGED <<dev, pc, req>>
          /\ work[h] \in {"ok", "err"}
          /\ work'[h] = IF work[h] = "ok" THEN "done" ELSE "failed"
          /\ meta'.status[h] = ResultStatus(work[h] = "ok")
      BY <1>0, <2>5, ResultStep
    <3>2. req.op \in {"auth", "size"} /\ (req.mobj.mode => pc = "collect")
      BY <1>2 DEF EnableInv, Running, TypeOK, Locals
    <3>3. CASE work[h] = "ok"
      BY <1>2, <2>5, <3>1, <3>2, <3>3
         DEF EnableInv, EnableAt, ResultStatus, Enforced
    <3>4. CASE work[h] = "err"
      BY <1>2, <2>5, <3>1, <3>4 DEF EnableAt, ResultStatus
    <3> QED
      BY <3>1, <3>3, <3>4
  <2> QED
    BY <1>1, <2>1, <2>2, <2>3, <2>4, <2>5 DEF Thread
<1> QED
  BY <1>2, <1>4
     DEF EnableInv, EnableAt, EnableResult, AuthReported, Running

\* An enable that reports success has every host ask for the password in the
\* journal, those glusterBlockModifyArgsFill passed over included: for any
\* hosts and any mix of enables and resizes, however many failed and were
\* undone, when none is cut short and nobody disables.
THEOREM EnableSafety ==
    ASSUME FaultKinds \cap {"crash", "meta", "timeout", "read"} = {},
           \A r \in Requests : r.op = "auth" => r.mode
    PROVE  Spec => []EnableResult
<1>1. EnablesOnly /\ Uncut
  BY DEF EnablesOnly, Uncut
<1>2. Init => EnableInv
  <2>1. Init => \A h \in Hosts : EnableAt(h)
    BY DEF Init, EnableAt, Enforced
  <2> QED
    BY <2>1 DEF Init, EnableInv, EnableAt, EnableResult, AuthReported
<1>3. TypeOK /\ StatusInv /\ SizeInv /\ EnableInv /\ [Next]_vars => EnableInv'
  <2> SUFFICES ASSUME TypeOK, StatusInv, SizeInv, EnableInv, [Next]_vars
               PROVE  EnableInv'
    OBVIOUS
  <2>1. HandlerInv
    BY DEF StatusInv
  <2>2. CASE UNCHANGED vars
    BY <2>2 DEF vars, EnableInv, Enforced, EnableResult, AuthReported
  <2> QED
    BY <1>1, <2>1, <2>2, EnableHandler, EnableThread DEF Next
<1>4. EnableInv => EnableResult
  BY DEF EnableInv
<1> QED
  BY <1>1, <1>2, <1>3, <1>4, StatusHolds, SizeHolds, PTL DEF Spec

-----------------------------------------------------------------------------
(***************************************************************************)
(* What a shrink meets.                                                    *)
(***************************************************************************)

\* Arithmetic of size_t: a difference below zero wraps, and adding the reserve,
\* when that is as large, wraps it back.
LEMMA WrapBack ==
    ASSUME NEW W \in Nat, NEW R \in 0 .. W - 1, NEW d \in 1 .. R
    PROVE  (R + ((-d) % W)) % W = R - d
<1>1. -d = W * (-1) + (W - d) /\ W - d \in 0 .. W - 1
  OBVIOUS
<1>2. (-d) % W = W - d
  BY <1>1
<1>3. R + (W - d) = W * 1 + (R - d) /\ R - d \in 0 .. W - 1
  OBVIOUS
<1>4. (R + (W - d)) % W = R - d
  BY <1>3
<1> QED
  BY <1>2, <1>4

\* A file and the journal change together, and there is room for the reserve.
InStep ==
    /\ FaultKinds \cap {"crash", "meta", "storage"} = {}
    /\ Reserve <= FreeSpace

\* A shrink of the file by no more than the reserve fits.
LEMMA ShrinkFits ==
    ASSUME InStep, TypeOK, req.size < file, file - req.size <= Reserve
    PROVE  CheckAvailableSpace((req.size - file) % Wrap)
<1>1. Wrap \in Nat /\ Reserve \in 0 .. Wrap - 1 /\ FreeSpace \in 0 .. Wrap - 1
  BY ModifyAssumption
<1>2. file - req.size \in 1 .. Reserve /\ req.size - file = -(file - req.size)
  BY <1>1, SizeTypes
<1>3. (Reserve + ((req.size - file) % Wrap)) % Wrap
        = Reserve - (file - req.size)
  BY <1>1, <1>2, WrapBack
<1>4. FreeSpace >= Reserve - (file - req.size)
  BY <1>1, <1>2 DEF InStep
<1> DEFINE asked == (Reserve + ((req.size - file) % Wrap)) % Wrap
<1>5. CheckAvailableSpace((req.size - file) % Wrap) <=> FreeSpace >= asked
  BY DEF CheckAvailableSpace
<1>6. asked = Reserve - (file - req.size)
  BY <1>3
<1> HIDE DEF asked
<1> QED
  BY <1>4, <1>5, <1>6

\* ShrinkResult is about a request at its end that has met no fault.
LEMMA ShrinkElsewhere ==
    ASSUME TypeOK', pc' # "unlock" \/ req'.op # "size" \/ req'.since < faults'
    PROVE  ShrinkResult'
BY DEF ShrinkResult, TypeOK, Locals

\* The steps of the handler keep file and journal in step.
LEMMA ShrinkHandler ==
    ASSUME InStep, TypeOK, TypeOK', HandlerInv, ShrinkInv, Request \/ Handler
    PROVE  ShrinkInv'
<1> USE SizeTypes
<1>0. ~Fault("meta") /\ ~Fault("storage")
  BY DEF Fault, InStep
<1>a. \A h \in Hosts : work'[h] \notin {"err", "failed"}
  BY HandlerWork
<1>1. CASE Request
  BY <1>1, <1>a, RequestStep, ShrinkElsewhere DEF ShrinkInv
<1>2. CASE Access
  <2>1. pc = "access" /\ UNCHANGED <<meta, file>> /\ req.since <= faults
    BY <1>2, AccessStep DEF ShrinkInv
  <2>2. CASE Fails /\ (Fault("read") \/ Fault("connect"))
    <3>1. faults' = faults + 1 /\ pc' = "unlock" /\ req'.since = req.since
      BY <2>2, FailFields DEF Fault, SameRequest
    <3> QED
      BY <1>a, <2>1, <3>1, ShrinkElsewhere DEF ShrinkInv
  <2>3. CASE NoFault /\ ~(Fails /\ (Fault("read") \/ Fault("connect")))
    <3>1. /\ req'.op = req.op /\ req'.size = req.size /\ req'.force = req.force
          /\ req'.since = req.since /\ req'.info.size = meta.size
          /\ (req'.err <=> Refused)
          /\ pc' \in {"unlock", "passwd", "resize"} /\ faults' = faults
      BY <1>2, <2>3, AccessStep DEF NoFault
    <3>2. ShrinkResult'
      BY <3>1 DEF ShrinkResult, Refused
    <3> QED
      BY <1>a, <2>1, <3>1, <3>2 DEF ShrinkInv
  <2> QED
    BY <1>2, <2>2, <2>3, AccessStep
<1>3. CASE ModifyPassword
  <2>1. /\ pc = "passwd" /\ meta'.size = meta.size /\ file' = file
    BY <1>3 DEF ModifyPassword, GB_METAUPDATE_OR_GOTO, TypeOK, Meta
  <2>2. pc' = "remote" /\ req'.since = req.since /\ faults' = faults
    BY <1>0, <1>3, PasswordStep DEF SameRequest, NoFault
  <2> QED
    BY <1>a, <2>1, <2>2, ShrinkElsewhere DEF ShrinkInv
<1>4. CASE ResizeEntry
  <2>1. pc = "resize" /\ meta' = meta /\ faults' = faults
    BY <1>0, <1>4 DEF ResizeEntry, NoFault
  <2>2. CASE file' = req.size /\ pc' = "sizeline" /\ req' = req
    BY <1>a, <2>1, <2>2, ShrinkElsewhere DEF ShrinkInv
  <2>3. CASE /\ req.size # file /\ file' = file /\ Fails
             /\ ~CheckAvailableSpace((req.size - file) % Wrap)
    <3>1. ~(req.size < file /\ file - req.size <= Reserve)
      BY <2>3, ShrinkFits
    <3>2. /\ pc' = "unlock" /\ req'.size = req.size /\ req'.info = req.info
          /\ req'.since = req.since
      BY <2>3, FailFields DEF SameRequest
    <3>3. ShrinkResult'
      BY <2>1, <3>1, <3>2 DEF ShrinkInv, ShrinkResult
    <3> QED
      BY <1>a, <2>1, <2>3, <3>2, <3>3 DEF ShrinkInv
  <2> QED
    BY <1>0, <1>4, <2>2, <2>3 DEF ResizeEntry, Goto
<1>5. CASE SizeLine
  <2>1. /\ pc = "sizeline" /\ pc' = "remote" /\ file' = file
        /\ meta'.size = req.size /\ req'.since = req.since /\ faults' = faults
    BY <1>0, <1>5, SizeStep
       DEF SizeLine, SameRequest, NoFault, TypeOK, Meta
  <2> QED
    BY <1>a, <2>1, ShrinkElsewhere DEF ShrinkInv
<1>6. CASE ModifyRemoteAsync
  BY <1>6, <1>a, ShrinkElsewhere DEF ModifyRemoteAsync, Goto, ShrinkInv
<1>7. CASE Collect
  <2>1. /\ pc = "collect" /\ SameRequest /\ UNCHANGED <<meta, file, faults>>
        /\ (req'.err <=> SomeFailed)
        /\ pc' \in {"unwind", "reread", "unlock"}
    BY <1>7, CollectStep
  <2>2. SomeFailed => req.since < faults
    BY DEF SomeFailed, ShrinkInv
  <2>3. ShrinkResult'
    BY <2>1, <2>2 DEF ShrinkResult, SameRequest
  <2> QED
    BY <1>a, <2>1, <2>3 DEF ShrinkInv, SameRequest
<1>8. CASE Unwind
  <2>1. /\ pc = "unwind" /\ meta'.size = meta.size /\ file' = file
    BY <1>8 DEF Unwind, GB_METAUPDATE_OR_GOTO, TypeOK, Meta
  <2>2. pc' = "reread" /\ req' = req /\ faults' = faults
    BY <1>0, <1>8 DEF Unwind, GB_METAUPDATE_OR_GOTO, Goto, NoFault
  <2> QED
    BY <1>a, <2>1, <2>2, ShrinkElsewhere DEF ShrinkInv
<1>9. CASE Reread
  <2>1. /\ pc = "reread" /\ UNCHANGED <<meta, file>> /\ req.op = "auth"
        /\ pc' \in {"undo", "unlock"} /\ SameRequest
        /\ faults' \in {faults, faults + 1}
    BY <1>9, RereadStep, FailFields DEF Fault, NoFault, HandlerInv
  <2> QED
    BY <1>a, <2>1, ShrinkElsewhere DEF ShrinkInv, SameRequest
<1>10. CASE Undo
  BY <1>10, <1>a, ShrinkElsewhere DEF Undo, Goto, ShrinkInv
<1>11. CASE Undone
  BY <1>11, <1>a, ShrinkElsewhere DEF Undone, Goto, ShrinkInv, HandlerInv
<1>12. CASE MetaUnlock
  BY <1>12, <1>a, ShrinkElsewhere DEF MetaUnlock, ShrinkInv
<1> QED
  BY <1>1, <1>2, <1>3, <1>4, <1>5, <1>6, <1>7, <1>8, <1>9, <1>10, <1>11, <1>12
     DEF Handler

\* A thread changes neither, and fails through a fault.
LEMMA ShrinkThread ==
    ASSUME InStep, TypeOK, TypeOK', HandlerInv, ShrinkInv,
           Crash \/ \E h \in Hosts : Thread(h) \/ ServeLate(h)
    PROVE  ShrinkInv'
<1> USE SizeTypes
<1>0. ~Fault("crash")
  BY DEF Fault, InStep
<1>1. PICK h \in Hosts : Thread(h) \/ ServeLate(h)
  BY <1>0 DEF Crash
<1>2. CASE ServeLate(h)
  BY <1>2 DEF ServeLate, ShrinkInv, ShrinkResult
<1>3. CASE Thread(h)
  <2>1. pc' = pc /\ req' = req /\ file' = file /\ work[h] # "none"
    BY <1>3 DEF Thread, WorkerBegin, WorkerConnect, RpcServed, RpcTimeout,
                WorkerResult
  <2>2. meta'.size = meta.size
    BY <1>3, BeginStep, ResultStep
       DEF Thread, WorkerConnect, RpcServed, RpcTimeout
  <2>3. pc \in Running
    BY <2>1 DEF HandlerInv, NoWork
  <2>4. faults' \in {faults, faults + 1}
    BY <1>3, BeginStep, ResultStep
       DEF Thread, WorkerConnect, RpcServed, RpcTimeout, Fault, NoFault
  <2>5. work'[h] \in {"err", "failed"}
          => work[h] = "err" \/ faults' = faults + 1
    BY <1>3, BeginStep, ResultStep
       DEF Thread, WorkerConnect, RpcServed, RpcTimeout, To, TypeOK, Fault
  <2>6. \A g \in Hosts : g # h => work'[g] = work[g]
    BY <1>3, OtherHost
  <2>7. req.since <= faults
    BY <2>3 DEF ShrinkInv, Running
  <2>8. \A g \in Hosts : work'[g] \in {"err", "failed"} => req.since < faults'
    BY <2>4, <2>5, <2>6, <2>7 DEF ShrinkInv
  <2> QED
    BY <2>1, <2>2, <2>3, <2>4, <2>7, <2>8, ShrinkElsewhere
       DEF ShrinkInv, Running
<1> QED
  BY <1>1, <1>2, <1>3

\* A shrink with force by no more than GB_METASTORE_RESERVE meets no error but
\* those of its environment, for every width of size_t, reserve and size: the
\* wrapped difference in glusterBlockResizeEntry is harmless there, as long as
\* the reserve itself is free and no earlier request left file and journal at
\* different sizes.
THEOREM ShrinkSafety ==
    ASSUME FaultKinds \cap {"crash", "meta", "storage"} = {},
           Reserve <= FreeSpace
    PROVE  Spec => []ShrinkResult
<1>1. InStep
  BY DEF InStep
<1>2. Init => ShrinkInv
  BY DEF Init, ShrinkInv, ShrinkResult, NoWork
<1>3. TypeOK /\ StatusInv /\ ShrinkInv /\ TypeOK' /\ [Next]_vars => ShrinkInv'
  <2> SUFFICES ASSUME TypeOK, StatusInv, ShrinkInv, TypeOK', [Next]_vars
               PROVE  ShrinkInv'
    OBVIOUS
  <2>1. HandlerInv
    BY DEF StatusInv
  <2>2. CASE UNCHANGED vars
    BY <2>2 DEF vars, ShrinkInv, ShrinkResult
  <2> QED
    BY <1>1, <2>1, <2>2, ShrinkHandler, ShrinkThread DEF Next
<1>4. ShrinkInv => ShrinkResult
  BY DEF ShrinkInv
<1> QED
  BY <1>2, <1>3, <1>4, StatusHolds, PTL DEF Spec
=============================================================================
