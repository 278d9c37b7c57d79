----------------------------- MODULE BlockModify -----------------------------
(***************************************************************************)
(* Changing the authentication and the size of a block volume that exists  *)
(* on all of its hosts: block_modify_cli_1_svc_st,                         *)
(* block_modify_size_cli_1_svc_st and what they call.                      *)
(*                                                                         *)
(* The lock on meta.lock lets one handler in at a time (BlockLifecycle     *)
(* models and proves that), so the requests of all coordinators are one    *)
(* sequence here.  A handler may crash at any step; a call whose caller    *)
(* gave up may be served late.                                             *)
(*                                                                         *)
(* Both operations journal into the same place, the status of the host: a  *)
(* resize overwrites what an authentication request wrote, and the other   *)
(* way round.  That is what this module is about.                          *)
(*                                                                         *)
(* Abstractions.  A password is a number, 0 the empty one; a size is a     *)
(* number of block sizes, so it is aligned.  The capability check is a     *)
(* call to every host that can fail; a failed lock or volume handle is a   *)
(* request that never starts.                                              *)
(***************************************************************************)
EXTENDS Integers, FiniteSets, GbMeta

CONSTANTS
    Hosts,         \* the hosts of the block, mpath of them
    Sizes,         \* sizes a request may ask for
    InitSize,      \* the size at creation
    Requests,      \* the requests: [op, mode, size, force]
    FaultKinds,    \* which faults the environment may inject
    MaxFaults,     \* bound: how many of them
    MaxPasswords,  \* bound: how many passwords are drawn
    Wrap,          \* 2^w, w the width of size_t
    Reserve,       \* GB_METASTORE_RESERVE
    FreeSpace      \* what glfs_statvfs reports

ASSUME ModifyAssumption ==
    /\ IsFiniteSet(Hosts) /\ Hosts # {}
    /\ Sizes \subseteq Nat /\ InitSize \in Sizes
    /\ Requests \subseteq [op : {"auth", "size"}, mode : BOOLEAN,
                           size : Sizes, force : BOOLEAN]
    /\ MaxFaults \in Nat /\ MaxPasswords \in Nat \ {0}
    /\ Wrap \in Nat /\ Sizes \subseteq 0 .. Wrap - 1
    /\ Reserve \in 0 .. Wrap - 1 /\ FreeSpace \in 0 .. Wrap - 1

VARIABLES
    meta,      \* the metafile
    file,      \* the size of the file under /block-store
    dev,       \* dev[h]: what targetcli on h exports
    late,      \* late[h]: calls on the wire to h whose caller gave up
    strayed,   \* history: the hosts such a call was sent to
    drawn,     \* how many passwords were drawn
    faults,    \* how many faults were injected
    pc,        \* the next step of the handler
    req,       \* its request and locals
    work       \* work[h]: its thread for host h

vars == <<meta, file, dev, late, strayed, drawn, faults, pc, req, work>>

-----------------------------------------------------------------------------
\* What the host lines of this block can say; all of them pass
\* blockhostIsValid.
ModifyStatus ==
    {"CONFIGSUCCESS", "AUTHENFORCEING", "AUTHENFORCED", "AUTHENFORCEFAIL",
     "AUTHCLEARENFORCEING", "AUTHCLEARENFORCED", "AUTHCLEARENFORCEFAIL",
     "RSSUCCESS", "RSINPROGRESS", "RSFAIL"}

\* known[h]: the size of the last RSSUCCESS line of h, the first SIZE before
\* that (blockInfoGetCurrentSizeOfNode).
Meta == [size : Sizes, passwd : Nat, status : [Hosts -> ModifyStatus],
         known : [Hosts -> Sizes]]

Dev == [size : Sizes, auth : BOOLEAN, passwd : Nat]

\* mobj: what a remote call carries.
Call == [op : {"auth", "size"}, mode : BOOLEAN, passwd : Nat, size : Sizes]

Steps == {"idle", "access", "passwd", "resize", "sizeline", "remote",
          "collect", "unwind", "reread", "undo", "undone", "unlock"}

WorkSteps == {"none", "begin", "call", "sent", "ok", "err", "done", "failed"}

NoWork == [h \in Hosts |-> "none"]

\* mobj; info: the size and password blockGetMetaInfo read; since: the faults
\* before the request.
Locals == [op : {"auth", "size"}, mode : BOOLEAN, size : Sizes,
           force : BOOLEAN, mobj : Call, info : [size : Sizes, passwd : Nat],
           err : BOOLEAN, since : Nat]

TypeOK ==
    /\ meta \in Meta
    /\ file \in Sizes
    /\ dev \in [Hosts -> Dev]
    /\ late \in [Hosts -> SUBSET Call]
    /\ strayed \in SUBSET Hosts
    /\ drawn \in Nat
    /\ faults \in Nat
    /\ pc \in Steps
    /\ req \in Locals
    /\ work \in [Hosts -> WorkSteps]

NoCall == [op |-> "auth", mode |-> FALSE, passwd |-> 0, size |-> InitSize]

NoRequest == [op |-> "auth", mode |-> FALSE, size |-> InitSize,
              force |-> FALSE, mobj |-> NoCall,
              info |-> [size |-> InitSize, passwd |-> 0],
              err |-> FALSE, since |-> 0]

\* A block just created, with or without "auth enable".
Init ==
    /\ \E auth \in BOOLEAN :
         LET p == IF auth THEN 1 ELSE 0 IN
         /\ meta = [size |-> InitSize, passwd |-> p,
                    status |-> [h \in Hosts |-> IF auth THEN "AUTHENFORCED"
                                                ELSE "CONFIGSUCCESS"],
                    known |-> [h \in Hosts |-> InitSize]]
         /\ dev = [h \in Hosts |-> [size |-> InitSize, auth |-> auth,
                                    passwd |-> p]]
         /\ drawn = p
    /\ file = InitSize
    /\ late = [h \in Hosts |-> {}]
    /\ strayed = {}
    /\ faults = 0
    /\ pc = "idle"
    /\ req = NoRequest
    /\ work = NoWork

-----------------------------------------------------------------------------
Fault(kind) ==
    /\ kind \in FaultKinds
    /\ faults < MaxFaults
    /\ faults' = faults + 1

NoFault == faults' = faults

\* GB_METAUPDATE_OR_GOTO; when it fails the line may be there or not.
GB_METAUPDATE_OR_GOTO(new, Then, Else) ==
    \/ meta' = new /\ NoFault /\ Then
    \/ meta' \in {meta, new} /\ Fault("meta") /\ Else

Goto(step) == pc' = step /\ UNCHANGED req

\* errCode is set and the handler goes to "out".
Fails == pc' = "unlock" /\ req' = [req EXCEPT !.err = TRUE]

-----------------------------------------------------------------------------
(***************************************************************************)
(* The handlers.                                                           *)
(***************************************************************************)

\* A request comes in; an enable only while MaxPasswords lets it draw one.
Request ==
    /\ pc = "idle"
    /\ \E r \in Requests :
         /\ r.op = "auth" /\ r.mode /\ meta.passwd = 0 => drawn < MaxPasswords
         /\ req' = [NoRequest EXCEPT !.op = r.op, !.mode = r.mode,
                     !.size = r.size, !.force = r.force, !.since = faults]
    /\ pc' = "access"
    /\ UNCHANGED <<meta, file, dev, late, strayed, drawn, faults, work>>

\* Mutant of IsResizeFailed: forgets a host that was never answered for.
IsResizeFailedOnly == \E h \in Hosts : meta.status[h] = "RSFAIL"

\* glusterBlockIsResizeFailed.
IsResizeFailed == \E h \in Hosts : meta.status[h] \in {"RSFAIL", "RSINPROGRESS"}

\* A shrink without force, or a size the block has already.
Refused ==
    /\ req.op = "size"
    /\ \/ meta.size > req.size /\ ~req.force
       \/ meta.size = req.size /\ ~IsResizeFailed

\* glfs_access, blockGetMetaInfo, the check of the size and the capability
\* check on all hosts.
Access ==
    /\ pc = "access"
    /\ \/ /\ NoFault
          /\ req' = [req EXCEPT !.info = [size |-> meta.size,
                                          passwd |-> meta.passwd],
                                !.err = Refused]
          /\ pc' = CASE Refused -> "unlock"
                     [] ~Refused /\ req.op = "auth" -> "passwd"
                     [] ~Refused /\ req.op = "size" -> "resize"
       \/ (Fault("read") \/ Fault("connect")) /\ Fails
    /\ UNCHANGED <<meta, file, dev, late, strayed, drawn, work>>

\* The PASSWORD line: empty to disable, and to enable a fresh one unless the
\* journal has one.
ModifyPassword ==
    /\ pc = "passwd"
    /\ LET mobj(p) == [NoCall EXCEPT !.mode = req.mode, !.passwd = p]
           Carry(p) == /\ req' = [req EXCEPT !.mobj = mobj(p)]
                       /\ pc' = "remote"
       IN \/ /\ ~req.mode
             /\ GB_METAUPDATE_OR_GOTO([meta EXCEPT !.passwd = 0], Carry(0),
                                      Fails)
             /\ UNCHANGED drawn
          \/ /\ req.mode /\ req.info.passwd # 0
             /\ Carry(req.info.passwd)
             /\ NoFault
             /\ UNCHANGED <<meta, drawn>>
          \/ /\ req.mode /\ req.info.passwd = 0
             /\ drawn' = drawn + 1
             /\ GB_METAUPDATE_OR_GOTO([meta EXCEPT !.passwd = drawn + 1],
                                      Carry(drawn + 1), Fails)
    /\ UNCHANGED <<file, dev, late, strayed, work>>

\* Mutant of CheckAvailableSpace: forgets the reserve.
CheckAvailableSpaceNoReserve(blockSize) == FreeSpace >= blockSize % Wrap

\* glusterBlockCheckAvailableSpace, in the arithmetic of size_t.
CheckAvailableSpace(blockSize) == FreeSpace >= (Reserve + blockSize) % Wrap

\* Mutant of ResizeEntry: the file is left at its size.
ResizeEntryNoTruncate ==
    /\ pc = "resize"
    /\ \/ NoFault /\ Goto("sizeline")
       \/ Fault("storage") /\ Fails
    /\ UNCHANGED <<meta, file, dev, late, strayed, drawn, work>>

\* glusterBlockResizeEntry: grows or truncates the file under /block-store,
\* when there is room for the difference, which wraps for a shrink.  A failed
\* zerofill leaves the file truncated to its new size.
ResizeEntry ==
    /\ pc = "resize"
    /\ LET fits == \/ req.size = file
                   \/ CheckAvailableSpace((req.size - file) % Wrap)
       IN \/ fits /\ file' = req.size /\ NoFault /\ Goto("sizeline")
          \/ ~fits /\ UNCHANGED file /\ NoFault /\ Fails
          \/ file' \in {file, req.size} /\ Fault("storage") /\ Fails
    /\ UNCHANGED <<meta, dev, late, strayed, drawn, work>>

\* The SIZE line.
SizeLine ==
    /\ pc = "sizeline"
    /\ GB_METAUPDATE_OR_GOTO(
         [meta EXCEPT !.size = req.size],
         /\ pc' = "remote"
         /\ req' = [req EXCEPT !.mobj = [NoCall EXCEPT !.op = "size",
                                                       !.size = req.size]],
         Fails)
    /\ UNCHANGED <<file, dev, late, strayed, drawn, work>>

\* Mutant of ModifyArgsFill: enabling passes over a host whose last attempt
\* to enable failed.
ModifyArgsFillSkipsFailed(mode) ==
    {h \in Hosts :
       \/ mode /\ meta.status[h] \in {"CONFIGSUCCESS", "AUTHCLEARENFORCED",
                                      "RSSUCCESS", "RSFAIL", "RSINPROGRESS"}
       \/ ~mode /\ meta.status[h] = "AUTHENFORCED"
       \/ meta.status[h] \in {"AUTHENFORCEING", "AUTHCLEARENFORCEING",
                              "AUTHCLEARENFORCEFAIL"}}

\* glusterBlockModifyArgsFill: the hosts that need a call.
ModifyArgsFill(mode) ==
    {h \in Hosts :
       \/ mode /\ meta.status[h] \in {"CONFIGSUCCESS", "AUTHENFORCEFAIL",
                                      "AUTHCLEARENFORCED", "RSSUCCESS",
                                      "RSFAIL", "RSINPROGRESS"}
       \/ ~mode /\ meta.status[h] = "AUTHENFORCED"
       \/ meta.status[h] \in {"AUTHENFORCEING", "AUTHCLEARENFORCEING",
                              "AUTHCLEARENFORCEFAIL"}}

\* Mutant of ModifySizeArgsFill: any resize passes over them.
ModifySizeArgsFillAnySize == {h \in Hosts : meta.status[h] # "RSSUCCESS"}

\* glusterBlockModifySizeArgsFill: a retry of the same size passes over the
\* hosts that have an RSSUCCESS.
ModifySizeArgsFill ==
    {h \in Hosts : ~(/\ req.info.size = req.mobj.size
                     /\ meta.status[h] = "RSSUCCESS")}

Start(S) == work' = [h \in Hosts |-> IF h \in S THEN "begin" ELSE "none"]

\* glusterBlockModifyRemoteAsync, glusterBlockModifySizeRemoteAsync.
ModifyRemoteAsync ==
    /\ pc = "remote"
    /\ Start(IF req.op = "auth" THEN ModifyArgsFill(req.mobj.mode)
             ELSE ModifySizeArgsFill)
    /\ Goto("collect")
    /\ UNCHANGED <<meta, file, dev, late, strayed, drawn, faults>>

Joined == \A h \in Hosts : work[h] \in {"none", "done", "failed"}

SomeFailed == \E h \in Hosts : work[h] = "failed"

\* The threads are joined.  When one failed, a resize is over and an
\* authentication request is undone.
Collect ==
    /\ pc = "collect"
    /\ Joined
    /\ work' = NoWork
    /\ req' = [req EXCEPT !.err = SomeFailed]
    /\ pc' = IF SomeFailed /\ req.op = "auth"
             THEN (IF req.mode THEN "unwind" ELSE "reread") ELSE "unlock"
    /\ UNCHANGED <<meta, file, dev, late, strayed, drawn, faults>>

\* Unwind by removing authentication.
Unwind ==
    /\ pc = "unwind"
    /\ GB_METAUPDATE_OR_GOTO([meta EXCEPT !.passwd = 0], Goto("reread"), Fails)
    /\ UNCHANGED <<file, dev, late, strayed, drawn, work>>

\* Collect new Meta status, toggle.
Reread ==
    /\ pc = "reread"
    /\ \/ /\ NoFault
          /\ req' = [req EXCEPT !.mobj.mode = ~@]
          /\ pc' = "undo"
       \/ Fault("read") /\ Fails
    /\ UNCHANGED <<meta, file, dev, late, strayed, drawn, work>>

\* The second glusterBlockModifyRemoteAsync, and its end.
Undo ==
    /\ pc = "undo"
    /\ Start(ModifyArgsFill(req.mobj.mode))
    /\ Goto("undone")
    /\ UNCHANGED <<meta, file, dev, late, strayed, drawn, faults>>

Undone ==
    /\ pc = "undone"
    /\ Joined
    /\ work' = NoWork
    /\ Goto("unlock")
    /\ UNCHANGED <<meta, file, dev, late, strayed, drawn, faults>>

\* GB_METAUNLOCK and the response.
MetaUnlock ==
    /\ pc = "unlock"
    /\ pc' = "idle"
    /\ req' = NoRequest
    /\ UNCHANGED <<meta, file, dev, late, strayed, drawn, faults, work>>

-----------------------------------------------------------------------------
(***************************************************************************)
(* The threads and the hosts: glusterBlockModifyRemote calls               *)
(* block_modify_1_svc_st, glusterBlockModifySizeRemote calls               *)
(* block_modify_size_1_svc_st.                                             *)
(***************************************************************************)

To(h, step) == work' = [work EXCEPT ![h] = step]

HostLine(h, s) == [meta EXCEPT !.status[h] = s]

\* The line before the call.
BeginLine ==
    IF req.op = "size" THEN "RSINPROGRESS"
    ELSE IF req.mobj.mode THEN "AUTHENFORCEING" ELSE "AUTHCLEARENFORCEING"

\* Mutant of WorkerBegin: calls without a line that says so.
WorkerBeginNoLine(h) ==
    /\ work[h] = "begin"
    /\ To(h, "call")
    /\ UNCHANGED <<meta, file, dev, late, strayed, drawn, faults, pc, req>>

WorkerBegin(h) ==
    /\ work[h] = "begin"
    /\ GB_METAUPDATE_OR_GOTO(HostLine(h, BeginLine),
                             To(h, "call"), To(h, "failed"))
    /\ UNCHANGED <<file, dev, late, strayed, drawn, pc, req>>

\* glusterBlockCallRPC_1 up to rpc_sent.
WorkerConnect(h) ==
    /\ work[h] = "call"
    /\ \/ NoFault /\ To(h, "sent")
       \/ Fault("connect") /\ To(h, "failed")
    /\ UNCHANGED <<meta, file, dev, late, strayed, drawn, pc, req>>

\* What targetcli exports once a call took effect.
Served(h, call) ==
    IF call.op = "size" THEN [dev[h] EXCEPT !.size = call.size]
    ELSE IF call.mode
    THEN [dev[h] EXCEPT !.auth = TRUE, !.passwd = call.passwd]
    ELSE [dev[h] EXCEPT !.auth = FALSE]

\* The host serves the call; its commands may fail (or the block is not
\* loaded), or the answer is lost.
RpcServed(h) ==
    /\ work[h] = "sent"
    /\ \/ /\ NoFault
          /\ dev' = [dev EXCEPT ![h] = Served(h, req.mobj)]
          /\ To(h, "ok")
       \/ /\ Fault("exec") \/ Fault("lost")
          /\ dev' \in {dev, [dev EXCEPT ![h] = Served(h, req.mobj)]}
          /\ To(h, "err")
    /\ UNCHANGED <<meta, file, late, strayed, drawn, pc, req>>

\* TIMEOUT expires while the call waits at the host.
RpcTimeout(h) ==
    /\ work[h] = "sent"
    /\ Fault("timeout")
    /\ late' = [late EXCEPT ![h] = @ \cup {req.mobj}]
    /\ strayed' = strayed \cup {h}
    /\ To(h, "err")
    /\ UNCHANGED <<meta, file, dev, drawn, pc, req>>

\* Mutant of ResultLine: a failed call to remove authentication is taken for
\* a failure to enforce it, in the wording of the line of the journal.
ResultLineMisspelt(h, ok) ==
    IF req.op = "size"
    THEN [meta EXCEPT !.status[h] = IF ok THEN "RSSUCCESS" ELSE "RSFAIL",
                      !.known[h] = IF ok THEN req.size ELSE @]
    ELSE HostLine(h, CASE req.mobj.mode /\ ok -> "AUTHENFORCED"
                       [] req.mobj.mode /\ ~ok -> "AUTHENFORCEFAIL"
                       [] ~req.mobj.mode /\ ok -> "AUTHCLEARENFORCED"
                       [] ~req.mobj.mode /\ ~ok -> "AUTHENFORCECLEARFAIL")

\* The line after the call.
ResultLine(h, ok) ==
    IF req.op = "size"
    THEN [meta EXCEPT !.status[h] = IF ok THEN "RSSUCCESS" ELSE "RSFAIL",
                      !.known[h] = IF ok THEN req.size ELSE @]
    ELSE HostLine(h, CASE req.mobj.mode /\ ok -> "AUTHENFORCED"
                       [] req.mobj.mode /\ ~ok -> "AUTHENFORCEFAIL"
                       [] ~req.mobj.mode /\ ok -> "AUTHCLEARENFORCED"
                       [] ~req.mobj.mode /\ ~ok -> "AUTHCLEARENFORCEFAIL")

WorkerResult(h) ==
    /\ work[h] \in {"ok", "err"}
    /\ LET ok == work[h] = "ok" IN
       GB_METAUPDATE_OR_GOTO(ResultLine(h, ok),
                             To(h, IF ok THEN "done" ELSE "failed"),
                             To(h, "failed"))
    /\ UNCHANGED <<file, dev, late, strayed, drawn, pc, req>>

-----------------------------------------------------------------------------
(***************************************************************************)
(* The environment.                                                        *)
(***************************************************************************)

\* A call nobody waits for is served.
ServeLate(h) ==
    /\ \E call \in late[h] :
         /\ late' = [late EXCEPT ![h] = @ \ {call}]
         /\ dev' = [dev EXCEPT ![h] = Served(h, call)]
    /\ UNCHANGED <<meta, file, strayed, drawn, faults, pc, req, work>>

\* The process of the handler dies; calls that were sent stay on the wire.
Crash ==
    /\ pc # "idle"
    /\ Fault("crash")
    /\ late' = [h \in Hosts |-> IF work[h] = "sent"
                                THEN late[h] \cup {req.mobj} ELSE late[h]]
    /\ strayed' = strayed \cup {h \in Hosts : work[h] = "sent"}
    /\ pc' = "idle"
    /\ req' = NoRequest
    /\ work' = NoWork
    /\ UNCHANGED <<meta, file, dev, drawn>>

-----------------------------------------------------------------------------
Handler ==
    \/ Access \/ ModifyPassword \/ ResizeEntry \/ SizeLine
    \/ ModifyRemoteAsync \/ Collect \/ Unwind \/ Reread \/ Undo \/ Undone
    \/ MetaUnlock

Thread(h) ==
    \/ WorkerBegin(h) \/ WorkerConnect(h) \/ RpcServed(h) \/ RpcTimeout(h)
    \/ WorkerResult(h)

Next ==
    \/ Request \/ Handler \/ Crash
    \/ \E h \in Hosts : Thread(h) \/ ServeLate(h)

Spec == Init /\ [][Next]_vars

-----------------------------------------------------------------------------
(***************************************************************************)
(* Properties.                                                             *)
(***************************************************************************)

\* blockModifyCliFormatResponse prints RESULT: SUCCESS.
AuthReported == pc = "unlock" /\ req.op = "auth" /\ ~req.err

\* blockModifySizeCliFormatResponse prints RESULT: SUCCESS.
SizeReported == pc = "unlock" /\ req.op = "size" /\ ~req.err

\* No target exports more than the file holds: glusterBlockResizeEntry grows
\* the file before any host hears of the new size, and a late call asks for a
\* size the file already had.  (Requests that grow.)
DevWithinFile == \A h \in Hosts : dev[h].size <= file

\* What the last line says of a host is true of its target: RSSUCCESS-n, that
\* it exports n; AUTHENFORCED and AUTHCLEARENFORCED, its authentication.
\* Failed and undone requests and dead handlers included; only a call that
\* outlived its caller may change a host behind the journal's back.
StatusSound ==
    \A h \in Hosts \ strayed :
      /\ meta.status[h] = "RSSUCCESS" => dev[h].size = meta.known[h]
      /\ meta.status[h] = "AUTHENFORCED" => dev[h].auth
      /\ meta.status[h] = "AUTHCLEARENFORCED" => ~dev[h].auth

\* A resize that reports success has every host at the new size, the hosts it
\* skipped included.
SizeResult ==
    SizeReported => \A h \in Hosts : dev[h].size = req.size

\* An enable that reports success has every host ask for the password that the
\* journal holds and the response prints, the hosts it passed over included.
EnableResult ==
    AuthReported /\ req.mode
      => \A h \in Hosts : dev[h].auth /\ dev[h].passwd = meta.passwd

\* A disable that reports success has no host ask for a password.
DisableResult ==
    AuthReported /\ ~req.mode => \A h \in Hosts : ~dev[h].auth

\* A resize is refused as the current size only when every host has that size:
\* a resize that failed somewhere can be repeated, unless an authentication
\* request has overwritten what glusterBlockIsResizeFailed looks for.
RetryAccepted ==
    (/\ pc = "access" /\ Refused /\ meta.size = req.size
     /\ \A h \in Hosts :
          meta.status[h] \in {"RSSUCCESS", "RSINPROGRESS", "RSFAIL"})
      => \A h \in Hosts : dev[h].size = req.size

\* A shrink with force by no more than GB_METASTORE_RESERVE meets no error but
\* those of its environment: the difference glusterBlockResizeEntry asks space
\* for wraps below zero, and adding the reserve wraps it back.  (A larger one
\* is refused for lack of space.)
ShrinkResult ==
    (/\ pc = "unlock" /\ req.op = "size" /\ req.force
     /\ faults = req.since
     /\ req.size < req.info.size /\ req.info.size - req.size <= Reserve)
      => ~req.err
=============================================================================
