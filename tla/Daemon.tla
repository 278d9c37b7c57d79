------------------------------- MODULE Daemon -------------------------------
(***************************************************************************)
(* The processes of gluster-blockd from start to exit: the cli process,    *)
(* which the local tool talks to, its configuration thread, and the server *)
(* process it forks, which serves the other nodes.  They share gbConf and  *)
(* the lock in it, which every LOG takes; the handlers of SIGTERM log too. *)
(* The daemon may be started again at any time, while another instance of  *)
(* it runs or shuts down.                                                  *)
(*                                                                         *)
(* Abstractions.                                                           *)
(*   - A handler is a thread of its own that stops the one it interrupts.  *)
(*   - LOG calls in a row are one.  The ones before fork have no other     *)
(*     thread but the configuration's to wait for and are left out, as are *)
(*     the events of the configuration directory until then.               *)
(*   - SIGINT and SIGALRM are as SIGTERM.  An instance gets one of them.   *)
(*   - svc_exit ends svc_run if a transport is registered, and has no      *)
(*     effect before that: svc_run is libtirpc's.                          *)
(***************************************************************************)
EXTENDS Naturals, FiniteSets

CONSTANTS
    Instances,    \* names for the instances of gluster-blockd on the node
    NoOne,        \* no instance
    MaxKills      \* bound: how many processes are killed with SIGKILL

ASSUME DaemonAssumption ==
    /\ IsFiniteSet(Instances) /\ NoOne \notin Instances
    /\ MaxKills \in Nat

VARIABLES
    at,        \* at[i][t]: the step of thread t of instance i
    lock,      \* lock[i]: the thread that has gbConf->lock
    exiting,   \* exiting[i]: the processes whose svc_run is told to return
    pidlock,   \* the instance that has the lock on GB_LOCK_FILE
    address,   \* the instance that GB_UNIX_ADDRESS leads to
    port,      \* the instance that listens on GB_TCP_PORT
    kills,     \* how many processes were killed
    orphaned   \* the instances whose server outlived the cli process

vars == <<at, lock, exiting, pidlock, address, port, kills, orphaned>>

-----------------------------------------------------------------------------
\* The cli process, and the server process.
CliThreads == {"cli", "config", "onSigCli"}
ServerThreads == {"server", "onSigServer"}
Threads == CliThreads \cup ServerThreads

\* The steps of each thread; those of LogSteps are a LOG.
LogSteps == {"refuse", "report", "deaf", "handle", "farewell", "born",
             "complain", "note", "notify"}

Gone == {"exited", "killed"}

CliSteps == {"off", "pidfile", "sanity", "fork", "exit", "listen", "serving",
             "waitpid", "clean", "join", "refuse", "report", "deaf",
             "handle", "farewell"} \cup Gone

ServerSteps == {"off", "bind", "serving", "exit", "born", "handle", "complain"}
                 \cup Gone

HandlerSteps == {"off", "note", "pass", "done"}

StepsOf == [t \in Threads |->
              CASE t = "cli" -> CliSteps
                [] t = "server" -> ServerSteps
                [] t = "config" -> {"off", "watch", "notify"}
                [] OTHER -> HandlerSteps]

\* Types; and only the thread that has the lock is inside of a LOG.
TypeOK ==
    /\ at \in [Instances -> [Threads -> UNION {StepsOf[t] : t \in Threads}]]
    /\ \A i \in Instances : \A t \in Threads : at[i][t] \in StepsOf[t]
    /\ lock \in [Instances -> Threads \cup {"free", "lost"}]
    /\ exiting \in [Instances -> SUBSET {"cli", "server"}]
    /\ {pidlock, address, port} \subseteq Instances \cup {NoOne}
    /\ kills \in 0 .. MaxKills
    /\ orphaned \subseteq Instances
    /\ \A i \in Instances : \A t \in Threads :
         lock[i] = t => at[i][t] \in LogSteps

Init ==
    /\ at = [i \in Instances |-> [t \in Threads |-> "off"]]
    /\ lock = [i \in Instances |-> "free"]
    /\ exiting = [i \in Instances |-> {}]
    /\ pidlock = NoOne /\ address = NoOne /\ port = NoOne
    /\ kills = 0
    /\ orphaned = {}

-----------------------------------------------------------------------------
HandlerOf == [t \in Threads |-> CASE t = "cli" -> "onSigCli"
                                  [] t = "server" -> "onSigServer"
                                  [] OTHER -> t]

\* No handler runs on the stack of t.
Running(i, t) == t = HandlerOf[t] \/ at[i][HandlerOf[t]] \in {"off", "done"}

\* Thread t of i goes from one step to another.
Step(i, t, from, to) ==
    /\ at[i][t] = from /\ Running(i, t)
    /\ at' = [at EXCEPT ![i][t] = to]

Others == <<lock, exiting, pidlock, address, port, kills, orphaned>>

\* LOCK(gbConf->lock) of a LOG; the mutex is neither robust nor recursive.
Lock(i, t) ==
    /\ at[i][t] \in LogSteps /\ Running(i, t)
    /\ lock[i] = "free"
    /\ lock' = [lock EXCEPT ![i] = t]
    /\ UNCHANGED <<at, exiting, pidlock, address, port, kills, orphaned>>

AfterLog == [s \in LogSteps |->
               CASE s = "refuse" -> "exit"
                 [] s = "report" -> "listen"
                 [] s = "deaf" -> "waitpid"
                 [] s = "handle" -> "serving"
                 [] s = "farewell" -> "exit"
                 [] s = "born" -> "bind"
                 [] s = "complain" -> "exit"
                 [] s = "note" -> "pass"
                 [] s = "notify" -> "watch"]

\* Mutant of Unlock: a way out of LOG that leaves the lock taken.
UnlockNot(i, t) ==
    /\ lock[i] = t /\ Running(i, t)
    /\ at' = [at EXCEPT ![i][t] = AfterLog[@]]
    /\ UNCHANGED <<lock, exiting, pidlock, address, port, kills, orphaned>>

\* UNLOCK(gbConf->lock), and on to what follows the LOG.
Unlock(i, t) ==
    /\ lock[i] = t /\ Running(i, t)
    /\ lock' = [lock EXCEPT ![i] = "free"]
    /\ at' = [at EXCEPT ![i][t] = AfterLog[@]]
    /\ UNCHANGED <<exiting, pidlock, address, port, kills, orphaned>>

-----------------------------------------------------------------------------
(***************************************************************************)
(* The cli process.                                                        *)
(***************************************************************************)

\* main up to the pid file; glusterBlockSetupConfig starts the thread.
Start(i) ==
    /\ at[i]["cli"] = "off"
    /\ at' = [at EXCEPT ![i]["cli"] = "pidfile", ![i]["config"] = "watch"]
    /\ UNCHANGED Others

\* Mutant of PidFile: starts although another instance has the pid file.
PidFileAnyway(i) ==
    /\ Step(i, "cli", "pidfile", "sanity")
    /\ pidlock' = IF pidlock = NoOne THEN i ELSE pidlock
    /\ UNCHANGED <<lock, exiting, address, port, kills, orphaned>>

\* "is gluster-blockd running ?"  creat may fail, and fcntl does when another
\* instance has the lock.
PidFile(i) ==
    /\ \/ /\ pidlock = NoOne
          /\ Step(i, "cli", "pidfile", "sanity")
          /\ pidlock' = i
       \/ /\ Step(i, "cli", "pidfile", "refuse")
          /\ UNCHANGED pidlock
    /\ UNCHANGED <<lock, exiting, address, port, kills, orphaned>>

\* blockNodeSanityCheck and initDaemonCapabilities run commands for a while.
NodeSanityCheck(i) ==
    /\ \/ Step(i, "cli", "sanity", "fork")
       \/ Step(i, "cli", "sanity", "exit")
    /\ UNCHANGED Others

\* fork; both processes log their pid before they set their handlers.
Fork(i) ==
    /\ at[i]["cli"] = "fork"
    /\ \/ at' = [at EXCEPT ![i]["cli"] = "report", ![i]["server"] = "born"]
       \/ at' = [at EXCEPT ![i]["cli"] = "exit"]
    /\ UNCHANGED Others

\* One of the processes ends: an advisory lock and a port go with it, a mutex it
\* holds does not.  When the other is gone too nothing is left of the instance.
Ends(i, p, how) ==
    LET threads == IF p = "cli" THEN CliThreads ELSE ServerThreads
        other == IF p = "cli" THEN "server" ELSE "cli"
    IN /\ IF at[i][other] \in {"off"} \cup Gone
          THEN /\ at' = [at EXCEPT ![i] = [t \in Threads |-> "off"]]
               /\ lock' = [lock EXCEPT ![i] = "free"]
               /\ exiting' = [exiting EXCEPT ![i] = {}]
          ELSE /\ at' = [at EXCEPT ![i] = [t \in Threads |->
                           IF t = p THEN how
                           ELSE IF t \in threads THEN "off" ELSE @[t]]]
               /\ lock' = [lock EXCEPT ![i] = IF @ \in threads THEN "lost" ELSE @]
               /\ exiting' = exiting
       /\ orphaned' = IF at[i][other] \in {"off"} \cup Gone THEN orphaned \ {i}
                      ELSE IF p = "cli" THEN orphaned \cup {i} ELSE orphaned
       /\ pidlock' = IF p = "cli" /\ pidlock = i THEN NoOne ELSE pidlock
       /\ port' = IF p = "server" /\ port = i THEN NoOne ELSE port

\* exit, and the label "out" of main.
Exit(i, p) ==
    /\ at[i][p] = "exit" /\ Running(i, p)
    /\ Ends(i, p, "exited")
    /\ UNCHANGED <<address, kills>>

\* glusterBlockCliProcess up to svc_run; when it fails the cli process logs it
\* and goes on to wait for the server.
Listen(i) ==
    /\ \/ /\ Step(i, "cli", "listen", "serving")
          /\ address' = i
       \/ /\ Step(i, "cli", "listen", "deaf")
          /\ address' \in {address, NoOne}
    /\ UNCHANGED <<lock, exiting, pidlock, port, kills, orphaned>>

\* A request, which logs.
Serve(i, t) ==
    /\ t \notin exiting[i]
    /\ Step(i, t, "serving", "handle")
    /\ UNCHANGED Others

\* svc_run returns; what comes after it is there to end with the server.
CliReturns(i) ==
    /\ "cli" \in exiting[i]
    /\ Step(i, "cli", "serving", "waitpid")
    /\ UNCHANGED Others

\* Mutant of WaitPid: the pid file is given up before the server is gone.
WaitPidLater(i) ==
    /\ Step(i, "cli", "waitpid", "clean")
    /\ UNCHANGED Others

\* "wait for server process to exit"
WaitPid(i) ==
    /\ at[i]["server"] \in Gone
    /\ Step(i, "cli", "waitpid", "clean")
    /\ UNCHANGED Others

\* glusterBlockCleanGlobals up to glusterBlockDestroyConfig.
CleanGlobals(i) ==
    /\ Step(i, "cli", "clean", "join")
    /\ pidlock' = IF pidlock = i THEN NoOne ELSE pidlock
    /\ UNCHANGED <<lock, exiting, address, port, kills, orphaned>>

\* pthread_cancel takes effect where the configuration thread reads its events,
\* or where a LOG of it opens, writes or closes the file with the lock held.
Cancelled(i) ==
    /\ at[i]["cli"] = "join"
    /\ at[i]["config"] = "watch" \/ lock[i] = "config"
    /\ at' = [at EXCEPT ![i]["config"] = "off"]
    /\ lock' = [lock EXCEPT ![i] = IF @ = "config" THEN "lost" ELSE @]
    /\ UNCHANGED <<exiting, pidlock, address, port, kills, orphaned>>

\* pthread_join, and the last LOG if the server exited normally.
Join(i) ==
    /\ at[i]["config"] = "off"
    /\ \/ at[i]["server"] = "exited" /\ Step(i, "cli", "join", "farewell")
       \/ at[i]["server"] = "killed" /\ Step(i, "cli", "join", "exit")
    /\ UNCHANGED Others

\* An event of the configuration directory.
Notify(i) ==
    /\ at[i]["server"] # "off" /\ at[i]["cli"] # "join"
    /\ Step(i, "config", "watch", "notify")
    /\ UNCHANGED Others

-----------------------------------------------------------------------------
(***************************************************************************)
(* The server process.                                                     *)
(***************************************************************************)

\* glusterBlockServerProcess up to svc_run.
Bind(i) ==
    /\ \/ /\ port = NoOne
          /\ Step(i, "server", "bind", "serving")
          /\ port' = i
       \/ Step(i, "server", "bind", "complain") /\ UNCHANGED port
    /\ UNCHANGED <<lock, exiting, pidlock, address, kills, orphaned>>

\* svc_run returns: the socket is closed and the process exits.
ServerReturns(i) ==
    /\ at[i]["server"] = "serving" /\ "server" \in exiting[i]
    /\ Running(i, "server")
    /\ Ends(i, "server", "exited")
    /\ UNCHANGED <<address, kills>>

-----------------------------------------------------------------------------
(***************************************************************************)
(* Signals.                                                                *)
(***************************************************************************)

\* The cli process has not set its handlers yet.
Unhandled(i) == at[i]["server"] = "off" \/ at[i]["cli"] = "report"

\* SIGTERM from systemd, to the cli process alone.
Term(i) ==
    /\ at[i]["cli"] \notin {"off"} \cup Gone
    /\ at[i]["onSigCli"] = "off"
    /\ \/ /\ Unhandled(i)
          /\ Ends(i, "cli", "killed")
       \/ /\ ~Unhandled(i)
          /\ at' = [at EXCEPT ![i]["onSigCli"] = "note"]
          /\ UNCHANGED <<lock, exiting, pidlock, port, orphaned>>
    /\ UNCHANGED <<address, kills>>

\* svc_exit in process p.
svc_exit(i, p) ==
    exiting' = [exiting EXCEPT ![i] =
                  IF at[i][p] \in {"serving", "handle"} THEN @ \cup {p} ELSE @]

\* Mutant of onSigCliHandler: the signal is not passed on.
onSigCliHandlerKeeps(i) ==
    /\ at[i]["onSigCli"] = "pass"
    /\ at' = [at EXCEPT ![i]["onSigCli"] = "done"]
    /\ svc_exit(i, "cli")
    /\ UNCHANGED <<lock, pidlock, address, port, kills, orphaned>>

\* onSigCliHandler after its LOG: "Pass the signal to server process".
onSigCliHandler(i) ==
    /\ at[i]["onSigCli"] = "pass"
    /\ \/ /\ at[i]["server"] \notin {"born"} \cup Gone
          /\ at' = [at EXCEPT ![i]["onSigCli"] = "done",
                              ![i]["onSigServer"] = "note"]
          /\ UNCHANGED lock
       \/ /\ at[i]["server"] = "born"
          /\ at' = [at EXCEPT ![i]["onSigCli"] = "done",
                              ![i]["server"] = "killed"]
          /\ lock' = [lock EXCEPT ![i] = IF @ = "server" THEN "lost" ELSE @]
       \/ /\ at[i]["server"] \in Gone
          /\ at' = [at EXCEPT ![i]["onSigCli"] = "done"]
          /\ UNCHANGED lock
    /\ svc_exit(i, "cli")
    /\ UNCHANGED <<pidlock, address, port, kills, orphaned>>

\* onSigServerHandler after its LOG.
onSigServerHandler(i) ==
    /\ at[i]["onSigServer"] = "pass"
    /\ at' = [at EXCEPT ![i]["onSigServer"] = "done"]
    /\ svc_exit(i, "server")
    /\ UNCHANGED <<lock, pidlock, address, port, kills, orphaned>>

\* SIGKILL to one of the processes.
Kill(i, p) ==
    /\ kills < MaxKills
    /\ at[i][p] \notin {"off"} \cup Gone
    /\ kills' = kills + 1
    /\ Ends(i, p, "killed")
    /\ UNCHANGED address

-----------------------------------------------------------------------------
\* The steps each thread takes on its own.
Proceeds(i, t) ==
    \/ Lock(i, t) \/ Unlock(i, t)
    \/ t \in {"cli", "server"} /\ Exit(i, t)
    \/ /\ t = "cli"
       /\ \/ PidFile(i) \/ NodeSanityCheck(i) \/ Fork(i) \/ Listen(i)
          \/ CliReturns(i) \/ WaitPid(i) \/ CleanGlobals(i) \/ Join(i)
    \/ t = "config" /\ Cancelled(i)
    \/ t = "server" /\ (Bind(i) \/ ServerReturns(i))
    \/ t = "onSigCli" /\ onSigCliHandler(i)
    \/ t = "onSigServer" /\ onSigServerHandler(i)

Next ==
    \E i \in Instances :
      \/ Start(i) \/ Notify(i) \/ Term(i)
      \/ \E t \in Threads : Proceeds(i, t)
      \/ \E p \in {"cli", "server"} : Serve(i, p) \/ Kill(i, p)

\* Every thread that is not stopped is scheduled, and one that finds the lock
\* free again and again gets it in the end.
Fairness == \A i \in Instances : \A t \in Threads : SF_vars(Proceeds(i, t))

Spec == Init /\ [][Next]_vars

FairSpec == Spec /\ Fairness

-----------------------------------------------------------------------------
(***************************************************************************)
(* Properties.                                                             *)
(***************************************************************************)

\* The pid file keeps the local requests with one process: whichever cli
\* process is in svc_run has the pid file, and the tool reaches it, however
\* another start or the end of an earlier instance fell in between.
OneDaemon ==
    \A i \in Instances :
      at[i]["cli"] \in {"serving", "handle"} => pidlock = i /\ address = i

\* As a cli process keeps the pid file until its server is gone, a server finds
\* the port taken only by that of an instance whose cli process was killed (by
\* SIGTERM too, before it had set its handlers).
PortFree ==
    \A i \in Instances \ orphaned :
      at[i]["server"] = "bind" => port \in orphaned \cup {NoOne}

\* gbConf->lock of i is never released: its holder is dead, or interrupted by
\* a handler that waits for it.
Stuck(i) ==
    \/ lock[i] = "lost"
    \/ \E t \in {"cli", "server"} : lock[i] = t /\ at[i][HandlerOf[t]] = "note"

\* SIGTERM stops a daemon that is up: both processes exit, unless the cli
\* process is killed or a holder of gbConf->lock never returns it.
Shutdown ==
    \A i \in Instances :
      (/\ at[i]["onSigCli"] = "note"
       /\ at[i]["cli"] \in {"serving", "handle"}
       /\ at[i]["server"] \in {"serving", "handle"})
        ~> \/ at[i]["cli"] = "off" /\ at[i]["server"] = "off"
           \/ Stuck(i) \/ i \in orphaned
=============================================================================
