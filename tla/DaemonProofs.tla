---------------------------- MODULE DaemonProofs ----------------------------
(***************************************************************************)
(* The processes of gluster-blockd, for any number of instances that are   *)
(* started, stopped and killed in any order: the pid file leaves one cli   *)
(* process that serves, and the port to the server it forked.              *)
(***************************************************************************)
EXTENDS Daemon, TLAPS

-----------------------------------------------------------------------------
(***************************************************************************)
(* The inductive invariant.                                                *)
(***************************************************************************)

\* The steps of a cli process between the pid file and its release.
PidHeld == {"sanity", "fork", "report", "listen", "deaf", "serving", "handle",
            "waitpid", "clean"}

\* The steps of a cli process before the fork.
Early == {"off", "pidfile", "sanity", "fork"}

\* The steps of a cli process that has a server, or waits for it.
Parent == {"report", "listen", "deaf", "serving", "handle", "waitpid"}

Dead == {"off"} \cup Gone

\* The pid file and the address are those of the cli process that uses them.
NamesInv(i) ==
    /\ at[i]["cli"] \in PidHeld => pidlock = i
    /\ at[i]["cli"] \in {"serving", "handle"} => address = i

\* A server lives beside a cli process that will wait for it, or is orphaned;
\* and the port is that of a server in svc_run.
ServerInv(i) ==
    /\ at[i]["cli"] \in Early => at[i]["server"] = "off"
    /\ at[i]["server"] \notin Dead /\ i \notin orphaned => at[i]["cli"] \in Parent
    /\ i \in orphaned => at[i]["cli"] \in Gone /\ at[i]["server"] \notin Dead
    /\ at[i]["cli"] \in Gone => i \in orphaned
    /\ port = i => at[i]["server"] \in {"serving", "handle"}

\* Nothing runs in an instance that was not started, nor a handler in a
\* process that is gone.
ThreadsInv(i) ==
    /\ at[i]["cli"] = "off" => \A t \in Threads : at[i][t] = "off"
    /\ at[i]["onSigCli"] # "off" => at[i]["cli"] \notin Dead

InstanceInv(i) == NamesInv(i) /\ ServerInv(i) /\ ThreadsInv(i)

DaemonInv == TypeOK /\ \A i \in Instances : InstanceInv(i)

-----------------------------------------------------------------------------
(***************************************************************************)
(* The tables, and the moves of a thread.                                  *)
(***************************************************************************)

Steps == UNION {StepsOf[t] : t \in Threads}

\* The steps of each thread.
LEMMA StepsTable ==
    /\ StepsOf["cli"] = CliSteps
    /\ StepsOf["server"] = ServerSteps
    /\ StepsOf["config"] = {"off", "watch", "notify"}
    /\ StepsOf["onSigCli"] = HandlerSteps
    /\ StepsOf["onSigServer"] = HandlerSteps
    /\ \A t \in Threads : StepsOf[t] \subseteq Steps
<1>1. /\ "cli" \in Threads /\ "server" \in Threads /\ "config" \in Threads
      /\ "onSigCli" \in Threads /\ "onSigServer" \in Threads
  BY DEF Threads, CliThreads, ServerThreads
<1>2. \A t \in Threads : StepsOf[t] \subseteq Steps
  BY DEF Steps
<1> QED
  BY <1>1, <1>2 DEF StepsOf

\* What follows a LOG is a step of the same thread, and no LOG.
LEMMA AfterLogTable ==
    ASSUME NEW t \in Threads, NEW s \in LogSteps, s \in StepsOf[t]
    PROVE  /\ AfterLog[s] \in StepsOf[t] \ LogSteps
           /\ t = "cli" => \/ s = "refuse" /\ AfterLog[s] = "exit"
                           \/ s = "report" /\ AfterLog[s] = "listen"
                           \/ s = "deaf" /\ AfterLog[s] = "waitpid"
                           \/ s = "handle" /\ AfterLog[s] = "serving"
                           \/ s = "farewell" /\ AfterLog[s] = "exit"
           /\ t = "server" => \/ s = "born" /\ AfterLog[s] = "bind"
                              \/ s = "handle" /\ AfterLog[s] = "serving"
                              \/ s = "complain" /\ AfterLog[s] = "exit"
           /\ t = "onSigCli" => s = "note" /\ AfterLog[s] = "pass"
<1>1. \/ s = "refuse" /\ AfterLog[s] = "exit"
      \/ s = "report" /\ AfterLog[s] = "listen"
      \/ s = "deaf" /\ AfterLog[s] = "waitpid"
      \/ s = "handle" /\ AfterLog[s] = "serving"
      \/ s = "farewell" /\ AfterLog[s] = "exit"
      \/ s = "born" /\ AfterLog[s] = "bind"
      \/ s = "complain" /\ AfterLog[s] = "exit"
      \/ s = "note" /\ AfterLog[s] = "pass"
      \/ s = "notify" /\ AfterLog[s] = "watch"
  BY DEF AfterLog, LogSteps
<1> USE DEF LogSteps, CliSteps, ServerSteps, HandlerSteps, Gone
<1>2. CASE t = "cli"
  BY <1>1, <1>2, StepsTable
<1>3. CASE t = "server"
  BY <1>1, <1>3, StepsTable
<1>4. CASE t = "config"
  BY <1>1, <1>4, StepsTable
<1>5. CASE t \in {"onSigCli", "onSigServer"}
  BY <1>1, <1>5, StepsTable
<1> QED
  BY <1>2, <1>3, <1>4, <1>5 DEF Threads, CliThreads, ServerThreads

\* The part of the types that is about one instance.
Local(i) ==
    /\ \A t \in Threads : at[i][t] \in StepsOf[t]
    /\ \A t \in Threads : lock[i] = t => at[i][t] \in LogSteps

\* A step of i leaves the threads of the others alone.
Frame(i) ==
    /\ \A j \in Instances \ {i} : at'[j] = at[j] /\ lock'[j] = lock[j]
    /\ \A j \in Instances \ {i} : j \in orphaned' <=> j \in orphaned

\* A thread moves.
LEMMA Move ==
    ASSUME TypeOK, NEW i \in Instances, NEW t \in Threads, NEW to \in StepsOf[t],
           at' = [at EXCEPT ![i][t] = to]
    PROVE  /\ at' \in [Instances -> [Threads -> Steps]]
           /\ \A j \in Instances \ {i} : at'[j] = at[j]
           /\ at'[i][t] = to
           /\ \A u \in Threads \ {t} : at'[i][u] = at[i][u]
           /\ \A u \in Threads : at'[i][u] \in StepsOf[u]
<1>1. at \in [Instances -> [Threads -> Steps]] /\ to \in Steps
  BY StepsTable DEF TypeOK, Steps
<1>2. at' = [at EXCEPT ![i] = [at[i] EXCEPT ![t] = to]]
  OBVIOUS
<1>3. [at[i] EXCEPT ![t] = to] \in [Threads -> Steps]
  BY <1>1
<1>4. at'[i] = [at[i] EXCEPT ![t] = to]
  BY <1>1, <1>2
<1>5. at'[i][t] = to /\ \A u \in Threads \ {t} : at'[i][u] = at[i][u]
  BY <1>1, <1>4
<1>6. \A u \in Threads : at'[i][u] \in StepsOf[u]
  BY <1>5 DEF TypeOK
<1> QED
  BY <1>1, <1>2, <1>3, <1>5, <1>6

\* Two threads of an instance move at once.
LEMMA MoveBoth ==
    ASSUME TypeOK, NEW i \in Instances, NEW t \in Threads, NEW u \in Threads,
           t # u, NEW a \in StepsOf[t], NEW b \in StepsOf[u],
           at' = [at EXCEPT ![i][t] = a, ![i][u] = b]
    PROVE  /\ at' \in [Instances -> [Threads -> Steps]]
           /\ \A j \in Instances \ {i} : at'[j] = at[j]
           /\ at'[i][t] = a /\ at'[i][u] = b
           /\ \A v \in Threads \ {t, u} : at'[i][v] = at[i][v]
           /\ \A v \in Threads : at'[i][v] \in StepsOf[v]
<1>1. /\ at \in [Instances -> [Threads -> Steps]]
      /\ a \in Steps /\ b \in Steps
  BY StepsTable DEF TypeOK, Steps
<1> DEFINE f == [[at[i] EXCEPT ![t] = a] EXCEPT ![u] = b]
<1>2. at' = [at EXCEPT ![i] = f]
  BY <1>1
<1>3. f \in [Threads -> Steps]
  BY <1>1
<1>4. f[t] = a /\ f[u] = b /\ \A v \in Threads \ {t, u} : f[v] = at[i][v]
  BY <1>1
<1> HIDE DEF f
<1>5. at'[i] = f /\ \A j \in Instances \ {i} : at'[j] = at[j]
  BY <1>1, <1>2
<1>6. \A v \in Threads : f[v] \in StepsOf[v]
  BY <1>4 DEF TypeOK
<1> QED
  BY <1>1, <1>2, <1>3, <1>4, <1>5, <1>6

\* What is left to show of the types once the moves are known.
LEMMA TypesKeep ==
    ASSUME TypeOK, NEW i \in Instances,
           at' \in [Instances -> [Threads -> Steps]],
           Frame(i), Local(i)',
           lock' \in [Instances -> Threads \cup {"free", "lost"}],
           exiting' \in [Instances -> SUBSET {"cli", "server"}],
           {pidlock', address', port'} \subseteq Instances \cup {NoOne},
           kills' \in 0 .. MaxKills,
           orphaned' \subseteq Instances
    PROVE  TypeOK'
<1>1. ASSUME NEW j \in Instances, NEW t \in Threads
      PROVE  /\ at'[j][t] \in StepsOf[t]
             /\ lock'[j] = t => at'[j][t] \in LogSteps
  <2>1. CASE j = i
    BY <2>1 DEF Local
  <2>2. CASE j # i
    BY <2>2 DEF Frame, TypeOK
  <2> QED
    BY <2>1, <2>2
<1> QED
  BY <1>1 DEF TypeOK, Steps

\* The other instances do not lose the pid file, the address or the port, as
\* i takes the pid file when nobody has it, gives up its own, and comes to
\* listen only with the pid file.
LEMMA OthersKeep ==
    ASSUME TypeOK, NEW i \in Instances, NEW j \in Instances \ {i},
           InstanceInv(i), InstanceInv(j), Frame(i),
           \/ pidlock' = pidlock
           \/ pidlock = NoOne /\ pidlock' = i
           \/ pidlock = i /\ pidlock' = NoOne,
           address' = address \/ at[i]["cli"] = "listen",
           port' \in {port, i, NoOne}
    PROVE  InstanceInv(j)'
<1>1. at'[j] = at[j] /\ (j \in orphaned' <=> j \in orphaned) /\ j # NoOne /\ j # i
  BY DaemonAssumption DEF Frame
<1>2. pidlock = j => pidlock' = j
  BY <1>1
<1>3. at[j]["cli"] \in {"serving", "handle"} => address' = address
  BY <1>1 DEF InstanceInv, NamesInv, PidHeld
<1>4. NamesInv(j)'
  BY <1>1, <1>2, <1>3 DEF InstanceInv, NamesInv
<1>5. port' = j => port = j
  BY <1>1
<1>6. ServerInv(j)'
  BY <1>1, <1>5 DEF InstanceInv, ServerInv
<1>7. ThreadsInv(j)'
  BY <1>1 DEF InstanceInv, ThreadsInv
<1> QED
  BY <1>4, <1>6, <1>7 DEF InstanceInv

\* What a step of i may do to the names that the instances share.
Shares(i) ==
    /\ \/ pidlock' = pidlock
       \/ pidlock = NoOne /\ pidlock' = i
       \/ pidlock = i /\ pidlock' = NoOne
    /\ address' = address \/ (address' \in {i, NoOne} /\ at[i]["cli"] = "listen")
    /\ port' \in {port, i, NoOne}

\* What is left to show of a step of i.
LEMMA Keep ==
    ASSUME DaemonInv, NEW i \in Instances,
           at' \in [Instances -> [Threads -> Steps]],
           Frame(i), Local(i)', Shares(i), InstanceInv(i)',
           lock' \in [Instances -> Threads \cup {"free", "lost"}],
           exiting' \in [Instances -> SUBSET {"cli", "server"}],
           kills' \in 0 .. MaxKills,
           orphaned' \subseteq Instances
    PROVE  DaemonInv'
<1>1. TypeOK /\ \A j \in Instances : InstanceInv(j)
  BY DEF DaemonInv
<1>2. {pidlock', address', port'} \subseteq Instances \cup {NoOne}
  BY <1>1 DEF Shares, TypeOK
<1>3. TypeOK'
  BY <1>1, <1>2, TypesKeep
<1>4. ASSUME NEW j \in Instances PROVE InstanceInv(j)'
  <2>1. CASE j = i
    BY <2>1
  <2>2. CASE j # i
    <3>1. /\ \/ pidlock' = pidlock
             \/ pidlock = NoOne /\ pidlock' = i
             \/ pidlock = i /\ pidlock' = NoOne
          /\ address' = address \/ at[i]["cli"] = "listen"
          /\ port' \in {port, i, NoOne}
      BY DEF Shares
    <3> QED
      BY <1>1, <2>2, <3>1, OthersKeep
  <2> QED
    BY <2>1, <2>2
<1> QED
  BY <1>3, <1>4 DEF DaemonInv

\* The same for a step that moves one thread of i, which is outside of a LOG.
LEMMA MoveKeeps ==
    ASSUME DaemonInv, NEW i \in Instances, NEW t \in Threads,
           NEW to \in StepsOf[t], at[i][t] \notin LogSteps,
           at' = [at EXCEPT ![i][t] = to],
           UNCHANGED <<lock, kills, orphaned>>,
           exiting' \in [Instances -> SUBSET {"cli", "server"}],
           Shares(i), InstanceInv(i)'
    PROVE  DaemonInv'
<1>1. TypeOK
  BY DEF DaemonInv
<1>2. /\ at' \in [Instances -> [Threads -> Steps]]
      /\ \A j \in Instances \ {i} : at'[j] = at[j]
      /\ \A u \in Threads \ {t} : at'[i][u] = at[i][u]
      /\ \A u \in Threads : at'[i][u] \in StepsOf[u]
  BY <1>1, Move
<1>3. Frame(i)
  BY <1>2 DEF Frame
<1>4. Local(i)'
  BY <1>1, <1>2 DEF Local, TypeOK
<1>5. /\ lock' \in [Instances -> Threads \cup {"free", "lost"}]
      /\ kills' \in 0 .. MaxKills /\ orphaned' \subseteq Instances
  BY <1>1 DEF TypeOK
<1> QED
  BY <1>2, <1>3, <1>4, <1>5, Keep

\* The names of the threads.
LEMMA ThreadNames ==
    /\ "cli" \in Threads /\ "server" \in Threads /\ "config" \in Threads
    /\ "onSigCli" \in Threads /\ "onSigServer" \in Threads
BY DEF Threads, CliThreads, ServerThreads

\* A move of the cli process that changes neither its lock nor its address.
LEMMA CliMove ==
    ASSUME DaemonInv, NEW i \in Instances, NEW from, NEW to \in CliSteps,
           Step(i, "cli", from, to), from \notin LogSteps, from \notin Dead,
           to \notin Dead,
           UNCHANGED <<lock, exiting, kills, orphaned, port>>, Shares(i),
           to \in PidHeld => pidlock' = i,
           to \in {"serving", "handle"} => address' = i,
           to \in Early => from \in Early,
           from \in Parent => to \in Parent \/ at[i]["server"] \in Dead
    PROVE  DaemonInv'
<1>1. TypeOK /\ InstanceInv(i)
  BY DEF DaemonInv
<1>2. at' = [at EXCEPT ![i]["cli"] = to] /\ at[i]["cli"] = from
  BY DEF Step
<1>3. to \in StepsOf["cli"]
  BY StepsTable
<1>4. /\ at'[i]["cli"] = to
      /\ at'[i]["server"] = at[i]["server"]
      /\ at'[i]["onSigCli"] = at[i]["onSigCli"]
  <2> DEFINE t == "cli"
  <2>1. TypeOK /\ at' = [at EXCEPT ![i][t] = to] /\ t \in Threads /\ to \in StepsOf[t]
    BY <1>1, <1>2, <1>3, ThreadNames
  <2> HIDE DEF t
  <2>2. at'[i][t] = to /\ \A u \in Threads \ {t} : at'[i][u] = at[i][u]
    BY ONLY <2>1, i \in Instances, Move, Zenon
  <2> QED
    BY <2>2, ThreadNames DEF t
<1>5. NamesInv(i)'
  BY <1>4 DEF NamesInv
<1>6. ServerInv(i)'
  BY <1>1, <1>2, <1>4 DEF InstanceInv, ServerInv, Dead
<1>7. ThreadsInv(i)'
  BY <1>4 DEF ThreadsInv, Dead
<1>8. InstanceInv(i)'
  BY <1>5, <1>6, <1>7 DEF InstanceInv
<1>9. exiting' \in [Instances -> SUBSET {"cli", "server"}]
  BY <1>1 DEF TypeOK
<1> QED
  BY <1>2, <1>3, <1>8, <1>9, MoveKeeps, ThreadNames

-----------------------------------------------------------------------------
(***************************************************************************)
(* The steps of the cli process.                                           *)
(***************************************************************************)

\* Nothing that the instances share changes.
LEMMA SharesUnchanged ==
    ASSUME NEW i, UNCHANGED <<pidlock, address, port>>
    PROVE  Shares(i)
BY DEF Shares

\* The steps up to the fork.
LEMMA CliStarts ==
    ASSUME DaemonInv, NEW i \in Instances, PidFile(i) \/ NodeSanityCheck(i)
    PROVE  DaemonInv'
<1> USE DEF CliSteps, LogSteps, Dead, Gone, PidHeld, Early, Parent
<1>1. CASE PidFile(i)
  <2>1. CASE Step(i, "cli", "pidfile", "sanity") /\ pidlock = NoOne /\ pidlock' = i
    BY <1>1, <2>1, CliMove DEF PidFile, Shares
  <2>2. CASE Step(i, "cli", "pidfile", "refuse") /\ UNCHANGED pidlock
    BY <1>1, <2>2, CliMove DEF PidFile, Shares
  <2> QED
    BY <1>1, <2>1, <2>2 DEF PidFile
<1>2. CASE NodeSanityCheck(i)
  <2>1. UNCHANGED Others /\ Shares(i)
    BY <1>2 DEF NodeSanityCheck, Others, Shares
  <2>2. CASE Step(i, "cli", "sanity", "fork")
    <3>1. pidlock' = i
      BY <2>1, <2>2 DEF Step, DaemonInv, InstanceInv, NamesInv, Others
    <3> QED
      BY <2>1, <2>2, <3>1, CliMove DEF Others
  <2>3. CASE Step(i, "cli", "sanity", "exit")
    BY <2>1, <2>3, CliMove DEF Others
  <2> QED
    BY <1>2, <2>2, <2>3 DEF NodeSanityCheck
<1> QED
  BY <1>1, <1>2

\* From glusterBlockCliProcess to the label "out": the pid file is kept as long
\* as the server lives.
LEMMA CliRuns ==
    ASSUME DaemonInv, NEW i \in Instances,
           \/ Listen(i) \/ Serve(i, "cli") \/ CliReturns(i) \/ WaitPid(i)
           \/ CleanGlobals(i) \/ Join(i)
    PROVE  DaemonInv'
<1> USE DEF CliSteps, LogSteps, Dead, Gone, PidHeld, Early, Parent
<1>1. TypeOK /\ NamesInv(i) /\ ServerInv(i)
  BY DEF DaemonInv, InstanceInv
<1>2. at[i]["cli"] \in PidHeld => pidlock = i
  BY <1>1 DEF NamesInv
<1>3. CASE Listen(i)
  <2>1. at[i]["cli"] = "listen" /\ UNCHANGED pidlock /\ pidlock = i
    BY <1>2, <1>3 DEF Listen, Step
  <2>2. CASE Step(i, "cli", "listen", "serving") /\ address' = i
    <3>1. Shares(i)
      BY <1>3, <2>1, <2>2 DEF Listen, Shares
    <3> QED
      BY <1>3, <2>1, <2>2, <3>1, CliMove DEF Listen
  <2>3. CASE Step(i, "cli", "listen", "deaf") /\ address' \in {address, NoOne}
    <3>1. Shares(i)
      BY <1>3, <2>1, <2>3 DEF Listen, Shares
    <3> QED
      BY <1>3, <2>1, <2>3, <3>1, CliMove DEF Listen
  <2> QED
    BY <1>3, <2>2, <2>3 DEF Listen
<1>4. CASE Serve(i, "cli")
  <2>1. UNCHANGED Others /\ Step(i, "cli", "serving", "handle")
    BY <1>4 DEF Serve
  <2>2. pidlock' = i /\ address' = i /\ Shares(i)
    BY <1>1, <2>1 DEF Others, Step, NamesInv, Shares
  <2> QED
    BY <2>1, <2>2, CliMove DEF Others
<1>5. CASE CliReturns(i)
  <2>1. UNCHANGED Others /\ Step(i, "cli", "serving", "waitpid")
    BY <1>5 DEF CliReturns
  <2>2. pidlock' = i /\ Shares(i)
    BY <1>1, <2>1 DEF Others, Step, NamesInv, Shares
  <2> QED
    BY <2>1, <2>2, CliMove DEF Others
<1>6. CASE WaitPid(i)
  <2>1. /\ UNCHANGED Others /\ Step(i, "cli", "waitpid", "clean")
        /\ at[i]["server"] \in Dead
    BY <1>6 DEF WaitPid
  <2>2. pidlock' = i /\ Shares(i)
    BY <1>1, <2>1 DEF Others, Step, NamesInv, Shares
  <2> QED
    BY <2>1, <2>2, CliMove DEF Others
<1>7. CASE CleanGlobals(i)
  <2>1. Step(i, "cli", "clean", "join") /\ Shares(i)
    BY <1>7 DEF CleanGlobals, Shares
  <2> QED
    BY <1>7, <2>1, CliMove DEF CleanGlobals
<1>8. CASE Join(i)
  <2>1. UNCHANGED Others /\ Shares(i)
    BY <1>8 DEF Join, Others, Shares
  <2>2. CASE Step(i, "cli", "join", "farewell")
    BY <2>1, <2>2, CliMove DEF Others
  <2>3. CASE Step(i, "cli", "join", "exit")
    BY <2>1, <2>3, CliMove DEF Others
  <2> QED
    BY <1>8, <2>2, <2>3 DEF Join
<1> QED
  BY <1>3, <1>4, <1>5, <1>6, <1>7, <1>8

\* The invariant of i does not depend on the configuration thread and the
\* handler of the server, as long as the cli process runs.
LEMMA BesidesCli ==
    ASSUME NEW i \in Instances, InstanceInv(i),
           at'[i]["cli"] = at[i]["cli"], at[i]["cli"] # "off",
           at'[i]["server"] = at[i]["server"],
           at'[i]["onSigCli"] # "off" =>
             at[i]["onSigCli"] # "off" \/ at[i]["cli"] \notin Dead,
           UNCHANGED <<pidlock, address, port, orphaned>>
    PROVE  InstanceInv(i)'
<1>1. NamesInv(i)'
  BY DEF InstanceInv, NamesInv
<1>2. ServerInv(i)'
  BY DEF InstanceInv, ServerInv
<1>3. ThreadsInv(i)'
  BY DEF InstanceInv, ThreadsInv
<1> QED
  BY <1>1, <1>2, <1>3 DEF InstanceInv

\* An instance that was not started has nothing to do but to start.
LEMMA Started ==
    ASSUME DaemonInv, NEW i \in Instances, NEW t \in Threads, at[i][t] # "off"
    PROVE  at[i]["cli"] # "off"
BY DEF DaemonInv, InstanceInv, ThreadsInv

\* main up to the pid file.
LEMMA StartKeeps ==
    ASSUME DaemonInv, NEW i \in Instances, Start(i)
    PROVE  DaemonInv'
<1> USE DEF Dead, Gone, PidHeld, Early, Parent
<1>1. TypeOK /\ InstanceInv(i) /\ at[i]["cli"] = "off"
  BY DEF DaemonInv, Start
<1>2. \A t \in Threads : at[i][t] = "off" /\ lock[i] # t
  BY <1>1 DEF InstanceInv, ThreadsInv, TypeOK, LogSteps
<1>3. "pidfile" \in StepsOf["cli"] /\ "watch" \in StepsOf["config"]
  BY StepsTable DEF CliSteps
<1>4. at' = [at EXCEPT ![i]["cli"] = "pidfile", ![i]["config"] = "watch"]
        /\ UNCHANGED Others
  BY DEF Start
<1>5. /\ at' \in [Instances -> [Threads -> Steps]]
      /\ \A j \in Instances \ {i} : at'[j] = at[j]
      /\ at'[i]["cli"] = "pidfile" /\ at'[i]["config"] = "watch"
      /\ \A v \in Threads \ {"cli", "config"} : at'[i][v] = at[i][v]
      /\ \A v \in Threads : at'[i][v] \in StepsOf[v]
  <2>1. TypeOK /\ "cli" # "config"
    BY <1>1
  <2>2. at' = [at EXCEPT ![i]["cli"] = "pidfile", ![i]["config"] = "watch"]
    BY <1>4
  <2> QED
    BY <1>3, <2>1, <2>2, MoveBoth, ThreadNames
<1>6. at'[i]["server"] = "off" /\ at'[i]["onSigCli"] = "off"
  BY <1>2, <1>5, ThreadNames
<1>7. Frame(i) /\ Shares(i)
  BY <1>4, <1>5 DEF Frame, Shares, Others
<1>8. Local(i)'
  BY <1>2, <1>4, <1>5 DEF Local, Others
<1>9. InstanceInv(i)'
  <2>1. port # i /\ i \notin orphaned
    BY <1>1, <1>2, ThreadNames DEF InstanceInv, ServerInv
  <2> QED
    BY <1>4, <1>5, <1>6, <2>1
    DEF InstanceInv, NamesInv, ServerInv, ThreadsInv, Others
<1> QED
  BY <1>1, <1>4, <1>5, <1>7, <1>8, <1>9, Keep DEF Others, TypeOK

\* The fork makes the only server of the instance.
LEMMA ForkKeeps ==
    ASSUME DaemonInv, NEW i \in Instances, Fork(i)
    PROVE  DaemonInv'
<1> USE DEF Dead, Gone, PidHeld, Early, Parent
<1>1. TypeOK /\ InstanceInv(i) /\ at[i]["cli"] = "fork" /\ UNCHANGED Others
  BY DEF DaemonInv, Fork
<1>2. /\ pidlock = i /\ at[i]["server"] = "off" /\ i \notin orphaned /\ port # i
  BY <1>1 DEF InstanceInv, NamesInv, ServerInv
<1>3. lock[i] # "cli" /\ lock[i] # "server"
  BY <1>1, <1>2, ThreadNames DEF TypeOK, LogSteps
<1>4. Shares(i)
  BY <1>1 DEF Shares, Others
<1>5. CASE at' = [at EXCEPT ![i]["cli"] = "report", ![i]["server"] = "born"]
  <2>1. "report" \in StepsOf["cli"] /\ "born" \in StepsOf["server"]
    BY StepsTable DEF CliSteps, ServerSteps
  <2>2. /\ at' \in [Instances -> [Threads -> Steps]]
        /\ \A j \in Instances \ {i} : at'[j] = at[j]
        /\ at'[i]["cli"] = "report" /\ at'[i]["server"] = "born"
        /\ \A v \in Threads \ {"cli", "server"} : at'[i][v] = at[i][v]
        /\ \A v \in Threads : at'[i][v] \in StepsOf[v]
    BY <1>1, <1>5, <2>1, MoveBoth, ThreadNames
  <2>3. Frame(i)
    BY <1>1, <2>2 DEF Frame, Others
  <2>4. Local(i)'
    BY <1>1, <1>3, <2>2 DEF Local, Others, TypeOK
  <2>5. InstanceInv(i)'
    BY <1>1, <1>2, <2>2 DEF InstanceInv, NamesInv, ServerInv, ThreadsInv, Others
  <2> QED
    BY <1>1, <1>4, <2>2, <2>3, <2>4, <2>5, Keep DEF Others, TypeOK
<1>6. CASE at' = [at EXCEPT ![i]["cli"] = "exit"]
  <2>1. "exit" \in StepsOf["cli"]
    BY StepsTable DEF CliSteps
  <2>2. /\ at'[i]["cli"] = "exit"
        /\ \A u \in Threads \ {"cli"} : at'[i][u] = at[i][u]
    BY <1>1, <1>6, <2>1, Move, ThreadNames
  <2>3. at'[i]["server"] = "off"
    BY <1>2, <2>2, ThreadNames
  <2>4. InstanceInv(i)'
    BY <1>1, <1>2, <2>2, <2>3
    DEF InstanceInv, NamesInv, ServerInv, ThreadsInv, Others
  <2>5. at[i]["cli"] \notin LogSteps
    BY <1>1 DEF LogSteps
  <2> QED
    BY <1>1, <1>4, <1>6, <2>1, <2>4, <2>5, MoveKeeps, ThreadNames
    DEF Others, TypeOK
<1> QED
  BY <1>5, <1>6 DEF Fork

\* An event for the configuration thread.
LEMMA NotifyKeeps ==
    ASSUME DaemonInv, NEW i \in Instances, Notify(i)
    PROVE  DaemonInv'
<1>1. /\ TypeOK /\ InstanceInv(i) /\ at[i]["config"] = "watch"
      /\ at' = [at EXCEPT ![i]["config"] = "notify"] /\ UNCHANGED Others
  BY DEF DaemonInv, Notify, Step
<1>2. "notify" \in StepsOf["config"] /\ at[i]["config"] \notin LogSteps
  BY <1>1, StepsTable DEF LogSteps
<1>3. \A u \in Threads \ {"config"} : at'[i][u] = at[i][u]
  BY <1>1, <1>2, Move, ThreadNames
<1>4. /\ at'[i]["cli"] = at[i]["cli"] /\ at'[i]["server"] = at[i]["server"]
      /\ at'[i]["onSigCli"] = at[i]["onSigCli"] /\ at[i]["cli"] # "off"
  BY <1>1, <1>3, Started, ThreadNames
<1>5. InstanceInv(i)' /\ Shares(i)
  BY <1>1, <1>4, BesidesCli DEF Others, Shares
<1> QED
  BY <1>1, <1>2, <1>5, MoveKeeps, ThreadNames DEF Others, TypeOK

\* The end of the configuration thread, with gbConf->lock perhaps.
LEMMA CancelledKeeps ==
    ASSUME DaemonInv, NEW i \in Instances, Cancelled(i)
    PROVE  DaemonInv'
<1>1. /\ TypeOK /\ InstanceInv(i)
      /\ at' = [at EXCEPT ![i]["config"] = "off"]
      /\ lock' = [lock EXCEPT ![i] = IF @ = "config" THEN "lost" ELSE @]
      /\ at[i]["cli"] = "join"
      /\ UNCHANGED <<exiting, pidlock, address, port, kills, orphaned>>
  BY DEF DaemonInv, Cancelled
<1>2. "off" \in StepsOf["config"]
  BY StepsTable
<1>3. /\ at' \in [Instances -> [Threads -> Steps]]
      /\ \A j \in Instances \ {i} : at'[j] = at[j]
      /\ \A u \in Threads \ {"config"} : at'[i][u] = at[i][u]
      /\ \A u \in Threads : at'[i][u] \in StepsOf[u]
  BY <1>1, <1>2, Move, ThreadNames
<1>4. /\ lock' \in [Instances -> Threads \cup {"free", "lost"}]
      /\ \A j \in Instances \ {i} : lock'[j] = lock[j]
      /\ lock'[i] \in {lock[i], "lost"} \ {"config"}
  BY <1>1 DEF TypeOK
<1>5. "lost" \notin Threads
  BY DEF Threads, CliThreads, ServerThreads
<1>6. Local(i)'
  BY <1>1, <1>3, <1>4, <1>5 DEF Local, TypeOK
<1>7. /\ at'[i]["cli"] = at[i]["cli"] /\ at'[i]["server"] = at[i]["server"]
      /\ at'[i]["onSigCli"] = at[i]["onSigCli"]
  BY <1>3, ThreadNames
<1>8. InstanceInv(i)' /\ Shares(i) /\ Frame(i)
  BY <1>1, <1>3, <1>4, <1>7, BesidesCli DEF Shares, Frame
<1> QED
  BY <1>1, <1>3, <1>4, <1>6, <1>8, Keep DEF TypeOK

-----------------------------------------------------------------------------
(***************************************************************************)
(* The steps of the server process.                                        *)
(***************************************************************************)

\* A move of the server process between steps at which it is alive.
LEMMA ServerMove ==
    ASSUME DaemonInv, NEW i \in Instances, NEW from, NEW to \in ServerSteps,
           Step(i, "server", from, to), from \notin LogSteps, from \notin Dead,
           to \notin Dead,
           UNCHANGED <<lock, exiting, pidlock, address, kills, orphaned>>,
           port' = port \/ port' = i,
           port' = i => to \in {"serving", "handle"}
    PROVE  DaemonInv'
<1>1. TypeOK /\ InstanceInv(i)
  BY DEF DaemonInv
<1>2. at' = [at EXCEPT ![i]["server"] = to] /\ at[i]["server"] = from
  BY DEF Step
<1>3. to \in StepsOf["server"]
  BY StepsTable
<1>4. /\ at'[i]["server"] = to
      /\ at'[i]["cli"] = at[i]["cli"]
      /\ at'[i]["onSigCli"] = at[i]["onSigCli"]
  <2>1. /\ at'[i]["server"] = to
        /\ \A u \in Threads \ {"server"} : at'[i][u] = at[i][u]
    BY <1>1, <1>2, <1>3, Move, ThreadNames
  <2> QED
    BY <2>1, ThreadNames
<1>5. at[i]["cli"] # "off"
  BY <1>2, Started, ThreadNames DEF Dead
<1>6. NamesInv(i)'
  BY <1>1, <1>4 DEF InstanceInv, NamesInv
<1>7. ServerInv(i)'
  BY <1>1, <1>2, <1>4 DEF InstanceInv, ServerInv, Dead
<1>8. ThreadsInv(i)'
  BY <1>1, <1>4, <1>5 DEF InstanceInv, ThreadsInv
<1>9. InstanceInv(i)'
  BY <1>6, <1>7, <1>8 DEF InstanceInv
<1>10. Shares(i)
  BY DEF Shares
<1> QED
  BY <1>1, <1>2, <1>3, <1>9, <1>10, MoveKeeps, ThreadNames DEF TypeOK

\* glusterBlockServerProcess, and a request.
LEMMA ServerRuns ==
    ASSUME DaemonInv, NEW i \in Instances, Bind(i) \/ Serve(i, "server")
    PROVE  DaemonInv'
<1> USE DEF ServerSteps, LogSteps, Dead, Gone
<1>1. TypeOK /\ ServerInv(i) /\ i # NoOne
  BY DaemonAssumption DEF DaemonInv, InstanceInv
<1>2. CASE Bind(i)
  <2>1. CASE Step(i, "server", "bind", "serving") /\ port' = i
    BY <1>2, <2>1, ServerMove DEF Bind
  <2>2. CASE Step(i, "server", "bind", "complain") /\ UNCHANGED port
    <3>1. port' # i
      BY <1>1, <2>2 DEF ServerInv, Step
    <3> QED
      BY <1>2, <2>2, <3>1, ServerMove DEF Bind
  <2> QED
    BY <1>2, <2>1, <2>2 DEF Bind
<1>3. CASE Serve(i, "server")
  BY <1>3, ServerMove DEF Serve, Others
<1> QED
  BY <1>2, <1>3

-----------------------------------------------------------------------------
(***************************************************************************)
(* The end of a process.                                                   *)
(***************************************************************************)

\* Whichever process ends, whatever it holds, and however it ends: what was
\* its own is free again, and a server that is left behind is orphaned.
LEMMA EndsKeeps ==
    ASSUME DaemonInv, NEW i \in Instances, NEW p \in {"cli", "server"},
           NEW how \in Gone, Ends(i, p, how), at[i][p] \notin Dead,
           UNCHANGED address, kills' \in 0 .. MaxKills
    PROVE  DaemonInv'
<1> DEFINE threads == IF p = "cli" THEN CliThreads ELSE ServerThreads
           other == IF p = "cli" THEN "server" ELSE "cli"
<1>1. TypeOK /\ InstanceInv(i) /\ i # NoOne
  BY DaemonAssumption DEF DaemonInv
<1>2. /\ at \in [Instances -> [Threads -> Steps]]
      /\ lock \in [Instances -> Threads \cup {"free", "lost"}]
      /\ exiting \in [Instances -> SUBSET {"cli", "server"}]
      /\ orphaned \subseteq Instances
  BY <1>1 DEF TypeOK, Steps
<1>3. /\ orphaned' = IF at[i][other] \in Dead THEN orphaned \ {i}
                     ELSE IF p = "cli" THEN orphaned \cup {i} ELSE orphaned
      /\ pidlock' = IF p = "cli" /\ pidlock = i THEN NoOne ELSE pidlock
      /\ port' = IF p = "server" /\ port = i THEN NoOne ELSE port
  BY DEF Ends, Dead
<1>4. Shares(i)
  BY <1>3 DEF Shares
<1>5. orphaned' \subseteq Instances
        /\ \A j \in Instances \ {i} : j \in orphaned' <=> j \in orphaned
  BY <1>2, <1>3
<1>6. "free" \notin Threads /\ "lost" \notin Threads
  BY DEF Threads, CliThreads, ServerThreads
<1>7. "off" \in Steps /\ how \in Steps /\ \A t \in Threads : "off" \in StepsOf[t]
  <2>1. \A t \in Threads : "off" \in StepsOf[t]
    BY StepsTable
    DEF Threads, CliThreads, ServerThreads, CliSteps, ServerSteps, HandlerSteps
  <2>2. how \in StepsOf["cli"]
    BY StepsTable DEF CliSteps, Gone
  <2> QED
    BY <2>1, <2>2, StepsTable, ThreadNames
<1>8. CASE at[i][other] \in Dead
  <2>1. /\ at' = [at EXCEPT ![i] = [t \in Threads |-> "off"]]
        /\ lock' = [lock EXCEPT ![i] = "free"]
        /\ exiting' = [exiting EXCEPT ![i] = {}]
    BY <1>8 DEF Ends, Dead
  <2>2. /\ at' \in [Instances -> [Threads -> Steps]]
        /\ \A j \in Instances \ {i} : at'[j] = at[j]
        /\ \A t \in Threads : at'[i][t] = "off"
    BY <1>2, <1>7, <2>1
  <2>3. /\ lock' \in [Instances -> Threads \cup {"free", "lost"}]
        /\ \A j \in Instances \ {i} : lock'[j] = lock[j]
        /\ lock'[i] = "free"
        /\ exiting' \in [Instances -> SUBSET {"cli", "server"}]
    BY <1>2, <2>1
  <2>4. Local(i)' /\ Frame(i)
    BY <1>5, <1>6, <1>7, <2>2, <2>3 DEF Local, Frame
  <2>5. port' # i
    <3>1. CASE p = "cli"
      BY <1>1, <1>3, <1>8, <3>1 DEF InstanceInv, ServerInv, Dead, Gone
    <3>2. CASE p = "server"
      BY <1>1, <1>3, <3>2
    <3> QED
      BY <3>1, <3>2
  <2>6. at'[i]["cli"] = "off" /\ at'[i]["server"] = "off"
          /\ at'[i]["onSigCli"] = "off" /\ i \notin orphaned'
    BY <1>3, <1>8, <2>2, ThreadNames
  <2>7. InstanceInv(i)'
    BY <2>2, <2>5, <2>6
    DEF InstanceInv, NamesInv, ServerInv, ThreadsInv, PidHeld, Dead, Gone
  <2> QED
    BY <1>4, <1>5, <2>2, <2>3, <2>4, <2>7, Keep
<1>9. CASE at[i][other] \notin Dead
  <2>1. /\ at' = [at EXCEPT ![i] = [t \in Threads |->
                    IF t = p THEN how ELSE IF t \in threads THEN "off" ELSE @[t]]]
        /\ lock' = [lock EXCEPT ![i] = IF @ \in threads THEN "lost" ELSE @]
        /\ exiting' = exiting
    BY <1>9 DEF Ends, Dead
  <2>2. /\ p \in Threads /\ p \in threads /\ other \in Threads \ threads
        /\ p = "cli" => "onSigCli" \in threads
        /\ p = "server" => "onSigCli" \notin threads
        /\ how \in StepsOf[p]
    BY StepsTable, ThreadNames
    DEF CliThreads, ServerThreads, Threads, CliSteps, ServerSteps, Gone
  <2> HIDE DEF threads
  <2>3. /\ at' \in [Instances -> [Threads -> Steps]]
        /\ \A j \in Instances \ {i} : at'[j] = at[j]
        /\ \A t \in Threads :
             at'[i][t] = IF t = p THEN how
                         ELSE IF t \in threads THEN "off" ELSE at[i][t]
    <3> DEFINE f == [t \in Threads |->
                       IF t = p THEN how
                       ELSE IF t \in threads THEN "off" ELSE at[i][t]]
    <3>1. at' = [at EXCEPT ![i] = f]
      BY <2>1
    <3>2. f \in [Threads -> Steps]
      BY <1>2, <1>7
    <3>3. \A t \in Threads :
            f[t] = IF t = p THEN how
                   ELSE IF t \in threads THEN "off" ELSE at[i][t]
      OBVIOUS
    <3> HIDE DEF f
    <3> QED
      BY <1>2, <3>1, <3>2, <3>3
  <2>4. /\ lock' \in [Instances -> Threads \cup {"free", "lost"}]
        /\ \A j \in Instances \ {i} : lock'[j] = lock[j]
        /\ lock'[i] = IF lock[i] \in threads THEN "lost" ELSE lock[i]
    BY <1>2, <2>1
  <2>5. Frame(i)
    BY <1>5, <2>3, <2>4 DEF Frame
  <2>6. Local(i)'
    <3>1. ASSUME NEW t \in Threads PROVE at'[i][t] \in StepsOf[t]
      BY <1>1, <1>7, <2>2, <2>3 DEF TypeOK
    <3>2. ASSUME NEW t \in Threads, lock'[i] = t PROVE at'[i][t] \in LogSteps
      <4>1. lock[i] = t /\ t \notin threads
        BY <1>6, <2>4, <3>2
      <4> QED
        BY <1>1, <2>2, <2>3, <4>1 DEF TypeOK
    <3> QED
      BY <3>1, <3>2 DEF Local
  <2>7. InstanceInv(i)'
    <3>1. CASE p = "cli"
      <4>1. /\ at'[i]["cli"] = how /\ at'[i]["server"] = at[i]["server"]
            /\ at'[i]["onSigCli"] = "off"
        BY <2>2, <2>3, <3>1, ThreadNames
      <4>2. at[i]["server"] \notin Dead /\ i \in orphaned' /\ port' = port
        BY <1>3, <1>9, <3>1
      <4> QED
        BY <1>1, <4>1, <4>2
        DEF InstanceInv, NamesInv, ServerInv, ThreadsInv, PidHeld, Early, Dead,
            Gone
    <3>2. CASE p = "server"
      <4>1. /\ at'[i]["server"] = how /\ at'[i]["cli"] = at[i]["cli"]
            /\ at'[i]["onSigCli"] = at[i]["onSigCli"]
        BY <2>2, <2>3, <3>2, ThreadNames
      <4>2. /\ at[i]["cli"] \notin Dead /\ orphaned' = orphaned /\ port' # i
            /\ UNCHANGED pidlock
        BY <1>1, <1>3, <1>9, <3>2
      <4>3. at[i]["server"] # "off" /\ i \notin orphaned
        BY <1>1, <3>2, <4>2 DEF InstanceInv, ServerInv, Dead
      <4> QED
        BY <1>1, <4>1, <4>2, <4>3
        DEF InstanceInv, NamesInv, ServerInv, ThreadsInv, Early, Dead, Gone
    <3> QED
      BY <3>1, <3>2
  <2> QED
    BY <1>2, <1>4, <1>5, <2>1, <2>3, <2>4, <2>5, <2>6, <2>7, Keep
<1> QED
  BY <1>8, <1>9

-----------------------------------------------------------------------------
(***************************************************************************)
(* The lock of LOG, and the signals.                                       *)
(***************************************************************************)

\* A LOG takes gbConf->lock.
LEMMA LockKeeps ==
    ASSUME DaemonInv, NEW i \in Instances, NEW t \in Threads, Lock(i, t)
    PROVE  DaemonInv'
<1>1. /\ TypeOK /\ InstanceInv(i) /\ at[i][t] \in LogSteps
      /\ lock' = [lock EXCEPT ![i] = t]
      /\ UNCHANGED <<at, exiting, pidlock, address, port, kills, orphaned>>
  BY DEF DaemonInv, Lock
<1>2. /\ lock' \in [Instances -> Threads \cup {"free", "lost"}]
      /\ \A j \in Instances \ {i} : lock'[j] = lock[j]
      /\ lock'[i] = t
  BY <1>1 DEF TypeOK
<1>3. Local(i)' /\ Frame(i) /\ Shares(i)
  BY <1>1, <1>2 DEF Local, Frame, Shares, TypeOK
<1>4. InstanceInv(i)'
  BY <1>1 DEF InstanceInv, NamesInv, ServerInv, ThreadsInv
<1>5. at' \in [Instances -> [Threads -> Steps]]
  BY <1>1 DEF TypeOK, Steps
<1> QED
  BY <1>1, <1>2, <1>3, <1>4, <1>5, Keep DEF TypeOK

\* A LOG gives the lock back, and the thread goes on.
LEMMA UnlockKeeps ==
    ASSUME DaemonInv, NEW i \in Instances, NEW t \in Threads, Unlock(i, t)
    PROVE  DaemonInv'
<1> DEFINE to == AfterLog[at[i][t]]
<1>1. /\ TypeOK /\ InstanceInv(i) /\ lock[i] = t
      /\ lock' = [lock EXCEPT ![i] = "free"]
      /\ UNCHANGED <<exiting, pidlock, address, port, kills, orphaned>>
  BY DEF DaemonInv, Unlock
<1>2. at[i][t] \in LogSteps /\ at[i][t] \in StepsOf[t]
  BY <1>1 DEF TypeOK
<1>3. to \in StepsOf[t]
  BY <1>2, AfterLogTable
<1>4. at' = [at EXCEPT ![i][t] = to]
  BY DEF Unlock
<1>5. at[i]["cli"] # "off"
  BY <1>2, Started DEF LogSteps
<1>6. /\ t = "cli" => \/ at[i][t] = "refuse" /\ to = "exit"
                      \/ at[i][t] = "report" /\ to = "listen"
                      \/ at[i][t] = "deaf" /\ to = "waitpid"
                      \/ at[i][t] = "handle" /\ to = "serving"
                      \/ at[i][t] = "farewell" /\ to = "exit"
      /\ t = "server" => \/ at[i][t] = "born" /\ to = "bind"
                         \/ at[i][t] = "handle" /\ to = "serving"
                         \/ at[i][t] = "complain" /\ to = "exit"
      /\ t = "onSigCli" => at[i][t] = "note"
  BY <1>2, AfterLogTable
<1> HIDE DEF to
<1>7. /\ at' \in [Instances -> [Threads -> Steps]]
      /\ \A j \in Instances \ {i} : at'[j] = at[j]
      /\ at'[i][t] = to
      /\ \A u \in Threads \ {t} : at'[i][u] = at[i][u]
      /\ \A u \in Threads : at'[i][u] \in StepsOf[u]
  <2>1. TypeOK
    BY <1>1
  <2> QED
    BY <1>3, <1>4, <2>1, Move
<1>8. /\ lock' \in [Instances -> Threads \cup {"free", "lost"}]
      /\ \A j \in Instances \ {i} : lock'[j] = lock[j]
      /\ lock'[i] = "free" /\ "free" \notin Threads
  BY <1>1 DEF TypeOK, Threads, CliThreads, ServerThreads
<1>9. Local(i)' /\ Frame(i) /\ Shares(i)
  BY <1>1, <1>7, <1>8 DEF Local, Frame, Shares
<1>10. InstanceInv(i)'
  <2> USE DEF PidHeld, Early, Parent, Dead, Gone
  <2>1. CASE t = "cli"
    <3>1. /\ at'[i]["cli"] = to /\ at'[i]["server"] = at[i]["server"]
          /\ at'[i]["onSigCli"] = at[i]["onSigCli"]
      BY <1>7, <2>1, ThreadNames
    <3>2. \/ at[i]["cli"] = "refuse" /\ to = "exit"
          \/ at[i]["cli"] = "report" /\ to = "listen"
          \/ at[i]["cli"] = "deaf" /\ to = "waitpid"
          \/ at[i]["cli"] = "handle" /\ to = "serving"
          \/ at[i]["cli"] = "farewell" /\ to = "exit"
      BY <1>6, <2>1
    <3>3. NamesInv(i)'
      BY <1>1, <3>1, <3>2 DEF InstanceInv, NamesInv
    <3>4. ServerInv(i)'
      BY <1>1, <3>1, <3>2 DEF InstanceInv, ServerInv
    <3>5. ThreadsInv(i)'
      BY <3>1, <3>2 DEF ThreadsInv
    <3> QED
      BY <3>3, <3>4, <3>5 DEF InstanceInv
  <2>2. CASE t = "server"
    <3>1. /\ at'[i]["server"] = to /\ at'[i]["cli"] = at[i]["cli"]
          /\ at'[i]["onSigCli"] = at[i]["onSigCli"]
      BY <1>7, <2>2, ThreadNames
    <3>2. \/ at[i]["server"] = "born" /\ to = "bind"
          \/ at[i]["server"] = "handle" /\ to = "serving"
          \/ at[i]["server"] = "complain" /\ to = "exit"
      BY <1>6, <2>2
    <3>3. NamesInv(i)'
      BY <1>1, <3>1 DEF InstanceInv, NamesInv
    <3>4. ServerInv(i)'
      BY <1>1, <3>1, <3>2 DEF InstanceInv, ServerInv
    <3>5. ThreadsInv(i)'
      BY <1>1, <1>5, <3>1 DEF InstanceInv, ThreadsInv
    <3> QED
      BY <3>3, <3>4, <3>5 DEF InstanceInv
  <2>3. CASE t \notin {"cli", "server"}
    <3>1. at'[i]["cli"] = at[i]["cli"] /\ at'[i]["server"] = at[i]["server"]
      BY <1>7, <2>3, ThreadNames
    <3>2. at'[i]["onSigCli"] # "off" => at[i]["onSigCli"] # "off"
      BY <1>6, <1>7, ThreadNames
    <3> QED
      BY <1>1, <1>5, <3>1, <3>2, BesidesCli
  <2> QED
    BY <2>1, <2>2, <2>3
<1> QED
  BY <1>1, <1>7, <1>8, <1>9, <1>10, Keep DEF TypeOK

\* svc_exit keeps the type of exiting.
LEMMA SvcExitType ==
    ASSUME TypeOK, NEW i \in Instances, NEW p \in {"cli", "server"},
           svc_exit(i, p)
    PROVE  exiting' \in [Instances -> SUBSET {"cli", "server"}]
BY DEF TypeOK, svc_exit

\* A signal, whether a handler runs or the process ends.
LEMMA TermKeeps ==
    ASSUME DaemonInv, NEW i \in Instances, Term(i)
    PROVE  DaemonInv'
<1>1. /\ TypeOK /\ InstanceInv(i) /\ at[i]["cli"] \notin Dead
      /\ at[i]["onSigCli"] = "off" /\ UNCHANGED <<address, kills>>
  BY DEF DaemonInv, Term, Dead
<1>2. CASE Ends(i, "cli", "killed")
  BY <1>1, <1>2, EndsKeeps DEF Gone, TypeOK
<1>3. CASE /\ at' = [at EXCEPT ![i]["onSigCli"] = "note"]
           /\ UNCHANGED <<lock, exiting, pidlock, port, orphaned>>
  <2>1. "note" \in StepsOf["onSigCli"] /\ at[i]["onSigCli"] \notin LogSteps
    BY <1>1, StepsTable DEF HandlerSteps, LogSteps
  <2>2. \A u \in Threads \ {"onSigCli"} : at'[i][u] = at[i][u]
    BY <1>1, <1>3, <2>1, Move, ThreadNames
  <2>3. at'[i]["cli"] = at[i]["cli"] /\ at'[i]["server"] = at[i]["server"]
    BY <2>2, ThreadNames
  <2>4. InstanceInv(i)' /\ Shares(i)
    BY <1>1, <1>3, <2>3, BesidesCli DEF Shares, Dead
  <2> QED
    BY <1>1, <1>3, <2>1, <2>4, MoveKeeps, ThreadNames DEF TypeOK
<1> QED
  BY <1>2, <1>3 DEF Term

\* The handler of the server process.
LEMMA OnSigServerKeeps ==
    ASSUME DaemonInv, NEW i \in Instances, onSigServerHandler(i)
    PROVE  DaemonInv'
<1>1. /\ TypeOK /\ InstanceInv(i) /\ at[i]["onSigServer"] = "pass"
      /\ at' = [at EXCEPT ![i]["onSigServer"] = "done"]
      /\ UNCHANGED <<lock, pidlock, address, port, kills, orphaned>>
  BY DEF DaemonInv, onSigServerHandler
<1>2. exiting' \in [Instances -> SUBSET {"cli", "server"}]
  BY <1>1, SvcExitType DEF onSigServerHandler
<1>3. "done" \in StepsOf["onSigServer"] /\ at[i]["onSigServer"] \notin LogSteps
  BY <1>1, StepsTable DEF HandlerSteps, LogSteps
<1>4. \A u \in Threads \ {"onSigServer"} : at'[i][u] = at[i][u]
  BY <1>1, <1>3, Move, ThreadNames
<1>5. /\ at'[i]["cli"] = at[i]["cli"] /\ at'[i]["server"] = at[i]["server"]
      /\ at'[i]["onSigCli"] = at[i]["onSigCli"] /\ at[i]["cli"] # "off"
  BY <1>1, <1>4, Started, ThreadNames
<1>6. InstanceInv(i)' /\ Shares(i)
  BY <1>1, <1>5, BesidesCli DEF Shares
<1> QED
  BY <1>1, <1>2, <1>3, <1>6, MoveKeeps, ThreadNames

\* The handler of the cli process, which passes the signal on: a server that
\* has not set its handlers dies of it.
LEMMA OnSigCliKeeps ==
    ASSUME DaemonInv, NEW i \in Instances, onSigCliHandler(i)
    PROVE  DaemonInv'
<1>1. /\ TypeOK /\ InstanceInv(i) /\ at[i]["onSigCli"] = "pass"
      /\ UNCHANGED <<pidlock, address, port, kills, orphaned>>
  BY DEF DaemonInv, onSigCliHandler
<1>2. exiting' \in [Instances -> SUBSET {"cli", "server"}]
  BY <1>1, SvcExitType DEF onSigCliHandler
<1>3. /\ "done" \in StepsOf["onSigCli"] /\ "note" \in StepsOf["onSigServer"]
      /\ "killed" \in StepsOf["server"]
  BY StepsTable DEF HandlerSteps, ServerSteps, Gone
<1>4. at[i]["cli"] \notin Dead /\ at[i]["cli"] # "off" /\ i \notin orphaned
  BY <1>1 DEF InstanceInv, ThreadsInv, ServerInv, Dead
<1>5. Shares(i) /\ lock[i] # "onSigCli"
  BY <1>1, ThreadNames DEF Shares, TypeOK, LogSteps
<1>6. CASE /\ at' = [at EXCEPT ![i]["onSigCli"] = "done",
                               ![i]["onSigServer"] = "note"]
           /\ UNCHANGED lock
  <2>1. /\ at' \in [Instances -> [Threads -> Steps]]
        /\ \A j \in Instances \ {i} : at'[j] = at[j]
        /\ at'[i]["onSigCli"] = "done" /\ at'[i]["onSigServer"] = "note"
        /\ \A v \in Threads \ {"onSigCli", "onSigServer"} : at'[i][v] = at[i][v]
        /\ \A v \in Threads : at'[i][v] \in StepsOf[v]
    BY <1>1, <1>3, <1>6, MoveBoth, ThreadNames
  <2>2. at'[i]["cli"] = at[i]["cli"] /\ at'[i]["server"] = at[i]["server"]
    BY <2>1, ThreadNames
  <2>3. InstanceInv(i)'
    BY <1>1, <1>4, <2>2, BesidesCli
  <2>4. ASSUME NEW v \in Threads, lock'[i] = v
        PROVE  at'[i][v] \in LogSteps
    <3>1. v # "onSigCli" /\ at[i][v] \in LogSteps
      BY <1>1, <1>5, <1>6, <2>4 DEF TypeOK
    <3>2. CASE v = "onSigServer"
      BY <2>1, <3>2 DEF LogSteps
    <3>3. CASE v # "onSigServer"
      BY <2>1, <3>1, <3>3
    <3> QED
      BY <3>2, <3>3
  <2>5. Local(i)'
    BY <2>1, <2>4 DEF Local
  <2>6. Frame(i)
    BY <1>1, <1>6, <2>1 DEF Frame
  <2> QED
    BY <1>1, <1>2, <1>5, <1>6, <2>1, <2>3, <2>5, <2>6, Keep DEF TypeOK
<1>7. CASE /\ at[i]["server"] = "born"
           /\ at' = [at EXCEPT ![i]["onSigCli"] = "done", ![i]["server"] = "killed"]
           /\ lock' = [lock EXCEPT ![i] = IF @ = "server" THEN "lost" ELSE @]
  <2>1. /\ at' \in [Instances -> [Threads -> Steps]]
        /\ \A j \in Instances \ {i} : at'[j] = at[j]
        /\ at'[i]["onSigCli"] = "done" /\ at'[i]["server"] = "killed"
        /\ \A v \in Threads \ {"onSigCli", "server"} : at'[i][v] = at[i][v]
        /\ \A v \in Threads : at'[i][v] \in StepsOf[v]
    BY <1>1, <1>3, <1>7, MoveBoth, ThreadNames
  <2>2. at'[i]["cli"] = at[i]["cli"]
    BY <2>1, ThreadNames
  <2>3. /\ lock' \in [Instances -> Threads \cup {"free", "lost"}]
        /\ \A j \in Instances \ {i} : lock'[j] = lock[j]
        /\ lock'[i] \in {lock[i], "lost"} \ {"server"}
        /\ "lost" \notin Threads
    BY <1>1, <1>7 DEF TypeOK, Threads, CliThreads, ServerThreads
  <2>a. ASSUME NEW v \in Threads, lock'[i] = v PROVE at'[i][v] \in LogSteps
    <3>1. lock[i] = v /\ v \notin {"onSigCli", "server"}
      BY <1>5, <2>3, <2>a
    <3> QED
      BY <1>1, <2>1, <3>1 DEF TypeOK
  <2>4. Local(i)' /\ Frame(i)
    BY <1>1, <2>1, <2>3, <2>a DEF Local, Frame
  <2>5. port # i /\ at[i]["cli"] \notin Early
    BY <1>1, <1>7 DEF InstanceInv, ServerInv
  <2>6. InstanceInv(i)'
    BY <1>1, <1>4, <2>1, <2>2, <2>5
    DEF InstanceInv, NamesInv, ServerInv, ThreadsInv, Dead, Gone
  <2> QED
    BY <1>1, <1>2, <1>5, <2>1, <2>3, <2>4, <2>6, Keep DEF TypeOK
<1>8. CASE at' = [at EXCEPT ![i]["onSigCli"] = "done"] /\ UNCHANGED lock
  <2>1. \A u \in Threads \ {"onSigCli"} : at'[i][u] = at[i][u]
    BY <1>1, <1>3, <1>8, Move, ThreadNames
  <2>2. at'[i]["cli"] = at[i]["cli"] /\ at'[i]["server"] = at[i]["server"]
    BY <2>1, ThreadNames
  <2>3. InstanceInv(i)'
    BY <1>1, <1>4, <2>2, BesidesCli
  <2>4. at[i]["onSigCli"] \notin LogSteps
    BY <1>1 DEF LogSteps
  <2> QED
    BY <1>1, <1>2, <1>3, <1>5, <1>8, <2>3, <2>4, MoveKeeps, ThreadNames
<1> QED
  BY <1>6, <1>7, <1>8 DEF onSigCliHandler

-----------------------------------------------------------------------------
(***************************************************************************)
(* The theorems.                                                           *)
(***************************************************************************)

\* The invariant holds before anything is started.
LEMMA DaemonInvInit == Init => DaemonInv
<1> SUFFICES ASSUME Init PROVE DaemonInv
  OBVIOUS
<1>1. \A t \in Threads : "off" \in StepsOf[t]
  BY StepsTable
  DEF Threads, CliThreads, ServerThreads, CliSteps, ServerSteps, HandlerSteps
<1>2. "off" \in Steps /\ "free" \notin Threads
  BY <1>1, StepsTable, ThreadNames DEF Threads, CliThreads, ServerThreads
<1>3. \A i \in Instances : /\ \A t \in Threads : at[i][t] = "off"
                           /\ lock[i] = "free"
  BY DEF Init
<1>4. TypeOK
  <2>1. at \in [Instances -> [Threads -> Steps]]
    BY <1>2 DEF Init
  <2>2. /\ lock \in [Instances -> Threads \cup {"free", "lost"}]
        /\ exiting \in [Instances -> SUBSET {"cli", "server"}]
        /\ {pidlock, address, port} \subseteq Instances \cup {NoOne}
        /\ kills \in 0 .. MaxKills /\ orphaned \subseteq Instances
    BY DaemonAssumption DEF Init
  <2>3. \A i \in Instances : \A t \in Threads :
          at[i][t] \in StepsOf[t] /\ lock[i] # t
    BY <1>1, <1>2, <1>3
  <2> QED
    BY <2>1, <2>2, <2>3 DEF TypeOK, Steps
<1>5. ASSUME NEW i \in Instances PROVE InstanceInv(i)
  <2>1. /\ at[i]["cli"] = "off" /\ at[i]["server"] = "off"
        /\ at[i]["onSigCli"] = "off" /\ i \notin orphaned /\ port # i
    BY <1>3, ThreadNames, DaemonAssumption DEF Init
  <2> QED
    BY <1>3, <2>1
    DEF InstanceInv, NamesInv, ServerInv, ThreadsInv, PidHeld, Dead, Gone
<1> QED
  BY <1>4, <1>5 DEF DaemonInv

\* Every step of every instance keeps it.
LEMMA DaemonInvNext ==
    ASSUME DaemonInv, [Next]_vars
    PROVE  DaemonInv'
<1>1. CASE UNCHANGED vars
  BY <1>1
  DEF vars, DaemonInv, TypeOK, InstanceInv, NamesInv, ServerInv, ThreadsInv
<1>2. ASSUME NEW i \in Instances, Start(i) \/ Notify(i) \/ Term(i)
      PROVE  DaemonInv'
  BY <1>2, StartKeeps, NotifyKeeps, TermKeeps
<1>3. ASSUME NEW i \in Instances, NEW p \in {"cli", "server"}, Kill(i, p)
      PROVE  DaemonInv'
  <2>1. /\ Ends(i, p, "killed") /\ at[i][p] \notin Dead /\ UNCHANGED address
        /\ kills' = kills + 1 /\ kills < MaxKills
    BY <1>3 DEF Kill, Dead
  <2>2. kills' \in 0 .. MaxKills /\ "killed" \in Gone
    BY <2>1, DaemonAssumption DEF DaemonInv, TypeOK, Gone
  <2> QED
    BY <2>1, <2>2, EndsKeeps
<1>4. ASSUME NEW i \in Instances, NEW p \in {"cli", "server"}, Exit(i, p)
      PROVE  DaemonInv'
  <2>1. /\ Ends(i, p, "exited") /\ at[i][p] \notin Dead
        /\ UNCHANGED <<address, kills>>
    BY <1>4 DEF Exit, Dead, Gone
  <2>2. kills' \in 0 .. MaxKills /\ "exited" \in Gone
    BY <2>1 DEF DaemonInv, TypeOK, Gone
  <2> QED
    BY <2>1, <2>2, EndsKeeps
<1>5. ASSUME NEW i \in Instances, ServerReturns(i)
      PROVE  DaemonInv'
  <2>1. /\ Ends(i, "server", "exited") /\ at[i]["server"] \notin Dead
        /\ UNCHANGED <<address, kills>>
    BY <1>5 DEF ServerReturns, Dead, Gone
  <2>2. kills' \in 0 .. MaxKills /\ "exited" \in Gone
    BY <2>1 DEF DaemonInv, TypeOK, Gone
  <2> QED
    BY <2>1, <2>2, EndsKeeps
<1>6. ASSUME NEW i \in Instances, NEW t \in Threads, Proceeds(i, t)
      PROVE  DaemonInv'
  BY <1>4, <1>5, <1>6, LockKeeps, UnlockKeeps, CliStarts, ForkKeeps, CliRuns,
     CancelledKeeps, ServerRuns, OnSigCliKeeps, OnSigServerKeeps
  DEF Proceeds
<1>7. ASSUME NEW i \in Instances, NEW p \in {"cli", "server"}, Serve(i, p)
      PROVE  DaemonInv'
  BY <1>7, CliRuns, ServerRuns
<1> QED
  BY <1>1, <1>2, <1>3, <1>6, <1>7 DEF Next

\* It holds in every state of the node.
LEMMA DaemonInvariant == Spec => []DaemonInv
<1>1. DaemonInv /\ [Next]_vars => DaemonInv'
  BY DaemonInvNext
<1> QED
  BY <1>1, DaemonInvInit, PTL DEF Spec

\* Types; and only the thread that has gbConf->lock is inside of a LOG,
\* whichever process is interrupted, cancelled or killed.
THEOREM DaemonTyping == Spec => []TypeOK
<1>1. DaemonInv => TypeOK
  BY DEF DaemonInv
<1> QED
  BY <1>1, DaemonInvariant, PTL

\* Whichever cli process is in svc_run has the pid file, and the tool reaches
\* it, for any number of instances and of kills.
THEOREM OneDaemonSafety == Spec => []OneDaemon
<1>1. DaemonInv => OneDaemon
  BY DEF DaemonInv, InstanceInv, NamesInv, OneDaemon, PidHeld
<1> QED
  BY <1>1, DaemonInvariant, PTL

\* A server finds the port taken only by an orphaned one.
THEOREM PortFreeSafety == Spec => []PortFree
<1>1. DaemonInv => PortFree
  <2> SUFFICES ASSUME DaemonInv, NEW i \in Instances, i \notin orphaned,
                      at[i]["server"] = "bind", port \notin orphaned,
                      port # NoOne
               PROVE  FALSE
    BY DEF PortFree
  <2>1. port \in Instances
    BY DEF DaemonInv, TypeOK
  <2>2. at[port]["server"] \in {"serving", "handle"}
    BY <2>1 DEF DaemonInv, InstanceInv, ServerInv
  <2>3. at[i]["cli"] \in Parent /\ at[port]["cli"] \in Parent
    BY <2>1, <2>2 DEF DaemonInv, InstanceInv, ServerInv, Dead, Gone
  <2>4. pidlock = i /\ pidlock = port
    BY <2>1, <2>3 DEF DaemonInv, InstanceInv, NamesInv, Parent, PidHeld
  <2> QED
    BY <2>2, <2>4
<1> QED
  BY <1>1, DaemonInvariant, PTL
=============================================================================
