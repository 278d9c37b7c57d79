------------------------------ MODULE LruCache ------------------------------
(***************************************************************************)
(* The cache of volume handles in the cli process of gluster-blockd        *)
(* (utils/lru.c, glusterBlockVolumeInit) and the thread that reloads the   *)
(* configuration (utils/dyn-config.c).                                     *)
(*                                                                         *)
(* svc_run serves one request at a time, so one thread looks handles up,   *)
(* appends and releases them.  The configuration thread changes, at any    *)
(* moment, how many handles the cache may hold and where they log.  The    *)
(* two meet at the mutexes gbConf->lock and lru_lock.                      *)
(*                                                                         *)
(* Abstractions.  A handle is the volume it was opened for and the log     *)
(* file it was given.  Log files stand for directories, whatever names     *)
(* lead to them; names that are too long change nothing and are left out.  *)
(* LOG takes gbConf->lock for a moment and changes nothing: it is left     *)
(* out, but for the places that must not call it.                          *)
(***************************************************************************)
EXTENDS Naturals, SequencesExt

CONSTANTS
    Volumes,         \* the block hosting volumes
    Configs,         \* what the configuration file may say: [count, dir]
    LogFiles,        \* the gfapi log files the directories give
    Torn,            \* a file name read while it was being written
    LRU_COUNT_MAX,
    Failures         \* the calls that may fail, of "glfs", "alloc", "logdir",
                     \* "logging"

ASSUME LruAssumption ==
    /\ Volumes # {} /\ Torn \notin LogFiles
    /\ Configs \subseteq [count : Nat, dir : LogFiles]
    /\ \E c \in Configs : c.count \in 1 .. LRU_COUNT_MAX
    /\ LRU_COUNT_MAX \in Nat \ {0}

VARIABLES
    Cache,          \* the list, the warmest handle first
    lruCount,
    glfsLruCount,   \* gbConf->glfsLruCount
    gfapiLogFile,   \* gbConf->gfapiLogFile
    lock,           \* who holds gbConf->lock
    lru_lock,       \* who holds lru_lock
    cli,            \* the thread of the requests: [pc, volume, dir]
    config,         \* the configuration thread: [pc, cfg]
    recent,         \* history: the volumes, in the order of their last use
    missed          \* history: a handle was not told the log file

vars == <<Cache, lruCount, glfsLruCount, gfapiLogFile, lock, lru_lock,
          cli, config, recent, missed>>

Holders == {"none", "cli", "config"}

Handle == [volume : Volumes, dir : LogFiles \cup {Torn}]

CliSteps == {"idle", "query", "new", "init", "append", "full", "add", "use"}

ConfigSteps == {"idle", "logdir", "write", "update", "handles", "set"}

TypeOK ==
    /\ Cache \in Seq(Handle)
    /\ lruCount \in Nat
    /\ glfsLruCount \in 1 .. LRU_COUNT_MAX
    /\ gfapiLogFile \in LogFiles
    /\ lock \in Holders /\ lru_lock \in Holders
    /\ cli \in [pc : CliSteps, volume : Volumes, dir : LogFiles \cup {Torn}]
    /\ config \in [pc : ConfigSteps, cfg : Configs]
    /\ recent \in Seq(Volumes)
    /\ missed \in BOOLEAN

\* A thread between two jobs; its locals mean nothing.
CliIdle == [pc |-> "idle", volume |-> CHOOSE v \in Volumes : TRUE, dir |-> Torn]

ConfigIdle == [pc |-> "idle", cfg |-> CHOOSE c \in Configs : TRUE]

\* What the daemon starts with came from a valid configuration.
Init ==
    /\ Cache = <<>>
    /\ lruCount = 0
    /\ \E c \in Configs :
         /\ c.count \in 1 .. LRU_COUNT_MAX
         /\ glfsLruCount = c.count
         /\ gfapiLogFile = c.dir
    /\ config = ConfigIdle
    /\ cli = CliIdle
    /\ lock = "none" /\ lru_lock = "none"
    /\ recent = <<>>
    /\ missed = FALSE

-----------------------------------------------------------------------------
CachedVolumes == {Cache[i].volume : i \in DOMAIN Cache}

\* list_del of the handle of v, and list_add in front.
ToFront(s, v) ==
    LET i == CHOOSE j \in DOMAIN s : s[j].volume = v
    IN <<s[i]>> \o RemoveAt(s, i)

\* The volume used last comes first, and no other place keeps it.
Use(v) ==
    LET older == IF v \in Range(recent)
                 THEN RemoveAt(recent, CHOOSE j \in DOMAIN recent : recent[j] = v)
                 ELSE recent
    IN recent' = <<v>> \o older

\* Another thread is not in the critical section of the mutex.
Free(m) == m = "none"

CliTo(step) == cli' = [cli EXCEPT !.pc = step]

MayFail(call) == call \in Failures

(***************************************************************************)
(* A request: glusterBlockVolumeInit, then the handler.                    *)
(***************************************************************************)

Request ==
    /\ cli.pc = "idle"
    /\ \E v \in Volumes : cli' = [cli EXCEPT !.pc = "query", !.volume = v]
    /\ UNCHANGED <<Cache, lruCount, glfsLruCount, gfapiLogFile, lock,
                   lru_lock, config, recent, missed>>

\* Mutant of queryCache: a hit leaves the handle where it is.
queryCacheNoBoost ==
    /\ cli.pc = "query"
    /\ Free(lru_lock)
    /\ \/ /\ cli.volume \in CachedVolumes
          /\ Use(cli.volume)
          /\ CliTo("use")
       \/ /\ cli.volume \notin CachedVolumes
          /\ CliTo("new")
          /\ UNCHANGED recent
    /\ UNCHANGED <<Cache, lruCount, glfsLruCount, gfapiLogFile, lock, lru_lock,
                   config, missed>>

\* queryCache with boostEntryWarmness, in one critical section of lru_lock.
queryCache ==
    /\ cli.pc = "query"
    /\ Free(lru_lock)
    /\ \/ /\ cli.volume \in CachedVolumes
          /\ Cache' = ToFront(Cache, cli.volume)
          /\ Use(cli.volume)
          /\ CliTo("use")
       \/ /\ cli.volume \notin CachedVolumes
          /\ CliTo("new")
          /\ UNCHANGED <<Cache, recent>>
    /\ UNCHANGED <<lruCount, glfsLruCount, gfapiLogFile, lock, lru_lock,
                   config, missed>>

\* glfs_fini(glfs); return NULL.
InitFails == cli' = CliIdle

\* glfs_new, glfs_set_volfile_server and glfs_set_logging, which reads
\* gbConf->gfapiLogFile without the lock.
SetLogging ==
    /\ cli.pc = "new"
    /\ \/ \E dir \in IF config.pc = "write"
                     THEN {gfapiLogFile, config.cfg.dir, Torn}
                     ELSE {gfapiLogFile} :
            cli' = [cli EXCEPT !.pc = "init", !.dir = dir]
       \/ MayFail("glfs") /\ InitFails
    /\ UNCHANGED <<Cache, lruCount, glfsLruCount, gfapiLogFile, lock,
                   lru_lock, config, recent, missed>>

GlfsInit ==
    /\ cli.pc = "init"
    /\ \/ CliTo("append")
       \/ MayFail("glfs") /\ InitFails
    /\ UNCHANGED <<Cache, lruCount, glfsLruCount, gfapiLogFile, lock,
                   lru_lock, config, recent, missed>>

\* Mutant of AppendLock: looks whether the cache is over its capacity.
AppendLockOver ==
    /\ cli.pc = "append"
    /\ Free(lock)
    /\ lock' = "cli"
    /\ CliTo(IF lruCount > glfsLruCount THEN "full" ELSE "add")
    /\ UNCHANGED <<Cache, lruCount, glfsLruCount, gfapiLogFile, lru_lock,
                   config, recent, missed>>

\* appendNewEntry: takes gbConf->lock and looks whether the cache is full.
AppendLock ==
    /\ cli.pc = "append"
    /\ Free(lock)
    /\ lock' = "cli"
    /\ CliTo(IF lruCount = glfsLruCount THEN "full" ELSE "add")
    /\ UNCHANGED <<Cache, lruCount, glfsLruCount, gfapiLogFile, lru_lock,
                   config, recent, missed>>

\* Mutant of releaseColdEntry: forgets to count down.
releaseColdEntryNoCount ==
    /\ cli.pc = "full"
    /\ Free(lru_lock)
    /\ Cache' = Front(Cache)
    /\ CliTo("add")
    /\ UNCHANGED <<lruCount, glfsLruCount, gfapiLogFile, lock, lru_lock,
                   config, recent, missed>>

\* releaseColdEntry: the last of the list, glfs_fini included.
releaseColdEntry ==
    /\ cli.pc = "full"
    /\ Free(lru_lock)
    /\ Cache' = Front(Cache)
    /\ lruCount' = lruCount - 1
    /\ CliTo("add")
    /\ UNCHANGED <<glfsLruCount, gfapiLogFile, lock, lru_lock, config, recent,
                   missed>>

\* The rest of appendNewEntry; a failed allocation fails the request.
AppendEntry ==
    /\ cli.pc = "add"
    /\ lock' = "none"
    /\ \/ /\ MayFail("alloc")
          /\ InitFails
          /\ UNCHANGED <<Cache, lruCount, recent>>
       \/ /\ Free(lru_lock)
          /\ Cache' = <<[volume |-> cli.volume, dir |-> cli.dir]>> \o Cache
          /\ lruCount' = lruCount + 1
          /\ Use(cli.volume)
          /\ CliTo("use")
    /\ UNCHANGED <<glfsLruCount, gfapiLogFile, lru_lock, config, missed>>

\* The handler is done with the handle.
Respond ==
    /\ cli.pc = "use"
    /\ cli' = CliIdle
    /\ UNCHANGED <<Cache, lruCount, glfsLruCount, gfapiLogFile, lock,
                   lru_lock, config, recent, missed>>

-----------------------------------------------------------------------------
(***************************************************************************)
(* The configuration thread: glusterBlockConfSetOptions after each change  *)
(* of the file.                                                            *)
(***************************************************************************)

ConfigTo(step) == config' = [config EXCEPT !.pc = step]

\* An event on the file; glusterBlockLoadConfig read it.
LoadConfig ==
    /\ config.pc = "idle"
    /\ \E c \in Configs : config' = [pc |-> "logdir", cfg |-> c]
    /\ UNCHANGED <<Cache, lruCount, glfsLruCount, gfapiLogFile, lock,
                   lru_lock, cli, recent, missed>>

\* glusterBlockSetLogDir: nothing to do for the same directory, else takes
\* gbConf->lock (again: only this thread writes what it compared) ...
\* isSamePath compares what stat finds: a directory that is not there, as it
\* could not be created or was removed since, is not the same as itself.
SetLogDir ==
    /\ config.pc = "logdir"
    /\ Free(lock)
    /\ \/ /\ config.cfg.dir = gfapiLogFile
          /\ ConfigTo("set")
          /\ UNCHANGED lock
       \/ /\ config.cfg.dir # gfapiLogFile \/ MayFail("logdir")
          /\ ConfigTo("write")
          /\ lock' = "config"
    /\ UNCHANGED <<Cache, lruCount, glfsLruCount, gfapiLogFile, lru_lock,
                   cli, recent, missed>>

\* ... writes the paths and creates the directory; the paths stay when that
\* fails, the handles are not told.
WriteLogDir ==
    /\ config.pc = "write"
    /\ gfapiLogFile' = config.cfg.dir
    /\ lock' = "none"
    /\ \/ ConfigTo("update") /\ UNCHANGED missed
       \/ MayFail("logdir") /\ ConfigTo("set") /\ missed' = TRUE
    /\ UNCHANGED <<Cache, lruCount, glfsLruCount, lru_lock, cli, recent>>

\* glusterBlockUpdateLruLogdir: takes lru_lock; an empty cache needs nothing.
UpdateLock ==
    /\ config.pc = "update"
    /\ Free(lru_lock)
    /\ \/ /\ Cache = <<>>
          /\ ConfigTo("set")
          /\ missed' = FALSE
          /\ UNCHANGED lru_lock
       \/ /\ Cache # <<>>
          /\ ConfigTo("handles")
          /\ lru_lock' = "config"
          /\ UNCHANGED missed
    /\ UNCHANGED <<Cache, lruCount, glfsLruCount, gfapiLogFile, lock, cli,
                   recent>>

\* The handles in told got the new path; for the others glfs_set_logging
\* failed.
Told(told) ==
    /\ Cache' = [i \in DOMAIN Cache |->
                   IF i \in told THEN [Cache[i] EXCEPT !.dir = gfapiLogFile]
                   ELSE Cache[i]]
    /\ missed' = (told # DOMAIN Cache)

\* Mutant of UpdateLruLogdir: LOG, which takes gbConf->lock, inside.
UpdateLruLogdirLogs ==
    /\ config.pc = "handles"
    /\ Free(lock)
    /\ \E told \in {DOMAIN Cache} : Told(told)
    /\ lru_lock' = "none"
    /\ ConfigTo("set")
    /\ UNCHANGED <<lruCount, glfsLruCount, gfapiLogFile, lock, cli, recent>>

\* Mutant of UpdateLruLogdir: the loop ends after the first handle.
UpdateLruLogdirFirst ==
    /\ config.pc = "handles"
    /\ Cache' = [Cache EXCEPT ![1].dir = gfapiLogFile]
    /\ missed' = FALSE
    /\ lru_lock' = "none"
    /\ ConfigTo("set")
    /\ UNCHANGED <<lruCount, glfsLruCount, gfapiLogFile, lock, cli, recent>>

\* The loop over the list, and the end of the critical section; what failed is
\* logged after it.
UpdateLruLogdir ==
    /\ config.pc = "handles"
    /\ \E told \in IF MayFail("logging") THEN SUBSET DOMAIN Cache
                   ELSE {DOMAIN Cache} : Told(told)
    /\ lru_lock' = "none"
    /\ ConfigTo("set")
    /\ UNCHANGED <<lruCount, glfsLruCount, gfapiLogFile, lock, cli, recent>>

\* Mutant of SetLruCount: takes any count the file has.
SetLruCountUnchecked ==
    /\ config.pc = "set"
    /\ Free(lock)
    /\ glfsLruCount' = config.cfg.count
    /\ config' = ConfigIdle
    /\ UNCHANGED <<Cache, lruCount, gfapiLogFile, lock, lru_lock, cli, recent,
                   missed>>

\* glusterBlockSetLruCount; GB_GLFS_LRU_COUNT=0 does not even get there.
SetLruCount ==
    /\ config.pc = "set"
    /\ Free(lock)
    /\ glfsLruCount' = IF config.cfg.count \in 1 .. LRU_COUNT_MAX
                       THEN config.cfg.count ELSE glfsLruCount
    /\ config' = ConfigIdle
    /\ UNCHANGED <<Cache, lruCount, gfapiLogFile, lock, lru_lock, cli, recent,
                   missed>>

-----------------------------------------------------------------------------
Cli ==
    \/ queryCache \/ SetLogging \/ GlfsInit \/ AppendLock \/ releaseColdEntry
    \/ AppendEntry \/ Respond

Config ==
    \/ SetLogDir \/ WriteLogDir \/ UpdateLock \/ UpdateLruLogdir \/ SetLruCount

Next == Request \/ Cli \/ LoadConfig \/ Config

Spec == Init /\ [][Next]_vars

\* The scheduler runs both threads; a mutex is handed to who waits for it, so
\* a thread whose next step is possible again and again takes it.
Fairness == SF_vars(Cli) /\ SF_vars(Config)

FairSpec == Spec /\ Fairness

-----------------------------------------------------------------------------
(***************************************************************************)
(* Properties.                                                             *)
(***************************************************************************)

\* No volume is cached twice, although the lookup and appendNewEntry are two
\* critical sections; outside gbConf->lock the counter is the length of the
\* list, whatever failed; and the handle a handler uses is still in it.
CacheSound ==
    /\ \A i, j \in DOMAIN Cache :
         Cache[i].volume = Cache[j].volume => i = j
    /\ Free(lock) => lruCount = Len(Cache)
    /\ cli.pc = "use" => cli.volume \in CachedVolumes

\* The cache holds the volumes used last, in that order: what releaseColdEntry
\* frees is the least recently used handle, however hits, failed requests and
\* changes of the capacity are mixed.
RecencyOrder ==
    IsPrefix([i \in DOMAIN Cache |-> Cache[i].volume], recent)

\* As long as the count is not lowered a cache within its capacity stays
\* within it: the check of appendNewEntry still holds when it adds, although
\* the configuration thread changes the count at any moment.
CacheBounded ==
    [][Len(Cache) <= glfsLruCount /\ glfsLruCount <= glfsLruCount'
         => Len(Cache') <= glfsLruCount']_vars

\* Once the configuration thread has applied a file and no request is open,
\* every handle logs to the file it names, but for at most one: the one that
\* glusterBlockVolumeInit was opening when the name changed, which read the old
\* name without the lock and missed glusterBlockUpdateLruLogdir.  (Unless
\* creating the directory or glfs_set_logging failed, and until a later change
\* reaches all handles.)
LogdirFollows ==
    config.pc = "idle" /\ cli.pc = "idle" /\ ~missed
      => Cardinality({i \in DOMAIN Cache : Cache[i].dir # gfapiLogFile}) <= 1

\* Every request gets its handle or an error, and every change of the file is
\* applied: appendNewEntry takes lru_lock inside gbConf->lock,
\* glusterBlockUpdateLruLogdir never the other way round.
ThreadsProgress ==
    /\ cli.pc = "query" ~> cli.pc \in {"use", "idle"}
    /\ config.pc = "logdir" ~> config.pc = "idle"
=============================================================================
