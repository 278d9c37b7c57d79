# gluster-block in TLA+

gluster-block exports files of a Gluster volume as iSCSI block devices. A
`gluster-blockd` runs on every node; any of them takes requests from the
command line tool and coordinates the others. There is no consensus service: the
daemons share an append-only *metafile* per block on the volume, a POSIX lock on
`/block-meta/meta.lock`, and remote procedure calls with a timeout. This
directory models that system in TLA+, model-checks it with TLC, and proves all
the safety properties that TLC checks, for instances of every size, with TLAPS.

    tlc -workers 2 -config LifecycleFaults.cfg MCLifecycle
    tlapm OrderlyProofs.tla

`PROJECT.json` lists all runs, what each definition models (file, lines, symbol),
the mutants that show that each property can fail, the findings, the hazards and
the theorems.

## 1. Inventory

| component | source | state it keeps | operations |
|---|---|---|---|
| block create / delete | `rpc/block_create.c`, `rpc/block_delete.c` | metafile, file under `/block-store`, targets on the hosts | `create`, `delete [force] [unlink-storage no]`, rollback of a failed create |
| block modify | `rpc/block_modify.c` | password, size and status lines of the metafile; CHAP settings and device size on the hosts | `modify auth enable/disable` with undo, `modify size [force]` |
| journal and lock | `utils/utils.h` (macros), `rpc/glfs-operations.c` | metafile, `meta.lock` | append a line, read the last status per host, lock, unlock |
| remote calls | `rpc/block_svc_routines.c` | connections, threads | one thread per host; `TIMEOUT` of five minutes |
| load balancing | `rpc/glfs-operations.c` | counters in extended attributes of `/block-meta/prio.info` | choose, increment, decrement |
| volume handle cache | `utils/lru.c`, `glusterBlockVolumeInit` | list of `glfs` handles, counter | query, append, release the coldest, change log file and capacity |
| dynamic configuration | `utils/dyn-config.c`, `utils/utils.c` | `gbConf` | reload on a change of `/etc/sysconfig/gluster-blockd` |
| block replace | `rpc/block_replace.c` | metafile, portals | create on the new node, delete on the old one, portals on the rest |
| block reload | `rpc/block_reload.c` | what the hosts have loaded | load the saved target on every host, check that it is |
| genconfig | `rpc/block_genconfig.c` | may add a priority path to the metafile | derive the configuration of a host from the journal |
| list, info | `rpc/block_list.c`, `rpc/block_info.c` | none | read-only queries |
| capabilities | `rpc/block_version.c`, `utils/capabilities.c` | capabilities file | compare the versions of the nodes before an operation |
| daemon | `daemon/gluster-blockd.c` | two processes, pid file, sockets, the lock in `gbConf` they share | start, fork, signals, `svc_run`, shutdown |
| command line tool | `cli/gluster-block.c` | none | parses a command into one call |

How they interact. The command line tool calls the *cli process* of the local
daemon. Its `svc_run` serves one request at a time. The handler gets a volume
handle from the cache, opens `meta.lock` and waits for the lock on it, reads
and appends to the metafile, and starts one thread per host; each thread appends
a line, calls the *server process* of its host, and appends another line. The
server process runs targetcli. Handlers of other daemons are kept out by the
lock alone; hosts that serve calls are not, and a call may be served after its
caller gave up. The configuration thread of a daemon shares `gbConf` and the
handle cache with the handler.

What is hard here: a crash, a failed write or a lost answer between any two
steps of a handler (the journal is all that the next handler has); late calls;
one status per host that three kinds of requests overwrite, so that a retry
cannot tell whose success it sees; rollback and undo that fail themselves; the
configuration thread between a lookup and an append; hosts of different
releases; a restart of the daemon that overlaps its shutdown, and signal
handlers that take a lock.
`PROJECT.json` lists these hazards line by line, with the properties that watch them. Where
the code goes wrong in a hazard and a property excepts that case, or where none
speaks of it, the hazard has a note that says what the code does.

## 2. Modules

| module | models | used by |
|---|---|---|
| `GbMeta` | the statuses of the journal and the classes the handlers test | the protocol modules |
| `BlockAbs` | what create and delete of a block promise | `BlockLifecycle` |
| `BlockLifecycle` | create and delete of one block by several coordinators | `MCLifecycle`, the proofs |
| `LifecycleInvariant` | the inductive invariants of `BlockLifecycle`, in three layers | `MCLifecycle`, the proofs |
| `BlockModify` | authentication and size changes of an existing block | `MCModify` |
| `BlockReplace` | replacing one host of a block by another | `BlockReload` |
| `BlockReload` | reload and genconfig, composed with `BlockReplace` | `MCReplace` |
| `Capabilities` | which operations hosts of different releases are asked to do | `MCCapabilities` |
| `LruCache` | handle cache and configuration thread | `MCLru` |
| `Daemon` | the processes of `gluster-blockd` from start to exit | `MCDaemon` |
| `LifecycleProofs` | theorems about `BlockLifecycle` under all faults | |
| `OrderlyProofs` | ... when requests see their failures; the refinement of `BlockAbs` | |
| `ResultProofs` | ... about what requests report | |
| `ModifyProofs` | theorems about `BlockModify` | |
| `ReplaceProofs` | theorems about `BlockReplace` and `BlockReload` | |
| `CapabilitiesProofs`, `LruProofs`, `DaemonProofs` | theorems about `Capabilities`, `LruCache`, `Daemon` | |
| `MC...` | instances for TLC | the `.cfg` files |

### BlockLifecycle

`pc[c]` is the place of coordinator `c` in `block_create_cli_1_svc_st` or
`block_delete_cli_1_svc_st`; `req[c]` holds the request and the handler's
locals; `work[c][k]` is the thread for host `k`. Every access to the volume and
every call is one action, in the code's order:

    create:  lock -> access/first lines -> file -> SIZE -> PASSWORD -> threads
             -> audit -> (cleanup) -> prio counter -> unlock -> response
    delete:  lock -> access/capabilities -> cleanup -> prio counter -> unlock
    cleanup: threads -> count -> ENTRYDELETE: INPROGRESS -> unlink
             -> ENTRYDELETE: SUCCESS|FAIL -> unlink of the metafile
    thread:  ...INPROGRESS line -> connect -> call -> result line (-> AUTHENFORCED)

`meta` is what `blockGetMetaInfo` makes of the metafile, including its reading of
an `ENTRYDELETE` line as a host (the key `ENTRYDELETE` of `meta.status`). `node[h]` is
what targetcli on `h` has under the block's name: which GBID, and whether it is
loaded or only saved. `stale[h]` are calls whose caller gave up. The macro
`GB_METAUPDATE_OR_GOTO` is an operator with the continuation for success
and for failure; a failed update may leave no file, an empty one or the line.
Faults are drawn from `FaultKinds`, at most `MaxFaults` of them:

| kind | what it is |
|---|---|
| `crash` | the cli process dies; the lock goes, sent calls stay on the wire |
| `meta` | a journal write fails |
| `lock`, `access`, `read`, `storage`, `unlink`, `xattr` | a call to the volume fails |
| `connect`, `exec`, `lost`, `timeout` | a call fails: before it is sent, at the host, its answer is lost, it is served late |
| `unload` | a host reboots and has the target saved but not loaded |

### BlockAbs

The abstract specification: a block gets a fresh GBID and a file, hosts export
it once each while it is up, withdraw it when it goes down, and its file goes
after the last host and its name after the file. `BlockLifecycle` implements it
(`Refines`) under this mapping: `life` is "down" from the first line of a
cleanup on, `file` is the file under `/block-store`, `exported` are the hosts
whose targetcli has the block. The refinement holds in runs where requests see
their failures at once; what breaks it otherwise is the first item of the list in
section 3.

### BlockModify

Starts from a block that exists on all its hosts, with or without
authentication. One handler at a time (the lock is `BlockLifecycle`'s
subject). `dev[h]` is what the host exports (size, CHAP on or off, password);
`meta` has the last SIZE, the last PASSWORD and the last status per host. `Wrap`,
`Reserve` and `FreeSpace` scale `size_t`, `GB_METASTORE_RESERVE` and the free
space down, so that the arithmetic of `glusterBlockCheckAvailableSpace` keeps its
overflow. `strayed` is a history variable: the hosts that were sent a call which
outlived its caller.

### LruCache

Two threads, two mutexes. The critical sections are actions; those that
enclose another mutex are split where the inner one is taken. `recent`
is a history variable: the volumes in the order of their last use. A read of
`gfapiLogFile` while it is written gives the old name, the new one or `Torn`.
`isSamePath` compares two `stat` results, not two names: a directory that is missing
differs from itself, so that the next event tries a failed `mkdir` again.

### BlockReplace and BlockReload

A block on `InitHosts`, one handler at a time. A replace reads the journal,
decides from the statuses what an earlier attempt has done (`cCheck`, `dCheck`,
`rCheck`, `Flag` are the locals of `glusterBlockReplaceNodeRemoteAsync`), and starts
a thread for the new host, one for the old and one for each of the others at
once. `node[h]` is the target, whether it is loaded, and its portals;
`meta.order` is the order in which hosts appear in the metafile, which decides
who gets into `args[]`; `meta.ever` are the hosts `blockParseValidServers` finds. A
reload whose `restoreconfig clear_existing` fails may leave the block loaded, as it
was, or unloaded. A node may die for good, which is what `force` is for. `past` is a history
variable. Reload and genconfig work on the same state.

### Capabilities

A daemon is the set of its capabilities and whether it knows the procedure
`block_version` at all: 0.3 and older (mimicked by the caller), 0.4, and 0.5 with
any of the three capabilities disabled that depend on installed libraries.
`reply[h]` is what came back; `Needs` and `UsesCreateV2` say what the call that
follows asks of a host.

### Daemon

`at[i][t]` is the step of thread `t` of instance `i`; signal handlers are threads
that stop the one they interrupt. Every `LOG` is two steps, `Lock` and `Unlock`, on
the mutex in the shared mapping. The pid file may fail to open and a socket to listen, each with its `LOG`. A process that ends gives up its advisory lock
and its port, but not a mutex it holds (`lock[i] = "lost"`). SIGTERM goes to the
cli process only (`KillMode=process` in the unit file), which passes it on.

## 3. Runs

All passing runs are exhaustive. Two hosts are enough to have a mixed outcome,
one that succeeded and one that failed, which is what audit, cleanup count,
undo and skip rules distinguish; two coordinators are what a lock has to
separate; two creates give an old GBID that late calls refer to. A replace of one of two
hosts has all of its three operations; two instances of the daemon are an old one
that shuts down and a new one that starts.

| run | bounds | checks |
|---|---|---|
| `lifecycle_faults` | 2 hosts, 2 coordinators, 2 creates with authentication, 1 fault of any kind but `access`; all four forms of delete | `TypeOK`, `MutualExclusion`, `JournalSound`, `EntrySound`, `LifecycleInv` |
| `lifecycle_clean` | 2 hosts, 2 coordinators, 2 creates, 3 faults of `lock storage read connect exec lost`, no force | `NoOrphanTarget`, `Untouched`, `DeleteFinishes`, `CreateResult`, `OrderlyInv`, `ResultInv`, `Refines` |
| `lifecycle_live` | 2 hosts, 2 coordinators, 1 create, 1 fault of `crash meta access connect lost`, fairness | `RequestAnswered` |
| `modify_faults` | 2 hosts, growing resizes and both authentication requests, 2 faults of any kind | `TypeOK`, `DevWithinFile`, `StatusSound` |
| `modify_results` | 2 hosts, enables and resizes with and without force, 3 faults of `connect exec lost` | `EnableResult`, `SizeResult`, `RetryAccepted`, `ShrinkResult` |
| `lru_faults` | 3 volumes, 2 log directories, every configuration incl. refused and lowered counts, any call may fail, fairness | `TypeOK`, `CacheSound`, `RecencyOrder`, `LogdirFollows`, `CacheBounded`, `ThreadsProgress` |
| `replace_faults` | hosts a and b, a replaced by c with and without force and repeated at will, reloads, genconfig, 2 faults of any kind, a dead node included | `TypeOK`, `ArgsFit`, `ReplaceJournal`, `ReplaceResult`, `ForceCompletes`, `ReloadResult` |
| `daemon_restart` | 2 instances, restarted at will, SIGTERM at any step, 1 SIGKILL | `TypeOK`, `OneDaemon`, `PortFree` |
| `daemon_shutdown` | 1 instance, restarted at will, 2 SIGKILLs, fairness | `Shutdown` |
| `capabilities` | 2 hosts, all builds, every operation with any options, 1 failed call, 1 daemon replaced | `TypeOK`, `Supported`, `RefusedRightly`, `FallsBack` |

`daemon_*` do not check for deadlock: a daemon whose lock is lost does hang.

The restrictions are part of what the runs say; each of them stands for a
behaviour of the code that was met while modelling:

* `NoOrphanTarget`, `Untouched` and `DeleteFinishes` are promises the code keeps when
  each request learns of its failures at once. If a coordinator dies (or its
  journal write fails) after a host was configured and before its result line, a
  later delete takes CONFIGINPROGRESS for "un touched", removes the files and
  succeeds. A late create, or `force`, leaves a target without files by design.
  `Refines` needs the same restriction.
* `DeleteFinishes` is checked without failing journal writes. After one, the
  `ENTRYDELETE` line of the broken cleanup is read back as a host of that name
  (`rpc/glfs-operations.c:647`), and no later delete without force succeeds.
* `CreateResult` allows one fault within the create. `glusterBlockAuditRequest` drops
  what `glusterBlockCleanUp` returns (`rpc/block_create.c:303`): a create that did not get
  its paths and whose rollback failed too prints SUCCESS.
* `StatusSound` leaves out the hosts in `strayed`: the journal is not told of a
  call that is served after its caller gave up.
* `EnableResult` is checked without disables. The undo of a failed disable
  enforces the empty password that `mobj` holds by then, and an enable after that
  draws a new password, finds every host AUTHENFORCED, calls nobody and succeeds.
* `SizeResult` is checked without crashes. The retry of a resize whose handler
  died skips a host whose RSSUCCESS is of an earlier resize.
* `RetryAccepted` speaks of hosts whose last line is of a resize: an
  authentication request overwrites what `glusterBlockIsResizeFailed` looks for.
* `ShrinkResult` speaks of shrinks by at most `GB_METASTORE_RESERVE`. The difference
  passed to `glusterBlockCheckAvailableSpace` is a `size_t` below zero, and adding the
  reserve wraps it back only so far: a larger forced shrink fails with "Low
  space".
* `LogdirFollows` allows one handle with an old log directory: the one opened
  while `glusterBlockUpdateLruLogdir` runs is appended after it. A failed `mkdir` or
  `glfs_set_logging` leaves handles behind as well, until a later event repeats
  the change or makes another (`missed`).
* `CacheBounded` is an action property: it speaks of the steps that do not lower
  the count. Once it is lowered below the number of cached handles, the test for
  equality in `appendNewEntry` never holds again and the cache grows.
* `ReplaceResult` speaks of the portals only when no other replacement came
  before (`past.pairs`) and no script broke in the middle; `replace_portals` shows why.
  `replace_faults` repeats one replacement only. When a was half replaced by c and
  then by d, the block gets a third host, more than `args[]` has room for.
* `ForceCompletes` speaks of the first replacement between two hosts. A repeated
  replacement by a node that carried the block before may be refused, as that
  node stands earlier in the metafile and takes the place of another in `args[]`.
* In JSON a replace whose delete failed prints SUCCESS, with force or without
  (`rpc/block_replace.c:486`); `ReplaceResult` is about the plain text.
* `Supported` excepts a create for hosts of which one lacks load balancing
  (`rpc/block_create.c:1002`): every other missing capability is then
  forgotten too. It excepts a daemon that was replaced by another release after it
  answered, as do `RefusedRightly` and `FallsBack`; one replaced before it answers is
  covered. `FallsBack` is about creates with an I/O timeout: without one the form
  is always "Create V4" (`rpc/block_create.c:1087`), which a 0.3 daemon cannot serve.
* `Shutdown` excepts a lost lock, `Stuck`: a handler that interrupts a `LOG` of its own
  thread, a process killed inside of one, the configuration thread cancelled inside of
  one. It starts from a daemon that is up: SIGTERM before `svc_run` has a
  transport is lost with `svc_exit`. `PortFree` excepts servers whose cli process died
  first, by SIGKILL or by a SIGTERM between `fork` and `signal`.

Fairness. `FairSpec` of `BlockLifecycle` is weak fairness for a handler, its
threads and the host it calls: each is a running process or thread, and a call
ends by its answer, a broken connection or the timeout. `MetaLock` has strong
fairness: `F_SETLKW` queues the waiter at the lock server, which grants the lock
in turn. Nothing obliges anybody to send requests, to crash or to inject a
fault. In `LruCache` each of the two threads has strong fairness as a whole. A
thread is at one step at a time: a step that takes no mutex stays enabled until
it is taken, so that weak fairness would do, and a mutex that is free again and
again is handed to its waiter. In `Daemon` the steps of each thread
have strong fairness: each is scheduled, and one that waits for the mutex gets it
if it is free again and again. Requests, events, signals and kills have none.

### Findings

Two runs expect a violation. Each states what a comment or a test of the
repository says, and TLC shows a behaviour of the code, without any fault, that
does not fit.

| run | what happens |
|---|---|
| `disable_after_resize` | after a resize, `auth disable` calls nobody and prints SUCCESS |
| `replace_portals` | a is replaced by c and later c by a: the remaining host is still RPSUCCESS, its portals are passed over, it keeps the portal of c, and SUCCESS is printed |

## 4. Proofs

Each theorem is about every instance: any hosts, coordinators, volumes or
instances of the daemon, any set of requests, any number of faults. The
hypotheses that some of them have are the restrictions of section 3, and are
named in the statement of the theorem; none excludes more than the run of the
same property does, so that the run shows that behaviours meet them.

### BlockLifecycle

| theorem | property | hypotheses |
|---|---|---|
| `Typing` | `TypeOK` | |
| `LockSafety` | `MutualExclusion` | |
| `EntrySafety` | `EntrySound` | |
| `LifecycleSafety` | `LifecycleInv` | no `access` |
| `JournalSafety` | `JournalSound` | no `access` |
| `OrderlySafety` | `OrderlyInv` | `Orderly` |
| `NoOrphanSafety` | `NoOrphanTarget` | `Orderly` |
| `UntouchedSafety` | `Untouched` | `Orderly` |
| `Refinement` | `Refines` | `Orderly`, `Unlinking` |
| `ResultSafety` | `ResultInv` | `Undisturbed` |
| `DeleteSafety` | `DeleteFinishes` | `Undisturbed` |
| `CreateSafety` | `CreateResult` | `Undisturbed` |

The first five are in `LifecycleProofs`, the next four in `OrderlyProofs`, the last
three in `ResultProofs`. What the hypotheses leave out:

* no `access`: a create takes any error of `glfs_access` for a missing metafile
  (`rpc/block_create.c:1025`) and appends a new GBID to the old journal, whose
  status lines then speak of another GBID. Type correctness, the lock and the
  file bracket do not need the proviso;
* `Orderly`: moreover no `crash`, `meta` or `timeout`, and no delete with `force`. Hosts may
  reboot, connections break, commands fail, answers get lost, reads, locks,
  unlinks and extended attributes go wrong, any number of times;
* `Unlinking`: no delete with `unlink-storage no`, which leaves the file of a block
  that `BlockAbs` calls gone;
* `Undisturbed`: `Orderly`, and no `unlink` or `unload`. A failed unlink leaves the
  `ENTRYDELETE` line that no later delete gets past, and a host that rebooted
  refuses to delete what it has saved and not loaded, which no fault of the delete itself explains.

**All faults.** `JournalSound` is not inductive: that a host with `CLEANUPSUCCESS` has no target
needs that no create for it is still on the wire, and that nobody is about to
send one. `LifecycleInvariant` adds exactly that:

* `MutualExclusion`: at most one coordinator writes the journal;
* `WorkIdle`: threads run only at the two steps that wait for them, so that the
  lines a thread writes are those of the holder of the lock;
* `EntryInv`: the file exists before its success is journalled, and is unlinked
  after the `ENTRYDELETE` line;
* `JournalInv`: GBIDs are drawn in order (`GbidBound`), so a fresh one is unknown
  everywhere; a create on the wire was not served, and a delete on the wire was
  journalled (`OnTheWire`); a line belongs to a metafile with a GBID
  (`LineSound`); and for each thread, what its step says about its host
  (`ThreadInv`): a create is sent once, and not to a host that heard of the GBID;
  a cleanup journals before it calls.

The proof has lemmas on lock, threads and file, then one per action on a single host
(`HostInv` and `ThreadInv`), and puts the hosts together. TLC checks `LifecycleInv` in
`lifecycle_faults`.

**Orderly requests.** `NoOrphanTarget` is about three places that are written by
different processes: the target on a host, the file, the metafile. `OrderlyInv`
says at each step of a handler which of them can be there:

* `CalmInv`: there is no call without a caller, so what a host does it does for a
  thread that waits for it;
* `TargetInv`: a target has the GBID of the journal, a file and a line. The heart of
  it is that `CONFIGINPROGRESS` is the last line of a host with a target only until
  the thread that has the answer has journalled it: that line is what a delete
  passes over. `Untouched` follows, and fails as soon as a crash comes in between;
* `CreateInv`: a create has a file of its own before it calls anybody, and no line
  of a cleanup is in its journal;
* `RemoveInv`: a cleanup that goes on to the files has counted a success,
  `GB_BLOCK_NOT_FOUND` or a line that allows to skip it for every host, so no host has a target; it has
  the `ENTRYDELETE` line before it unlinks, and the file is gone before the metafile is.

The refinement follows from it with one step of `BlockAbs` for each action that
moves something (lemmas `Seen...`), under the mapping of section 2: the first lines
are `Create`, the entry is `Provision`, a served create is `Export`, the first
`CLEANUP...` or `ENTRYDELETE` line is `Close`, a served delete is `Withdraw`, the unlinks of the file
and of the metafile are `Unlink` and `Remove`, and everything else changes nothing
the mapping sees. `UnlinkInv` adds that all requests unlink.

**Results.** `ResultInv` relates the number of faults to what a handler has in its
locals. `Smooth` are the handlers in which nothing (a delete) or at most one thing
(a create) went wrong since they began. A thread that did not configure its host met a fault
(`AuditInv`), so a create cleans up only after one and its cleanup can meet none
while it is smooth; a smooth cleanup has no thread that failed, every host it
passed over may be passed over, and the count comes out at the number of hosts
(`FinishInv`); what is left when the response is made is `ReportInv`. `WholeInv` says that no
earlier request can have left an `ENTRYDELETE` line. TLC checks `OrderlyInv` and `ResultInv`
in `lifecycle_clean`.

### BlockModify

| theorem | property | hypotheses |
|---|---|---|
| `ModifyTyping` | `TypeOK` | |
| `StatusSafety` | `StatusSound` | |
| `DevWithinFileSafety` | `DevWithinFile` | no request forces a shrink |
| `SizeSafety` | `SizeResult` | no `crash`, `meta`, `timeout` |
| `RetrySafety` | `RetryAccepted` | no `crash`, `meta`, `timeout` |
| `EnableSafety` | `EnableResult` | no `crash`, `meta`, `timeout`, `read`; no disables |
| `ShrinkSafety` | `ShrinkResult` | no `crash`, `meta`, `storage`; `Reserve <= FreeSpace` |

`HandlerInv` says which request is at which step and what `mobj` holds there.
`StatusInv` adds, per host that no call strayed to, that the line that announces
a call is written before it and that an answered call took effect. `GrowInv` is
the chain target <= journal <= file, calls on the wire included, which holds since
the file grows first and the SIZE line precedes the calls. `SizeInv` makes
`RSSUCCESS` mean the size in the journal: a line can be of an earlier resize only
between the new SIZE line and the thread that overwrites it (`Outdated`). `EnableAt`
does the same for passwords through the undo of a failed enable. `ShrinkInv` needs
file and journal at one size, which is why writes may not fail.

### BlockReplace and BlockReload

| theorem | property | hypotheses |
|---|---|---|
| `ReplaceTyping` | `TypeOK` | |
| `ReloadSafety` | `ReloadResult` | |
| `ReplaceJournalSafety` | `ReplaceJournal` | one host is replaced |
| `ArgsSafety` | `ArgsFit` | one host is replaced, by one other (`OnePair`) |
| `ReplaceResultSafety` | `ReplaceResult` | `OnePair`; `MPath <= 2` |
| `ForceSafety` | `ForceCompletes` | `OnePair` |

A replacement may be repeated, forced, broken off and mixed with reloads and
genconfigs at will. The hypotheses are there because of what the code does
without them: a replacement of another host overwrites a CLEANUPINPROGRESS with
RPINPROGRESS, so that the journal calls a host up whose target may be gone; a
second new host makes the block have more hosts than `args[]` has room for; and with three or more
paths the status of the portals is that of the last thread (`rpc/block_replace.c:390`).
`ForceSafety` needs no bound on the paths, as nothing but the death of the old host
goes wrong in the behaviours it speaks of.

The invariants build on each other: `BaseInv` (types, and which request has
threads at which step); `ReloadInv`; `JournalInv(Old)` (only the replaced host is ever
cleaned up, and for each of the three kinds of threads what its step says of
its host); `PairInv` (who is in the metafile and in which order, from which the
valid hosts and `args[]` are counted); `ResultInv` (portals are those of before or of
after, and each result that is reported was journalled); `CleanInv` (as long as
only the old host died, every thread of another host succeeds).

### Capabilities, LruCache, Daemon

No theorem here has a hypothesis.

* `CapabilitiesTyping`, `OnlySupported`, `OnlyUnsupportedRefused`, `CreateFallsBack`: `TypeOK`,
  `Supported`, `RefusedRightly`, `FallsBack`. `CapabilitiesInv` says that the reply of a host
  that was not replaced since it answered is its build, and that the decision was taken from the
  replies of all hosts.
* `LruTyping`, `CacheSafety`, `RecencySafety`, `LogdirSafety` and the action property
  `CacheStaysBounded`: `TypeOK`, `CacheSound`, `RecencyOrder`, `LogdirFollows`, `CacheBounded`.
  `LruInv` says which steps hold which mutex, that what a thread read under one is
  still so where it is used, and that a volume that was missing is still missing
  when its handle is appended: the configuration thread changes neither.
* `DaemonTyping`, `OneDaemonSafety`, `PortFreeSafety`: `TypeOK`, `OneDaemon`, `PortFree`. `DaemonInv`
  says that a cli process beyond the pid file has its lock, that a server that is
  not orphaned belongs to a cli process that waits for it, and that the port is
  that of a server in `svc_run`.

### Only model-checked

All liveness (`RequestAnswered`, `ThreadsProgress`, `Shutdown`), which is out of the reach
of the prover, as is `ENABLED`. The two runs that expect a violation. Every
invariant of a passing run, the action property `CacheBounded` and the refinement
have a theorem.

## 5. Not modelled

* `list` and `info` read only. The command line tool parses a command into one
  call and has no state. The RPC stubs are generated.
* Text: responses, targetcli scripts, JSON, log files, size suffixes, the
  configuration parser, version strings. A targetcli script takes effect or not; its
  failure is a fault that may have left the target behind or not, and for portals
  one of the two commands.
* Of genconfig, everything but the priority path and the portals.
* A create that names more hosts than paths, which the tool refuses.
* Allocation failures, except in `appendNewEntry`.
* Replacements of more than one host of a block of three or more: the rule that the last
  portal thread decides (`rpc/block_replace.c:390`) is in `Collect`, its instance is
  out of TLC's reach together with faults.
* What the code does once more than `mpath` hosts are valid
  (`rpc/block_replace.c:211`, `rpc/block_svc_routines.c:531`): it writes behind an array.
* The new host of a replace is not asked for its capabilities
  (`rpc/block_replace.c:709`); `Capabilities` has the hosts that are asked.

## 6. Plan

Done: the journal vocabulary, create and delete and the abstract specification
they implement, modify, replace, reload, capabilities, the handle cache, the
daemon; the proofs of section 4.

Next: weaker hypotheses where the code allows them. `ReplaceResult` for more than two
paths needs a history of the portal threads that the last one hides. `NoOrphanTarget` with deletes that keep the
file is proved; the refinement with them needs a `BlockAbs` in which a block may
leave its file behind.
