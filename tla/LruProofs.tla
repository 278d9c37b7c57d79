----------------------------- MODULE LruProofs -----------------------------
(***************************************************************************)
(* The cache of volume handles, for every set of volumes, every capacity   *)
(* and every sequence of configurations: its counter and its order are     *)
(* right, it stays within its capacity, and its handles follow the log     *)
(* file.                                                                   *)
(***************************************************************************)
EXTENDS LruCache, FiniteSetTheorems, SequenceTheorems, TLAPS

-----------------------------------------------------------------------------
(***************************************************************************)
(* The inductive invariant.                                                *)
(***************************************************************************)

\* A thread has a mutex exactly at the steps that are inside of it.
LocksInv ==
    /\ lock = "cli" <=> cli.pc \in {"full", "add"}
    /\ lock = "config" <=> config.pc = "write"
    /\ lru_lock = "config" <=> config.pc = "handles"

\* The counter is the length of the list; what appendNewEntry saw of the
\* capacity is still so when it acts on it.
CountInv ==
    /\ lruCount = Len(Cache)
    /\ cli.pc = "full" => lruCount = glfsLruCount
    /\ cli.pc = "add" => lruCount # glfsLruCount

\* The steps at which the request has, or is about to open, a handle of its
\* own.
Missing == {"new", "init", "append", "full", "add"}

\* A volume has one handle, and a request that did not find one still would
\* not when it adds it.
VolumesInv ==
    /\ \A i, j \in 1 .. Len(Cache) : Cache[i].volume = Cache[j].volume => i = j
    /\ cli.pc \in Missing =>
         \A i \in 1 .. Len(Cache) : Cache[i].volume # cli.volume
    /\ cli.pc = "use" => \E i \in 1 .. Len(Cache) : Cache[i].volume = cli.volume

\* The history has no volume twice, and begins with those of the cache.
OrderInv ==
    /\ \A i, j \in 1 .. Len(recent) : recent[i] = recent[j] => i = j
    /\ Len(Cache) <= Len(recent)
    /\ \A i \in 1 .. Len(Cache) : recent[i] = Cache[i].volume

\* The configuration thread is not between the new name and the handles.
Settled == config.pc \in {"idle", "logdir", "set"} /\ ~missed

\* At most one handle, cached or just opened, has another log file.
LogdirInv ==
    Settled =>
      /\ \A i, j \in 1 .. Len(Cache) :
           Cache[i].dir # gfapiLogFile /\ Cache[j].dir # gfapiLogFile => i = j
      /\ cli.pc \in Missing \ {"new"} /\ cli.dir # gfapiLogFile =>
           \A i \in 1 .. Len(Cache) : Cache[i].dir = gfapiLogFile

LruInv ==
    TypeOK /\ LocksInv /\ CountInv /\ VolumesInv /\ OrderInv /\ LogdirInv

-----------------------------------------------------------------------------
(***************************************************************************)
(* The operators on the list.                                              *)
(***************************************************************************)

\* What list_del and list_add in front leave of a sequence.
LEMMA MoveFront ==
    ASSUME NEW S, NEW s \in Seq(S), NEW i \in 1 .. Len(s)
    PROVE  LET t == <<s[i]>> \o RemoveAt(s, i)
           IN /\ t \in Seq(S)
              /\ Len(t) = Len(s)
              /\ \A k \in 1 .. Len(s) :
                   t[k] = IF k = 1 THEN s[i]
                          ELSE IF k <= i THEN s[k - 1] ELSE s[k]
<1> DEFINE a == SubSeq(s, 1, i - 1)
           b == SubSeq(s, i + 1, Len(s))
           r == RemoveAt(s, i)
           t == <<s[i]>> \o r
<1>1. a \in Seq(S) /\ Len(a) = i - 1 /\ \A k \in 1 .. i - 1 : a[k] = s[k]
  OBVIOUS
<1>2. b \in Seq(S) /\ Len(b) = Len(s) - i
        /\ \A k \in 1 .. Len(s) - i : b[k] = s[k + i]
  OBVIOUS
<1>3. r = a \o b
  BY DEF RemoveAt
<1> HIDE DEF a, b, r
<1>4. r \in Seq(S) /\ Len(r) = Len(s) - 1
        /\ \A k \in 1 .. Len(s) - 1 : r[k] = IF k < i THEN s[k] ELSE s[k + 1]
  <2>1. r \in Seq(S) /\ Len(r) = Len(s) - 1
    BY <1>1, <1>2, <1>3
  <2>2. ASSUME NEW k \in 1 .. Len(s) - 1
        PROVE  r[k] = IF k < i THEN s[k] ELSE s[k + 1]
    <3>1. CASE k < i
      BY <1>1, <1>2, <1>3, <3>1
    <3>2. CASE ~(k < i)
      <4>1. k - (i - 1) \in 1 .. Len(s) - i
        BY <3>2
      <4>2. r[k] = b[k - (i - 1)]
        BY <1>1, <1>2, <1>3, <3>2
      <4>3. b[k - (i - 1)] = s[(k - (i - 1)) + i]
        BY <1>2, <4>1
      <4> QED
        BY <3>2, <4>2, <4>3
    <3> QED
      BY <3>1, <3>2
  <2> QED
    BY <2>1, <2>2
<1>5. t \in Seq(S) /\ Len(t) = Len(s)
  BY <1>4
<1>6. ASSUME NEW k \in 1 .. Len(s)
      PROVE  t[k] = IF k = 1 THEN s[i] ELSE IF k <= i THEN s[k - 1] ELSE s[k]
  <2>1. CASE k = 1
    BY <1>4, <2>1
  <2>2. CASE k # 1
    <3>1. t[k] = r[k - 1]
      BY <1>4, <2>2
    <3>2. k - 1 \in 1 .. Len(s) - 1 /\ (k - 1 < i <=> k <= i) /\ (k - 1) + 1 = k
      BY <2>2
    <3>3. r[k - 1] = IF k <= i THEN s[k - 1] ELSE s[k]
      BY <1>4, <3>2
    <3> HIDE DEF t
    <3> QED
      BY <2>2, <3>1, <3>3
  <2> QED
    BY <2>1, <2>2
<1> QED
  BY <1>5, <1>6 DEF r

\* Moving an element to the front of different ones leaves them different.
LEMMA MoveInjective ==
    ASSUME NEW n \in Nat, NEW i \in 1 .. n, NEW f, NEW g,
           \A j, k \in 1 .. n : f[j] = f[k] => j = k,
           \A k \in 1 .. n :
             g[k] = IF k = 1 THEN f[i] ELSE IF k <= i THEN f[k - 1] ELSE f[k]
    PROVE  \A j, k \in 1 .. n : g[j] = g[k] => j = k
<1> DEFINE p(k) == IF k = 1 THEN i ELSE IF k <= i THEN k - 1 ELSE k
<1>1. \A k \in 1 .. n : p(k) \in 1 .. n
  OBVIOUS
<1>2. \A k \in 1 .. n : g[k] = f[p(k)]
  OBVIOUS
<1>3. \A j, k \in 1 .. n : p(j) = p(k) => j = k
  OBVIOUS
<1> HIDE DEF p
<1> QED
  BY <1>1, <1>2, <1>3

\* So does a new one in front.
LEMMA PushInjective ==
    ASSUME NEW n \in Nat, NEW f, NEW g,
           \A j, k \in 1 .. n : f[j] = f[k] => j = k,
           \A k \in 1 .. n : f[k] # g[1],
           \A k \in 2 .. n + 1 : g[k] = f[k - 1]
    PROVE  \A j, k \in 1 .. n + 1 : g[j] = g[k] => j = k
<1> SUFFICES ASSUME NEW j \in 1 .. n + 1, NEW k \in 1 .. n + 1, g[j] = g[k]
             PROVE  j = k
  OBVIOUS
<1>1. ASSUME NEW l \in 1 .. n + 1, l # 1
      PROVE  l - 1 \in 1 .. n /\ g[l] = f[l - 1]
  BY <1>1
<1>2. CASE j = 1 /\ k # 1
  BY <1>1, <1>2
<1>3. CASE j # 1 /\ k = 1
  BY <1>1, <1>3
<1>4. CASE j # 1 /\ k # 1
  <2>1. j - 1 = k - 1
    BY <1>1, <1>4
  <2> QED
    BY <2>1
<1> QED
  BY <1>2, <1>3, <1>4

\* The step of ToFront, for a handle that is in the list.
LEMMA ToFrontIs ==
    ASSUME NEW s \in Seq(Handle), NEW v,
           \E j \in DOMAIN s : s[j].volume = v
    PROVE  \E i \in 1 .. Len(s) :
             /\ s[i].volume = v
             /\ ToFront(s, v) \in Seq(Handle)
             /\ Len(ToFront(s, v)) = Len(s)
             /\ \A k \in 1 .. Len(s) :
                  ToFront(s, v)[k] = IF k = 1 THEN s[i]
                                     ELSE IF k <= i THEN s[k - 1] ELSE s[k]
<1> DEFINE i == CHOOSE j \in DOMAIN s : s[j].volume = v
<1>1. i \in 1 .. Len(s) /\ s[i].volume = v
  OBVIOUS
<1>2. ToFront(s, v) = <<s[i]>> \o RemoveAt(s, i)
  BY DEF ToFront
<1> HIDE DEF i
<1> DEFINE t == <<s[i]>> \o RemoveAt(s, i)
<1>3. /\ t \in Seq(Handle)
      /\ Len(t) = Len(s)
      /\ \A k \in 1 .. Len(s) :
           t[k] = IF k = 1 THEN s[i] ELSE IF k <= i THEN s[k - 1] ELSE s[k]
  BY <1>1, MoveFront
<1> HIDE DEF t
<1>4. ToFront(s, v) = t
  BY <1>2 DEF t
<1> QED
  BY <1>1, <1>3, <1>4

\* A hit of queryCache: one handle comes to the front, the others keep their
\* order.
LEMMA HitIs ==
    ASSUME Cache \in Seq(Handle), queryCache, cli.volume \in CachedVolumes
    PROVE  \E i \in 1 .. Len(Cache) :
             /\ Cache[i].volume = cli.volume
             /\ Cache' \in Seq(Handle)
             /\ Len(Cache') = Len(Cache)
             /\ \A k \in 1 .. Len(Cache) :
                  Cache'[k] = IF k = 1 THEN Cache[i]
                              ELSE IF k <= i THEN Cache[k - 1] ELSE Cache[k]
<1> DEFINE t == ToFront(Cache, cli.volume)
<1>1. Cache' = t
  BY DEF queryCache
<1>2. \E j \in DOMAIN Cache : Cache[j].volume = cli.volume
  BY DEF CachedVolumes
<1>3. \E i \in 1 .. Len(Cache) :
        /\ Cache[i].volume = cli.volume
        /\ t \in Seq(Handle)
        /\ Len(t) = Len(Cache)
        /\ \A k \in 1 .. Len(Cache) :
             t[k] = IF k = 1 THEN Cache[i]
                    ELSE IF k <= i THEN Cache[k - 1] ELSE Cache[k]
  BY <1>2, ToFrontIs
<1> HIDE DEF t
<1> QED
  BY <1>1, <1>3

\* The pass over the list changes the log files of the handles it reached.
LEMMA ToldIs ==
    ASSUME Cache \in Seq(Handle), gfapiLogFile \in LogFiles, NEW told, Told(told)
    PROVE  /\ Cache' \in Seq(Handle)
           /\ Len(Cache') = Len(Cache)
           /\ \A i \in 1 .. Len(Cache) :
                /\ Cache'[i].volume = Cache[i].volume
                /\ Cache'[i].dir = IF i \in told THEN gfapiLogFile
                                   ELSE Cache[i].dir
<1> DEFINE h(i) == IF i \in told THEN [Cache[i] EXCEPT !.dir = gfapiLogFile]
                   ELSE Cache[i]
           n == Len(Cache)
<1>1. n \in Nat /\ DOMAIN Cache = 1 .. n /\ \A i \in 1 .. n : Cache[i] \in Handle
  OBVIOUS
<1>2. Cache' = [i \in 1 .. n |-> h(i)]
  BY <1>1 DEF Told
<1>3. ASSUME NEW i \in 1 .. n
      PROVE  /\ h(i) \in Handle
             /\ h(i).volume = Cache[i].volume
             /\ h(i).dir = IF i \in told THEN gfapiLogFile ELSE Cache[i].dir
  <2>1. CASE i \in told
    <3>1. [Cache[i] EXCEPT !.dir = gfapiLogFile] \in Handle
      BY <1>1 DEF Handle
    <3> QED
      BY <1>1, <2>1, <3>1 DEF Handle
  <2>2. CASE i \notin told
    BY <1>1, <2>2
  <2> QED
    BY <2>1, <2>2
<1> HIDE DEF h, n
<1>4. Cache' \in [1 .. n -> Handle]
  BY <1>2, <1>3
<1>5. Cache' \in Seq(Handle) /\ Len(Cache') = n
  BY <1>1, <1>4
<1>6. \A i \in 1 .. n : Cache'[i] = h(i)
  BY <1>2
<1>7. \A i \in 1 .. n :
        /\ Cache'[i].volume = Cache[i].volume
        /\ Cache'[i].dir = IF i \in told THEN gfapiLogFile ELSE Cache[i].dir
  BY <1>3, <1>6
<1> QED
  BY <1>5, <1>7 DEF n

\* What releasing the coldest handle leaves.
LEMMA FrontIs ==
    ASSUME NEW s \in Seq(Handle), Len(s) > 0
    PROVE  /\ Front(s) \in Seq(Handle)
           /\ Len(Front(s)) = Len(s) - 1
           /\ \A i \in 1 .. Len(s) - 1 : Front(s)[i] = s[i]
<1> DEFINE n == Len(s) - 1
<1>1. n \in Nat /\ n <= Len(s) /\ Front(s) = SubSeq(s, 1, n)
  BY DEF Front
<1> HIDE DEF n
<1>2. SubSeq(s, 1, n) \in Seq(Handle) /\ Len(SubSeq(s, 1, n)) = n
  BY <1>1
<1>3. \A i \in 1 .. n : SubSeq(s, 1, n)[i] = s[i]
  BY <1>1
<1> QED
  BY <1>1, <1>2, <1>3 DEF n

\* Use of a volume that is in the history, and of one that is not.
LEMMA UseIs ==
    ASSUME recent \in Seq(Volumes), NEW v \in Volumes, Use(v)
    PROVE  /\ recent' \in Seq(Volumes)
           /\ \/ \E i \in 1 .. Len(recent) :
                   /\ recent[i] = v
                   /\ Len(recent') = Len(recent)
                   /\ \A k \in 1 .. Len(recent) :
                        recent'[k] = IF k = 1 THEN v
                                     ELSE IF k <= i THEN recent[k - 1]
                                     ELSE recent[k]
              \/ /\ \A i \in 1 .. Len(recent) : recent[i] # v
                 /\ Len(recent') = Len(recent) + 1
                 /\ \A k \in 1 .. Len(recent) + 1 :
                      recent'[k] = IF k = 1 THEN v ELSE recent[k - 1]
<1>1. Range(recent) = {recent[k] : k \in DOMAIN recent}
  BY DEF Range
<1>2. CASE v \in Range(recent)
  <2> DEFINE i == CHOOSE j \in DOMAIN recent : recent[j] = v
  <2>1. i \in 1 .. Len(recent) /\ recent[i] = v
    BY <1>1, <1>2
  <2>2. recent' = <<v>> \o RemoveAt(recent, i)
    BY <1>2 DEF Use
  <2> HIDE DEF i
  <2> QED
    BY <2>1, <2>2, MoveFront
<1>3. CASE v \notin Range(recent)
  <2>1. recent' = <<v>> \o recent /\ \A i \in 1 .. Len(recent) : recent[i] # v
    BY <1>1, <1>3 DEF Use
  <2> QED
    BY <2>1
<1> QED
  BY <1>2, <1>3

-----------------------------------------------------------------------------
(***************************************************************************)
(* Types.                                                                  *)
(***************************************************************************)

\* The locals of an idle thread are of the types of their variables.
LEMMA IdleTypes ==
    /\ CliIdle \in [pc : CliSteps, volume : Volumes, dir : LogFiles \cup {Torn}]
    /\ CliIdle.pc = "idle"
    /\ ConfigIdle \in [pc : ConfigSteps, cfg : Configs]
    /\ ConfigIdle.pc = "idle"
<1>1. (CHOOSE v \in Volumes : TRUE) \in Volumes
  BY LruAssumption
<1>2. (CHOOSE c \in Configs : TRUE) \in Configs
  BY LruAssumption
<1> QED
  BY <1>1, <1>2 DEF CliIdle, ConfigIdle, CliSteps, ConfigSteps

\* The variables have their types at the start.
LEMMA TypesInit == Init => TypeOK
<1> SUFFICES ASSUME Init PROVE TypeOK
  OBVIOUS
<1>1. PICK c \in Configs : /\ c.count \in 1 .. LRU_COUNT_MAX
                           /\ glfsLruCount = c.count
                           /\ gfapiLogFile = c.dir
  BY DEF Init
<1>2. gfapiLogFile \in LogFiles
  BY <1>1, LruAssumption
<1>3. Cache \in Seq(Handle) /\ recent \in Seq(Volumes) /\ lruCount \in Nat
  BY DEF Init
<1>4. missed \in BOOLEAN
  BY DEF Init
<1> QED
  BY <1>1, <1>2, <1>3, <1>4, IdleTypes DEF Init, TypeOK, Holders

\* Every step keeps the types; that a handle is released only from a list that
\* is full, and so is not empty, is what keeps the counter a natural number.
LEMMA TypesNext ==
    ASSUME TypeOK, CountInv, [Next]_vars
    PROVE  TypeOK'
<1> USE DEF TypeOK, CliTo, ConfigTo, Holders, CliSteps, ConfigSteps
<1>1. CASE Request
  BY <1>1 DEF Request
<1>2. CASE queryCache
  <2>1. CASE cli.volume \in CachedVolumes
    <3>1. Use(cli.volume)
      BY <1>2, <2>1 DEF queryCache
    <3>2. Cache' \in Seq(Handle)
      BY <1>2, <2>1, HitIs
    <3>3. recent' \in Seq(Volumes)
      BY <3>1, UseIs
    <3> QED
      BY <1>2, <2>1, <3>2, <3>3 DEF queryCache
  <2>2. CASE cli.volume \notin CachedVolumes
    BY <1>2, <2>2 DEF queryCache
  <2> QED
    BY <2>1, <2>2
<1>3. CASE SetLogging
  <2>1. config.cfg.dir \in LogFiles
    BY LruAssumption
  <2> QED
    BY <1>3, <2>1, IdleTypes DEF SetLogging, InitFails
<1>4. CASE GlfsInit
  BY <1>4, IdleTypes DEF GlfsInit, InitFails
<1>5. CASE AppendLock
  BY <1>5 DEF AppendLock
<1>6. CASE releaseColdEntry
  <2>1. lruCount \in Nat \ {0} /\ Len(Cache) = lruCount
    BY <1>6 DEF releaseColdEntry, CountInv
  <2>2. Front(Cache) \in Seq(Handle)
    BY <2>1, FrontIs
  <2> QED
    BY <1>6, <2>1, <2>2 DEF releaseColdEntry
<1>7. CASE AppendEntry
  <2>1. CASE InitFails /\ UNCHANGED <<Cache, lruCount, recent>>
    BY <1>7, <2>1, IdleTypes DEF AppendEntry, InitFails
  <2>2. CASE /\ Cache' = <<[volume |-> cli.volume, dir |-> cli.dir]>> \o Cache
             /\ lruCount' = lruCount + 1
             /\ Use(cli.volume)
             /\ CliTo("use")
    <3>1. recent' \in Seq(Volumes)
      BY <2>2, UseIs
    <3>2. [volume |-> cli.volume, dir |-> cli.dir] \in Handle
      BY DEF Handle
    <3>3. Cache' \in Seq(Handle)
      BY <2>2, <3>2
    <3>4. cli' \in [pc : CliSteps, volume : Volumes, dir : LogFiles \cup {Torn}]
      BY <2>2
    <3>5. lruCount' \in Nat /\ lock' \in Holders
      BY <1>7, <2>2 DEF AppendEntry
    <3> QED
      BY <1>7, <3>1, <3>3, <3>4, <3>5 DEF AppendEntry
  <2> QED
    BY <1>7, <2>1, <2>2 DEF AppendEntry
<1>8. CASE Respond
  BY <1>8, IdleTypes DEF Respond
<1>9. CASE LoadConfig
  BY <1>9 DEF LoadConfig
<1>10. CASE SetLogDir
  BY <1>10 DEF SetLogDir
<1>11. CASE WriteLogDir
  BY <1>11, LruAssumption DEF WriteLogDir
<1>12. CASE UpdateLock
  BY <1>12 DEF UpdateLock
<1>13. CASE UpdateLruLogdir
  <2>1. PICK told : Told(told)
    BY <1>13 DEF UpdateLruLogdir
  <2>3. Cache' \in Seq(Handle)
    BY <2>1, ToldIs
  <2> QED
    BY <1>13, <2>1, <2>3 DEF UpdateLruLogdir, Told
<1>14. CASE SetLruCount
  BY <1>14, IdleTypes DEF SetLruCount
<1>15. CASE UNCHANGED vars
  BY <1>15 DEF vars
<1> QED
  BY <1>1, <1>2, <1>3, <1>4, <1>5, <1>6, <1>7, <1>8, <1>9, <1>10, <1>11,
     <1>12, <1>13, <1>14, <1>15 DEF Next, Cli, Config

-----------------------------------------------------------------------------
(***************************************************************************)
(* The mutexes and the counter.                                            *)
(***************************************************************************)

\* Every step leaves the mutexes with the threads that are inside of them.
LEMMA LocksNext ==
    ASSUME TypeOK, LocksInv, [Next]_vars
    PROVE  LocksInv'
<1> USE DEF TypeOK, LocksInv, CliTo, ConfigTo, Free
<1>1. CASE Request
  BY <1>1 DEF Request
<1>2. CASE queryCache
  BY <1>2 DEF queryCache
<1>3. CASE SetLogging
  BY <1>3, IdleTypes DEF SetLogging, InitFails
<1>4. CASE GlfsInit
  BY <1>4, IdleTypes DEF GlfsInit, InitFails
<1>5. CASE AppendLock
  BY <1>5 DEF AppendLock
<1>6. CASE releaseColdEntry
  BY <1>6 DEF releaseColdEntry
<1>7. CASE AppendEntry
  BY <1>7, IdleTypes DEF AppendEntry, InitFails
<1>8. CASE Respond
  BY <1>8, IdleTypes DEF Respond
<1>9. CASE LoadConfig
  BY <1>9 DEF LoadConfig
<1>10. CASE SetLogDir
  BY <1>10 DEF SetLogDir
<1>11. CASE WriteLogDir
  BY <1>11 DEF WriteLogDir
<1>12. CASE UpdateLock
  BY <1>12 DEF UpdateLock
<1>13. CASE UpdateLruLogdir
  BY <1>13 DEF UpdateLruLogdir
<1>14. CASE SetLruCount
  BY <1>14, IdleTypes DEF SetLruCount
<1>15. CASE UNCHANGED vars
  BY <1>15 DEF vars
<1> QED
  BY <1>1, <1>2, <1>3, <1>4, <1>5, <1>6, <1>7, <1>8, <1>9, <1>10, <1>11,
     <1>12, <1>13, <1>14, <1>15 DEF Next, Cli, Config

\* How each step changes the length of the list: only AppendEntry makes it
\* longer, and only releaseColdEntry shorter.
LEMMA ListLength ==
    ASSUME TypeOK, CountInv, [Next]_vars
    PROVE  \/ /\ releaseColdEntry
              /\ Len(Cache) > 0 /\ Len(Cache') = Len(Cache) - 1
              /\ \A i \in 1 .. Len(Cache') : Cache'[i] = Cache[i]
           \/ /\ AppendEntry
              /\ Len(Cache') = Len(Cache) + 1
              /\ Cache'[1] = [volume |-> cli.volume, dir |-> cli.dir]
              /\ \A i \in 2 .. Len(Cache') : Cache'[i] = Cache[i - 1]
              /\ lruCount' = lruCount + 1 /\ Use(cli.volume) /\ CliTo("use")
           \/ Len(Cache') = Len(Cache) /\ UNCHANGED lruCount
<1> USE DEF TypeOK
<1>1. CASE releaseColdEntry
  <2>1. Len(Cache) > 0
    BY <1>1 DEF releaseColdEntry, CountInv
  <2>2. Len(Cache') = Len(Cache) - 1
        /\ \A i \in 1 .. Len(Cache) - 1 : Cache'[i] = Cache[i]
    BY <1>1, <2>1, FrontIs DEF releaseColdEntry
  <2> QED
    BY <1>1, <2>1, <2>2
<1>2. CASE AppendEntry
  <2>1. CASE UNCHANGED <<Cache, lruCount>>
    BY <1>2, <2>1 DEF AppendEntry
  <2>2. CASE /\ Cache' = <<[volume |-> cli.volume, dir |-> cli.dir]>> \o Cache
             /\ lruCount' = lruCount + 1
             /\ Use(cli.volume) /\ CliTo("use")
    BY <1>2, <2>2
  <2> QED
    BY <1>2, <2>1, <2>2 DEF AppendEntry
<1>3. CASE queryCache
  <2>1. CASE cli.volume \in CachedVolumes
    <3>2. Len(Cache') = Len(Cache)
      BY <1>3, <2>1, HitIs
    <3> QED
      BY <1>3, <3>2 DEF queryCache
  <2>2. CASE cli.volume \notin CachedVolumes
    BY <1>3, <2>2 DEF queryCache
  <2> QED
    BY <2>1, <2>2
<1>4. CASE UpdateLruLogdir
  <2>1. PICK told : Told(told)
    BY <1>4 DEF UpdateLruLogdir
  <2>2. Len(Cache') = Len(Cache)
    BY <2>1, ToldIs
  <2> QED
    BY <1>4, <2>2 DEF UpdateLruLogdir
<1> QED
  BY <1>1, <1>2, <1>3, <1>4
  DEF Next, Cli, Config, vars, Request, SetLogging, GlfsInit, AppendLock,
      Respond, LoadConfig, SetLogDir, WriteLogDir, UpdateLock, SetLruCount

\* The counter follows the list, and the capacity stays as it was seen while
\* the request has gbConf->lock.
LEMMA CountNext ==
    ASSUME TypeOK, LocksInv, CountInv, [Next]_vars
    PROVE  CountInv'
<1> USE DEF TypeOK, CountInv, CliTo, ConfigTo
<1>1. lruCount' = Len(Cache')
  <2>1. CASE releaseColdEntry
    <3>1. Len(Cache') = Len(Cache) - 1
      BY <2>1, FrontIs DEF releaseColdEntry
    <3> QED
      BY <2>1, <3>1 DEF releaseColdEntry
  <2>2. CASE ~releaseColdEntry
    BY <2>2, ListLength
  <2> QED
    BY <2>1, <2>2
<1>2. CASE SetLruCount
  BY <1>1, <1>2 DEF SetLruCount, LocksInv, Free
<1>3. CASE AppendLock
  BY <1>1, <1>3 DEF AppendLock
<1>4. CASE releaseColdEntry
  BY <1>1, <1>4 DEF releaseColdEntry
<1>5. CASE AppendEntry
  BY <1>1, <1>5, IdleTypes DEF AppendEntry, InitFails
<1>6. CASE Request \/ queryCache \/ SetLogging \/ GlfsInit \/ Respond
  <2>1. UNCHANGED <<lruCount, glfsLruCount>> /\ cli'.pc \notin {"full", "add"}
    BY <1>6, IdleTypes
    DEF Request, queryCache, SetLogging, GlfsInit, Respond, InitFails
  <2> QED
    BY <1>1, <2>1
<1>7. CASE \/ LoadConfig \/ SetLogDir \/ WriteLogDir \/ UpdateLock
           \/ UpdateLruLogdir \/ UNCHANGED vars
  <2>1. UNCHANGED <<lruCount, glfsLruCount, cli>>
    BY <1>7 DEF LoadConfig, SetLogDir, WriteLogDir, UpdateLock,
                UpdateLruLogdir, vars
  <2> QED
    BY <1>1, <2>1
<1> QED
  BY <1>2, <1>3, <1>4, <1>5, <1>6, <1>7 DEF Next, Cli, Config

-----------------------------------------------------------------------------
(***************************************************************************)
(* One handle for a volume.                                                *)
(***************************************************************************)

\* The steps that leave the list as it is.
QuietCli == Request \/ SetLogging \/ GlfsInit \/ AppendLock \/ Respond

QuietConfig ==
    \/ LoadConfig \/ SetLogDir \/ WriteLogDir \/ UpdateLock \/ SetLruCount
    \/ UNCHANGED vars

\* What the steps of the request that leave the list alone do to its locals: it
\* goes on with the same volume, or has found out that there is none cached, or
\* is at a step that has no handle.
LEMMA QuietCliSteps ==
    ASSUME TypeOK, QuietCli
    PROVE  /\ UNCHANGED <<Cache, recent, missed, config, gfapiLogFile>>
           /\ \/ /\ cli.pc \in Missing /\ cli'.pc \in Missing \ {"new"}
                 /\ cli'.volume = cli.volume
                 /\ cli'.dir = cli.dir \/ cli.pc = "new"
              \/ cli'.pc \notin Missing \cup {"use"}
<1> USE DEF TypeOK, CliTo, Missing
<1>1. CASE Request
  BY <1>1 DEF Request
<1>2. CASE SetLogging
  BY <1>2, IdleTypes DEF SetLogging, InitFails
<1>3. CASE GlfsInit
  BY <1>3, IdleTypes DEF GlfsInit, InitFails
<1>4. CASE AppendLock
  BY <1>4 DEF AppendLock
<1>5. CASE Respond
  BY <1>5, IdleTypes DEF Respond
<1> QED
  BY <1>1, <1>2, <1>3, <1>4, <1>5 DEF QuietCli

\* Those of the configuration thread leave the request alone.
LEMMA QuietConfigSteps ==
    ASSUME QuietConfig
    PROVE  UNCHANGED <<Cache, recent, cli>>
BY DEF QuietConfig, LoadConfig, SetLogDir, WriteLogDir, UpdateLock,
       SetLruCount, vars

\* A step changes the list, or is one of those.
LEMMA NextSplit ==
    ASSUME [Next]_vars
    PROVE  \/ queryCache \/ releaseColdEntry \/ AppendEntry
           \/ UpdateLruLogdir \/ QuietCli \/ QuietConfig
BY DEF Next, Cli, Config, QuietCli, QuietConfig

\* No step puts a volume into the list twice, or takes away the handle that a
\* handler uses.
LEMMA VolumesNext ==
    ASSUME TypeOK, CountInv, VolumesInv, [Next]_vars
    PROVE  VolumesInv'
<1>0. /\ Cache \in Seq(Handle) /\ Cache' \in Seq(Handle)
      /\ Len(Cache) \in Nat /\ Len(Cache') \in Nat
      /\ cli.volume \in Volumes
  BY TypesNext DEF TypeOK
<1>a. /\ DOMAIN cli = {"pc", "volume", "dir"}
      /\ cli = [pc |-> cli.pc, volume |-> cli.volume, dir |-> cli.dir]
  BY DEF TypeOK
<1>b. \A i, j \in 1 .. Len(Cache) :
        Cache[i].volume = Cache[j].volume => i = j
  BY DEF VolumesInv
<1> DEFINE f == [k \in 1 .. Len(Cache) |-> Cache[k].volume]
           g == [k \in 1 .. Len(Cache') |-> Cache'[k].volume]
<1>c. \A j, k \in 1 .. Len(Cache) : f[j] = f[k] => j = k
  BY <1>b
<1>1. CASE queryCache
  <2>1. CASE cli.volume \in CachedVolumes
    <3>2. PICK i \in 1 .. Len(Cache) :
             /\ Cache[i].volume = cli.volume
             /\ Len(Cache') = Len(Cache)
             /\ \A k \in 1 .. Len(Cache) :
                  Cache'[k] = IF k = 1 THEN Cache[i]
                              ELSE IF k <= i THEN Cache[k - 1] ELSE Cache[k]
      BY <1>0, <1>1, <2>1, HitIs
    <3>a. \A k \in 1 .. Len(Cache) :
            g[k] = IF k = 1 THEN f[i] ELSE IF k <= i THEN f[k - 1] ELSE f[k]
      BY <1>0, <3>2
    <3>b. \A j, k \in 1 .. Len(Cache) : g[j] = g[k] => j = k
      <4> HIDE DEF f, g
      <4> QED
        BY <1>0, <1>c, <3>a, MoveInjective
    <3>3. \A j, k \in 1 .. Len(Cache) :
            Cache'[j].volume = Cache'[k].volume => j = k
      BY <3>2, <3>b
    <3>4. cli'.pc = "use" /\ cli'.volume = cli.volume
      BY <1>1, <1>a, <2>1 DEF queryCache, CliTo
    <3>5. 1 \in 1 .. Len(Cache') /\ Cache'[1].volume = cli'.volume
      BY <1>0, <3>2, <3>4
    <3> QED
      BY <3>2, <3>3, <3>4, <3>5 DEF Missing, VolumesInv
  <2>2. CASE cli.volume \notin CachedVolumes
    BY <1>0, <1>1, <1>a, <2>2
    DEF queryCache, CachedVolumes, Missing, VolumesInv, CliTo
  <2> QED
    BY <2>1, <2>2
<1>2. CASE releaseColdEntry
  <2>1. Len(Cache) > 0
    BY <1>2 DEF releaseColdEntry, CountInv, TypeOK
  <2>2. /\ Len(Cache') = Len(Cache) - 1
        /\ \A i \in 1 .. Len(Cache) - 1 : Cache'[i] = Cache[i]
    BY <1>0, <1>2, <2>1, FrontIs DEF releaseColdEntry
  <2>3. cli.pc = "full" /\ cli'.pc = "add" /\ cli'.volume = cli.volume
    BY <1>2, <1>a DEF releaseColdEntry, CliTo
  <2>4. \A i \in 1 .. Len(Cache') : i \in 1 .. Len(Cache) /\ Cache'[i] = Cache[i]
    BY <1>0, <2>1, <2>2
  <2> QED
    BY <2>3, <2>4 DEF Missing, VolumesInv
<1>3. CASE AppendEntry
  <2>1. CASE InitFails /\ UNCHANGED Cache
    BY <2>1, IdleTypes DEF InitFails, Missing, VolumesInv
  <2>2. CASE /\ Cache' = <<[volume |-> cli.volume, dir |-> cli.dir]>> \o Cache
             /\ CliTo("use")
    <3>1. /\ Len(Cache') = Len(Cache) + 1
          /\ Cache'[1].volume = cli.volume
          /\ \A i \in 2 .. Len(Cache) + 1 : Cache'[i] = Cache[i - 1]
      BY <1>0, <2>2
    <3>2. cli.pc = "add" /\ cli'.pc = "use" /\ cli'.volume = cli.volume
      BY <1>3, <1>a, <2>2 DEF AppendEntry, CliTo
    <3>3. \A i \in 1 .. Len(Cache) : Cache[i].volume # cli.volume
      BY <3>2 DEF Missing, VolumesInv
    <3>a. /\ g[1] = cli.volume
          /\ \A k \in 1 .. Len(Cache) : f[k] # g[1]
          /\ \A k \in 2 .. Len(Cache) + 1 : g[k] = f[k - 1]
      BY <1>0, <3>1, <3>3
    <3>b. \A j, k \in 1 .. Len(Cache) + 1 : g[j] = g[k] => j = k
      <4>1. ASSUME NEW k \in 1 .. Len(Cache) PROVE f[k] # g[1]
        BY <3>a
      <4> HIDE DEF f, g
      <4> QED
        BY <1>0, <1>c, <3>a, <4>1, PushInjective
    <3>4. \A j, k \in 1 .. Len(Cache) + 1 :
            Cache'[j].volume = Cache'[k].volume => j = k
      BY <3>1, <3>b
    <3>5. 1 \in 1 .. Len(Cache') /\ Cache'[1].volume = cli'.volume
      BY <1>0, <3>1, <3>2
    <3> QED
      BY <3>1, <3>2, <3>4, <3>5 DEF Missing, VolumesInv
  <2> QED
    BY <1>3, <2>1, <2>2 DEF AppendEntry
<1>4. CASE UpdateLruLogdir
  <2>1. PICK told : Told(told)
    BY <1>4 DEF UpdateLruLogdir
  <2>2. /\ Len(Cache') = Len(Cache)
        /\ \A i \in 1 .. Len(Cache) : Cache'[i].volume = Cache[i].volume
    BY <2>1, ToldIs DEF TypeOK
  <2>3. UNCHANGED cli
    BY <1>4 DEF UpdateLruLogdir
  <2> QED
    BY <2>2, <2>3 DEF VolumesInv
<1>5. CASE QuietCli
  BY <1>5, QuietCliSteps DEF Missing, VolumesInv
<1>6. CASE QuietConfig
  BY <1>6, QuietConfigSteps DEF VolumesInv
<1> QED
  BY <1>1, <1>2, <1>3, <1>4, <1>5, <1>6, NextSplit

-----------------------------------------------------------------------------
(***************************************************************************)
(* The order of the list.                                                  *)
(***************************************************************************)

\* Every step keeps the list the beginning of the history.
LEMMA OrderNext ==
    ASSUME TypeOK, CountInv, VolumesInv, OrderInv, [Next]_vars
    PROVE  OrderInv'
<1>0. /\ Cache \in Seq(Handle) /\ recent \in Seq(Volumes)
      /\ Len(Cache) \in Nat /\ Len(recent) \in Nat
      /\ cli.volume \in Volumes /\ gfapiLogFile \in LogFiles
  BY DEF TypeOK
<1>a. /\ \A i, j \in 1 .. Len(recent) : recent[i] = recent[j] => i = j
      /\ Len(Cache) <= Len(recent)
      /\ \A i \in 1 .. Len(Cache) : recent[i] = Cache[i].volume
  BY DEF OrderInv
<1>1. CASE queryCache
  <2>1. CASE cli.volume \in CachedVolumes
    <3>1. Use(cli.volume)
      BY <1>1, <2>1 DEF queryCache
    <3>2. PICK i \in 1 .. Len(Cache) :
             /\ Cache[i].volume = cli.volume
             /\ Len(Cache') = Len(Cache)
             /\ \A k \in 1 .. Len(Cache) :
                  Cache'[k] = IF k = 1 THEN Cache[i]
                              ELSE IF k <= i THEN Cache[k - 1] ELSE Cache[k]
      BY <1>0, <1>1, <2>1, HitIs
    <3>3. i \in 1 .. Len(recent) /\ recent[i] = cli.volume
      BY <1>0, <1>a, <3>2
    <3>4. PICK j \in 1 .. Len(recent) :
             /\ recent[j] = cli.volume
             /\ Len(recent') = Len(recent)
             /\ \A k \in 1 .. Len(recent) :
                  recent'[k] = IF k = 1 THEN cli.volume
                               ELSE IF k <= j THEN recent[k - 1] ELSE recent[k]
      BY <1>0, <3>1, <3>3, UseIs
    <3>5. i = j
      BY <1>a, <3>3, <3>4
    <3>6. \A k, l \in 1 .. Len(recent) : recent'[k] = recent'[l] => k = l
      <4>1. \A k \in 1 .. Len(recent) :
              recent'[k] = IF k = 1 THEN recent[j]
                           ELSE IF k <= j THEN recent[k - 1] ELSE recent[k]
        BY <3>4
      <4> QED
        BY <1>0, <1>a, <4>1, MoveInjective
    <3>7. ASSUME NEW k \in 1 .. Len(Cache)
          PROVE  recent'[k] = Cache'[k].volume
      <4>1. k \in 1 .. Len(recent) /\ (k # 1 => k - 1 \in 1 .. Len(Cache))
        BY <1>0, <1>a
      <4>2. CASE k = 1
        BY <3>2, <3>4, <4>1, <4>2
      <4>3. CASE k # 1 /\ k <= i
        <5>1. recent'[k] = recent[k - 1] /\ Cache'[k] = Cache[k - 1]
          BY <3>2, <3>4, <3>5, <4>1, <4>3
        <5> QED
          BY <1>a, <4>1, <4>3, <5>1
      <4>4. CASE k # 1 /\ ~(k <= i)
        <5>1. recent'[k] = recent[k] /\ Cache'[k] = Cache[k]
          BY <3>2, <3>4, <3>5, <4>1, <4>4
        <5> QED
          BY <1>a, <5>1
      <4> QED
        BY <4>2, <4>3, <4>4
    <3> QED
      BY <1>a, <3>2, <3>4, <3>6, <3>7 DEF OrderInv
  <2>2. CASE cli.volume \notin CachedVolumes
    BY <1>1, <2>2 DEF queryCache, OrderInv
  <2> QED
    BY <2>1, <2>2
<1>2. CASE releaseColdEntry
  <2>1. Len(Cache) > 0
    BY <1>2 DEF releaseColdEntry, CountInv, TypeOK
  <2>2. /\ Len(Cache') = Len(Cache) - 1
        /\ \A i \in 1 .. Len(Cache) - 1 : Cache'[i] = Cache[i]
    BY <1>0, <1>2, <2>1, FrontIs DEF releaseColdEntry
  <2>3. UNCHANGED recent
    BY <1>2 DEF releaseColdEntry
  <2> QED
    BY <1>0, <1>a, <2>1, <2>2, <2>3 DEF OrderInv
<1>3. CASE AppendEntry
  <2>1. CASE UNCHANGED <<Cache, recent>>
    BY <2>1 DEF OrderInv
  <2>2. CASE /\ Cache' = <<[volume |-> cli.volume, dir |-> cli.dir]>> \o Cache
             /\ Use(cli.volume)
    <3>1. /\ Len(Cache') = Len(Cache) + 1
          /\ Cache'[1].volume = cli.volume
          /\ \A i \in 2 .. Len(Cache) + 1 : Cache'[i] = Cache[i - 1]
      BY <1>0, <2>2
    <3>2. \A i \in 1 .. Len(Cache) : Cache[i].volume # cli.volume
      BY <1>3 DEF AppendEntry, VolumesInv, Missing
    <3>3. CASE \E j \in 1 .. Len(recent) : recent[j] = cli.volume
      <4>1. PICK j \in 1 .. Len(recent) :
               /\ recent[j] = cli.volume
               /\ Len(recent') = Len(recent)
               /\ \A k \in 1 .. Len(recent) :
                    recent'[k] = IF k = 1 THEN cli.volume
                                 ELSE IF k <= j THEN recent[k - 1]
                                 ELSE recent[k]
        BY <1>0, <2>2, <3>3, UseIs
      <4>2. j > Len(Cache)
        BY <1>0, <1>a, <3>2, <4>1
      <4>3. \A k, l \in 1 .. Len(recent) : recent'[k] = recent'[l] => k = l
        <5>1. \A k \in 1 .. Len(recent) :
                recent'[k] = IF k = 1 THEN recent[j]
                             ELSE IF k <= j THEN recent[k - 1] ELSE recent[k]
          BY <4>1
        <5> QED
          BY <1>0, <1>a, <5>1, MoveInjective
      <4>4. ASSUME NEW k \in 1 .. Len(Cache) + 1
            PROVE  recent'[k] = Cache'[k].volume
        <5>1. k \in 1 .. Len(recent) /\ k <= j
          BY <1>0, <4>2
        <5>2. CASE k = 1
          BY <3>1, <4>1, <5>1, <5>2
        <5>3. CASE k # 1
          <6>1. k - 1 \in 1 .. Len(Cache) /\ k \in 2 .. Len(Cache) + 1
            BY <1>0, <5>3
          <6> QED
            BY <1>a, <3>1, <4>1, <5>1, <5>3, <6>1
        <5> QED
          BY <5>2, <5>3
      <4>5. Len(Cache) + 1 <= Len(recent)
        BY <1>0, <4>2
      <4> QED
        BY <3>1, <4>1, <4>3, <4>4, <4>5 DEF OrderInv
    <3>4. CASE \A j \in 1 .. Len(recent) : recent[j] # cli.volume
      <4>1. /\ Len(recent') = Len(recent) + 1
            /\ \A k \in 1 .. Len(recent) + 1 :
                 recent'[k] = IF k = 1 THEN cli.volume ELSE recent[k - 1]
        BY <1>0, <2>2, <3>4, UseIs
      <4>2. \A k, l \in 1 .. Len(recent) + 1 : recent'[k] = recent'[l] => k = l
        <5>1. recent'[1] = cli.volume
                /\ \A k \in 2 .. Len(recent) + 1 : recent'[k] = recent[k - 1]
          BY <1>0, <4>1
        <5>2. \A k \in 1 .. Len(recent) : recent[k] # recent'[1]
          BY <3>4, <5>1
        <5> QED
          BY <1>0, <1>a, <5>1, <5>2, PushInjective
      <4>3. ASSUME NEW k \in 1 .. Len(Cache) + 1
            PROVE  recent'[k] = Cache'[k].volume
        <5>1. k \in 1 .. Len(recent) + 1
          BY <1>0, <1>a
        <5>2. CASE k = 1
          BY <3>1, <4>1, <5>1, <5>2
        <5>3. CASE k # 1
          <6>1. k - 1 \in 1 .. Len(Cache) /\ k \in 2 .. Len(Cache) + 1
            BY <1>0, <5>3
          <6> QED
            BY <1>a, <3>1, <4>1, <5>1, <5>3, <6>1
        <5> QED
          BY <5>2, <5>3
      <4> QED
        BY <1>0, <1>a, <3>1, <4>1, <4>2, <4>3 DEF OrderInv
    <3> QED
      BY <3>3, <3>4
  <2> QED
    BY <1>3, <2>1, <2>2 DEF AppendEntry
<1>4. CASE UpdateLruLogdir
  <2>1. PICK told : Told(told)
    BY <1>4 DEF UpdateLruLogdir
  <2>2. /\ Len(Cache') = Len(Cache)
        /\ \A i \in 1 .. Len(Cache) : Cache'[i].volume = Cache[i].volume
    BY <1>0, <2>1, ToldIs
  <2>3. UNCHANGED recent
    BY <1>4 DEF UpdateLruLogdir
  <2> QED
    BY <2>2, <2>3 DEF OrderInv
<1>5. CASE QuietCli
  BY <1>5, QuietCliSteps DEF OrderInv
<1>6. CASE QuietConfig
  BY <1>6, QuietConfigSteps DEF OrderInv
<1> QED
  BY <1>1, <1>2, <1>3, <1>4, <1>5, <1>6, NextSplit

-----------------------------------------------------------------------------
(***************************************************************************)
(* The log file of the handles.                                            *)
(***************************************************************************)

\* Every step keeps at most one handle behind: a handle opened while the name
\* is settled has the name, and the pass over the list reaches those in it.
LEMMA LogdirNext ==
    ASSUME TypeOK, LocksInv, CountInv, LogdirInv, [Next]_vars
    PROVE  LogdirInv'
<1>0. /\ Cache \in Seq(Handle) /\ Len(Cache) \in Nat
      /\ gfapiLogFile \in LogFiles /\ missed \in BOOLEAN
  BY DEF TypeOK
<1>a. /\ cli = [pc |-> cli.pc, volume |-> cli.volume, dir |-> cli.dir]
      /\ config = [pc |-> config.pc, cfg |-> config.cfg]
  BY DEF TypeOK
<1>1. CASE queryCache
  <2>1. UNCHANGED <<config, gfapiLogFile, missed>>
    BY <1>1 DEF queryCache
  <2>2. cli'.pc \in {"use", "new"}
    BY <1>1, <1>a DEF queryCache, CliTo
  <2>3. CASE cli.volume \in CachedVolumes
    <3>3. PICK i \in 1 .. Len(Cache) :
             /\ Len(Cache') = Len(Cache)
             /\ \A k \in 1 .. Len(Cache) :
                  Cache'[k] = IF k = 1 THEN Cache[i]
                              ELSE IF k <= i THEN Cache[k - 1] ELSE Cache[k]
      BY <1>0, <1>1, <2>3, HitIs
    <3>4. ASSUME Settled, NEW j \in 1 .. Len(Cache), NEW k \in 1 .. Len(Cache),
                 Cache'[j].dir # gfapiLogFile, Cache'[k].dir # gfapiLogFile
          PROVE  j = k
      <4> DEFINE p(l) == IF l = 1 THEN i ELSE IF l <= i THEN l - 1 ELSE l
      <4>1. /\ p(j) \in 1 .. Len(Cache) /\ p(k) \in 1 .. Len(Cache)
            /\ p(j) = p(k) => j = k
        BY <1>0
      <4>2. Cache'[j] = Cache[p(j)] /\ Cache'[k] = Cache[p(k)]
        BY <3>3
      <4> HIDE DEF p
      <4> QED
        BY <3>4, <4>1, <4>2 DEF LogdirInv
    <3> QED
      BY <2>1, <2>2, <3>3, <3>4 DEF LogdirInv, Settled, Missing
  <2>4. CASE cli.volume \notin CachedVolumes
    <3>1. UNCHANGED Cache
      BY <1>1, <2>4 DEF queryCache
    <3> QED
      BY <2>1, <2>2, <3>1 DEF LogdirInv, Settled, Missing
  <2> QED
    BY <2>3, <2>4
<1>2. CASE releaseColdEntry
  <2>1. Len(Cache) > 0
    BY <1>2 DEF releaseColdEntry, CountInv, TypeOK
  <2>2. /\ Len(Cache') = Len(Cache) - 1
        /\ \A i \in 1 .. Len(Cache) - 1 : Cache'[i] = Cache[i]
    BY <1>0, <1>2, <2>1, FrontIs DEF releaseColdEntry
  <2>3. \A i \in 1 .. Len(Cache') : i \in 1 .. Len(Cache) /\ Cache'[i] = Cache[i]
    BY <1>0, <2>1, <2>2
  <2>4. /\ cli.pc = "full" /\ cli'.dir = cli.dir
        /\ UNCHANGED <<config, gfapiLogFile, missed>>
    BY <1>2, <1>a DEF releaseColdEntry, CliTo
  <2> QED
    BY <2>3, <2>4 DEF LogdirInv, Settled, Missing
<1>3. CASE AppendEntry
  <2>1. cli.pc = "add" /\ UNCHANGED <<config, gfapiLogFile, missed>>
    BY <1>3 DEF AppendEntry
  <2>2. CASE InitFails /\ UNCHANGED Cache
    BY <2>1, <2>2, IdleTypes DEF LogdirInv, Settled, InitFails, Missing
  <2>3. CASE /\ Cache' = <<[volume |-> cli.volume, dir |-> cli.dir]>> \o Cache
             /\ CliTo("use")
    <3>1. /\ Len(Cache') = Len(Cache) + 1
          /\ Cache'[1].dir = cli.dir
          /\ \A i \in 2 .. Len(Cache) + 1 : Cache'[i] = Cache[i - 1]
      BY <1>0, <2>3
    <3>2. cli'.pc = "use"
      BY <1>a, <2>3 DEF CliTo
    <3>3. ASSUME Settled,
                 NEW j \in 1 .. Len(Cache) + 1, NEW k \in 1 .. Len(Cache) + 1,
                 Cache'[j].dir # gfapiLogFile, Cache'[k].dir # gfapiLogFile
          PROVE  j = k
      <4>1. ASSUME NEW l \in 1 .. Len(Cache) + 1, l # 1
            PROVE  l - 1 \in 1 .. Len(Cache) /\ Cache'[l] = Cache[l - 1]
        BY <1>0, <3>1, <4>1
      <4>2. CASE cli.dir # gfapiLogFile
        <5>1. \A i \in 1 .. Len(Cache) : Cache[i].dir = gfapiLogFile
          BY <2>1, <3>3, <4>2 DEF LogdirInv, Missing
        <5> QED
          BY <3>3, <4>1, <5>1
      <4>3. CASE cli.dir = gfapiLogFile
        <5>1. j # 1 /\ k # 1
          BY <3>1, <3>3, <4>3
        <5>2. j - 1 = k - 1
          BY <3>3, <4>1, <5>1 DEF LogdirInv
        <5> QED
          BY <1>0, <5>2
      <4> QED
        BY <4>2, <4>3
    <3> QED
      BY <2>1, <3>1, <3>2, <3>3 DEF LogdirInv, Settled, Missing
  <2> QED
    BY <1>3, <2>2, <2>3 DEF AppendEntry
<1>4. CASE UpdateLruLogdir
  <2>1. PICK told : Told(told)
    BY <1>4 DEF UpdateLruLogdir
  <2>2. /\ Len(Cache') = Len(Cache)
        /\ \A i \in 1 .. Len(Cache) :
             Cache'[i].dir = IF i \in told THEN gfapiLogFile ELSE Cache[i].dir
    BY <1>0, <2>1, ToldIs
  <2>3. UNCHANGED gfapiLogFile
    BY <1>4 DEF UpdateLruLogdir
  <2>4. ASSUME ~missed'
        PROVE  \A i \in 1 .. Len(Cache') : Cache'[i].dir = gfapiLogFile
    <3>1. told = DOMAIN Cache
      BY <2>1, <2>4 DEF Told
    <3>2. told = 1 .. Len(Cache)
      BY <1>0, <3>1
    <3> QED
      BY <2>2, <3>2
  <2> QED
    BY <2>3, <2>4 DEF LogdirInv, Settled
<1>5. CASE QuietCli
  <2>1. UNCHANGED <<Cache, config, gfapiLogFile, missed>>
    BY <1>5, QuietCliSteps
  <2>2. CASE cli.pc = "new" /\ Settled
    <3>1. CASE SetLogging
      <4>1. config.pc # "write"
        BY <2>2 DEF Settled
      <4>2. cli'.dir = gfapiLogFile \/ cli'.pc = "idle"
        BY <1>a, <3>1, <4>1, IdleTypes DEF SetLogging, InitFails
      <4> QED
        BY <2>1, <4>2 DEF LogdirInv, Settled, Missing
    <3> QED
      BY <1>5, <2>2, <3>1
      DEF QuietCli, Request, GlfsInit, AppendLock, Respond
  <2>3. CASE ~(cli.pc = "new" /\ Settled)
    <3>1. \/ cli.pc \in Missing /\ cli'.dir = cli.dir
          \/ cli.pc = "new"
          \/ cli'.pc \notin Missing
      BY <1>5, QuietCliSteps
    <3>2. Settled' <=> Settled
      BY <2>1 DEF Settled
    <3>3. CASE cli.pc \in Missing \ {"new"} /\ cli'.dir = cli.dir
      BY <2>1, <3>2, <3>3 DEF LogdirInv
    <3>4. CASE cli'.pc \notin Missing
      BY <2>1, <3>2, <3>4 DEF LogdirInv
    <3> QED
      BY <2>1, <2>3, <3>1, <3>2, <3>3, <3>4 DEF LogdirInv
  <2> QED
    BY <2>2, <2>3
<1>6. CASE LoadConfig \/ SetLogDir \/ SetLruCount \/ UNCHANGED vars
  <2>1. UNCHANGED <<Cache, cli, gfapiLogFile, missed>>
    BY <1>6 DEF LoadConfig, SetLogDir, SetLruCount, vars
  <2>2. Settled' => Settled
    BY <1>6, <1>a DEF LoadConfig, SetLogDir, SetLruCount, vars, Settled, ConfigTo
  <2> QED
    BY <2>1, <2>2 DEF LogdirInv
<1>7. CASE WriteLogDir
  <2>1. ~Settled'
    BY <1>7, <1>a DEF WriteLogDir, Settled, ConfigTo
  <2> QED
    BY <2>1 DEF LogdirInv
<1>8. CASE UpdateLock
  <2>1. CASE Cache = <<>>
    <3>1. Cache' = <<>>
      BY <1>8, <2>1 DEF UpdateLock
    <3>2. 1 .. Len(Cache') = {}
      BY <3>1
    <3> QED
      BY <3>2 DEF LogdirInv
  <2>2. CASE Cache # <<>>
    BY <1>8, <1>a, <2>2 DEF UpdateLock, LogdirInv, Settled, ConfigTo
  <2> QED
    BY <2>1, <2>2
<1> QED
  BY <1>1, <1>2, <1>3, <1>4, <1>5, <1>6, <1>7, <1>8, NextSplit DEF QuietConfig

-----------------------------------------------------------------------------
(***************************************************************************)
(* The theorems.                                                           *)
(***************************************************************************)

\* The invariant holds at the start, when nothing is cached.
LEMMA LruInvInit == Init => LruInv
<1> SUFFICES ASSUME Init PROVE LruInv
  OBVIOUS
<1>1. TypeOK
  BY TypesInit
<1>2. cli.pc = "idle" /\ config.pc = "idle" /\ ~missed
  BY IdleTypes DEF Init
<1>3. Len(Cache) = 0 /\ Len(recent) = 0 /\ 1 .. Len(Cache) = {}
        /\ 1 .. Len(recent) = {}
  BY DEF Init
<1>4. LocksInv
  BY <1>2 DEF LocksInv, Init
<1>5. CountInv
  BY <1>2, <1>3 DEF CountInv, Init
<1>6. VolumesInv
  BY <1>2, <1>3 DEF VolumesInv, Missing
<1>7. OrderInv
  BY <1>3 DEF OrderInv
<1>8. LogdirInv
  BY <1>2, <1>3 DEF LogdirInv
<1> QED
  BY <1>1, <1>4, <1>5, <1>6, <1>7, <1>8 DEF LruInv

\* It holds in every state of the two threads.
LEMMA LruInvariant == Spec => []LruInv
<1>1. Init => LruInv
  BY LruInvInit
<1>2. LruInv /\ [Next]_vars => LruInv'
  BY TypesNext, LocksNext, CountNext, VolumesNext, OrderNext, LogdirNext
  DEF LruInv
<1> QED
  BY <1>1, <1>2, PTL DEF Spec

\* The variables have their types: the counter of the list, a size_t, never
\* goes below zero, and the capacity is never out of its bounds.
THEOREM LruTyping == Spec => []TypeOK
<1>1. LruInv => TypeOK
  BY DEF LruInv
<1> QED
  BY <1>1, LruInvariant, PTL

\* No volume is cached twice, the counter is the length of the list, and the
\* handle in use is in the list, for every number of volumes, every capacity
\* and every failure.
THEOREM CacheSafety == Spec => []CacheSound
<1>1. LruInv => CacheSound
  <2> SUFFICES ASSUME LruInv PROVE CacheSound
    OBVIOUS
  <2>1. DOMAIN Cache = 1 .. Len(Cache)
    BY DEF LruInv, TypeOK
  <2> QED
    BY <2>1 DEF LruInv, CountInv, VolumesInv, CacheSound, CachedVolumes
<1> QED
  BY <1>1, LruInvariant, PTL

\* What releaseColdEntry frees is the least recently used handle.
THEOREM RecencySafety == Spec => []RecencyOrder
<1>1. LruInv => RecencyOrder
  <2> SUFFICES ASSUME LruInv PROVE RecencyOrder
    OBVIOUS
  <2> DEFINE n == Len(Cache)
             s == [i \in 1 .. n |-> Cache[i].volume]
  <2>1. /\ Cache \in Seq(Handle) /\ recent \in Seq(Volumes)
        /\ n \in Nat /\ DOMAIN Cache = 1 .. n
        /\ Len(recent) \in Nat
    BY DEF LruInv, TypeOK
  <2>2. n <= Len(recent) /\ \A i \in 1 .. n : recent[i] = Cache[i].volume
    BY DEF LruInv, OrderInv
  <2>a. \A i \in 1 .. n : Cache[i].volume \in Volumes
    <3>1. \A i \in 1 .. n : Cache[i] \in Handle
      BY <2>1
    <3> QED
      BY <3>1 DEF Handle
  <2>3. s \in [1 .. n -> Volumes]
    <3> HIDE DEF n
    <3> QED
      BY <2>a
  <2>4. s \in Seq(Volumes) /\ Len(s) = n
    <3> HIDE DEF s, n
    <3> QED
      BY <2>1, <2>3
  <2>5. \A i \in 1 .. n : s[i] = recent[i]
    BY <2>2
  <2> HIDE DEF s, n
  <2>6. /\ SubSeq(s, 1, n) \in Seq(Volumes) /\ Len(SubSeq(s, 1, n)) = n
        /\ \A i \in 1 .. n : SubSeq(s, 1, n)[i] = s[i]
    BY <2>1, <2>4
  <2>7. /\ SubSeq(recent, 1, n) \in Seq(Volumes)
        /\ Len(SubSeq(recent, 1, n)) = n
        /\ \A i \in 1 .. n : SubSeq(recent, 1, n)[i] = recent[i]
    BY <2>1, <2>2
  <2>8. SubSeq(s, 1, n) = SubSeq(recent, 1, n)
    BY <2>5, <2>6, <2>7, SeqEqual
  <2>9. IsPrefix(s, recent)
    BY <2>2, <2>4, <2>8 DEF IsPrefix
  <2> QED
    BY <2>1, <2>9 DEF RecencyOrder, s, n
<1> QED
  BY <1>1, LruInvariant, PTL

\* At most one handle is left with an old log file.
THEOREM LogdirSafety == Spec => []LogdirFollows
<1>1. LruInv => LogdirFollows
  <2> SUFFICES ASSUME LruInv, config.pc = "idle", cli.pc = "idle", ~missed
               PROVE  Cardinality({i \in DOMAIN Cache :
                                     Cache[i].dir # gfapiLogFile}) <= 1
    BY DEF LogdirFollows
  <2> DEFINE S == {i \in DOMAIN Cache : Cache[i].dir # gfapiLogFile}
  <2>1. \A i, j \in S : i = j
    BY DEF LruInv, TypeOK, LogdirInv, Settled
  <2>2. CASE S = {}
    <3>1. Cardinality({}) = 0
      BY FS_EmptySet
    <3> HIDE DEF S
    <3>2. Cardinality(S) = 0
      BY <2>2, <3>1
    <3> QED
      BY <3>2 DEF S
  <2>3. CASE S # {}
    <3>1. PICK i : S = {i}
      BY <2>1, <2>3
    <3>2. Cardinality({i}) = 1
      BY FS_Singleton
    <3> HIDE DEF S
    <3>3. Cardinality(S) = 1
      BY <3>1, <3>2
    <3> QED
      BY <3>3 DEF S
  <2> QED
    BY <2>2, <2>3
<1> QED
  BY <1>1, LruInvariant, PTL

\* A cache within its capacity stays within it unless the capacity is lowered.
THEOREM CacheStaysBounded == Spec => CacheBounded
<1> DEFINE Bounded == Len(Cache) <= glfsLruCount /\ glfsLruCount <= glfsLruCount'
                        => Len(Cache') <= glfsLruCount'
<1>1. LruInv /\ [Next]_vars => [Bounded]_vars
  <2> SUFFICES ASSUME LruInv, [Next]_vars, Len(Cache) <= glfsLruCount,
                      glfsLruCount <= glfsLruCount'
               PROVE  Len(Cache') <= glfsLruCount'
    OBVIOUS
  <2>1. /\ TypeOK /\ CountInv
        /\ Len(Cache) \in Nat /\ glfsLruCount \in Nat
        /\ glfsLruCount' \in Nat
    BY TypesNext DEF LruInv, TypeOK
  <2>2. CASE AppendEntry
    <3>1. Len(Cache) # glfsLruCount /\ glfsLruCount' = glfsLruCount
      BY <2>1, <2>2 DEF AppendEntry, CountInv
    <3> QED
      BY <2>1, <3>1, ListLength
  <2>3. CASE ~AppendEntry
    BY <2>1, <2>3, ListLength
  <2> QED
    BY <2>2, <2>3
<1>2. Spec => [][Bounded]_vars
  BY <1>1, LruInvariant, PTL DEF Spec
<1> QED
  BY <1>2 DEF CacheBounded
=============================================================================
