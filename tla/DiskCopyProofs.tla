--------------------------- MODULE DiskCopyProofs ---------------------------
(* What TLAPS proves of DiskCopy, for any accounts, threads and bounds.    *)
EXTENDS DiskCopy, TLAPS

(* What a snapshot may hold, and what a thread has in hand: from a fetch to *)
(* the end of a write, and of a load, a vault that was fetched.            *)
Caches == {c \in Cache : c.vault = NoVault \/ c.vault \in Fetched}
InHand(o) == \/ o.pc \in {"land", "dir", "write", "writing", "restore"}
             \/ o.pc \in {"key", "mint"} /\ o.task # "enable"
Ops == {o \in Op : InHand(o) => o.vault \in Fetched}

Disk ==
    /\ file \in [Accounts -> File]
    /\ tmp \in [Accounts -> File]
    /\ keyFile \in [Accounts -> Nat]
Memory ==
    /\ cache \in [Processes -> Caches]
    /\ op \in [Threads -> Ops]
TheRest ==
    /\ main \in MainState
    /\ active \in Accounts
    /\ setting \in BOOLEAN
    /\ serving \in [of : Accounts, live : BOOLEAN]
    /\ cast \subseteq Threads
    /\ astray \in BOOLEAN

(* With no window, one thread at a time is at a temporary file, which is   *)
(* its own or gone until it is written, and whole or gone after it.        *)
AtTheFile == {"writing", "rename"}
OneWriter ==
    Window \notin cast =>
        /\ op[Window].pc = "idle" /\ ~cache["window"].up
        /\ \A a \in Accounts : file[a].state \in {"none", "whole"}
        /\ \A t \in Threads :
              /\ op[t].pc = "writing" => \/ tmp[op[t].dir].state = "none"
                                         \/ tmp[op[t].dir].state = "writing" /\ tmp[op[t].dir].by = t
              /\ op[t].pc = "rename" => tmp[op[t].dir].state \in {"none", "whole"}
        /\ \A t, u \in Threads : op[t].pc \in AtTheFile /\ op[u].pc \in AtTheFile => t = u

IInv == Disk /\ Memory /\ TheRest /\ OneWriter

-----------------------------------------------------------------------------
(* The values the variables are given. *)

(* An arbitrary account is one. *)
LEMMA AnAccount == SomeAccount \in Accounts
BY AccountsAssumption DEF SomeAccount

(* The main thread is a thread, and the only one of the window is Window.  *)
LEMMA TheThreads ==
    /\ Main \in Threads /\ Window \in Threads
    /\ \A t \in Threads : ProcessOf(t) \in Processes /\ (ProcessOf(t) = "window" <=> t = Window)
    /\ ProcessOf(Main) = "daemon"
BY ThreadsAssumption DEF Threads, Daemon, ProcessOf, Processes

(* The values at rest. *)
LEMMA Plain ==
    /\ NoVault \in Vault /\ NoKey \in Key
    /\ NoFile \in File /\ NoFile.state = "none"
    /\ Down \in Caches /\ ~Down.up
    /\ Idle \in Ops /\ Idle.pc = "idle" /\ Idle.task = "write"
<1>1. NoVault \in Vault /\ NoKey \in Key
  BY AnAccount DEF NoVault, Vault, NoKey, Key
<1>2. NoFile \in File /\ NoFile.state = "none"
  BY <1>1, AnAccount, TheThreads DEF NoFile, File
<1>3. Down \in Caches /\ ~Down.up
  BY <1>1, AnAccount DEF Down, Caches, Cache
<1>4. Idle \in Ops /\ Idle.pc = "idle" /\ Idle.task = "write"
  BY <1>1, AnAccount DEF Idle, Ops, Op, Steps, Tasks, InHand
<1>5. QED
  BY <1>1, <1>2, <1>3, <1>4

(* A forget makes a fetched vault an old one, and leaves none as it is.    *)
LEMMA Ages ==
    /\ \A v \in Fetched : Aged(v) \in Fetched
    /\ \A v \in Vault : Aged(v) \in Vault
    /\ Aged(NoVault) = NoVault
BY DEF Aged, Fetched, Vault, NoVault

(* The fields of what a thread does, and of a cache. *)
LEMMA OpsHave ==
    \A o \in Ops : /\ o.pc \in Steps /\ o.task \in Tasks /\ o.dir \in Accounts
                   /\ o.fingerprint \in Accounts /\ o.vault \in Vault /\ o.key \in Key
                   /\ (InHand(o) => o.vault \in Fetched)
BY DEF Ops, Op

LEMMA CachesHave ==
    \A c \in Caches : /\ c.dir \in Accounts /\ c.fingerprint \in Accounts /\ c.key \in Key
                      /\ c.vault \in Vault /\ (c.vault # NoVault => c.vault \in Fetched)
                      /\ c.up \in BOOLEAN /\ c.enabled \in BOOLEAN
BY DEF Caches, Cache

(* A thread goes on to a step at which it needs nothing in hand. *)
LEMMA GoesOn ==
    \A o \in Ops, pc \in Steps \ {"land", "dir", "write", "writing", "restore", "key", "mint"} :
        [o EXCEPT !.pc = pc] \in Ops /\ [o EXCEPT !.pc = pc].pc = pc
BY DEF Ops, Op, InHand

(* A file that is whole holds a vault that was fetched. *)
LEMMA WholeHas ==
    \A f \in File : /\ f.state = "whole" => f.vault \in Fetched
                    /\ f.vault \in Vault /\ f.key \in Key
                    /\ f.state \in {"none", "writing", "torn", "whole"}
BY DEF File, Whole, Vault

(* What stays of a write that was cut short. *)
LEMMA TornFile ==
    [NoFile EXCEPT !.state = "torn"] \in File /\ [NoFile EXCEPT !.state = "torn"].state = "torn"
BY Plain DEF File, Whole, NoFile

-----------------------------------------------------------------------------
(* A step of a thread that is not at a file, or leaves it, keeps OneWriter *)
(* if it leaves the files be, but for a temporary one it takes away.       *)
LEMMA Quiet ==
    ASSUME IInv, NEW t \in Threads, NEW o, op' = [op EXCEPT ![t] = o], o.pc \notin AtTheFile,
           op[t].pc # "idle" \/ t # Window \/ cacheOf(t).up, file' = file, cast' = cast,
           cache'["window"].up = cache["window"].up,
           tmp' = tmp \/ \E d \in Accounts : tmp' = [tmp EXCEPT ![d] = NoFile]
    PROVE  OneWriter'
<1> SUFFICES ASSUME Window \notin cast PROVE OneWriter'
  BY DEF OneWriter
<1>1. t # Window
  BY DEF IInv, OneWriter, cacheOf, ProcessOf
<1>2. \A u \in Threads : op'[u] = IF u = t THEN o ELSE op[u]
  BY DEF IInv, Memory
<1>3. \A a \in Accounts : tmp'[a] = tmp[a] \/ tmp'[a] = NoFile
  BY DEF IInv, Disk
<1>4. \A u \in Threads : op[u].dir \in Accounts
  BY OpsHave DEF IInv, Memory
<1>5. QED
  BY <1>1, <1>2, <1>3, <1>4, Plain, TheThreads DEF IInv, OneWriter, AtTheFile

(* So does a step of the main thread's that changes what no thread does.   *)
LEMMA Still ==
    ASSUME IInv, cast' = cast, \A t \in Threads : op'[t].pc = op[t].pc /\ op'[t].dir = op[t].dir,
           cache'["window"].up = cache["window"].up,
           \/ tmp' = tmp /\ file' = file
           \/ \E d \in Accounts : tmp' = [tmp EXCEPT ![d] = NoFile] /\ file' = [file EXCEPT ![d] = NoFile]
    PROVE  OneWriter'
<1> SUFFICES ASSUME Window \notin cast PROVE OneWriter'
  BY DEF OneWriter
<1>1. \A a \in Accounts : /\ tmp'[a] = tmp[a] \/ tmp'[a] = NoFile
                          /\ file'[a] = file[a] \/ file'[a] = NoFile
  BY DEF IInv, Disk
<1>2. \A u \in Threads : op[u].dir \in Accounts
  BY OpsHave DEF IInv, Memory
<1>3. QED
  BY <1>1, <1>2, Plain, TheThreads DEF IInv, OneWriter, AtTheFile

(* What such a step does, as a whole. *)
LEMMA Turns ==
    ASSUME IInv, NEW t \in Threads, NEW o \in Ops, Step(t, o), o.pc \notin AtTheFile,
           op[t].pc # "idle" \/ t # Window \/ cacheOf(t).up,
           file' = file, keyFile' \in [Accounts -> Nat],
           cache' \in [Processes -> Caches], cache'["window"].up = cache["window"].up,
           TheRest', cast' = cast,
           tmp' = tmp \/ \E d \in Accounts : tmp' = [tmp EXCEPT ![d] = NoFile]
    PROVE  IInv'
<1>1. Disk'
  BY Plain DEF IInv, Disk
<1>2. Memory'
  BY DEF IInv, Memory, Step
<1>3. OneWriter'
  BY Quiet DEF Step
<1>4. QED
  BY <1>1, <1>2, <1>3 DEF IInv

(* A process's cache changes, and is as much up as it was. *)
LEMMA Learns ==
    ASSUME Memory, NEW t \in Threads, NEW c \in Caches, c.up = cacheOf(t).up,
           Update(ProcessOf(t), c)
    PROVE  cache' \in [Processes -> Caches] /\ cache'["window"].up = cache["window"].up
BY TheThreads DEF Memory, Update, cacheOf, Processes

(* The daemon's settings and accounts stay as they are. *)
LEMMA RestStays == ASSUME TheRest, UNCHANGED daemonOnly PROVE TheRest' /\ cast' = cast
BY DEF TheRest, daemonOnly, history

(* Each process has a cache, and each thread does something. *)
LEMMA EachHas ==
    ASSUME Memory, NEW t \in Threads
    PROVE  cacheOf(t) \in Caches /\ op[t] \in Ops
BY TheThreads DEF Memory, cacheOf

-----------------------------------------------------------------------------
(* The threads' steps. *)

LEMMA InitHolds == Init => IInv
<1> SUFFICES ASSUME Init PROVE IInv
  OBVIOUS
<1>1. Disk
  BY Plain DEF Init, Disk
<1>2. Memory
  BY Plain DEF Init, Memory
<1>3. main \in MainState
  BY AnAccount DEF Init, Rest, MainState, MainSteps, Doors
<1>4. cast \subseteq Threads
  BY CastsAssumption DEF Init, Threads, Daemon
<1>5. TheRest
  BY <1>3, <1>4, AnAccount DEF Init, TheRest
<1>6. OneWriter
  BY Plain, TheThreads DEF Init, OneWriter, AtTheFile, Processes
<1>7. QED
  BY <1>1, <1>2, <1>5, <1>6 DEF IInv

LEMMA BeginSyncHolds == ASSUME IInv, NEW t \in Threads, BeginSync(t) PROVE IInv'
<1> DEFINE o == [Idle EXCEPT !.pc = "fetch"]
<1>1. o \in Ops /\ o.pc = "fetch"
  BY GoesOn, Plain DEF Steps
<1> HIDE DEF o
<1>2. TheRest' /\ cast' = cast
  BY RestStays DEF IInv, BeginSync
<1>3. QED
  BY <1>1, <1>2, Turns DEF BeginSync, o, disk, AtTheFile, IInv, Disk, Memory

LEMMA FetchVaultHolds == ASSUME IInv, NEW t \in Threads, FetchVault(t) PROVE IInv'
<1> DEFINE o == [op[t] EXCEPT !.pc = "land", !.vault = Answer(t)]
<1>1. Answer(t) \in Fetched
  BY EachHas, CachesHave DEF Answer, Fetched, IInv, TheRest
<1>2. o \in Ops /\ o.pc = "land"
  BY <1>1, EachHas DEF IInv, Ops, Op, Vault, Steps
<1> HIDE DEF o
<1>3. TheRest' /\ cast' = cast
  BY RestStays DEF IInv, FetchVault
<1>4. op[t].pc = "fetch" /\ Step(t, o) /\ file' = file /\ tmp' = tmp /\ keyFile' = keyFile /\ cache' = cache
  BY DEF FetchVault, o, disk
<1>5. QED
  BY <1>2, <1>3, <1>4, Turns DEF AtTheFile, IInv, Disk, Memory

(* A load that lands leaves its vault in the cache: Land and Restore.      *)
LEMMA LandedHas ==
    ASSUME Memory, NEW t \in Threads, op[t].vault \in Fetched
    PROVE  LET c == [cacheOf(t) EXCEPT !.vault = op[t].vault]
           IN  c \in Caches /\ c.up = cacheOf(t).up
BY EachHas DEF Caches, Cache, Vault

LEMMA LandHolds == ASSUME IInv, NEW t \in Threads, Land(t) PROVE IInv'
<1>1. op[t].vault \in Fetched /\ op[t].pc = "land"
  BY EachHas, OpsHave DEF Land, InHand, IInv
<1>2. TheRest' /\ cast' = cast /\ file' = file /\ tmp' = tmp /\ keyFile' = keyFile
  BY RestStays DEF IInv, Land, disk
<1>3. cache' \in [Processes -> Caches] /\ cache'["window"].up = cache["window"].up
  <2> DEFINE c == [cacheOf(t) EXCEPT !.vault = op[t].vault]
  <2>1. c \in Caches /\ c.up = cacheOf(t).up
    BY <1>1, LandedHas DEF IInv
  <2>2. Update(ProcessOf(t), c) \/ cache' = cache
    BY DEF Land
  <2> HIDE DEF c
  <2>3. QED
    BY <2>1, <2>2, Learns DEF IInv, Memory
<1> DEFINE o == [Idle EXCEPT !.pc = "flag"]
<1>4. o \in Ops /\ o.pc = "flag"
  BY GoesOn, Plain DEF Steps
<1>5. Step(t, o) \/ Step(t, Idle)
  BY DEF Land
<1> HIDE DEF o
<1>6. QED
  BY <1>1, <1>2, <1>3, <1>4, <1>5, Plain, Turns DEF AtTheFile, IInv, Disk

(* A step that changes only what its thread does. *)
LEMMA Thinks ==
    ASSUME IInv, NEW t \in Threads, NEW o \in Ops, Step(t, o), o.pc \notin AtTheFile,
           op[t].pc # "idle", UNCHANGED <<disk, cache, daemonOnly>>
    PROVE  IInv'
<1>1. TheRest' /\ cast' = cast
  BY RestStays DEF IInv
<1>2. file' = file /\ tmp' = tmp /\ keyFile' = keyFile /\ cache' = cache
  BY DEF disk
<1>3. QED
  BY <1>1, <1>2, Turns DEF IInv, Disk, Memory

LEMMA ReadStateHolds == ASSUME IInv, NEW t \in Threads, ReadState(t) PROVE IInv'
<1> DEFINE o == [op[t] EXCEPT !.pc = "clone", !.fingerprint = cacheOf(t).fingerprint]
<1>1. o \in Ops /\ o.pc = "clone"
  BY EachHas, CachesHave DEF IInv, Ops, Op, InHand, Steps
<1>2. Step(t, o) \/ Step(t, Idle)
  BY DEF ReadState
<1>3. op[t].pc = "flag" /\ UNCHANGED <<disk, cache, daemonOnly>>
  BY DEF ReadState
<1> HIDE DEF o
<1>4. QED
  BY <1>1, <1>2, <1>3, Plain, Thinks DEF AtTheFile

LEMMA CloneVaultHolds == ASSUME IInv, NEW t \in Threads, CloneVault(t) PROVE IInv'
<1> DEFINE o == [op[t] EXCEPT !.pc = "dir", !.vault = cacheOf(t).vault]
<1>1. cacheOf(t).vault # NoVault => o \in Ops /\ o.pc = "dir"
  BY EachHas, CachesHave DEF IInv, Ops, Op, InHand, Steps, Vault
<1>2. Step(t, IF cacheOf(t).vault = NoVault THEN Idle ELSE o)
  BY DEF CloneVault
<1>3. op[t].pc = "clone" /\ UNCHANGED <<disk, cache, daemonOnly>>
  BY DEF CloneVault
<1> HIDE DEF o
<1>4. QED
  BY <1>1, <1>2, <1>3, Plain, Thinks DEF AtTheFile

LEMMA ReadDirHolds == ASSUME IInv, NEW t \in Threads, ReadDir(t) PROVE IInv'
<1> DEFINE o == [op[t] EXCEPT !.pc = "key", !.dir = cacheOf(t).dir]
<1>1. o \in Ops /\ o.pc = "key"
  BY EachHas, CachesHave DEF IInv, Ops, Op, InHand, Steps, ReadDir
<1>2. Step(t, o) /\ op[t].pc = "dir" /\ UNCHANGED <<disk, cache, daemonOnly>>
  BY DEF ReadDir
<1> HIDE DEF o
<1>3. QED
  BY <1>1, <1>2, Thinks DEF AtTheFile

LEMMA FailsHolds == ASSUME IInv, NEW t \in Threads, Fails(t) PROVE IInv'
<1>1. Step(t, Idle) /\ op[t].pc # "idle" /\ UNCHANGED <<disk, cache, daemonOnly>>
  BY DEF Fails
<1>2. QED
  BY <1>1, Plain, Thinks DEF AtTheFile

(* What a thread does with its key, and the cache that keeps it.           *)
LEMMA WithKeyHas ==
    ASSUME NEW t \in Threads, op[t] \in Ops, op[t].pc \in {"key", "mint"}, NEW key \in Key
    PROVE  WithKey(t, key) \in Ops /\ WithKey(t, key).pc \notin AtTheFile
<1>1. CASE op[t].task = "write"
  <2>1. [op[t] EXCEPT !.pc = "write", !.key = key] \in Ops
    BY <1>1 DEF Ops, Op, Steps, InHand
  <2>2. WithKey(t, key) = [op[t] EXCEPT !.pc = "write", !.key = key]
    BY <1>1 DEF WithKey
  <2>3. QED
    BY <2>1, <2>2 DEF AtTheFile, Ops, Op
<1>2. CASE op[t].task = "enable"
  BY <1>2, GoesOn DEF WithKey, Steps, AtTheFile
<1>3. CASE op[t].task = "load"
  <2> DEFINE pc == IF op[t].key = key THEN "restore" ELSE "reject"
  <2>1. pc \in {"restore", "reject"}
    OBVIOUS
  <2>2. WithKey(t, key) = [op[t] EXCEPT !.pc = pc]
    BY <1>3 DEF WithKey
  <2> HIDE DEF pc
  <2>3. [op[t] EXCEPT !.pc = pc] \in Ops /\ [op[t] EXCEPT !.pc = pc].pc = pc
    BY <1>3, <2>1 DEF Ops, Op, Steps, InHand
  <2>4. QED
    BY <2>1, <2>2, <2>3 DEF AtTheFile
<1>4. QED
  BY <1>1, <1>2, <1>3 DEF Ops, Op, Tasks

LEMMA KeptKey ==
    ASSUME Memory, NEW t \in Threads, NEW key \in Key,
           Update(ProcessOf(t), [cacheOf(t) EXCEPT !.key = key])
    PROVE  cache' \in [Processes -> Caches] /\ cache'["window"].up = cache["window"].up
<1> DEFINE c == [cacheOf(t) EXCEPT !.key = key]
<1>1. c \in Caches /\ c.up = cacheOf(t).up
  BY EachHas DEF Caches, Cache
<1> HIDE DEF c
<1>2. QED
  BY <1>1, Learns DEF c

LEMMA EnsureKeyHolds == ASSUME IInv, NEW t \in Threads, EnsureKey(t) PROVE IInv'
<1>1. op[t] \in Ops /\ op[t].pc = "key" /\ op[t].dir \in Accounts /\ cacheOf(t) \in Caches
  BY EachHas, OpsHave DEF IInv, EnsureKey
<1>2. TheRest' /\ cast' = cast /\ file' = file /\ tmp' = tmp /\ keyFile' = keyFile
  BY RestStays DEF IInv, EnsureKey, disk
<1>3. CASE cacheOf(t).key # NoKey /\ Step(t, WithKey(t, cacheOf(t).key)) /\ cache' = cache
  <2>1. cacheOf(t).key \in Key
    BY <1>1, CachesHave
  <2>2. QED
    BY <1>1, <1>2, <1>3, <2>1, WithKeyHas, Turns DEF IInv, Disk, Memory
<1>4. CASE /\ Step(t, WithKey(t, Stored(op[t].dir)))
           /\ Update(ProcessOf(t), [cacheOf(t) EXCEPT !.key = Stored(op[t].dir)])
  <2>1. Stored(op[t].dir) \in Key
    BY <1>1 DEF Stored, Key, IInv, Disk
  <2>2. cache' \in [Processes -> Caches] /\ cache'["window"].up = cache["window"].up
    BY <1>4, <2>1, KeptKey DEF IInv
  <2>3. QED
    BY <1>1, <1>2, <1>4, <2>1, <2>2, WithKeyHas, Turns DEF IInv, Disk
<1>5. CASE Step(t, [op[t] EXCEPT !.pc = "mint"]) /\ cache' = cache
  <2>1. [op[t] EXCEPT !.pc = "mint"] \in Ops /\ [op[t] EXCEPT !.pc = "mint"].pc = "mint"
    BY <1>1 DEF Ops, Op, Steps, InHand
  <2>2. QED
    BY <1>1, <1>2, <1>5, <2>1, Turns DEF IInv, Disk, Memory, AtTheFile
<1>6. QED
  BY <1>3, <1>4, <1>5 DEF EnsureKey

LEMMA MintKeyHolds == ASSUME IInv, NEW t \in Threads, MintKey(t) PROVE IInv'
<1> DEFINE key == [of |-> op[t].dir, mint |-> keyFile[op[t].dir] + 1]
<1>1. op[t] \in Ops /\ op[t].pc = "mint" /\ op[t].dir \in Accounts
  BY EachHas, OpsHave DEF IInv, MintKey
<1>2. key \in Key /\ key.mint \in Nat
  BY <1>1 DEF Key, IInv, Disk
<1>3. /\ keyFile' = [keyFile EXCEPT ![op[t].dir] = key.mint]
      /\ Update(ProcessOf(t), [cacheOf(t) EXCEPT !.key = key])
      /\ Step(t, WithKey(t, key))
  BY DEF MintKey
<1> HIDE DEF key
<1>4. TheRest' /\ cast' = cast /\ file' = file /\ tmp' = tmp
  BY RestStays DEF IInv, MintKey
<1>5. keyFile' \in [Accounts -> Nat]
  BY <1>2, <1>3 DEF IInv, Disk
<1>6. cache' \in [Processes -> Caches] /\ cache'["window"].up = cache["window"].up
  BY <1>2, <1>3, KeptKey DEF IInv
<1>7. QED
  BY <1>1, <1>2, <1>3, <1>4, <1>5, <1>6, WithKeyHas, Turns DEF IInv

LEMMA RestoreHolds == ASSUME IInv, NEW t \in Threads, Restore(t) PROVE IInv'
<1>1. op[t].vault \in Fetched /\ op[t].pc = "restore"
  BY EachHas, OpsHave DEF Restore, InHand, IInv
<1>2. /\ TheRest' /\ cast' = cast /\ file' = file /\ tmp' = tmp /\ keyFile' = keyFile
      /\ Step(t, Idle)
  BY RestStays DEF IInv, Restore, disk
<1> DEFINE c == [cacheOf(t) EXCEPT !.vault = op[t].vault]
<1>3. c \in Caches /\ c.up = cacheOf(t).up
  BY <1>1, LandedHas DEF IInv
<1>4. Update(ProcessOf(t), c) \/ cache' = cache
  BY DEF Restore
<1> HIDE DEF c
<1>5. cache' \in [Processes -> Caches] /\ cache'["window"].up = cache["window"].up
  BY <1>3, <1>4, Learns DEF IInv, Memory
<1>6. QED
  BY <1>1, <1>2, <1>5, Plain, Turns DEF AtTheFile, IInv, Disk

LEMMA BeginLoadHolds == ASSUME IInv, NEW t \in Threads, BeginLoad(t) PROVE IInv'
<1>1. /\ TheRest' /\ cast' = cast /\ file' = file /\ keyFile' = keyFile /\ cache' = cache
      /\ op[t].pc = "opened"
  BY RestStays DEF IInv, BeginLoad
<1>2. keyFile' \in [Accounts -> Nat] /\ cache' \in [Processes -> Caches]
  BY <1>1 DEF IInv, Disk, Memory
<1> DEFINE c == cacheOf(t)
           f == file[c.dir]
           o == [Idle EXCEPT !.task = "load", !.fingerprint = c.fingerprint, !.dir = c.dir,
                             !.vault = f.vault, !.key = f.key]
           next(e) == IF HeaderHolds(f, c) /\ ~e THEN "key" ELSE "reject"
<1>3. c \in Caches /\ c.dir \in Accounts /\ c.fingerprint \in Accounts
  BY EachHas, CachesHave DEF IInv
<1>4. f \in File /\ f.vault \in Vault /\ f.key \in Key /\ (f.state = "whole" => f.vault \in Fetched)
  BY <1>3, WholeHas DEF IInv, Disk
<1>5. PICK e \in BOOLEAN :
        IF ~c.enabled THEN tmp' = tmp /\ Step(t, Idle)
        ELSE /\ tmp' = [tmp EXCEPT ![c.dir] = NoFile]
             /\ Step(t, IF f.state = "none" THEN Idle ELSE [o EXCEPT !.pc = next(e)])
  BY DEF BeginLoad
<1>6. [o EXCEPT !.pc = next(e)] \in Ops /\ [o EXCEPT !.pc = next(e)].pc = next(e)
  <2>1. next(e) \in {"key", "reject"} /\ (next(e) = "key" => f.state = "whole")
    BY DEF HeaderHolds
  <2> HIDE DEF next
  <2>2. o \in Op
    BY <1>3, <1>4, Plain DEF Ops, Op, Tasks
  <2>3. o.vault = f.vault /\ o.task = "load"
    BY DEF Idle
  <2> HIDE DEF o
  <2>4. QED
    BY <1>4, <2>1, <2>2, <2>3 DEF Ops, Op, InHand, Steps
<1>7. next(e) \notin AtTheFile
  BY DEF AtTheFile
<1> HIDE DEF next, o, f
<1>8. \E r \in Ops : Step(t, r) /\ r.pc \notin AtTheFile
  <2>1. CASE Step(t, Idle)
    BY <2>1, Plain DEF AtTheFile
  <2>2. CASE Step(t, [o EXCEPT !.pc = next(e)])
    BY <2>2, <1>6, <1>7
  <2>3. QED
    BY <1>5, <2>1, <2>2
<1>9. tmp' = tmp \/ \E d \in Accounts : tmp' = [tmp EXCEPT ![d] = NoFile]
  BY <1>3, <1>5
<1>10. QED
  BY <1>1, <1>2, <1>8, <1>9, Turns

(* A step at a file leaves everything but the files and itself.            *)
LEMMA AtItHas ==
    ASSUME IInv, NEW t \in Threads, op[t].pc \in {"write", "writing"}
    PROVE  /\ op[t] \in Ops /\ op[t].dir \in Accounts /\ op[t].vault \in Fetched
           /\ cacheOf(t) \in Caches /\ cacheOf(t).dir \in Accounts
BY EachHas, OpsHave, CachesHave DEF IInv, InHand

LEMMA BeginWriteHolds == ASSUME IInv, NEW t \in Threads, BeginWrite(t) PROVE IInv'
<1> DEFINE d == cacheOf(t).dir
           o == [op[t] EXCEPT !.pc = "writing", !.dir = d]
           w == [NoFile EXCEPT !.state = "writing", !.by = t]
<1>1. op[t] \in Ops /\ op[t].vault \in Fetched /\ d \in Accounts
  BY AtItHas DEF BeginWrite
<1>2. o \in Ops /\ o.pc = "writing" /\ o.dir = d
  BY <1>1 DEF Ops, Op, InHand, Steps
<1>3. w \in File /\ w.state = "writing" /\ w.by = t
  BY Plain DEF File, Whole, NoFile
<1>4. tmp' = [tmp EXCEPT ![d] = w] /\ Step(t, o)
  BY DEF BeginWrite
<1>5. op[t].pc = "write" /\ PathsFree(ProcessOf(t)) /\ file' = file /\ keyFile' = keyFile /\ cache' = cache
  BY DEF BeginWrite
<1> HIDE DEF d, o, w
<1>6. TheRest' /\ cast' = cast
  BY RestStays DEF IInv, BeginWrite
<1>7. Disk' /\ Memory'
  BY <1>2, <1>3, <1>4, <1>5 DEF IInv, Disk, Memory, Step
<1>8. OneWriter'
  <2> SUFFICES ASSUME Window \notin cast PROVE OneWriter'
    BY <1>6 DEF OneWriter
  <2>1. op[Window].pc = "idle"
    BY DEF IInv, OneWriter
  <2>2. \A u \in Threads : op[u].pc \notin AtTheFile
    BY <1>5, <2>1, TheThreads DEF PathsFree, ThreadsOf, AtTheFile, ProcessOf
  <2>3. \A u \in Threads : op'[u] = IF u = t THEN o ELSE op[u]
    BY <1>4 DEF IInv, Memory, Step
  <2>4. tmp'[d] = w
    BY <1>1, <1>4 DEF IInv, Disk, d
  <2>5. QED
    BY <1>2, <1>3, <1>5, <1>6, <2>1, <2>2, <2>3, <2>4, TheThreads DEF IInv, OneWriter, AtTheFile
<1>9. QED
  BY <1>6, <1>7, <1>8 DEF IInv

LEMMA EndWriteHolds == ASSUME IInv, NEW t \in Threads, EndWrite(t) PROVE IInv'
<1> DEFINE d == op[t].dir
           o == [Idle EXCEPT !.pc = "rename", !.dir = d]
           w == Written(t)
           mine(f) == IF f.state = "writing" /\ f.by = t THEN w ELSE f
<1>1. op[t] \in Ops /\ op[t].vault \in Fetched /\ d \in Accounts /\ op[t].pc = "writing"
  BY AtItHas DEF EndWrite
<1>2. o \in Ops /\ o.pc = "rename" /\ o.dir = d
  BY <1>1, Plain DEF Ops, Op, InHand, Steps
<1>3. w \in File /\ w.state = "whole"
  BY <1>1, OpsHave, TheThreads DEF Written, File, Whole
<1>4. tmp' = [tmp EXCEPT ![d] = mine(tmp[d])] /\ file' = [file EXCEPT ![d] = mine(file[d])]
  BY DEF EndWrite
<1>5. Step(t, o) /\ keyFile' = keyFile /\ cache' = cache
  BY DEF EndWrite
<1> HIDE DEF d, o, w
<1>6. TheRest' /\ cast' = cast
  BY RestStays DEF IInv, EndWrite
<1>7. Disk' /\ Memory'
  BY <1>1, <1>2, <1>3, <1>4, <1>5 DEF IInv, Disk, Memory, Step
<1>8. OneWriter'
  <2> SUFFICES ASSUME Window \notin cast PROVE OneWriter'
    BY <1>6 DEF OneWriter
  <2>1. t # Window
    BY <1>1 DEF IInv, OneWriter
  <2>2. \A u \in Threads : op'[u] = IF u = t THEN o ELSE op[u]
    BY <1>5 DEF IInv, Memory, Step
  <2>3. \A u \in Threads : op[u].pc \in AtTheFile => u = t
    BY <1>1 DEF IInv, OneWriter, AtTheFile
  <2>4. tmp[d].state = "none" \/ (tmp[d].state = "writing" /\ tmp[d].by = t)
    BY <1>1 DEF IInv, OneWriter, d
  <2>5. tmp'[d].state \in {"none", "whole"}
    BY <1>1, <1>3, <1>4, <2>4 DEF IInv, Disk
  <2>6. \A aa \in Accounts : file'[aa].state \in {"none", "whole"}
    BY <1>3, <1>4 DEF IInv, Disk, OneWriter
  <2>7. QED
    BY <1>2, <1>5, <1>6, <2>1, <2>2, <2>3, <2>5, <2>6, TheThreads DEF IInv, OneWriter, AtTheFile
<1>9. QED
  BY <1>6, <1>7, <1>8 DEF IInv

LEMMA RenameHolds == ASSUME IInv, NEW t \in Threads, Rename(t) PROVE IInv'
<1> DEFINE d == op[t].dir
<1>1. op[t].pc = "rename" /\ d \in Accounts /\ Step(t, Idle) /\ keyFile' = keyFile /\ cache' = cache
  BY EachHas, OpsHave DEF IInv, Rename
<1>2. /\ tmp' = [tmp EXCEPT ![d] = NoFile]
      /\ IF tmp[d].state = "none" THEN file' = file ELSE file' = [file EXCEPT ![d] = tmp[d]]
  BY DEF Rename
<1>3. TheRest' /\ cast' = cast
  BY RestStays DEF IInv, Rename
<1>4. Disk' /\ Memory'
  BY <1>1, <1>2, Plain DEF IInv, Disk, Memory, Step
<1>5. OneWriter'
  <2> SUFFICES ASSUME Window \notin cast PROVE OneWriter'
    BY <1>3 DEF OneWriter
  <2>1. t # Window /\ tmp[d].state \in {"none", "whole"}
    BY <1>1 DEF IInv, OneWriter
  <2>2. \A u \in Threads : op'[u] = IF u = t THEN Idle ELSE op[u]
    BY <1>1 DEF IInv, Memory, Step
  <2>3. \A u \in Threads : op'[u].pc \notin AtTheFile
    BY <1>1, <2>2, Plain DEF IInv, OneWriter, AtTheFile
  <2>4. \A aa \in Accounts : file'[aa].state \in {"none", "whole"}
    BY <1>1, <1>2, <2>1 DEF IInv, Disk, OneWriter
  <2>5. QED
    BY <1>1, <1>3, <2>1, <2>2, <2>3, <2>4, TheThreads DEF IInv, OneWriter, AtTheFile
<1>6. QED
  BY <1>3, <1>4, <1>5 DEF IInv

LEMMA RenameRefusedHolds == ASSUME IInv, NEW t \in Threads, RenameRefused(t) PROVE IInv'
<1>1. op[t].pc = "rename" /\ op[t].dir \in Accounts
  BY EachHas, OpsHave DEF IInv, RenameRefused
<1>2. TheRest' /\ cast' = cast
  BY RestStays DEF IInv, RenameRefused
<1>3. QED
  BY <1>1, <1>2, Plain, Turns DEF RenameRefused, AtTheFile, IInv, Disk, Memory

LEMMA RejectHolds == ASSUME IInv, NEW t \in Threads, Reject(t) PROVE IInv'
<1>1. /\ op[t].pc = "reject" /\ op[t].dir \in Accounts /\ Step(t, Idle)
      /\ file' = [file EXCEPT ![op[t].dir] = NoFile]
      /\ tmp' = tmp /\ keyFile' = keyFile /\ cache' = cache
  BY EachHas, OpsHave DEF IInv, Reject
<1>2. TheRest' /\ cast' = cast
  BY RestStays DEF IInv, Reject
<1>3. Disk' /\ Memory'
  BY <1>1, Plain DEF IInv, Disk, Memory, Step
<1>4. OneWriter'
  <2>1. \A u \in Threads : op'[u] = IF u = t THEN Idle ELSE op[u]
    BY <1>1 DEF IInv, Memory, Step
  <2>2. \A aa \in Accounts : file'[aa] = file[aa] \/ file'[aa] = NoFile
    BY <1>1 DEF IInv, Disk
  <2>3. QED
    BY <1>1, <1>2, <2>1, <2>2, Plain, TheThreads DEF IInv, OneWriter, AtTheFile
<1>5. QED
  BY <1>2, <1>3, <1>4 DEF IInv

LEMMA WorksHolds == ASSUME IInv, NEW t \in Threads, Works(t) PROVE IInv'
BY BeginSyncHolds, FetchVaultHolds, LandHolds, ReadStateHolds, CloneVaultHolds, ReadDirHolds,
   EnsureKeyHolds, MintKeyHolds, BeginWriteHolds, EndWriteHolds, RenameHolds, RenameRefusedHolds,
   FailsHolds, BeginLoadHolds, RejectHolds, RestoreHolds DEF Works

-----------------------------------------------------------------------------
(* The main thread's steps, and the window's.                              *)

(* A step that leaves each thread where it is, and what it does of a type. *)
LEMMA Stays ==
    ASSUME IInv, keyFile' = keyFile, TheRest', cast' = cast,
           cache' \in [Processes -> Caches], cache'["window"].up = cache["window"].up,
           op' \in [Threads -> Ops],
           \A t \in Threads : op'[t].pc = op[t].pc /\ op'[t].dir = op[t].dir,
           \/ tmp' = tmp /\ file' = file
           \/ \E d \in Accounts : tmp' = [tmp EXCEPT ![d] = NoFile] /\ file' = [file EXCEPT ![d] = NoFile]
    PROVE  IInv'
<1>1. Disk'
  BY Plain DEF IInv, Disk
<1>2. Memory'
  BY DEF Memory
<1>3. OneWriter'
  BY Still
<1>4. QED
  BY <1>1, <1>2, <1>3 DEF IInv

(* Where the main thread may be. *)
LEMMA MainGoes ==
    /\ Rest \in MainState
    /\ \A m \in MainState, pc \in MainSteps : [m EXCEPT !.pc = pc] \in MainState
    /\ \A a \in Accounts, pc \in MainSteps, back \in BOOLEAN, door \in Doors :
          [pc |-> pc, to |-> a, back |-> back, door |-> door] \in MainState
BY AnAccount DEF Rest, MainState, MainSteps, Doors

(* The daemon's cache changes. *)
LEMMA DaemonLearns ==
    ASSUME Memory, NEW c \in Caches, Update("daemon", c)
    PROVE  cache' \in [Processes -> Caches] /\ cache'["window"].up = cache["window"].up
BY DEF Memory, Update, Processes

(* A process starts with a cache of its own, of the active account's. *)
LEMMA StartedHas ==
    ASSUME TheRest, NEW e \in BOOLEAN
    PROVE  Started(e) \in Caches
<1>1. Down \in Caches /\ active \in Accounts
  BY Plain DEF TheRest
<1>2. QED
  BY <1>1 DEF Started, Caches, Cache

LEMMA StartsHolds == ASSUME IInv, Starts PROVE IInv'
<1> DEFINE o == [Idle EXCEPT !.pc = "opened"]
<1>1. o \in Ops /\ o.pc = "opened"
  BY GoesOn, Plain DEF Steps
<1>2. Started(setting) \in Caches /\ Update("daemon", Started(setting))
  BY StartedHas DEF IInv, TheRest, Starts
<1>3. TheRest' /\ cast' = cast
  BY MainGoes DEF IInv, TheRest, Starts, Settles, history
<1>4. Step(Main, o) /\ file' = file /\ tmp' = tmp /\ keyFile' = keyFile
  BY DEF Starts, disk
<1> HIDE DEF o
<1>5. cache' \in [Processes -> Caches] /\ cache'["window"].up = cache["window"].up
  BY <1>2, DaemonLearns DEF IInv
<1>6. Main \in Threads /\ Main # Window
  BY TheThreads, ThreadsAssumption
<1>7. QED
  BY <1>1, <1>3, <1>4, <1>5, <1>6, Turns DEF AtTheFile, IInv, Disk

(* A clear takes the snapshot, and tells the loads in flight.              *)
LEMMA ClearHas ==
    ASSUME IInv, Clear
    PROVE  /\ cache' \in [Processes -> Caches] /\ cache'["window"].up = cache["window"].up
           /\ op' \in [Threads -> Ops]
           /\ \A t \in Threads : op'[t].pc = op[t].pc /\ op'[t].dir = op[t].dir
<1> DEFINE c == [cache["daemon"] EXCEPT !.vault = NoVault]
           told(t) == [op[t] EXCEPT !.cleared = TRUE]
<1>1. cache["daemon"] \in Caches
  BY DEF IInv, Memory, Processes
<1>2. c \in Caches
  BY <1>1, Plain DEF Caches, Cache
<1>3. Update("daemon", c)
  BY DEF Clear
<1> HIDE DEF c
<1>4. cache' \in [Processes -> Caches] /\ cache'["window"].up = cache["window"].up
  BY <1>2, <1>3, DaemonLearns DEF IInv
<1>5. \A t \in Threads : op[t] \in Ops
  BY DEF IInv, Memory
<1>6. \A t \in Threads : told(t) \in Ops /\ told(t).pc = op[t].pc /\ told(t).dir = op[t].dir
  BY <1>5 DEF Ops, Op, InHand
<1>7. op' = [t \in Threads |-> IF t \in Daemon /\ op[t].pc \in {"fetch", "land"} THEN told(t) ELSE op[t]]
  BY DEF Clear
<1> HIDE DEF told
<1>8. QED
  BY <1>4, <1>5, <1>6, <1>7

LEMMA LockHolds == ASSUME IInv, Lock PROVE IInv'
<1>1. TheRest' /\ cast' = cast
  BY RestStays DEF IInv, Lock
<1>2. QED
  BY <1>1, ClearHas, Stays DEF Lock, disk

LEMMA ClearVaultHolds == ASSUME IInv, ClearVault PROVE IInv'
<1>1. TheRest' /\ cast' = cast
  BY MainGoes DEF IInv, TheRest, ClearVault, Goes, history, MainSteps
<1>2. QED
  BY <1>1, ClearHas, Stays DEF ClearVault, disk

(* A step of the main thread's that does nothing but go on. *)
LEMMA JustGoes ==
    ASSUME IInv, UNCHANGED <<disk, cache, op>>, TheRest', cast' = cast
    PROVE  IInv'
<1>1. file' = file /\ tmp' = tmp /\ keyFile' = keyFile /\ cache' = cache /\ op' = op
  BY DEF disk
<1>2. QED
  BY <1>1, Stays DEF IInv, Memory

LEMMA RepointPathsHolds ==
    ASSUME IInv, NEW to \in Accounts, NEW back \in BOOLEAN, RepointPaths(to, back)
    PROVE  IInv'
<1> DEFINE c == [cache["daemon"] EXCEPT !.fingerprint = to, !.dir = to]
<1>1. c \in Caches
  BY DEF IInv, Memory, Processes, Caches, Cache
<1>2. Update("daemon", c) /\ file' = file /\ tmp' = tmp /\ keyFile' = keyFile /\ op' = op
  BY DEF RepointPaths, disk
<1> HIDE DEF c
<1>3. TheRest' /\ cast' = cast
  BY MainGoes DEF IInv, TheRest, RepointPaths, Settles, history, MainSteps, Doors
<1>4. QED
  BY <1>1, <1>2, <1>3, DaemonLearns, Stays DEF IInv, Memory

LEMMA SwitchFromWindowHolds == ASSUME IInv, NEW to \in Accounts, SwitchFromWindow(to) PROVE IInv'
<1>1. TheRest' /\ cast' = cast
  BY MainGoes DEF IInv, TheRest, SwitchFromWindow, Settles, MainSteps, Doors
<1>2. QED
  BY <1>1, JustGoes DEF SwitchFromWindow

LEMMA RepointKeyHolds == ASSUME IInv, RepointKey PROVE IInv'
<1> DEFINE c == [cache["daemon"] EXCEPT !.key = NoKey]
<1>1. c \in Caches
  BY Plain DEF IInv, Memory, Processes, Caches, Cache
<1>2. Update("daemon", c) /\ file' = file /\ tmp' = tmp /\ keyFile' = keyFile /\ op' = op
  BY DEF RepointKey, disk
<1> HIDE DEF c
<1>3. TheRest' /\ cast' = cast
  BY MainGoes DEF IInv, TheRest, RepointKey, Goes, history, MainSteps
<1>4. QED
  BY <1>1, <1>2, <1>3, DaemonLearns, Stays DEF IInv, Memory

LEMMA ReauthenticateHolds == ASSUME IInv, Reauthenticate PROVE IInv'
<1>1. TheRest' /\ cast' = cast
  BY MainGoes DEF IInv, TheRest, Reauthenticate, Settles, history, MainSteps, Doors
<1>2. QED
  BY <1>1, JustGoes DEF Reauthenticate

LEMMA WaitEndsHolds == ASSUME IInv, WaitEnds PROVE IInv'
<1>1. TheRest' /\ cast' = cast
  BY MainGoes DEF IInv, TheRest, WaitEnds, Goes, history, MainSteps
<1>2. QED
  BY <1>1, JustGoes DEF WaitEnds

LEMMA AuthenticatedHolds == ASSUME IInv, Authenticated PROVE IInv'
<1>1. main.to \in Accounts
  BY DEF IInv, TheRest, MainState
<1>2. TheRest' /\ cast' = cast
  BY <1>1, MainGoes DEF IInv, TheRest, Authenticated, Goes, history, MainSteps
<1>3. QED
  BY <1>2, JustGoes DEF Authenticated

LEMMA DeclinedHolds == ASSUME IInv, Declined PROVE IInv'
<1>1. CASE RepointPaths(active, TRUE)
  BY <1>1, RepointPathsHolds DEF IInv, TheRest
<1> DEFINE m == [main EXCEPT !.pc = "wait", !.to = active, !.back = TRUE]
<1>2. m \in MainState
  BY DEF IInv, TheRest, MainState, MainSteps
<1> HIDE DEF m
<1>3. CASE /\ Settles(IF main.back THEN Rest ELSE m)
           /\ UNCHANGED <<disk, cache, op, active, setting, serving, history>>
  <2>1. TheRest' /\ cast' = cast
    BY <1>2, <1>3, MainGoes DEF IInv, TheRest, Settles, history
  <2>2. QED
    BY <1>3, <2>1, JustGoes
<1>4. QED
  BY <1>1, <1>3 DEF Declined, m

LEMMA SettledHolds == ASSUME IInv, Settled PROVE IInv'
<1>1. main.to \in Accounts
  BY DEF IInv, TheRest, MainState
<1>2. TheRest' /\ cast' = cast
  BY <1>1, MainGoes DEF IInv, TheRest, Settled, Settles, history
<1>3. QED
  BY <1>2, JustGoes DEF Settled

LEMMA DisableHolds == ASSUME IInv, Disable PROVE IInv'
<1> DEFINE c == [cache["daemon"] EXCEPT !.enabled = FALSE]
<1>1. c \in Caches
  BY DEF IInv, Memory, Processes, Caches, Cache
<1>2. Update("daemon", c) /\ file' = file /\ tmp' = tmp /\ keyFile' = keyFile /\ op' = op
  BY DEF Disable, disk
<1> HIDE DEF c
<1>3. TheRest' /\ cast' = cast
  BY MainGoes DEF IInv, TheRest, Disable, Goes, history, MainSteps
<1>4. QED
  BY <1>1, <1>2, <1>3, DaemonLearns, Stays DEF IInv, Memory

(* The directory of the daemon's paths, from which a copy is deleted.      *)
LEMMA TheDirectory == ASSUME Memory PROVE cache["daemon"].dir \in Accounts
BY CachesHave DEF Memory, Processes

LEMMA DeleteCopyHolds == ASSUME IInv, DeleteCopy PROVE IInv'
<1>1. \E d \in Accounts : tmp' = [tmp EXCEPT ![d] = NoFile] /\ file' = [file EXCEPT ![d] = NoFile]
  BY TheDirectory DEF IInv, DeleteCopy, Deleted
<1>2. TheRest' /\ cast' = cast
  BY MainGoes DEF IInv, TheRest, DeleteCopy, Settles, history
<1>3. QED
  BY <1>1, <1>2, Stays DEF DeleteCopy, IInv, Memory

(* A forget leaves a cache and a thread of its type. *)
LEMMA AgedHas ==
    ASSUME IInv, AgeAll
    PROVE  /\ cache' \in [Processes -> Caches] /\ cache'["window"].up = cache["window"].up
           /\ op' \in [Threads -> Ops]
           /\ \A t \in Threads : op'[t].pc = op[t].pc /\ op'[t].dir = op[t].dir
<1> DEFINE c(p) == [cache[p] EXCEPT !.vault = Aged(cache[p].vault)]
           o(t) == [op[t] EXCEPT !.vault = Aged(op[t].vault)]
<1>1. \A p \in Processes : c(p) \in Caches /\ c(p).up = cache[p].up
  <2> TAKE p \in Processes
  <2>1. cache[p] \in Caches
    BY DEF IInv, Memory
  <2>2. Aged(cache[p].vault) \in Vault
    BY <2>1, Ages, CachesHave
  <2>3. Aged(cache[p].vault) = NoVault \/ Aged(cache[p].vault) \in Fetched
    BY <2>1, Ages, CachesHave
  <2>4. QED
    BY <2>1, <2>2, <2>3 DEF Caches, Cache
<1>2. \A t \in Threads : o(t) \in Ops /\ o(t).pc = op[t].pc /\ o(t).dir = op[t].dir
  <2> TAKE t \in Threads
  <2>1. op[t] \in Ops
    BY DEF IInv, Memory
  <2>2. Aged(op[t].vault) \in Vault /\ (InHand(op[t]) => Aged(op[t].vault) \in Fetched)
    BY <2>1, Ages, OpsHave
  <2>3. QED
    BY <2>1, <2>2 DEF Ops, Op, InHand
<1>3. cache' = [p \in Processes |-> c(p)] /\ op' = [t \in Threads |-> o(t)]
  BY DEF AgeAll
<1> HIDE DEF c, o
<1>4. QED
  BY <1>1, <1>2, <1>3 DEF Processes

LEMMA ForgetCopyHolds == ASSUME IInv, ForgetCopy PROVE IInv'
<1>1. \E d \in Accounts : tmp' = [tmp EXCEPT ![d] = NoFile] /\ file' = [file EXCEPT ![d] = NoFile]
  BY TheDirectory DEF IInv, ForgetCopy, Deleted
<1>2. TheRest' /\ cast' = cast
  BY MainGoes DEF IInv, TheRest, ForgetCopy, Goes, history, MainSteps
<1>3. QED
  BY <1>1, <1>2, AgedHas, Stays DEF ForgetCopy

LEMMA EnableHolds == ASSUME IInv, Enable PROVE IInv'
<1> DEFINE o == [Idle EXCEPT !.pc = "key", !.task = "enable", !.dir = cache["daemon"].dir]
<1>1. o \in Ops /\ o.pc = "key"
  BY TheDirectory, Plain DEF IInv, Ops, Op, InHand, Steps, Tasks
<1>2. Step(Main, o) /\ file' = file /\ tmp' = tmp /\ keyFile' = keyFile /\ cache' = cache
  BY DEF Enable, disk
<1> HIDE DEF o
<1>3. TheRest' /\ cast' = cast
  BY RestStays DEF IInv, Enable
<1>4. Main \in Threads /\ Main # Window
  BY TheThreads, ThreadsAssumption
<1>5. QED
  BY <1>1, <1>2, <1>3, <1>4, Turns DEF AtTheFile, IInv, Disk, Memory

LEMMA EnabledHolds == ASSUME IInv, Enabled PROVE IInv'
<1> DEFINE o == [Idle EXCEPT !.pc = "flag"]
           c == [cache["daemon"] EXCEPT !.enabled = TRUE]
<1>1. o \in Ops /\ o.pc = "flag"
  BY GoesOn, Plain DEF Steps
<1>2. c \in Caches
  BY DEF IInv, Memory, Processes, Caches, Cache
<1>3. /\ Step(Main, o) /\ Update("daemon", c)
      /\ file' = file /\ tmp' = tmp /\ keyFile' = keyFile
  BY DEF Enabled, disk
<1> HIDE DEF o, c
<1>4. TheRest' /\ cast' = cast
  BY DEF IInv, TheRest, Enabled, history
<1>5. Main \in Threads /\ Main # Window
  BY TheThreads, ThreadsAssumption
<1>6. QED
  BY <1>1, <1>2, <1>3, <1>4, <1>5, DaemonLearns, Turns DEF AtTheFile, IInv, Disk

LEMMA WindowOpensHolds == ASSUME IInv, WindowOpens PROVE IInv'
<1> DEFINE o == [Idle EXCEPT !.pc = "opened"]
<1>1. o \in Ops
  BY GoesOn, Plain DEF Steps
<1>2. Started(setting) \in Caches /\ Update("window", Started(setting))
  BY StartedHas DEF IInv, TheRest, WindowOpens
<1>3. Step(Window, o) /\ file' = file /\ tmp' = tmp /\ keyFile' = keyFile
  BY DEF WindowOpens, disk
<1> HIDE DEF o
<1>4. TheRest' /\ cast' = cast
  BY RestStays DEF IInv, WindowOpens
<1>5. Disk' /\ Memory'
  BY <1>1, <1>2, <1>3 DEF IInv, Disk, Memory, Update, Step
<1>6. OneWriter'
  BY <1>4 DEF OneWriter, WindowOpens
<1>7. QED
  BY <1>4, <1>5, <1>6 DEF IInv

LEMMA OpensLocalCopyHolds == ASSUME IInv, OpensLocalCopy PROVE IInv'
<1> DEFINE o == [Idle EXCEPT !.pc = "opened"]
<1>1. o \in Ops /\ o.pc = "opened"
  BY GoesOn, Plain DEF Steps
<1>2. Step(Window, o) /\ file' = file /\ tmp' = tmp /\ keyFile' = keyFile /\ cache' = cache
  BY DEF OpensLocalCopy, disk
<1> HIDE DEF o
<1>3. TheRest' /\ cast' = cast
  BY RestStays DEF IInv, OpensLocalCopy
<1>4. Window \in Threads /\ cacheOf(Window).up
  BY TheThreads DEF OpensLocalCopy, cacheOf, ProcessOf
<1>5. QED
  BY <1>1, <1>2, <1>3, <1>4, Turns DEF AtTheFile, IInv, Disk, Memory

(* A process that ends leaves no thread of its own at a file, and tears    *)
(* only what one of them was writing.                                      *)
LEMMA EndsHas ==
    ASSUME IInv, NEW p \in Processes, Ends(p), cast' = cast
    PROVE  Disk' /\ Memory' /\ OneWriter'
<1>1. \A f \in File : CutShort(p, f) \in File
  BY TornFile DEF CutShort
<1>2. Disk'
  BY <1>1 DEF Ends, IInv, Disk
<1>3. Memory'
  BY Plain DEF Ends, IInv, Memory, Update
<1>4. OneWriter'
  <2> SUFFICES ASSUME Window \notin cast PROVE OneWriter'
    BY DEF OneWriter
  <2>1. \A t \in Threads : op'[t] = Idle \/ op'[t] = op[t]
    BY DEF Ends
  <2>2. \A aa \in Accounts : file'[aa] = file[aa]
    BY DEF Ends, CutShort, IInv, OneWriter
  <2>3. op'[Window].pc = "idle" /\ ~cache'["window"].up
    BY <2>1, Plain, TheThreads DEF Ends, Update, IInv, OneWriter, Memory, Processes
  <2>4. CASE p = "window"
    <3>1. \A t \in Threads : op'[t].pc # "idle" => t # Window /\ op'[t] = op[t]
      BY <2>1, <2>3, Plain
    <3>2. ThreadsOf(p) = {Window}
      BY <2>4, TheThreads DEF ThreadsOf
    <3>3. \A aa \in Accounts, t \in Threads :
             tmp[aa].state = "none" \/ tmp[aa].state = "whole" \/ (t # Window /\ tmp[aa].by = t)
                => tmp'[aa] = tmp[aa]
      BY <3>2 DEF Ends, CutShort
    <3>4. \A t \in Threads : op[t].dir \in Accounts
      BY OpsHave DEF IInv, Memory
    <3>5. QED
      BY <2>2, <2>3, <3>1, <3>3, <3>4 DEF IInv, OneWriter, AtTheFile
  <2>5. CASE p = "daemon"
    <3>1. \A t \in Threads : op'[t].pc = "idle"
      BY <2>3, <2>5, Plain, TheThreads DEF Ends, Processes
    <3>2. QED
      BY <2>2, <2>3, <3>1 DEF IInv, OneWriter, AtTheFile
  <2>6. QED
    BY <2>4, <2>5 DEF Processes
<1>5. QED
  BY <1>2, <1>3, <1>4

LEMMA DaemonEndsHolds == ASSUME IInv, DaemonEnds PROVE IInv'
<1>1. [Rest EXCEPT !.pc = "off"] \in MainState
  BY MainGoes DEF MainSteps
<1>2. TheRest' /\ cast' = cast
  BY <1>1 DEF IInv, TheRest, DaemonEnds, Settles, history
<1>3. QED
  BY <1>2, EndsHas DEF DaemonEnds, IInv, Processes

LEMMA WindowEndsHolds == ASSUME IInv, WindowEnds PROVE IInv'
<1>1. TheRest' /\ cast' = cast
  BY RestStays DEF IInv, WindowEnds
<1>2. QED
  BY <1>1, EndsHas DEF WindowEnds, IInv, Processes

-----------------------------------------------------------------------------
LEMMA NextHolds == ASSUME IInv, Next PROVE IInv'
<1>1. CASE \E t \in Threads : Works(t)
  BY <1>1, WorksHolds
<1>2. CASE \E to \in Accounts : BeginSwitch(to) \/ SwitchFromWindow(to)
  BY <1>2, RepointPathsHolds, SwitchFromWindowHolds DEF BeginSwitch
<1>3. CASE Starts \/ DaemonEnds \/ Lock \/ Reauthenticate \/ RepointKey \/ WaitEnds \/ ClearVault
  BY <1>3, StartsHolds, DaemonEndsHolds, LockHolds, ReauthenticateHolds, RepointKeyHolds,
     WaitEndsHolds, ClearVaultHolds
<1>4. CASE ForgetCopy \/ Authenticated \/ Declined \/ Settled \/ Disable \/ DeleteCopy
  BY <1>4, ForgetCopyHolds, AuthenticatedHolds, DeclinedHolds, SettledHolds, DisableHolds,
     DeleteCopyHolds
<1>5. CASE Enable \/ Enabled \/ WindowOpens \/ OpensLocalCopy \/ WindowEnds
  BY <1>5, EnableHolds, EnabledHolds, WindowOpensHolds, OpensLocalCopyHolds, WindowEndsHolds
<1>6. QED
  BY <1>1, <1>2, <1>3, <1>4, <1>5 DEF Next

LEMMA StutterHolds == ASSUME IInv, UNCHANGED vars PROVE IInv'
<1>1. /\ file' = file /\ tmp' = tmp /\ keyFile' = keyFile /\ cache' = cache /\ op' = op
      /\ TheRest' /\ cast' = cast
  BY DEF vars, IInv, TheRest
<1>2. QED
  BY <1>1, Stays DEF IInv, Memory

LEMMA Inductive == Spec => []IInv
<1>1. Init => IInv
  BY InitHolds
<1>2. IInv /\ [Next]_vars => IInv'
  BY NextHolds, StutterHolds
<1>3. QED
  BY <1>1, <1>2, PTL DEF Spec

(* Every variable keeps its type, whichever accounts and threads there     *)
(* are: what a thread has in hand is a vault when it writes or lands one.  *)
THEOREM TypeCorrect == Spec => []TypeOK
<1>1. IInv => TypeOK
  <2> SUFFICES ASSUME IInv PROVE TypeOK
    OBVIOUS
  <2>1. cache \in [Processes -> Cache] /\ op \in [Threads -> Op]
    BY DEF IInv, Memory, Caches, Ops
  <2>2. QED
    BY <2>1 DEF IInv, Disk, TheRest, TypeOK
<1>2. QED
  BY <1>1, Inductive, PTL

(* While one process writes, a copy is the old one or the new one, with a  *)
(* crash at any step (DiskCache::write): for any number of threads that    *)
(* synchronise, for the paths' lock is held from the write to the rename.  *)
THEOREM WholeCopiesAlways == Spec => []WholeCopies
<1>1. IInv => WholeCopies
  BY DEF IInv, OneWriter, WholeCopies
<1>2. QED
  BY <1>1, Inductive, PTL

-----------------------------------------------------------------------------
(* Whose vault a copy holds, and how old it is.                            *)

(* A vault is an account's, if there is one. *)
Own(v, a) == v # NoVault => v.of = a

(* The account the daemon's session is on, and the one its paths name:     *)
(* they differ until the password of a switch is accepted.                 *)
Home == IF main.pc = "populate" THEN main.to ELSE active
There == IF main.pc \in {"idle", "off", "delete"} THEN active ELSE main.to
For(t) == IF t = Window THEN cache["window"].dir ELSE Home
Where(t) == IF t = Window THEN cache["window"].dir ELSE There

(* A thread has a vault of its session's account in hand, except to reject *)
(* it; a window's may hold what it loads, which it never writes.  The      *)
(* directory of a write is that of the paths, whose lock it holds.         *)
Writing == {"fetch", "land", "flag", "clone", "dir", "write", "writing", "rename"}
Fits(t, o) ==
    /\ o.pc \in Writing => o.task = "write"
    /\ o.pc = "idle" => o.vault = NoVault
    /\ t \in Workers => o.pc # "opened"
    /\ ~astray => /\ o.task = "write" \/ (t # Window /\ o.pc # "reject") => Own(o.vault, For(t))
                  /\ o.pc \in AtTheFile => o.dir = Where(t)
                  /\ t = Window /\ o.pc \in {"flag", "clone"} => Own(cache["window"].vault, For(t))
    /\ Window \notin cast /\ t # Window => o.vault.age # "old"
EachFits == \A t \in Threads : Fits(t, op[t])

(* Nothing is in flight from the clear of a switch to its end, and nothing *)
(* is held from the clear until the vault is fetched again.                *)
Settling ==
    /\ main.pc \in {"off", "clear", "forget", "authenticate", "populate"} =>
          \A t \in Workers : op[t].pc = "idle"
    /\ main.pc \notin {"idle", "populate"} => op[Main].pc = "idle"
    /\ main.pc \in {"forget", "authenticate"} => cache["daemon"].vault = NoVault

Session ==
    /\ ~astray => /\ main.door = "tray" /\ (main.back => main.to = active)
                  /\ main.pc # "off" =>
                        /\ cache["daemon"].fingerprint = There /\ cache["daemon"].dir = There
                        /\ serving.live => serving.of = Home
                  /\ Own(cache["daemon"].vault, Home)
    /\ Window \notin cast => cache["daemon"].vault.age # "old"

(* A copy with its directory's account on it holds that account's vault:   *)
(* in the active account's directory, and from the forget on in that of    *)
(* the account to come.                                                    *)
RightIn(d) ==
    \A f \in {file[d], tmp[d]} : f.state = "whole" /\ f.owner = d => f.vault.of = d
Copies ==
    /\ ~astray => /\ RightIn(active)
                  /\ main.pc \in {"authenticate", "populate"} => RightIn(main.to)
    /\ Window \notin cast =>
          \A d \in Accounts : file[d].vault.age # "old" /\ tmp[d].vault.age # "old"

Owned == EachFits /\ Settling /\ Session /\ Copies

(* There is nothing old about no vault, and a forget changes no owner. *)
LEMMA OwnHas ==
    /\ NoVault.age # "old" /\ Aged(NoVault) = NoVault
    /\ \A a \in Accounts : Own(NoVault, a)
    /\ \A a \in Accounts, v \in Vault : Own(v, a) => Own(Aged(v), a)
BY DEF NoVault, Aged, Own, Vault, Fetched

(* With no window, its thread does nothing. *)
LEMMA NoWindow ==
    ASSUME IInv, NEW t \in Threads, op[t].pc # "idle"
    PROVE  t = Window => Window \in cast
BY DEF IInv, OneWriter

(* The accounts the definitions above name. *)
LEMMA TheAccounts ==
    ASSUME IInv
    PROVE  /\ active \in Accounts /\ main.to \in Accounts /\ Home \in Accounts /\ There \in Accounts
           /\ \A t \in Threads : For(t) \in Accounts /\ Where(t) \in Accounts
           /\ \A p \in Processes : cache[p].dir \in Accounts /\ cache[p] \in Caches
<1>1. active \in Accounts /\ main.to \in Accounts
  BY DEF IInv, TheRest, MainState
<1>2. \A p \in Processes : cache[p].dir \in Accounts /\ cache[p] \in Caches
  BY CachesHave DEF IInv, Memory
<1>3. QED
  BY <1>1, <1>2 DEF Home, There, For, Where, Processes

(* What a thread at rest has, it may have. *)
LEMMA FitsIdle == ASSUME IInv, NEW t \in Threads PROVE Fits(t, Idle)
<1>1. Idle.pc = "idle" /\ Idle.vault = NoVault /\ Idle.task = "write"
  BY DEF Idle
<1>2. Own(NoVault, For(t)) /\ NoVault.age # "old"
  BY OwnHas, TheAccounts
<1>3. QED
  BY <1>1, <1>2 DEF Fits, AtTheFile, Writing

(* A copy that was there stays, moves from the temporary file, is deleted  *)
(* or torn: what is in a directory is as right as it was.                  *)
LEMMA CopiesStay ==
    ASSUME IInv, Copies, active' = active, cast' = cast, ~astray' => ~astray,
           \A d \in Accounts : \A f \in {file'[d], tmp'[d]} :
               f \in {file[d], tmp[d]} \/ (f.state # "whole" /\ f.vault = NoVault),
           main'.pc \in {"authenticate", "populate"} =>
               main.pc \in {"authenticate", "populate"} /\ main'.to = main.to
    PROVE  Copies'
<1>1. \A d \in Accounts : RightIn(d) => RightIn(d)'
  BY DEF RightIn
<1>2. active \in Accounts /\ main.to \in Accounts
  BY TheAccounts
<1>3. ASSUME Window \notin cast, NEW d \in Accounts
      PROVE  file'[d].vault.age # "old" /\ tmp'[d].vault.age # "old"
  BY <1>3, OwnHas DEF Copies
<1>4. ASSUME ~astray' PROVE RightIn(active)'
  BY <1>1, <1>2, <1>4 DEF Copies
<1>5. ASSUME ~astray', main'.pc \in {"authenticate", "populate"} PROVE RightIn(main.to)'
  BY <1>1, <1>2, <1>5 DEF Copies
<1>6. QED
  BY <1>3, <1>4, <1>5 DEF Copies

(* A step of a thread that leaves the snapshots be, or puts into its own   *)
(* process's one the account's own.                                        *)
LEMMA OthersFit ==
    ASSUME IInv, Owned, NEW t \in Threads, \A u \in Threads : u # t => op'[u] = op[u],
           UNCHANGED <<main, active, serving, history>>,
           \A p \in Processes : cache'[p].dir = cache[p].dir,
           t # Window => cache'["window"] = cache["window"],
           Fits(t, op[t])'
    PROVE  EachFits'
<1>1. UNCHANGED <<main, active, astray, cast>>
  BY DEF history
<1>2. Home' = Home /\ There' = There
  BY <1>1 DEF Home, There
<1> SUFFICES ASSUME NEW u \in Threads, u # t PROVE Fits(u, op[u])'
  BY DEF EachFits
<1>3. op'[u] = op[u] /\ Fits(u, op[u])
  BY DEF Owned, EachFits
<1>4. For(u)' = For(u) /\ Where(u)' = Where(u)
  BY <1>2 DEF For, Where, Processes
<1>5. u = Window => cache'["window"].vault = cache["window"].vault
  OBVIOUS
<1>6. QED
  BY <1>1, <1>3, <1>4, <1>5 DEF Fits

LEMMA OwnedStep ==
    ASSUME IInv, Owned, NEW t \in Threads, \A u \in Threads : u # t => op'[u] = op[u],
           UNCHANGED <<main, active, serving, history>>,
           \/ op[t].pc # "idle" \/ t = Window
           \/ (t = Main /\ main.pc \in {"idle", "populate"}) \/ (t # Main /\ main.pc = "idle"),
           \A p \in Processes : /\ cache'[p].dir = cache[p].dir
                                /\ cache'[p].fingerprint = cache[p].fingerprint,
           t # Window => cache'["window"] = cache["window"],
           \/ cache'["daemon"].vault = cache["daemon"].vault
           \/ /\ op[t].pc # "idle" /\ t # Window
              /\ ~astray => Own(cache'["daemon"].vault, Home)
              /\ Window \notin cast => cache'["daemon"].vault.age # "old",
           Fits(t, op[t])', Copies'
    PROVE  Owned'
<1>1. UNCHANGED <<main, active, serving, astray, cast>>
  BY DEF history
<1>2. Home' = Home /\ There' = There
  BY <1>1 DEF Home, There
<1>3. EachFits'
  BY OthersFit
<1>4. Settling'
  <2>1. t \in Workers /\ main.pc \in {"off", "clear", "forget", "authenticate", "populate"} => FALSE
    BY ThreadsAssumption DEF Owned, Settling
  <2>2. t = Main => main.pc \in {"idle", "populate"}
    BY ThreadsAssumption DEF Owned, Settling
  <2>3. \A u \in Workers : u \in Threads
    BY DEF Threads, Daemon
  <2>4. main.pc \in {"forget", "authenticate"} => cache'["daemon"].vault = cache["daemon"].vault
    BY <2>1, <2>2 DEF Threads, Daemon
  <2>5. QED
    BY <1>1, <2>1, <2>2, <2>3, <2>4, TheThreads DEF Owned, Settling
<1>5. Session'
  <2>1. /\ cache'["daemon"].fingerprint = cache["daemon"].fingerprint
        /\ cache'["daemon"].dir = cache["daemon"].dir
    BY DEF Processes
  <2>2. ~astray => Own(cache'["daemon"].vault, Home)
    BY DEF Owned, Session
  <2>3. Window \notin cast => cache'["daemon"].vault.age # "old"
    BY DEF Owned, Session
  <2>4. ~astray => Own(cache["daemon"].vault, Home)'
    BY <1>2, <2>2 DEF Own
  <2>5. QED
    BY <1>1, <1>2, <2>1, <2>3, <2>4 DEF Owned, Session
<1>6. QED
  BY <1>3, <1>4, <1>5 DEF Owned

(* A thread goes on, and no snapshot changes. *)
LEMMA OwnedThinks ==
    ASSUME IInv, Owned, NEW t \in Threads, NEW o, Step(t, o), Fits(t, o),
           UNCHANGED <<main, active, serving, history>>,
           \/ op[t].pc # "idle" \/ t = Window
           \/ (t = Main /\ main.pc \in {"idle", "populate"}) \/ (t # Main /\ main.pc = "idle"),
           \A p \in Processes : /\ cache'[p].dir = cache[p].dir /\ cache'[p].vault = cache[p].vault
                                /\ cache'[p].fingerprint = cache[p].fingerprint,
           t # Window => cache'["window"] = cache["window"],
           Copies'
    PROVE  Owned'
<1>1. \A u \in Threads : op'[u] = IF u = t THEN o ELSE op[u]
  BY DEF IInv, Memory, Step
<1>2. UNCHANGED <<main, active, astray, cast>>
  BY DEF history
<1>3. Home' = Home /\ There' = There
  BY <1>2 DEF Home, There
<1>4. For(t)' = For(t) /\ Where(t)' = Where(t)
  BY <1>3 DEF For, Where, Processes
<1>5. op'[t] = o /\ cache'["window"].vault = cache["window"].vault
  BY <1>1 DEF Processes
<1>6. Fits(t, op[t])'
  BY <1>2, <1>4, <1>5 DEF Fits
<1>7. cache'["daemon"].vault = cache["daemon"].vault
  BY DEF Processes
<1>8. QED
  BY <1>1, <1>6, <1>7, OwnedStep

(* Nothing but what the thread does changes. *)
LEMMA OwnedMuses ==
    ASSUME IInv, Owned, NEW t \in Threads, NEW o, Step(t, o), Fits(t, o),
           UNCHANGED <<disk, cache, daemonOnly>>,
           \/ op[t].pc # "idle" \/ t = Window
           \/ (t = Main /\ main.pc \in {"idle", "populate"}) \/ (t # Main /\ main.pc = "idle")
    PROVE  Owned'
<1>1. Copies'
  BY CopiesStay DEF Owned, disk, daemonOnly, history
<1>2. QED
  BY <1>1, OwnedThinks DEF daemonOnly

(* What a thread that has work has in hand. *)
LEMMA FitsHas == ASSUME IInv, Owned, NEW t \in Threads PROVE Fits(t, op[t]) /\ op[t] \in Ops
BY DEF Owned, EachFits, IInv, Memory

LEMMA BeginSyncOwned == ASSUME IInv, Owned, NEW t \in Threads, BeginSync(t) PROVE Owned'
<1> DEFINE o == [Idle EXCEPT !.pc = "fetch"]
<1>1. o.pc = "fetch" /\ o.vault = NoVault /\ o.task = "write"
  BY DEF Idle
<1>2. Step(t, o) /\ UNCHANGED <<disk, cache, daemonOnly>>
  BY DEF BeginSync, o
<1>3. t = Window \/ (t = Main /\ main.pc \in {"idle", "populate"}) \/ (t # Main /\ main.pc = "idle")
  <2>1. (t = Main => main.pc = "populate") /\ (t \in Workers => main.pc = "idle")
    BY DEF BeginSync
  <2>2. t \in Workers \/ t = Main \/ t = Window
    BY DEF Threads, Daemon
  <2>3. QED
    BY <2>1, <2>2, ThreadsAssumption
<1> HIDE DEF o
<1>4. Fits(t, o)
  BY <1>1, OwnHas, TheAccounts DEF Fits, AtTheFile
<1>5. QED
  BY <1>2, <1>3, <1>4, OwnedMuses

LEMMA FetchVaultOwned == ASSUME IInv, Owned, NEW t \in Threads, FetchVault(t) PROVE Owned'
<1> DEFINE o == [op[t] EXCEPT !.pc = "land", !.vault = Answer(t)]
<1>1. o.pc = "land" /\ o.vault = Answer(t) /\ o.task = op[t].task
  BY FitsHas DEF Ops, Op
<1>2. Step(t, o) /\ op[t].pc = "fetch" /\ UNCHANGED <<disk, cache, daemonOnly>>
  BY DEF FetchVault, o
<1> HIDE DEF o
<1>3. ASSUME ~astray PROVE Own(Answer(t), For(t))
  <2>1. CASE t = Window
    BY <2>1 DEF Answer, For, Own, cacheOf, ProcessOf
  <2>2. CASE t # Window
    <3>1. main.pc # "off"
      BY <1>2, <2>2, ThreadsAssumption DEF Owned, Settling, Threads, Daemon
    <3>2. serving.live
      BY <2>2 DEF FetchVault
    <3>3. serving.of = Home
      BY <1>3, <3>1, <3>2 DEF Owned, Session
    <3>4. QED
      BY <2>2, <3>3 DEF Answer, For, Own
  <2>3. QED
    BY <2>1, <2>2
<1>4. Answer(t).age # "old"
  BY DEF Answer
<1>5. Fits(t, o)
  BY <1>1, <1>2, <1>3, <1>4, FitsHas DEF Fits, AtTheFile, Writing
<1>6. QED
  BY <1>2, <1>5, OwnedMuses

(* A thread goes on with what it has in hand, to a step at which it is not *)
(* yet at a file.                                                          *)
LEMMA FitsOn ==
    ASSUME IInv, Owned, NEW t \in Threads, NEW o, o.vault = op[t].vault, o.task = op[t].task,
           op[t].pc \notin {"idle", "reject"},
           o.pc \in {"clone", "dir", "key", "mint", "write", "restore", "reject", "enable"},
           o.pc \in Writing => o.task = "write",
           t = Window /\ o.pc = "clone" => op[t].pc = "flag"
    PROVE  Fits(t, o)
BY FitsHas DEF Fits, AtTheFile, Writing

(* What lands in a snapshot is the session's own: Land and Restore.        *)
LEMMA LandedOwned ==
    ASSUME IInv, Owned, NEW t \in Threads, op[t].pc \in {"land", "restore"},
           Update(ProcessOf(t), [cacheOf(t) EXCEPT !.vault = op[t].vault])
    PROVE  /\ \A p \in Processes : /\ cache'[p].dir = cache[p].dir
                                   /\ cache'[p].fingerprint = cache[p].fingerprint
           /\ t # Window => /\ cache'["window"] = cache["window"]
                            /\ ~astray => Own(cache'["daemon"].vault, Home)
                            /\ Window \notin cast => cache'["daemon"].vault.age # "old"
           /\ t = Window => /\ cache'["daemon"] = cache["daemon"]
                            /\ cache'["window"].vault = op[t].vault
<1> DEFINE c == [cacheOf(t) EXCEPT !.vault = op[t].vault]
<1>1. cacheOf(t) = cache[ProcessOf(t)] /\ cacheOf(t) \in Caches /\ ProcessOf(t) \in Processes
  BY EachHas, TheThreads DEF IInv, cacheOf
<1>2. c.dir = cacheOf(t).dir /\ c.fingerprint = cacheOf(t).fingerprint /\ c.vault = op[t].vault
  BY <1>1 DEF Caches, Cache
<1>3. cache' = [cache EXCEPT ![ProcessOf(t)] = c]
  BY DEF Update
<1> HIDE DEF c
<1>4. \A p \in Processes : cache'[p] = IF p = ProcessOf(t) THEN c ELSE cache[p]
  BY <1>3 DEF IInv, Memory
<1>5. ProcessOf(t) = IF t = Window THEN "window" ELSE "daemon"
  BY DEF ProcessOf
<1>6. t # Window => (~astray => Own(op[t].vault, Home)) /\ (Window \notin cast => op[t].vault.age # "old")
  BY FitsHas DEF Fits, For
<1>7. "daemon" \in Processes /\ "window" \in Processes
  BY DEF Processes
<1>8. QED
  BY <1>1, <1>2, <1>4, <1>5, <1>6, <1>7

LEMMA LandOwned == ASSUME IInv, Owned, NEW t \in Threads, Land(t) PROVE Owned'
<1> DEFINE c == [cacheOf(t) EXCEPT !.vault = op[t].vault]
           o == [Idle EXCEPT !.pc = "flag"]
<1>1. op[t].pc = "land" /\ UNCHANGED <<disk, daemonOnly>>
  BY DEF Land
<1>2. o.pc = "flag" /\ o.vault = NoVault /\ o.task = "write"
  BY DEF Idle
<1>3. CASE cache' = cache /\ Step(t, Idle)
  BY <1>1, <1>3, FitsIdle, OwnedMuses
<1>4. CASE Update(ProcessOf(t), c) /\ Step(t, o)
  <2> HIDE DEF o
  <2>1. UNCHANGED <<main, active, astray, cast>>
    BY <1>1 DEF daemonOnly, history
  <2>2. Copies'
    BY <1>1, <2>1, CopiesStay DEF Owned, disk
  <2>3. \A u \in Threads : op'[u] = IF u = t THEN o ELSE op[u]
    BY <1>4 DEF IInv, Memory, Step
  <2>4. For(t)' = For(t)
    BY <1>1, <1>4, <2>1, LandedOwned DEF For, Home, Processes
  <2>5. t = Window /\ ~astray => Own(cache["window"].vault, For(t))'
    <3>1. SUFFICES ASSUME t = Window, ~astray PROVE Own(cache["window"].vault, For(t))'
      OBVIOUS
    <3>2. Own(op[t].vault, For(t))
      BY <1>1, <3>1, FitsHas DEF Fits, Writing
    <3>3. cache'["window"].vault = op[t].vault
      BY <1>1, <1>4, <3>1, LandedOwned
    <3>4. QED
      BY <2>4, <3>2, <3>3 DEF Own
  <2>6. Own(NoVault, For(t)) /\ NoVault.age # "old"
    BY OwnHas, TheAccounts
  <2>7. Fits(t, op[t])'
    <3>1. op'[t] = o
      BY <2>3
    <3>2. Own(NoVault, For(t))'
      BY <2>4, <2>6 DEF Own
    <3>3. QED
      BY <1>2, <2>1, <2>5, <2>6, <3>1, <3>2 DEF Fits, AtTheFile, Writing
  <2>8. QED
    BY <1>1, <1>4, <2>2, <2>3, <2>7, LandedOwned, OwnedStep DEF daemonOnly
<1>5. QED
  BY <1>3, <1>4 DEF Land

LEMMA RestoreOwned == ASSUME IInv, Owned, NEW t \in Threads, Restore(t) PROVE Owned'
<1> DEFINE c == [cacheOf(t) EXCEPT !.vault = op[t].vault]
<1>1. op[t].pc = "restore" /\ UNCHANGED <<disk, daemonOnly>> /\ Step(t, Idle)
  BY DEF Restore
<1>2. CASE cache' = cache
  BY <1>1, <1>2, FitsIdle, OwnedMuses
<1>3. CASE Update(ProcessOf(t), c)
  <2>1. UNCHANGED <<main, active, astray, cast>>
    BY <1>1 DEF daemonOnly, history
  <2>2. Copies'
    BY <1>1, <2>1, CopiesStay DEF Owned, disk
  <2>3. \A u \in Threads : op'[u] = IF u = t THEN Idle ELSE op[u]
    BY <1>1 DEF IInv, Memory, Step
  <2>4. For(t)' = For(t)
    BY <1>1, <1>3, <2>1, LandedOwned DEF For, Home, Processes
  <2>5. Own(NoVault, For(t))' /\ NoVault.age # "old"
    BY <2>4, OwnHas, TheAccounts DEF Own
  <2>6. Fits(t, op[t])'
    <3>1. op'[t] = Idle /\ Idle.pc = "idle" /\ Idle.vault = NoVault
      BY <2>3 DEF Idle
    <3>2. QED
      BY <2>1, <2>5, <3>1 DEF Fits, AtTheFile, Writing
  <2>7. QED
    BY <1>1, <1>3, <2>2, <2>3, <2>6, LandedOwned, OwnedStep DEF daemonOnly
<1>4. QED
  BY <1>2, <1>3 DEF Restore

LEMMA ReadStateOwned == ASSUME IInv, Owned, NEW t \in Threads, ReadState(t) PROVE Owned'
<1> DEFINE o == [op[t] EXCEPT !.pc = "clone", !.fingerprint = cacheOf(t).fingerprint]
<1>1. o.pc = "clone" /\ o.vault = op[t].vault /\ o.task = op[t].task
  BY FitsHas DEF Ops, Op
<1>2. op[t].pc = "flag" /\ UNCHANGED <<disk, cache, daemonOnly>> /\ (Step(t, o) \/ Step(t, Idle))
  BY DEF ReadState
<1> HIDE DEF o
<1>3. Fits(t, o)
  BY <1>1, <1>2, FitsHas, FitsOn DEF Fits, Writing
<1>4. QED
  BY <1>2, <1>3, FitsIdle, OwnedMuses

LEMMA CloneVaultOwned == ASSUME IInv, Owned, NEW t \in Threads, CloneVault(t) PROVE Owned'
<1> DEFINE o == [op[t] EXCEPT !.pc = "dir", !.vault = cacheOf(t).vault]
<1>1. o.pc = "dir" /\ o.vault = cacheOf(t).vault /\ o.task = op[t].task
  BY FitsHas DEF Ops, Op
<1>2. op[t].pc = "clone" /\ UNCHANGED <<disk, cache, daemonOnly>> /\ (Step(t, o) \/ Step(t, Idle))
  BY DEF CloneVault
<1> HIDE DEF o
<1>3. ~astray => Own(cacheOf(t).vault, For(t))
  BY <1>2, FitsHas DEF Owned, Session, Fits, For, cacheOf, ProcessOf
<1>4. Window \notin cast /\ t # Window => cacheOf(t).vault.age # "old"
  BY DEF Owned, Session, cacheOf, ProcessOf
<1>5. Fits(t, o)
  BY <1>1, <1>2, <1>3, <1>4, FitsHas DEF Fits, AtTheFile, Writing
<1>6. QED
  BY <1>2, <1>5, FitsIdle, OwnedMuses

LEMMA ReadDirOwned == ASSUME IInv, Owned, NEW t \in Threads, ReadDir(t) PROVE Owned'
<1> DEFINE o == [op[t] EXCEPT !.pc = "key", !.dir = cacheOf(t).dir]
<1>1. o.pc = "key" /\ o.vault = op[t].vault /\ o.task = op[t].task
  BY FitsHas DEF Ops, Op
<1>2. op[t].pc = "dir" /\ UNCHANGED <<disk, cache, daemonOnly>> /\ Step(t, o)
  BY DEF ReadDir
<1> HIDE DEF o
<1>3. Fits(t, o)
  BY <1>1, <1>2, FitsOn DEF Writing
<1>4. QED
  BY <1>2, <1>3, OwnedMuses

LEMMA FailsOwned == ASSUME IInv, Owned, NEW t \in Threads, Fails(t) PROVE Owned'
BY FitsIdle, OwnedMuses DEF Fails

(* With its key a thread goes on. *)
LEMMA WithKeyFits ==
    ASSUME IInv, Owned, NEW t \in Threads, op[t].pc \in {"key", "mint"}, NEW key
    PROVE  Fits(t, WithKey(t, key))
<1>1. op[t] \in Op /\ op[t].task \in Tasks
  BY FitsHas, OpsHave DEF Ops
<1>2. CASE op[t].task = "write"
  <2> DEFINE o == [op[t] EXCEPT !.pc = "write", !.key = key]
  <2>1. WithKey(t, key) = o
    BY <1>2 DEF WithKey
  <2>2. o.pc = "write" /\ o.vault = op[t].vault /\ o.task = op[t].task
    BY <1>1 DEF Op
  <2> HIDE DEF o
  <2>3. QED
    BY <1>2, <2>1, <2>2, FitsOn
<1>3. CASE op[t].task = "enable"
  <2> DEFINE o == [op[t] EXCEPT !.pc = "enable"]
  <2>1. WithKey(t, key) = o
    BY <1>3 DEF WithKey
  <2>2. o.pc = "enable" /\ o.vault = op[t].vault /\ o.task = op[t].task
    BY <1>1 DEF Op
  <2> HIDE DEF o
  <2>3. QED
    BY <2>1, <2>2, FitsOn DEF Writing
<1>4. CASE op[t].task = "load"
  <2> DEFINE pc == IF op[t].key = key THEN "restore" ELSE "reject"
             o == [op[t] EXCEPT !.pc = pc]
  <2>1. WithKey(t, key) = o
    BY <1>4 DEF WithKey
  <2>2. pc \in {"restore", "reject"}
    OBVIOUS
  <2> HIDE DEF pc
  <2>3. o.pc = pc /\ o.vault = op[t].vault /\ o.task = op[t].task
    BY <1>1 DEF Op
  <2> HIDE DEF o
  <2>4. QED
    BY <2>1, <2>2, <2>3, FitsOn DEF Writing
<1>5. QED
  BY <1>1, <1>2, <1>3, <1>4 DEF Tasks

(* A key that is kept changes nothing else of the cache. *)
LEMMA KeyOwned ==
    ASSUME IInv, NEW t \in Threads, NEW key,
           Update(ProcessOf(t), [cacheOf(t) EXCEPT !.key = key])
    PROVE  /\ \A p \in Processes : /\ cache'[p].dir = cache[p].dir /\ cache'[p].vault = cache[p].vault
                                   /\ cache'[p].fingerprint = cache[p].fingerprint
           /\ t # Window => cache'["window"] = cache["window"]
<1> DEFINE c == [cacheOf(t) EXCEPT !.key = key]
<1>1. cacheOf(t) = cache[ProcessOf(t)] /\ cacheOf(t) \in Caches /\ ProcessOf(t) \in Processes
  BY EachHas, TheThreads DEF IInv, cacheOf
<1>2. c.dir = cacheOf(t).dir /\ c.fingerprint = cacheOf(t).fingerprint /\ c.vault = cacheOf(t).vault
  BY <1>1 DEF Caches, Cache
<1>3. cache' = [cache EXCEPT ![ProcessOf(t)] = c]
  BY DEF Update
<1> HIDE DEF c
<1>4. \A p \in Processes : cache'[p] = IF p = ProcessOf(t) THEN c ELSE cache[p]
  BY <1>3 DEF IInv, Memory
<1>5. QED
  BY <1>1, <1>2, <1>4 DEF ProcessOf, Processes

LEMMA EnsureKeyOwned == ASSUME IInv, Owned, NEW t \in Threads, EnsureKey(t) PROVE Owned'
<1>1. op[t].pc = "key" /\ UNCHANGED <<disk, daemonOnly>>
  BY DEF EnsureKey
<1>2. CASE Step(t, WithKey(t, cacheOf(t).key)) /\ cache' = cache
  BY <1>1, <1>2, WithKeyFits, OwnedMuses
<1>3. CASE /\ Step(t, WithKey(t, Stored(op[t].dir)))
           /\ Update(ProcessOf(t), [cacheOf(t) EXCEPT !.key = Stored(op[t].dir)])
  <2>1. Copies'
    BY <1>1, CopiesStay DEF Owned, disk, daemonOnly, history
  <2>2. Fits(t, WithKey(t, Stored(op[t].dir)))
    BY <1>1, WithKeyFits
  <2>3. QED
    BY <1>1, <1>3, <2>1, <2>2, KeyOwned, OwnedThinks DEF daemonOnly
<1>4. CASE Step(t, [op[t] EXCEPT !.pc = "mint"]) /\ cache' = cache
  <2> DEFINE o == [op[t] EXCEPT !.pc = "mint"]
  <2>1. o.pc = "mint" /\ o.vault = op[t].vault /\ o.task = op[t].task
    BY FitsHas DEF Ops, Op
  <2>2. Step(t, o)
    BY <1>4
  <2> HIDE DEF o
  <2>3. Fits(t, o)
    BY <1>1, <2>1, FitsOn DEF Writing
  <2>4. QED
    BY <1>1, <1>4, <2>2, <2>3, OwnedMuses
<1>5. QED
  BY <1>2, <1>3, <1>4 DEF EnsureKey

LEMMA MintKeyOwned == ASSUME IInv, Owned, NEW t \in Threads, MintKey(t) PROVE Owned'
<1> DEFINE key == [of |-> op[t].dir, mint |-> keyFile[op[t].dir] + 1]
<1>1. op[t].pc = "mint" /\ file' = file /\ tmp' = tmp /\ UNCHANGED daemonOnly
  BY DEF MintKey
<1>2. Update(ProcessOf(t), [cacheOf(t) EXCEPT !.key = key]) /\ Step(t, WithKey(t, key))
  BY DEF MintKey
<1> HIDE DEF key
<1>3. Copies'
  BY <1>1, CopiesStay DEF Owned, daemonOnly, history
<1>4. Fits(t, WithKey(t, key))
  BY <1>1, WithKeyFits
<1>5. QED
  BY <1>1, <1>2, <1>3, <1>4, KeyOwned, OwnedThinks DEF daemonOnly

LEMMA BeginWriteOwned == ASSUME IInv, Owned, NEW t \in Threads, BeginWrite(t) PROVE Owned'
<1> DEFINE d == cacheOf(t).dir
           o == [op[t] EXCEPT !.pc = "writing", !.dir = d]
           w == [NoFile EXCEPT !.state = "writing", !.by = t]
<1>1. o.pc = "writing" /\ o.vault = op[t].vault /\ o.task = op[t].task /\ o.dir = d
  BY FitsHas DEF Ops, Op
<1>2. w.state = "writing" /\ w.vault = NoVault
  BY DEF NoFile
<1>3. /\ op[t].pc = "write" /\ file' = file /\ UNCHANGED <<cache, daemonOnly>> /\ Step(t, o)
      /\ tmp' = [tmp EXCEPT ![d] = w]
  BY DEF BeginWrite
<1>4. ~astray => d = Where(t)
  <2> SUFFICES ASSUME ~astray PROVE d = Where(t)
    OBVIOUS
  <2>1. CASE t = Window
    BY <2>1 DEF Where, cacheOf, ProcessOf
  <2>2. CASE t # Window
    <3>1. main.pc # "off"
      BY <1>3, <2>2, ThreadsAssumption DEF Owned, Settling, Threads, Daemon
    <3>2. cache["daemon"].dir = There
      BY <3>1 DEF Owned, Session
    <3>3. QED
      BY <2>2, <3>2 DEF Where, cacheOf, ProcessOf
  <2>3. QED
    BY <2>1, <2>2
<1> HIDE DEF o, w, d
<1>5. Fits(t, o)
  BY <1>1, <1>3, <1>4, FitsHas DEF Fits, Writing
<1>6. \A e \in Accounts : tmp'[e] = tmp[e] \/ tmp'[e] = w
  BY <1>3 DEF IInv, Disk
<1>7. Copies'
  BY <1>2, <1>3, <1>6, CopiesStay DEF Owned, daemonOnly, history
<1>8. QED
  BY <1>3, <1>5, <1>7, OwnedThinks DEF daemonOnly

(* Where a write ends, its account's vault belongs. *)
LEMMA WritesHome ==
    ASSUME IInv, Owned, ~astray, NEW t \in Threads, op[t].pc = "writing",
           NEW a \in Accounts, op[t].dir = a,
           a = active \/ (a = main.to /\ main.pc \in {"authenticate", "populate"})
    PROVE  op[t].vault.of = a
<1>1. op[t].vault # NoVault
  BY FitsHas, OpsHave DEF InHand, Fetched, NoVault
<1>2. op[t].vault.of = For(t) /\ Where(t) = a
  BY <1>1, FitsHas DEF Fits, Own, AtTheFile, Writing
<1>3. CASE t = Window
  BY <1>2, <1>3 DEF For, Where
<1>4. CASE t # Window
  <2>1. main.pc \notin {"clear", "forget", "authenticate"}
    BY <1>4, ThreadsAssumption DEF Owned, Settling, Threads, Daemon
  <2>2. For(t) = a
    BY <1>2, <1>4, <2>1 DEF For, Where, Home, There
  <2>3. QED
    BY <1>2, <2>2
<1>5. QED
  BY <1>3, <1>4

LEMMA EndWriteOwned == ASSUME IInv, Owned, NEW t \in Threads, EndWrite(t) PROVE Owned'
<1> DEFINE d == op[t].dir
           o == [Idle EXCEPT !.pc = "rename", !.dir = d]
           w == Written(t)
           mine(f) == IF f.state = "writing" /\ f.by = t THEN w ELSE f
<1>1. o.pc = "rename" /\ o.vault = NoVault /\ o.task = "write" /\ o.dir = d
  BY DEF Idle
<1>2. w.vault = op[t].vault
  BY DEF Written
<1>3. /\ op[t].pc = "writing" /\ UNCHANGED <<cache, daemonOnly>> /\ Step(t, o)
      /\ tmp' = [tmp EXCEPT ![d] = mine(tmp[d])] /\ file' = [file EXCEPT ![d] = mine(file[d])]
  BY DEF EndWrite
<1>4. ~astray => d = Where(t)
  BY <1>3, FitsHas DEF Fits, AtTheFile
<1> HIDE DEF d, o, w
<1>5. Fits(t, o)
  BY <1>1, <1>4, OwnHas, TheAccounts DEF Fits, AtTheFile
<1>6. \A e \in Accounts : /\ file'[e] = file[e] \/ (e = d /\ file'[e] = w)
                          /\ tmp'[e] = tmp[e] \/ (e = d /\ tmp'[e] = w)
  BY <1>3 DEF IInv, Disk
<1>7. UNCHANGED <<main, active, astray, cast>>
  BY <1>3 DEF daemonOnly, history
<1>8. ASSUME ~astray, NEW a \in Accounts, RightIn(a),
             a = active \/ (a = main.to /\ main.pc \in {"authenticate", "populate"})
      PROVE  RightIn(a)'
  <2>1. d = a => w.vault.of = a
    BY <1>2, <1>3, <1>8, WritesHome DEF d
  <2>2. QED
    BY <1>6, <1>8, <2>1 DEF RightIn
<1>9. ASSUME Window \notin cast, NEW a \in Accounts
      PROVE  file'[a].vault.age # "old" /\ tmp'[a].vault.age # "old"
  <2>1. w.vault.age # "old"
    BY <1>2, <1>3, <1>9, NoWindow, FitsHas DEF Fits
  <2>2. QED
    BY <1>6, <1>9, <2>1 DEF Owned, Copies
<1>10. Copies'
  <2>1. active \in Accounts /\ main.to \in Accounts
    BY TheAccounts
  <2>2. ~astray => RightIn(active)'
    BY <1>7, <1>8, <2>1 DEF Owned, Copies
  <2>3. ~astray /\ main.pc \in {"authenticate", "populate"} => RightIn(main.to)'
    BY <1>7, <1>8, <2>1 DEF Owned, Copies
  <2>4. ~astray' => RightIn(active)'
    BY <1>7, <2>2
  <2>5. ~astray' /\ main'.pc \in {"authenticate", "populate"} => RightIn(main.to)'
    BY <1>7, <2>3
  <2>6. QED
    BY <1>7, <1>9, <2>4, <2>5 DEF Copies
<1>11. QED
  BY <1>3, <1>5, <1>10, OwnedThinks DEF daemonOnly

LEMMA RenameOwned ==
    ASSUME IInv, Owned, NEW t \in Threads, Rename(t) \/ RenameRefused(t) \/ Reject(t)
    PROVE  Owned'
<1>1. /\ op[t].pc \in {"rename", "reject"} /\ Step(t, Idle) /\ UNCHANGED <<cache, daemonOnly>>
  BY DEF Rename, RenameRefused, Reject
<1>2. op[t].dir \in Accounts /\ NoFile.state # "whole" /\ NoFile.vault = NoVault
  BY FitsHas, OpsHave DEF NoFile
<1>3. \A e \in Accounts : /\ file'[e] \in {file[e], tmp[e], NoFile}
                          /\ tmp'[e] \in {tmp[e], NoFile}
  BY <1>2 DEF Rename, RenameRefused, Reject, IInv, Disk
<1>4. Copies'
  BY <1>1, <1>2, <1>3, CopiesStay DEF Owned, daemonOnly, history
<1>5. QED
  BY <1>1, <1>4, FitsIdle, OwnedThinks DEF daemonOnly

(* What a load of the daemon's reads, and does not reject, is the session's. *)
LEMMA LoadsHome ==
    ASSUME IInv, Owned, ~astray, NEW t \in Threads, t # Window, op[t].pc = "opened",
           HeaderHolds(file[cacheOf(t).dir], cacheOf(t))
    PROVE  file[cacheOf(t).dir].vault.of = Home
<1>1. t = Main
  BY FitsHas DEF Fits, Threads, Daemon
<1>2. main.pc \in {"idle", "populate"}
  BY <1>1 DEF Owned, Settling
<1>3. cacheOf(t).dir = There /\ cacheOf(t).fingerprint = There
  BY <1>2 DEF Owned, Session, cacheOf, ProcessOf
<1>4. There = Home /\ RightIn(There)
  BY <1>2 DEF There, Home, Owned, Copies
<1>5. QED
  BY <1>3, <1>4 DEF RightIn, HeaderHolds

LEMMA BeginLoadOwned == ASSUME IInv, Owned, NEW t \in Threads, BeginLoad(t) PROVE Owned'
<1> DEFINE c == cacheOf(t)
           f == file[c.dir]
           o == [Idle EXCEPT !.task = "load", !.fingerprint = c.fingerprint, !.dir = c.dir,
                             !.vault = f.vault, !.key = f.key]
           next(e) == IF HeaderHolds(f, c) /\ ~e THEN "key" ELSE "reject"
<1>1. op[t].pc = "opened" /\ file' = file /\ UNCHANGED <<cache, daemonOnly>>
  BY DEF BeginLoad
<1>2. PICK e \in BOOLEAN :
        IF ~c.enabled THEN tmp' = tmp /\ Step(t, Idle)
        ELSE /\ tmp' = [tmp EXCEPT ![c.dir] = NoFile]
             /\ Step(t, IF f.state = "none" THEN Idle ELSE [o EXCEPT !.pc = next(e)])
  BY DEF BeginLoad
<1>3. c.dir \in Accounts
  BY EachHas, CachesHave DEF IInv
<1> DEFINE r == [o EXCEPT !.pc = next(e)]
<1>4. r.pc = next(e) /\ r.vault = f.vault /\ r.task = "load"
  BY DEF Idle
<1>5. next(e) = "reject" \/ (next(e) = "key" /\ HeaderHolds(f, c))
  OBVIOUS
<1>6. ASSUME ~astray, next(e) = "key", t # Window PROVE Own(f.vault, For(t))
  BY <1>1, <1>5, <1>6, LoadsHome DEF Own, For
<1>7. Window \notin cast => f.vault.age # "old"
  BY <1>3 DEF Owned, Copies
<1>8. Step(t, r) \/ Step(t, Idle)
  BY <1>2
<1> HIDE DEF r, next, o, f
<1>9. t \notin Workers \/ op[t].pc # "opened"
  BY FitsHas DEF Fits
<1>10. Fits(t, r)
  BY <1>4, <1>5, <1>6, <1>7 DEF Fits, AtTheFile, Writing
<1>11. NoFile.state # "whole" /\ NoFile.vault = NoVault
  BY DEF NoFile
<1>12. \A d \in Accounts : tmp'[d] \in {tmp[d], NoFile}
  BY <1>2, <1>3 DEF IInv, Disk
<1>13. Copies'
  BY <1>1, <1>11, <1>12, CopiesStay DEF Owned, daemonOnly, history
<1>14. QED
  BY <1>1, <1>8, <1>10, <1>13, FitsIdle, OwnedThinks DEF daemonOnly

LEMMA WorksOwned == ASSUME IInv, Owned, NEW t \in Threads, Works(t) PROVE Owned'
BY BeginSyncOwned, FetchVaultOwned, LandOwned, ReadStateOwned, CloneVaultOwned, ReadDirOwned,
   EnsureKeyOwned, MintKeyOwned, BeginWriteOwned, EndWriteOwned, RenameOwned, FailsOwned,
   BeginLoadOwned, RestoreOwned DEF Works

-----------------------------------------------------------------------------
(* The main thread's steps, and the window's.                              *)

(* Each thread stays at its step, and a vault in hand at most ages: the    *)
(* account it is for stays, for those that have work.                      *)
LEMMA FitsStay ==
    ASSUME IInv, Owned, cast' = cast, ~astray' => ~astray,
           cache'["window"].dir = cache["window"].dir,
           \/ cache'["window"].vault = cache["window"].vault
           \/ cache'["window"].vault = Aged(cache["window"].vault),
           \A t \in Threads :
               /\ op'[t].pc = op[t].pc /\ op'[t].task = op[t].task /\ op'[t].dir = op[t].dir
               /\ \/ op'[t].vault = op[t].vault
                  \/ (op'[t].vault = Aged(op[t].vault) /\ (t = Window \/ op[t].pc = "idle"))
               /\ t # Window /\ op[t].pc # "idle" /\ ~astray' =>
                      Home' = Home /\ (op[t].pc \in AtTheFile => There' = There)
    PROVE  EachFits'
<1> SUFFICES ASSUME NEW t \in Threads PROVE Fits(t, op[t])'
  BY DEF EachFits
<1>1. Fits(t, op[t]) /\ op[t].vault \in Vault
  BY FitsHas, OpsHave
<1>2. CASE op[t].pc = "idle"
  <2>1. op'[t].vault = NoVault /\ op'[t].pc = "idle"
    BY <1>1, <1>2, OwnHas DEF Fits
  <2>2. NoVault.age # "old" /\ Own(op[t].vault, For(t))'
    BY <2>1, OwnHas DEF Own
  <2>3. QED
    BY <1>1, <2>1, <2>2 DEF Fits, AtTheFile, Writing
<1>3. CASE op[t].pc # "idle" /\ t # Window
  <2>1. op'[t].vault = op[t].vault
    BY <1>3
  <2>2. ~astray' => For(t)' = For(t) /\ (op[t].pc \in AtTheFile => Where(t)' = Where(t))
    BY <1>3 DEF For, Where
  <2>3. QED
    BY <1>1, <1>3, <2>1, <2>2 DEF Fits
<1>4. CASE op[t].pc # "idle" /\ t = Window
  <2>1. For(t)' = For(t) /\ Where(t)' = Where(t) /\ For(t) \in Accounts
    BY <1>4, TheAccounts DEF For, Where
  <2>2. cache["window"].vault \in Vault
    BY TheAccounts, CachesHave DEF Processes
  <2>3. Own(cache["window"].vault, For(t)) => Own(cache["window"].vault, For(t))'
    BY <2>1, <2>2, OwnHas DEF Own
  <2>4. Own(op[t].vault, For(t)) => Own(op[t].vault, For(t))'
    BY <1>1, <2>1, OwnHas DEF Own
  <2>5. QED
    BY <1>1, <1>4, <2>1, <2>3, <2>4 DEF Fits
<1>5. QED
  BY <1>2, <1>3, <1>4

(* What the main thread goes on to. *)
LEMMA GoesHas ==
    ASSUME IInv, NEW pc, Goes(pc)
    PROVE  main'.pc = pc /\ main'.to = main.to /\ main'.back = main.back /\ main'.door = main.door
BY DEF Goes, IInv, TheRest, MainState

LEMMA RestHas == Rest.pc = "idle" /\ Rest.door = "tray" /\ Rest.back = FALSE
BY DEF Rest

LEMMA DaemonKeeps ==
    ASSUME IInv, NEW c, Update("daemon", c)
    PROVE  cache'["window"] = cache["window"] /\ cache'["daemon"] = c
BY DEF IInv, Memory, Update, Processes

(* The main thread goes on, and neither files, snapshots nor threads move. *)
LEMMA OwnedMoves ==
    ASSUME IInv, Owned, UNCHANGED <<file, tmp, cache, op, cast>>, ~astray' => ~astray,
           active' = active,
           ~astray' => \A t \in Threads : t # Window /\ op[t].pc # "idle" =>
                           Home' = Home /\ (op[t].pc \in AtTheFile => There' = There),
           Settling', Session',
           main'.pc \in {"authenticate", "populate"} =>
               main.pc \in {"authenticate", "populate"} /\ main'.to = main.to
    PROVE  Owned'
<1>1. EachFits'
  BY FitsStay
<1>2. \A d \in Accounts : RightIn(d)' = RightIn(d)
  BY DEF RightIn
<1>3. Copies'
  BY DEF Owned, Copies, RightIn
<1>4. QED
  BY <1>1, <1>3 DEF Owned

(* The daemon has nothing in flight when a switch begins but for its       *)
(* workers' loads, and none of those at a file.                            *)
LEMMA NotAtTheFile ==
    ASSUME PathsFree("daemon")
    PROVE  \A t \in Threads : t # Window => op[t].pc \notin AtTheFile
BY DEF PathsFree, ThreadsOf, ProcessOf, AtTheFile

LEMMA ReauthenticateOwned == ASSUME IInv, Owned, Reauthenticate PROVE Owned'
<1>1. /\ MainIdle /\ UNCHANGED <<file, tmp, cache, op, active, serving, cast, astray>>
      /\ main' = [pc |-> "wait", to |-> active, back |-> TRUE, door |-> "tray"]
  BY DEF Reauthenticate, Settles, disk, history
<1>2. main'.pc = "wait" /\ main'.to = active /\ main'.back = TRUE /\ main'.door = "tray"
  BY <1>1
<1>3. Home' = Home /\ There' = There
  BY <1>1, <1>2 DEF Home, There, MainIdle
<1>4. Settling'
  BY <1>1, <1>2 DEF Owned, Settling, MainIdle
<1>5. Session'
  BY <1>1, <1>2, <1>3 DEF Owned, Session, MainIdle, Own
<1>6. QED
  BY <1>1, <1>2, <1>3, <1>4, <1>5, OwnedMoves

LEMMA SwitchFromWindowOwned ==
    ASSUME IInv, Owned, NEW to \in Accounts, SwitchFromWindow(to) PROVE Owned'
<1>1. /\ MainIdle /\ UNCHANGED <<file, tmp, cache, op, active, serving, cast>> /\ astray' = TRUE
      /\ main' = [pc |-> "wait", to |-> to, back |-> FALSE, door |-> "window"]
  BY DEF SwitchFromWindow, Settles, disk
<1>2. main'.pc = "wait"
  BY <1>1
<1>3. Settling'
  BY <1>1, <1>2 DEF Owned, Settling, MainIdle
<1>4. Session'
  BY <1>1 DEF Owned, Session
<1>5. QED
  BY <1>1, <1>2, <1>3, <1>4, OwnedMoves

(* The wait is what a switch rests on: with no timeout, and every worker   *)
(* tracked, no thread of the daemon's has work when it ends.               *)
LEMMA WaitEndsOwned ==
    ASSUME IInv, Owned, ~Timeouts, Workers \subseteq Tracked, WaitEnds PROVE Owned'
<1>1. /\ main.pc = "wait" /\ UNCHANGED <<file, tmp, cache, op, active, serving, cast, astray>>
      /\ \A t \in Workers : op[t].pc = "idle"
  BY DEF WaitEnds, disk, history
<1>2. main'.pc = "clear" /\ main'.to = main.to /\ main'.back = main.back /\ main'.door = main.door
  BY GoesHas DEF WaitEnds
<1>3. Home' = Home /\ There' = There
  BY <1>1, <1>2 DEF Home, There
<1>4. Settling'
  BY <1>1, <1>2 DEF Owned, Settling
<1>5. Session'
  BY <1>1, <1>2, <1>3 DEF Owned, Session, Own
<1>6. QED
  BY <1>1, <1>2, <1>3, <1>4, <1>5, OwnedMoves

(* From the clear on no thread of the daemon's has work. *)
LEMMA AllQuiet ==
    ASSUME Owned, main.pc \in {"off", "clear", "forget", "authenticate"}
    PROVE  \A t \in Threads : t # Window => op[t].pc = "idle"
BY DEF Owned, Settling, Threads, Daemon

LEMMA AuthenticatedOwned == ASSUME IInv, Owned, Authenticated PROVE Owned'
<1>1. /\ main.pc = "authenticate" /\ UNCHANGED <<file, tmp, cache, op, active, cast, astray>>
      /\ serving' = [of |-> main.to, live |-> TRUE]
  BY DEF Authenticated, disk, history
<1>2. main'.pc = "populate" /\ main'.to = main.to /\ main'.back = main.back /\ main'.door = main.door
  BY GoesHas DEF Authenticated
<1>3. There' = There /\ Home' = main.to
  BY <1>1, <1>2 DEF Home, There
<1>4. Settling'
  BY <1>1, <1>2 DEF Owned, Settling
<1>5. Session'
  BY <1>1, <1>2, <1>3 DEF Owned, Settling, Session, Own
<1>6. QED
  BY <1>1, <1>2, <1>3, <1>4, <1>5, AllQuiet, OwnedMoves

LEMMA RepointPathsOwned ==
    ASSUME IInv, Owned, NEW to \in Accounts, NEW back \in BOOLEAN, RepointPaths(to, back),
           back => to = active, MainIdle \/ main.pc = "authenticate"
    PROVE  Owned'
<1> DEFINE c == [cache["daemon"] EXCEPT !.fingerprint = to, !.dir = to]
<1>1. cache["daemon"] \in Caches
  BY TheAccounts DEF Processes
<1>2. c.fingerprint = to /\ c.dir = to /\ c.vault = cache["daemon"].vault
  BY <1>1 DEF Caches, Cache
<1>3. /\ Update("daemon", c) /\ UNCHANGED <<file, tmp, op, active, serving, cast, astray>>
      /\ main' = [pc |-> "keys", to |-> to, back |-> back, door |-> "tray"]
      /\ PathsFree("daemon")
  BY DEF RepointPaths, Settles, disk, history
<1> HIDE DEF c
<1>4. cache'["window"] = cache["window"] /\ cache'["daemon"] = c
  BY <1>3, DaemonKeeps
<1>5. main'.pc = "keys" /\ main'.to = to /\ main'.back = back /\ main'.door = "tray"
  BY <1>3
<1>6. Home' = active /\ Home = active /\ There' = to
  BY <1>3, <1>5 DEF Home, There, MainIdle
<1>7. EachFits'
  BY <1>3, <1>4, <1>6, NotAtTheFile, FitsStay
<1>8. Settling'
  BY <1>3, <1>5 DEF Owned, Settling, MainIdle
<1>9. Session'
  BY <1>2, <1>3, <1>4, <1>5, <1>6 DEF Owned, Session, Own, MainIdle
<1>10. Copies'
  BY <1>3, <1>5, CopiesStay DEF Owned
<1>11. QED
  BY <1>7, <1>8, <1>9, <1>10 DEF Owned

LEMMA DeclinedOwned == ASSUME IInv, Owned, Declined PROVE Owned'
<1>1. main.pc = "authenticate"
  BY DEF Declined
<1>2. CASE RepointPaths(active, TRUE)
  BY <1>1, <1>2, TheAccounts, RepointPathsOwned
<1> DEFINE m == [main EXCEPT !.pc = "wait", !.to = active, !.back = TRUE]
<1>3. m.pc = "wait" /\ m.to = active /\ m.back = TRUE /\ m.door = main.door
  BY DEF IInv, TheRest, MainState
<1> HIDE DEF m
<1>4. CASE /\ main.back \/ main.door = "window"
           /\ Settles(IF main.back THEN Rest ELSE m)
           /\ UNCHANGED <<disk, cache, op, active, setting, serving, history>>
  <2>1. UNCHANGED <<file, tmp, cache, op, active, serving, cast, astray>>
    BY <1>4 DEF disk, history
  <2>2. main' = Rest \/ (main' = m /\ ~main.back)
    BY <1>4 DEF Settles
  <2>3. main'.pc \in {"idle", "wait"}
    BY <1>3, <2>2, RestHas
  <2>4. ~astray => main' = Rest /\ main.back /\ main.to = active
    BY <1>4, <2>2 DEF Owned, Session
  <2>5. ~astray => Home' = active /\ Home = active /\ There' = active /\ There = active
    BY <1>1, <2>1, <2>4, RestHas DEF Home, There
  <2>6. Settling'
    BY <1>1, <2>1, <2>3 DEF Owned, Settling
  <2>7. Session'
    BY <1>1, <2>1, <2>3, <2>4, <2>5, RestHas DEF Owned, Session, Own
  <2>8. QED
    BY <1>1, <2>1, <2>3, <2>6, <2>7, AllQuiet, OwnedMoves
<1>5. QED
  BY <1>2, <1>4 DEF Declined, m

LEMMA SettledOwned == ASSUME IInv, Owned, Settled PROVE Owned'
<1>1. /\ main.pc = "populate" /\ op[Main].pc = "idle" /\ active' = main.to /\ main' = Rest
      /\ UNCHANGED <<file, tmp, cache, op, serving, cast, astray>>
  BY DEF Settled, Settles, disk, history
<1>2. Home' = main.to /\ Home = main.to /\ There' = main.to /\ There = main.to
  BY <1>1, RestHas DEF Home, There
<1>3. Settling'
  BY <1>1, RestHas DEF Owned, Settling
<1>4. Session'
  BY <1>1, <1>2, RestHas DEF Owned, Session, Own
<1>5. EachFits'
  BY <1>1, <1>2, FitsStay
<1>6. Copies'
  BY <1>1, RestHas DEF Owned, Copies, RightIn
<1>7. QED
  BY <1>3, <1>4, <1>5, <1>6 DEF Owned

LEMMA RepointKeyOwned == ASSUME IInv, Owned, RepointKey PROVE Owned'
<1> DEFINE c == [cache["daemon"] EXCEPT !.key = NoKey]
<1>1. cache["daemon"] \in Caches
  BY TheAccounts DEF Processes
<1>2. /\ c.fingerprint = cache["daemon"].fingerprint /\ c.dir = cache["daemon"].dir
      /\ c.vault = cache["daemon"].vault
  BY <1>1 DEF Caches, Cache
<1>3. /\ Update("daemon", c) /\ UNCHANGED <<file, tmp, op, active, serving, cast, astray>>
      /\ main.pc = "keys"
  BY DEF RepointKey, disk, history
<1> HIDE DEF c
<1>4. cache'["window"] = cache["window"] /\ cache'["daemon"] = c
  BY <1>3, DaemonKeeps
<1>5. main'.pc = "wait" /\ main'.to = main.to /\ main'.back = main.back /\ main'.door = main.door
  BY GoesHas DEF RepointKey
<1>6. Home' = Home /\ There' = There
  BY <1>3, <1>5 DEF Home, There
<1>7. EachFits'
  BY <1>3, <1>4, <1>6, FitsStay
<1>8. Settling'
  BY <1>3, <1>5 DEF Owned, Settling
<1>9. Session'
  BY <1>2, <1>3, <1>4, <1>5, <1>6 DEF Owned, Session, Own
<1>10. Copies'
  BY <1>3, <1>5, CopiesStay DEF Owned
<1>11. QED
  BY <1>7, <1>8, <1>9, <1>10 DEF Owned

(* A clear leaves no snapshot, and each thread what it has in hand.        *)
LEMMA ClearKeeps ==
    ASSUME IInv, Clear
    PROVE  /\ cache'["window"] = cache["window"] /\ cache'["daemon"].vault = NoVault
           /\ cache'["daemon"].fingerprint = cache["daemon"].fingerprint
           /\ cache'["daemon"].dir = cache["daemon"].dir
           /\ \A t \in Threads : /\ op'[t].pc = op[t].pc /\ op'[t].task = op[t].task
                                 /\ op'[t].dir = op[t].dir /\ op'[t].vault = op[t].vault
<1> DEFINE c == [cache["daemon"] EXCEPT !.vault = NoVault]
           told(t) == [op[t] EXCEPT !.cleared = TRUE]
<1>1. cache["daemon"] \in Caches
  BY TheAccounts DEF Processes
<1>2. /\ c.fingerprint = cache["daemon"].fingerprint /\ c.dir = cache["daemon"].dir
      /\ c.vault = NoVault
  BY <1>1 DEF Caches, Cache
<1>3. Update("daemon", c)
  BY DEF Clear
<1> HIDE DEF c
<1>4. cache'["window"] = cache["window"] /\ cache'["daemon"] = c
  BY <1>3, DaemonKeeps
<1>5. \A t \in Threads : /\ told(t).pc = op[t].pc /\ told(t).task = op[t].task
                         /\ told(t).dir = op[t].dir /\ told(t).vault = op[t].vault
  BY DEF IInv, Memory, Ops, Op
<1>6. op' = [t \in Threads |-> IF t \in Daemon /\ op[t].pc \in {"fetch", "land"} THEN told(t) ELSE op[t]]
  BY DEF Clear
<1> HIDE DEF told
<1>7. \A t \in Threads : op'[t] = told(t) \/ op'[t] = op[t]
  BY <1>6
<1>8. QED
  BY <1>2, <1>4, <1>5, <1>7

LEMMA LockOwned == ASSUME IInv, Owned, Lock PROVE Owned'
<1>1. MainIdle /\ UNCHANGED <<file, tmp, main, active, serving, cast, astray>>
  BY DEF Lock, disk, daemonOnly, history
<1>2. /\ cache'["window"] = cache["window"] /\ cache'["daemon"].vault = NoVault
      /\ cache'["daemon"].fingerprint = cache["daemon"].fingerprint
      /\ cache'["daemon"].dir = cache["daemon"].dir
      /\ \A t \in Threads : /\ op'[t].pc = op[t].pc /\ op'[t].task = op[t].task
                            /\ op'[t].dir = op[t].dir /\ op'[t].vault = op[t].vault
  BY ClearKeeps DEF Lock
<1>3. Home' = Home /\ There' = There
  BY <1>1 DEF Home, There
<1>4. EachFits'
  BY <1>1, <1>2, <1>3, FitsStay
<1>5. Settling'
  BY <1>1, <1>2, TheThreads DEF Owned, Settling, Threads, Daemon
<1>6. Session'
  BY <1>1, <1>2, <1>3, OwnHas DEF Owned, Session, Own
<1>7. Copies'
  BY <1>1, CopiesStay DEF Owned
<1>8. QED
  BY <1>4, <1>5, <1>6, <1>7 DEF Owned

LEMMA ClearVaultOwned == ASSUME IInv, Owned, ClearVault PROVE Owned'
<1>1. main.pc = "clear" /\ UNCHANGED <<file, tmp, active, serving, cast, astray>>
  BY DEF ClearVault, disk, history
<1>2. /\ cache'["window"] = cache["window"] /\ cache'["daemon"].vault = NoVault
      /\ cache'["daemon"].fingerprint = cache["daemon"].fingerprint
      /\ cache'["daemon"].dir = cache["daemon"].dir
      /\ \A t \in Threads : /\ op'[t].pc = op[t].pc /\ op'[t].task = op[t].task
                            /\ op'[t].dir = op[t].dir /\ op'[t].vault = op[t].vault
  BY ClearKeeps DEF ClearVault
<1>3. main'.pc = "forget" /\ main'.to = main.to /\ main'.back = main.back /\ main'.door = main.door
  BY GoesHas DEF ClearVault
<1>4. Home' = Home /\ There' = There
  BY <1>1, <1>3 DEF Home, There
<1>5. EachFits'
  BY <1>1, <1>2, <1>4, FitsStay
<1>6. Settling'
  BY <1>1, <1>2, <1>3, TheThreads DEF Owned, Settling, Threads, Daemon
<1>7. Session'
  BY <1>1, <1>2, <1>3, <1>4, OwnHas DEF Owned, Session, Own
<1>8. Copies'
  BY <1>1, <1>3, CopiesStay DEF Owned
<1>9. QED
  BY <1>5, <1>6, <1>7, <1>8 DEF Owned

(* A forget takes the copy of the account to come: what is there later was *)
(* written by the session to come.  It finds nothing of the daemon's to    *)
(* make old.                                                               *)
LEMMA ForgetCopyOwned == ASSUME IInv, Owned, ForgetCopy PROVE Owned'
<1> DEFINE c(p) == [cache[p] EXCEPT !.vault = Aged(cache[p].vault)]
           o(t) == [op[t] EXCEPT !.vault = Aged(op[t].vault)]
           d == cache["daemon"].dir
<1>1. /\ main.pc = "forget" /\ UNCHANGED <<active, cast, astray>>
      /\ serving' = [serving EXCEPT !.live = FALSE]
      /\ file' = [file EXCEPT ![d] = NoFile] /\ tmp' = [tmp EXCEPT ![d] = NoFile]
  BY DEF ForgetCopy, Deleted, history
<1>2. main'.pc = "authenticate" /\ main'.to = main.to /\ main'.back = main.back /\ main'.door = main.door
  BY GoesHas DEF ForgetCopy
<1>3. cache' = [p \in Processes |-> c(p)] /\ op' = [t \in Threads |-> o(t)]
  BY DEF ForgetCopy, AgeAll
<1>4. \A p \in Processes : /\ c(p).dir = cache[p].dir /\ c(p).fingerprint = cache[p].fingerprint
                           /\ c(p).vault = Aged(cache[p].vault)
  BY DEF IInv, Memory, Caches, Cache
<1>5. \A t \in Threads : /\ o(t).pc = op[t].pc /\ o(t).task = op[t].task /\ o(t).dir = op[t].dir
                         /\ o(t).vault = Aged(op[t].vault)
  BY DEF IInv, Memory, Ops, Op
<1> HIDE DEF c, o, d
<1>6. Home' = Home /\ There' = There
  BY <1>1, <1>2 DEF Home, There
<1>7. EachFits'
  <2>1. \A t \in Threads : t = Window \/ op[t].pc = "idle"
    BY <1>1, AllQuiet
  <2>2. /\ cache'["window"].dir = cache["window"].dir
        /\ cache'["window"].vault = Aged(cache["window"].vault)
    BY <1>3, <1>4 DEF Processes
  <2>3. QED
    BY <1>1, <1>3, <1>5, <1>6, <2>1, <2>2, FitsStay
<1>8. cache["daemon"].vault = NoVault /\ cache'["daemon"].vault = NoVault
  BY <1>1, <1>3, <1>4, OwnHas DEF Owned, Settling, Processes
<1>9. Settling'
  BY <1>1, <1>2, <1>3, <1>5, <1>8, TheThreads DEF Owned, Settling, Threads, Daemon
<1>10. Session'
  <2>1. /\ cache'["daemon"].fingerprint = cache["daemon"].fingerprint
        /\ cache'["daemon"].dir = cache["daemon"].dir
    BY <1>3, <1>4 DEF Processes
  <2>2. serving'.live = FALSE
    BY <1>1 DEF IInv, TheRest
  <2>3. QED
    BY <1>1, <1>2, <1>6, <1>8, <2>1, <2>2, OwnHas DEF Owned, Session, Own
<1>11. Copies'
  <2>1. \A e \in Accounts : /\ file'[e] = IF e = d THEN NoFile ELSE file[e]
                            /\ tmp'[e] = IF e = d THEN NoFile ELSE tmp[e]
    BY <1>1 DEF IInv, Disk
  <2>2. NoFile.state # "whole" /\ NoFile.vault.age # "old"
    BY OwnHas DEF NoFile
  <2>3. \A e \in Accounts : RightIn(e) \/ e = d => RightIn(e)'
    BY <2>1, <2>2 DEF RightIn
  <2>4. active \in Accounts /\ main.to \in Accounts
    BY TheAccounts
  <2>5. ~astray' => d = main.to
    BY <1>1 DEF Owned, Session, There, d
  <2>6. ~astray' => RightIn(active)' /\ RightIn(main.to)'
    BY <1>1, <1>2, <2>3, <2>4, <2>5 DEF Owned, Copies, RightIn
  <2>7. Window \notin cast' =>
            \A e \in Accounts : file'[e].vault.age # "old" /\ tmp'[e].vault.age # "old"
    BY <1>1, <2>1, <2>2 DEF Owned, Copies
  <2>8. QED
    BY <2>6, <2>7 DEF Copies
<1>12. QED
  BY <1>7, <1>9, <1>10, <1>11 DEF Owned

LEMMA DisableOwned == ASSUME IInv, Owned, Disable PROVE Owned'
<1> DEFINE c == [cache["daemon"] EXCEPT !.enabled = FALSE]
<1>1. cache["daemon"] \in Caches
  BY TheAccounts DEF Processes
<1>2. /\ c.fingerprint = cache["daemon"].fingerprint /\ c.dir = cache["daemon"].dir
      /\ c.vault = cache["daemon"].vault
  BY <1>1 DEF Caches, Cache
<1>3. /\ Update("daemon", c) /\ UNCHANGED <<file, tmp, op, active, serving, cast, astray>>
      /\ MainIdle
  BY DEF Disable, disk, history
<1> HIDE DEF c
<1>4. cache'["window"] = cache["window"] /\ cache'["daemon"] = c
  BY <1>3, DaemonKeeps
<1>5. main'.pc = "delete" /\ main'.to = main.to /\ main'.back = main.back /\ main'.door = main.door
  BY GoesHas DEF Disable
<1>6. Home' = Home /\ There' = There
  BY <1>3, <1>5 DEF Home, There, MainIdle
<1>7. EachFits'
  BY <1>3, <1>4, <1>6, FitsStay
<1>8. Settling'
  BY <1>3, <1>5 DEF Owned, Settling, MainIdle
<1>9. Session'
  BY <1>2, <1>3, <1>4, <1>5, <1>6 DEF Owned, Session, Own, MainIdle
<1>10. Copies'
  BY <1>3, <1>5, CopiesStay DEF Owned
<1>11. QED
  BY <1>7, <1>8, <1>9, <1>10 DEF Owned

LEMMA DeleteCopyOwned == ASSUME IInv, Owned, DeleteCopy PROVE Owned'
<1> DEFINE d == cache["daemon"].dir
<1>1. /\ main.pc = "delete" /\ main' = Rest /\ UNCHANGED <<cache, op, active, serving, cast, astray>>
      /\ file' = [file EXCEPT ![d] = NoFile] /\ tmp' = [tmp EXCEPT ![d] = NoFile]
  BY DEF DeleteCopy, Deleted, Settles, history
<1> HIDE DEF d
<1>2. Home' = Home /\ There' = There
  BY <1>1, RestHas DEF Home, There
<1>3. EachFits'
  BY <1>1, <1>2, FitsStay
<1>4. Settling'
  BY <1>1, RestHas DEF Owned, Settling
<1>5. Session'
  BY <1>1, <1>2, RestHas DEF Owned, Session, Own
<1>6. \A e \in Accounts : file'[e] \in {file[e], NoFile} /\ tmp'[e] \in {tmp[e], NoFile}
  BY <1>1 DEF IInv, Disk
<1>7. NoFile.state # "whole" /\ NoFile.vault = NoVault
  BY DEF NoFile
<1>8. Copies'
  BY <1>1, <1>6, <1>7, RestHas, CopiesStay DEF Owned
<1>9. QED
  BY <1>3, <1>4, <1>5, <1>8 DEF Owned

LEMMA EnableOwned == ASSUME IInv, Owned, Enable PROVE Owned'
<1> DEFINE o == [Idle EXCEPT !.pc = "key", !.task = "enable", !.dir = cache["daemon"].dir]
<1>1. o.pc = "key" /\ o.vault = NoVault /\ o.task = "enable"
  BY DEF Idle
<1>2. Step(Main, o) /\ UNCHANGED <<disk, cache, daemonOnly>> /\ main.pc = "idle"
  BY DEF Enable, MainIdle
<1> HIDE DEF o
<1>3. Fits(Main, o)
  BY <1>1, TheThreads, OwnHas, TheAccounts DEF Fits, AtTheFile, Writing
<1>4. QED
  BY <1>2, <1>3, TheThreads, OwnedMuses

LEMMA EnabledOwned == ASSUME IInv, Owned, Enabled PROVE Owned'
<1> DEFINE o == [Idle EXCEPT !.pc = "flag"]
           c == [cache["daemon"] EXCEPT !.enabled = TRUE]
<1>1. o.pc = "flag" /\ o.vault = NoVault /\ o.task = "write"
  BY DEF Idle
<1>2. cache["daemon"] \in Caches
  BY TheAccounts DEF Processes
<1>3. /\ c.fingerprint = cache["daemon"].fingerprint /\ c.dir = cache["daemon"].dir
      /\ c.vault = cache["daemon"].vault
  BY <1>2 DEF Caches, Cache
<1>4. /\ op[Main].pc = "enable" /\ Step(Main, o) /\ Update("daemon", c)
      /\ UNCHANGED <<file, tmp, main, active, serving, cast, astray>>
  BY DEF Enabled, disk, history
<1> HIDE DEF o, c
<1>5. cache'["window"] = cache["window"] /\ cache'["daemon"] = c
  BY <1>4, DaemonKeeps
<1>6. Fits(Main, o)
  BY <1>1, TheThreads, ThreadsAssumption, OwnHas, TheAccounts DEF Fits, AtTheFile, Writing
<1>7. Copies'
  BY <1>4, CopiesStay DEF Owned
<1>8. QED
  BY <1>3, <1>4, <1>5, <1>6, <1>7, TheThreads, OwnedThinks DEF history, Processes

(* A thread that opens the copy has nothing in hand. *)
LEMMA FitsOpened ==
    ASSUME NEW t \in Threads, t \notin Workers, op'[t] = [Idle EXCEPT !.pc = "opened"]
    PROVE  Fits(t, op[t])'
<1>1. op'[t].pc = "opened" /\ op'[t].vault = NoVault
  BY DEF Idle
<1>2. NoVault.age # "old" /\ Own(op[t].vault, For(t))'
  BY <1>1, OwnHas DEF Own
<1>3. QED
  BY <1>1, <1>2 DEF Fits, AtTheFile, Writing

(* A thread at rest has nothing in hand. *)
LEMMA FitsAtRest ==
    ASSUME NEW t \in Threads, op'[t] = Idle PROVE Fits(t, op[t])'
<1>1. op'[t].pc = "idle" /\ op'[t].vault = NoVault
  BY DEF Idle
<1>2. NoVault.age # "old" /\ Own(op[t].vault, For(t))'
  BY <1>1, OwnHas DEF Own
<1>3. QED
  BY <1>1, <1>2 DEF Fits, AtTheFile, Writing

LEMMA StartsOwned == ASSUME IInv, Owned, Starts PROVE Owned'
<1> DEFINE o == [Idle EXCEPT !.pc = "opened"]
<1>1. /\ main.pc = "off" /\ main' = Rest /\ Step(Main, o) /\ Update("daemon", Started(setting))
      /\ serving' = [of |-> active, live |-> TRUE]
      /\ UNCHANGED <<file, tmp, active, cast, astray>>
  BY DEF Starts, Settles, disk, history
<1> DEFINE c == Started(setting)
<1>2. c.fingerprint = active /\ c.dir = active /\ c.vault = NoVault
  BY DEF Started, Down
<1> HIDE DEF c
<1>3. cache'["window"] = cache["window"] /\ cache'["daemon"] = c
  BY <1>1, DaemonKeeps DEF c
<1>4. \A t \in Threads : op'[t] = IF t = Main THEN o ELSE op[t]
  BY <1>1 DEF IInv, Memory, Step
<1> HIDE DEF o
<1>5. Home' = active /\ Home = active /\ There' = active
  BY <1>1, RestHas DEF Home, There
<1>6. EachFits'
  <2> SUFFICES ASSUME NEW t \in Threads PROVE Fits(t, op[t])'
    BY DEF EachFits
  <2>1. CASE t = Main
    BY <1>4, <2>1, ThreadsAssumption, FitsOpened DEF o
  <2>2. CASE t # Main
    <3>1. op'[t] = op[t] /\ Fits(t, op[t])
      BY <1>4, <2>2, FitsHas
    <3>2. t # Window => op[t].pc = "idle"
      BY <1>1, AllQuiet
    <3>3. For(t)' = For(t) /\ (t = Window => Where(t)' = Where(t))
      BY <1>3, <1>5 DEF For, Where
    <3>4. QED
      BY <1>1, <1>3, <3>1, <3>2, <3>3 DEF Fits, AtTheFile
  <2>3. QED
    BY <2>1, <2>2
<1>7. Settling'
  BY <1>1, <1>4, RestHas DEF Settling
<1>8. Session'
  BY <1>1, <1>2, <1>3, <1>5, RestHas, OwnHas DEF Session, Own
<1>9. Copies'
  BY <1>1, RestHas, CopiesStay DEF Owned
<1>10. QED
  BY <1>6, <1>7, <1>8, <1>9 DEF Owned

(* What a process that ends was writing is torn. *)
LEMMA EndsOwned ==
    ASSUME IInv, NEW p \in Processes, Ends(p)
    PROVE  /\ cache'[p] = Down /\ \A q \in Processes : q # p => cache'[q] = cache[q]
           /\ \A t \in Threads : op'[t] = IF ProcessOf(t) = p THEN Idle ELSE op[t]
           /\ \A d \in Accounts : \A f \in {file'[d], tmp'[d]} :
                  f \in {file[d], tmp[d]} \/ (f.state # "whole" /\ f.vault = NoVault)
<1>1. \A f : CutShort(p, f) = f \/ (CutShort(p, f).state # "whole" /\ CutShort(p, f).vault = NoVault)
  BY DEF CutShort, NoFile
<1>2. QED
  BY <1>1 DEF Ends, Update, IInv, Memory

LEMMA DaemonEndsOwned == ASSUME IInv, Owned, DaemonEnds PROVE Owned'
<1>1. /\ Ends("daemon") /\ main' = [Rest EXCEPT !.pc = "off"] /\ UNCHANGED <<active, cast, astray>>
  BY DEF DaemonEnds, Settles, history
<1>2. main'.pc = "off" /\ main'.door = "tray" /\ main'.back = FALSE
  BY <1>1 DEF Rest
<1>3. cache'["daemon"] = Down /\ cache'["window"] = cache["window"]
  BY <1>1, EndsOwned DEF Processes
<1>4. \A t \in Threads : op'[t] = IF t = Window THEN op[t] ELSE Idle
  BY <1>1, EndsOwned DEF Processes, ProcessOf
<1>5. EachFits'
  <2> SUFFICES ASSUME NEW t \in Threads PROVE Fits(t, op[t])'
    BY DEF EachFits
  <2>1. CASE t # Window
    BY <1>4, <2>1, FitsAtRest
  <2>2. CASE t = Window
    <3>1. op'[t] = op[t] /\ Fits(t, op[t])
      BY <1>4, <2>2, FitsHas
    <3>2. For(t)' = For(t) /\ Where(t)' = Where(t)
      BY <1>3, <2>2 DEF For, Where
    <3>3. QED
      BY <1>1, <1>3, <2>2, <3>1, <3>2 DEF Fits
  <2>3. QED
    BY <2>1, <2>2
<1>6. Settling'
  <2>1. \A t \in Workers \cup {Main} : op'[t].pc = "idle"
    BY <1>4, Plain, ThreadsAssumption DEF Threads, Daemon
  <2>2. QED
    BY <1>2, <2>1 DEF Settling
<1>7. Session'
  BY <1>1, <1>2, <1>3, OwnHas DEF Session, Own, Down
<1>8. Copies'
  BY <1>1, <1>2, EndsOwned, CopiesStay DEF Owned, Processes
<1>9. QED
  BY <1>5, <1>6, <1>7, <1>8 DEF Owned

(* A window opens or ends. *)
LEMMA WindowTurns ==
    ASSUME IInv, Owned, UNCHANGED daemonOnly, cache'["daemon"] = cache["daemon"],
           \A t \in Threads : t # Window => op'[t] = op[t], Fits(Window, op[Window])', Copies'
    PROVE  Owned'
<1>1. UNCHANGED <<main, active, serving, astray, cast>>
  BY DEF daemonOnly, history
<1>2. Home' = Home /\ There' = There
  BY <1>1 DEF Home, There
<1>3. EachFits'
  <2> SUFFICES ASSUME NEW t \in Threads, t # Window PROVE Fits(t, op[t])'
    BY DEF EachFits
  <2>1. op'[t] = op[t] /\ Fits(t, op[t]) /\ For(t)' = For(t) /\ Where(t)' = Where(t)
    BY <1>2, FitsHas DEF For, Where
  <2>2. QED
    BY <1>1, <2>1 DEF Fits
<1>4. Settling'
  BY <1>1, ThreadsAssumption DEF Owned, Settling, Threads, Daemon
<1>5. Session'
  BY <1>1, <1>2 DEF Owned, Session, Own
<1>6. QED
  BY <1>3, <1>4, <1>5 DEF Owned

LEMMA WindowOpensOwned == ASSUME IInv, Owned, WindowOpens PROVE Owned'
<1> DEFINE o == [Idle EXCEPT !.pc = "opened"]
<1>1. /\ Update("window", Started(setting)) /\ Step(Window, o)
      /\ file' = file /\ tmp' = tmp /\ UNCHANGED daemonOnly
  BY DEF WindowOpens, disk
<1>2. cache'["daemon"] = cache["daemon"]
  BY <1>1 DEF Update, IInv, Memory, Processes
<1>3. \A t \in Threads : op'[t] = IF t = Window THEN o ELSE op[t]
  BY <1>1 DEF IInv, Memory, Step
<1>4. Fits(Window, op[Window])'
  BY <1>3, TheThreads, ThreadsAssumption, FitsOpened
<1>5. Copies'
  BY <1>1, CopiesStay DEF Owned, daemonOnly, history
<1>6. QED
  BY <1>1, <1>2, <1>3, <1>4, <1>5, WindowTurns

LEMMA OpensLocalCopyOwned == ASSUME IInv, Owned, OpensLocalCopy PROVE Owned'
<1> DEFINE o == [Idle EXCEPT !.pc = "opened"]
<1>1. o.pc = "opened" /\ o.vault = NoVault
  BY DEF Idle
<1>2. Step(Window, o) /\ UNCHANGED <<disk, cache, daemonOnly>>
  BY DEF OpensLocalCopy
<1> HIDE DEF o
<1>3. Fits(Window, o)
  BY <1>1, TheThreads, ThreadsAssumption, OwnHas, TheAccounts DEF Fits, AtTheFile, Writing
<1>4. QED
  BY <1>2, <1>3, TheThreads, OwnedMuses

LEMMA WindowEndsOwned == ASSUME IInv, Owned, WindowEnds PROVE Owned'
<1>1. Ends("window") /\ UNCHANGED daemonOnly
  BY DEF WindowEnds
<1>2. /\ cache'["daemon"] = cache["daemon"]
      /\ \A t \in Threads : op'[t] = IF t = Window THEN Idle ELSE op[t]
  BY <1>1, EndsOwned DEF Processes, ProcessOf
<1>3. Fits(Window, op[Window])'
  BY <1>2, TheThreads, FitsAtRest
<1>4. Copies'
  BY <1>1, EndsOwned, CopiesStay DEF Owned, daemonOnly, history, Processes
<1>5. QED
  BY <1>1, <1>2, <1>3, <1>4, WindowTurns

-----------------------------------------------------------------------------
LEMMA InitOwned == Init => Owned
<1> SUFFICES ASSUME Init PROVE Owned
  OBVIOUS
<1>1. NoFile.state = "none" /\ NoFile.vault = NoVault /\ NoVault.age # "old"
  BY OwnHas DEF NoFile
<1>2. \A t \in Threads : op[t] = Idle
  BY DEF Init
<1>3. main.pc = "off" /\ main.door = "tray" /\ main.back = FALSE
  BY DEF Init, Rest
<1>4. \A p \in Processes : cache[p].vault = NoVault
  BY DEF Init, Down
<1>5. EachFits
  BY <1>2, InitHolds, FitsIdle DEF EachFits
<1>6. Settling
  BY <1>2, <1>3, Plain DEF Settling, Threads, Daemon
<1>7. Session
  BY <1>1, <1>3, <1>4 DEF Session, Own, Processes
<1>8. Copies
  BY <1>1, <1>3, AnAccount DEF Init, Copies, RightIn
<1>9. QED
  BY <1>5, <1>6, <1>7, <1>8 DEF Owned

LEMMA NextOwned ==
    ASSUME IInv, Owned, ~Timeouts, Workers \subseteq Tracked, Next PROVE Owned'
<1>1. CASE \E t \in Threads : Works(t)
  BY <1>1, WorksOwned
<1>2. CASE \E to \in Accounts : BeginSwitch(to) \/ SwitchFromWindow(to)
  BY <1>2, RepointPathsOwned, SwitchFromWindowOwned DEF BeginSwitch
<1>3. CASE Starts \/ DaemonEnds \/ Lock \/ Reauthenticate \/ RepointKey \/ WaitEnds \/ ClearVault
  BY <1>3, StartsOwned, DaemonEndsOwned, LockOwned, ReauthenticateOwned, RepointKeyOwned,
     WaitEndsOwned, ClearVaultOwned
<1>4. CASE ForgetCopy \/ Authenticated \/ Declined \/ Settled \/ Disable \/ DeleteCopy
  BY <1>4, ForgetCopyOwned, AuthenticatedOwned, DeclinedOwned, SettledOwned, DisableOwned,
     DeleteCopyOwned
<1>5. CASE Enable \/ Enabled \/ WindowOpens \/ OpensLocalCopy \/ WindowEnds
  BY <1>5, EnableOwned, EnabledOwned, WindowOpensOwned, OpensLocalCopyOwned, WindowEndsOwned
<1>6. QED
  BY <1>1, <1>2, <1>3, <1>4, <1>5 DEF Next

LEMMA StutterOwned == ASSUME IInv, Owned, UNCHANGED vars PROVE Owned'
<1>1. UNCHANGED <<file, tmp, cache, op, main, active, serving, cast, astray>>
  BY DEF vars
<1>2. Home' = Home /\ There' = There
  BY <1>1 DEF Home, There
<1>3. Settling' /\ Session'
  BY <1>1, <1>2 DEF Owned, Settling, Session, Own
<1>4. QED
  BY <1>1, <1>2, <1>3, OwnedMoves

LEMMA OwnedInductive ==
    ASSUME ~Timeouts, Workers \subseteq Tracked PROVE Spec => []Owned
<1>1. Init => Owned
  BY InitOwned
<1>2. IInv /\ Owned /\ [Next]_vars => Owned'
  BY NextOwned, StutterOwned
<1>3. QED
  BY <1>1, <1>2, Inductive, PTL DEF Spec

(* The copy a launch would open is the active account's own, while no      *)
(* switch is under way and after a crash in one, if no switch was asked    *)
(* for in a window: for any accounts, workers and windows that write       *)
(* beside each other, when the wait of a resettle covers every worker and  *)
(* does not give up.                                                       *)
THEOREM TheActiveCopyIsAlwaysItsOwn ==
    ASSUME ~Timeouts, Workers \subseteq Tracked PROVE Spec => []TheActiveCopyIsItsOwn
<1>1. Owned => TheActiveCopyIsItsOwn
  BY DEF Owned, Copies, RightIn, TheActiveCopyIsItsOwn
<1>2. QED
  BY <1>1, OwnedInductive, PTL

(* A copy forgotten by a re-authentication stays forgotten, under the same *)
(* assumptions, if no window is open: at the forget the daemon holds no    *)
(* vault from before it, neither in its snapshot nor in a thread's hands.  *)
THEOREM ForgottenStaysForgottenAlways ==
    ASSUME ~Timeouts, Workers \subseteq Tracked PROVE Spec => []ForgottenStaysForgotten
<1>1. Owned => ForgottenStaysForgotten
  BY DEF Owned, Copies, ForgottenStaysForgotten
<1>2. QED
  BY <1>1, OwnedInductive, PTL

(* What the daemon's launch finds on the disk and lands is the vault of    *)
(* the account it is on, under the same assumptions: the header it checked *)
(* named the account of its directory, and its account has not changed.    *)
THEOREM AlwaysLoadsItsOwn ==
    ASSUME ~Timeouts, Workers \subseteq Tracked PROVE Spec => LoadsItsOwn
<1>1. ASSUME IInv, Owned, Lands, ~astray
      PROVE  cache'["daemon"].vault.of = cache["daemon"].fingerprint
  <2>1. Main \in Threads /\ Main # Window /\ ProcessOf(Main) = "daemon"
    BY TheThreads, ThreadsAssumption
  <2>2. op[Main].pc = "restore" /\ Update("daemon", [cache["daemon"] EXCEPT !.vault = op[Main].vault])
    BY <1>1, <2>1 DEF Lands, Restore, cacheOf
  <2>3. cache'["daemon"].vault = op[Main].vault
    BY <1>1, <2>2, TheAccounts DEF Update, IInv, Memory, Processes, Caches, Cache
  <2>4. op[Main].vault # NoVault
    BY <1>1, <2>1, <2>2, FitsHas, OpsHave DEF InHand, Fetched, NoVault
  <2>5. op[Main].vault.of = Home
    BY <1>1, <2>1, <2>2, <2>4, FitsHas DEF Fits, For, Own
  <2>6. main.pc \in {"idle", "populate"}
    BY <1>1, <2>2 DEF Owned, Settling
  <2>7. cache["daemon"].fingerprint = There /\ There = Home
    BY <1>1, <2>6 DEF Owned, Session, There, Home
  <2>8. QED
    BY <2>3, <2>5, <2>7
<1>2. IInv /\ Owned /\ [Next]_vars =>
          [Lands /\ ~astray => cache'["daemon"].vault.of = cache["daemon"].fingerprint]_vars
  BY <1>1
<1>3. QED
  BY <1>2, Inductive, OwnedInductive, PTL DEF Spec, LoadsItsOwn
=============================================================================
