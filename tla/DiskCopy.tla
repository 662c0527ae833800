------------------------------ MODULE DiskCopy ------------------------------
(***************************************************************************)
(* The encrypted copy of the vault on disk (vault_disk_cache.rs), as the   *)
(* caches of the daemon and of the window's process keep it                *)
(* (vault_cache.rs): persist and load_from_disk against each other, and    *)
(* against clear, the settings and the account switch of main.rs.          *)
(*                                                                         *)
(* Each account has a directory with one file, one temporary file and one  *)
(* key file.  Nothing locks them between processes; inside one, a persist  *)
(* takes the locks of the state, the snapshot, the key and the paths one   *)
(* after the other, and everything happens in between.  What the snapshot  *)
(* holds is abstracted to whose vault it is and when it was fetched:       *)
(* VaultCache models its rows.                                             *)
(***************************************************************************)
EXTENDS Naturals

CONSTANTS
    Accounts,     \* the accounts this machine has signed in to
    Main,         \* the daemon's main thread
    Workers,      \* the daemon's threads that synchronise
    Window,       \* the thread of the window's process that loads
    Tracked,      \* the workers a resettle waits for
    Timeouts,     \* whether that wait may give up
    Casts,        \* bound: the threads that ever take part beside each other
    Asking,       \* bound: the casts beside which a window asks for a switch
    MaxKeys       \* bound: seal keys ever minted for an account

ASSUME ThreadsAssumption ==
    Main \notin Workers /\ Window \notin Workers /\ Main # Window /\ Tracked \subseteq Workers
ASSUME CastsAssumption == Casts \subseteq SUBSET (Workers \cup {Window})
ASSUME AccountsAssumption == Accounts # {}
ASSUME BoundsAssumption == MaxKeys \in Nat

Daemon == Workers \cup {Main}
Threads == Daemon \cup {Window}

VARIABLES
    file,      \* vault-cache.bin of each account's directory
    tmp,       \* the temporary file beside it
    keyFile,   \* vault-cache-key.bin: how often one was minted for it
    cache,     \* each process's VaultCache and DiskCache, by "daemon" and "window"
    op,        \* what each thread is in the middle of
    main,      \* where the daemon's main thread is, and the accounts of a switch
    active,    \* the active account of settings.json
    setting,   \* cache_vault_to_disk of settings.json
    serving,   \* the account the daemon's backend answers for, and whether it is up
    cast,      \* the threads that take part, besides the main one
    astray     \* history: whether a switch was ever asked for in a window

vars == <<file, tmp, keyFile, cache, op, main, active, setting, serving,
          cast, astray>>

-----------------------------------------------------------------------------
(* A fetched vault, and whose it is.  `age` is history: a vault fetched    *)
(* before the last forget_disk_copy is old.                                *)
Fetched == [age : {"new", "old"}, of : Accounts]
Vault == Fetched \cup [age : {"none"}, of : Accounts]
SomeAccount == CHOOSE a \in Accounts : TRUE
NoVault == [age |-> "none", of |-> SomeAccount]
Aged(v) == IF v.age = "new" THEN [v EXCEPT !.age = "old"] ELSE v

(* A seal key: the directory it was minted for, and which one of its it is.*)
Key == [of : Accounts, mint : Nat]
NoKey == [of |-> SomeAccount, mint |-> 0]
Stored(d) == [of |-> d, mint |-> keyFile[d]]

(* A file, temporary or not: "writing" while fs::write is under way, torn  *)
(* where that was cut short.  `owner` is the fingerprint of the header,    *)
(* `key` the seal key, `by` the thread at it.                              *)
Whole == [state : {"whole"}, owner : Accounts, vault : Fetched, key : Key, by : Threads]
File == Whole \cup [state : {"none", "writing", "torn"}, owner : Accounts, vault : Vault,
                   key : Key, by : Threads]
NoFile == [state |-> "none", owner |-> SomeAccount, vault |-> NoVault, key |-> NoKey, by |-> Main]

(* DiskState, Paths, KeyState and Snapshot of one process. *)
Cache == [up : BOOLEAN, enabled : BOOLEAN, fingerprint : Accounts, dir : Accounts,
          key : Key, vault : Vault]
Down == [up |-> FALSE, enabled |-> FALSE, fingerprint |-> SomeAccount, dir |-> SomeAccount,
         key |-> NoKey, vault |-> NoVault]

Processes == {"daemon", "window"}
ProcessOf(t) == IF t = Window THEN "window" ELSE "daemon"
cacheOf(t) == cache[ProcessOf(t)]
ThreadsOf(p) == {t \in Threads : ProcessOf(t) = p}

Steps == {"idle", "fetch", "land", "flag", "clone", "dir", "key", "mint",
          "write", "writing", "rename", "opened", "reject", "restore", "enable"}
(* `cleared` tells whether a clear came since the epoch was taken, which   *)
(* is what comparing the two eras tells.                                   *)
Tasks == {"write", "load", "enable"}
Op == [pc : Steps, task : Tasks, fingerprint : Accounts, dir : Accounts,
       vault : Vault, cleared : BOOLEAN, key : Key]
Idle == [pc |-> "idle", task |-> "write", fingerprint |-> SomeAccount, dir |-> SomeAccount,
         vault |-> NoVault, cleared |-> FALSE, key |-> NoKey]

MainSteps == {"off", "idle", "keys", "wait", "clear", "forget", "authenticate",
              "populate", "delete"}
(* `door` is where a switch was asked for. *)
Doors == {"tray", "window"}
Rest == [pc |-> "idle", to |-> SomeAccount, back |-> FALSE, door |-> "tray"]
MainState == [pc : MainSteps, to : Accounts, back : BOOLEAN, door : Doors]

TypeOK ==
    /\ file \in [Accounts -> File]
    /\ tmp \in [Accounts -> File]
    /\ keyFile \in [Accounts -> Nat]
    /\ cache \in [Processes -> Cache]
    /\ op \in [Threads -> Op]
    /\ main \in MainState
    /\ active \in Accounts
    /\ setting \in BOOLEAN
    /\ serving \in [of : Accounts, live : BOOLEAN]
    /\ cast \subseteq Threads
    /\ astray \in BOOLEAN

Init ==
    /\ file = [a \in Accounts |-> NoFile]
    /\ tmp = [a \in Accounts |-> NoFile]
    /\ keyFile = [a \in Accounts |-> 0]
    /\ cache = [p \in Processes |-> Down]
    /\ op = [t \in Threads |-> Idle]
    /\ main = [Rest EXCEPT !.pc = "off"]
    /\ active = SomeAccount
    /\ setting = TRUE
    /\ serving = [of |-> SomeAccount, live |-> FALSE]
    /\ cast \in Casts
    /\ astray = FALSE

disk == <<file, tmp, keyFile>>
history == <<cast, astray>>
daemonOnly == <<main, active, setting, serving, history>>

Step(t, o) == op' = [op EXCEPT ![t] = o]
Update(p, c) == cache' = [cache EXCEPT ![p] = c]

(* The process's locks of the paths and of the key, held across a write    *)
(* and a mint.                                                             *)
PathsFree(p) == \A t \in ThreadsOf(p) : op[t].pc \notin {"writing", "rename"}
KeyFree(p) == \A t \in ThreadsOf(p) : op[t].pc # "mint"

-----------------------------------------------------------------------------
(* A load from the backend, and its landing (write_back_at_epoch). *)

BeginSync(t) ==
    /\ op[t].pc = "idle" /\ cacheOf(t).up
    /\ t = Main => main.pc = "populate"
    /\ t \in Workers => t \in cast /\ main.pc = "idle" /\ op[Main].pc = "idle"
    /\ Step(t, [Idle EXCEPT !.pc = "fetch"])
    /\ UNCHANGED <<disk, cache, daemonOnly>>

(* The daemon's backend answers for the account of its session; a window's *)
(* for the account the window was opened for.                              *)
Answer(t) == [age |-> "new", of |-> IF t = Window THEN cacheOf(t).dir ELSE serving.of]

FetchVault(t) ==
    /\ op[t].pc = "fetch" /\ (serving.live \/ t = Window)
    /\ Step(t, [op[t] EXCEPT !.pc = "land", !.vault = Answer(t)])
    /\ UNCHANGED <<disk, cache, daemonOnly>>

(* An era that moved discards the load; nothing is persisted then. *)
Land(t) ==
    /\ op[t].pc = "land"
    /\ IF ~op[t].cleared
       THEN /\ Update(ProcessOf(t), [cacheOf(t) EXCEPT !.vault = op[t].vault])
            /\ Step(t, [Idle EXCEPT !.pc = "flag"])
       ELSE cache' = cache /\ Step(t, Idle)
    /\ UNCHANGED <<disk, daemonOnly>>

-----------------------------------------------------------------------------
(* persist and DiskCache::write. *)

ReadState(t) ==
    /\ op[t].pc = "flag"
    /\ Step(t, IF cacheOf(t).enabled
               THEN [op[t] EXCEPT !.pc = "clone", !.fingerprint = cacheOf(t).fingerprint]
               ELSE Idle)
    /\ UNCHANGED <<disk, cache, daemonOnly>>

(* Mutant: a snapshot that was cleared is written as an empty vault. *)
CloneWhateverThereIs(t) ==
    /\ op[t].pc = "clone"
    /\ Step(t, [op[t] EXCEPT !.pc = "dir", !.vault = cacheOf(t).vault])
    /\ UNCHANGED <<disk, cache, daemonOnly>>

(* A snapshot cleared since then is not persisted. *)
CloneVault(t) ==
    /\ op[t].pc = "clone"
    /\ Step(t, IF cacheOf(t).vault = NoVault THEN Idle
               ELSE [op[t] EXCEPT !.pc = "dir", !.vault = cacheOf(t).vault])
    /\ UNCHANGED <<disk, cache, daemonOnly>>

ReadDir(t) ==
    /\ op[t].pc = "dir"
    /\ Step(t, [op[t] EXCEPT !.pc = "key", !.dir = cacheOf(t).dir])
    /\ UNCHANGED <<disk, cache, daemonOnly>>

(* With the key in hand: a load opens what it read, and discards the file  *)
(* if it does not open; a write goes on; enable sets the flag and persists.*)
WithKey(t, key) ==
    CASE op[t].task = "write" -> [op[t] EXCEPT !.pc = "write", !.key = key]
      [] op[t].task = "enable" -> [op[t] EXCEPT !.pc = "enable"]
      [] op[t].task = "load" ->
           [op[t] EXCEPT !.pc = IF op[t].key = key THEN "restore" ELSE "reject"]

(* ensure_key, under the key's lock: the session's key, or the file's.     *)
(* Failing is Fails.                                                       *)
EnsureKey(t) ==
    /\ op[t].pc = "key" /\ KeyFree(ProcessOf(t))
    /\ \/ /\ cacheOf(t).key # NoKey
          /\ Step(t, WithKey(t, cacheOf(t).key)) /\ cache' = cache
       \/ /\ cacheOf(t).key = NoKey /\ keyFile[op[t].dir] # 0
          /\ Step(t, WithKey(t, Stored(op[t].dir)))
          /\ Update(ProcessOf(t), [cacheOf(t) EXCEPT !.key = Stored(op[t].dir)])
       \/ /\ cacheOf(t).key = NoKey /\ keyFile[op[t].dir] = 0
          /\ Step(t, [op[t] EXCEPT !.pc = "mint"]) /\ cache' = cache
    /\ UNCHANGED <<disk, daemonOnly>>

(* mint_seal_key: the file was not there when it was read. *)
MintKey(t) ==
    /\ op[t].pc = "mint" /\ keyFile[op[t].dir] < MaxKeys
    /\ LET key == [of |-> op[t].dir, mint |-> keyFile[op[t].dir] + 1]
       IN /\ keyFile' = [keyFile EXCEPT ![op[t].dir] = key.mint]
          /\ Update(ProcessOf(t), [cacheOf(t) EXCEPT !.key = key])
          /\ Step(t, WithKey(t, key))
    /\ UNCHANGED <<file, tmp, daemonOnly>>

(* The paths are read again, and held to the end. *)
BeginWrite(t) ==
    /\ op[t].pc = "write" /\ PathsFree(ProcessOf(t))
    /\ tmp' = [tmp EXCEPT ![cacheOf(t).dir] = [NoFile EXCEPT !.state = "writing", !.by = t]]
    /\ Step(t, [op[t] EXCEPT !.pc = "writing", !.dir = cacheOf(t).dir])
    /\ UNCHANGED <<file, keyFile, cache, daemonOnly>>

Written(t) == [state |-> "whole", owner |-> op[t].fingerprint, vault |-> op[t].vault,
               key |-> op[t].key, by |-> Main]

(* Mutant: the file is written in place. *)
EndWriteInPlace(t) ==
    /\ op[t].pc = "writing"
    /\ file' = [file EXCEPT ![op[t].dir] = tmp[op[t].dir]]
    /\ tmp' = [tmp EXCEPT ![op[t].dir] = Written(t)]
    /\ Step(t, [Idle EXCEPT !.pc = "rename", !.dir = op[t].dir])
    /\ UNCHANGED <<keyFile, cache, daemonOnly>>

(* The handle follows the file, should the other process have renamed it.  *)
EndWrite(t) ==
    /\ op[t].pc = "writing"
    /\ LET mine(f) == IF f.state = "writing" /\ f.by = t THEN Written(t) ELSE f
       IN /\ tmp' = [tmp EXCEPT ![op[t].dir] = mine(@)]
          /\ file' = [file EXCEPT ![op[t].dir] = mine(@)]
    /\ Step(t, [Idle EXCEPT !.pc = "rename", !.dir = op[t].dir])
    /\ UNCHANGED <<keyFile, cache, daemonOnly>>

(* The rename takes what bears the name, if anything does. *)
Rename(t) ==
    /\ op[t].pc = "rename"
    /\ LET t0 == tmp[op[t].dir]
       IN IF t0.state = "none" THEN file' = file
          ELSE file' = [file EXCEPT ![op[t].dir] = t0]
    /\ tmp' = [tmp EXCEPT ![op[t].dir] = NoFile]
    /\ Step(t, Idle)
    /\ UNCHANGED <<keyFile, cache, daemonOnly>>

(* The rename is refused: the temporary file goes, the file stays. *)
RenameRefused(t) ==
    /\ op[t].pc = "rename"
    /\ tmp' = [tmp EXCEPT ![op[t].dir] = NoFile]
    /\ Step(t, Idle)
    /\ UNCHANGED <<file, keyFile, cache, daemonOnly>>

(* A disk that refuses: the write is a warning, and the file stays. *)
Fails(t) ==
    /\ op[t].pc \in {"fetch", "key", "mint", "write"}
    /\ Step(t, Idle)
    /\ UNCHANGED <<disk, cache, daemonOnly>>

-----------------------------------------------------------------------------
(* load_from_disk. *)

(* check_header, with the parsing before it. *)
HeaderHolds(f, c) == f.state = "whole" /\ f.owner = c.fingerprint

(* opened_file: the temporary file goes, the file is read, and its header  *)
(* asked before any key is.                                                *)
BeginLoad(t) ==
    /\ op[t].pc = "opened"
    /\ \E expired \in BOOLEAN : LET
           c == cacheOf(t)
           f == file[c.dir]
           o == [Idle EXCEPT !.task = "load", !.fingerprint = c.fingerprint, !.dir = c.dir,
                             !.vault = f.vault, !.key = f.key]
       IN IF ~c.enabled THEN tmp' = tmp /\ Step(t, Idle)
          ELSE /\ tmp' = [tmp EXCEPT ![c.dir] = NoFile]
               /\ Step(t, IF f.state = "none" THEN Idle
                          ELSE [o EXCEPT !.pc = IF HeaderHolds(f, c) /\ ~expired THEN "key" ELSE "reject"])
    /\ UNCHANGED <<file, keyFile, cache, daemonOnly>>

(* What does not open is deleted, by its name. *)
Reject(t) ==
    /\ op[t].pc = "reject"
    /\ file' = [file EXCEPT ![op[t].dir] = NoFile]
    /\ Step(t, Idle)
    /\ UNCHANGED <<tmp, keyFile, cache, daemonOnly>>

(* Landed as any load is, but never written back to the disk. *)
Restore(t) ==
    /\ op[t].pc = "restore"
    /\ IF ~op[t].cleared
       THEN Update(ProcessOf(t), [cacheOf(t) EXCEPT !.vault = op[t].vault])
       ELSE cache' = cache
    /\ Step(t, Idle)
    /\ UNCHANGED <<disk, daemonOnly>>

Works(t) ==
    \/ BeginSync(t) \/ FetchVault(t) \/ Land(t)
    \/ ReadState(t) \/ CloneVault(t) \/ ReadDir(t) \/ EnsureKey(t) \/ MintKey(t)
    \/ BeginWrite(t) \/ EndWrite(t) \/ Rename(t) \/ RenameRefused(t) \/ Fails(t)
    \/ BeginLoad(t) \/ Reject(t) \/ Restore(t)

-----------------------------------------------------------------------------
(* The daemon's main thread. *)

Settles(m) == main' = m
Goes(pc) == main' = [main EXCEPT !.pc = pc]
MainIdle == main.pc = "idle" /\ op[Main].pc = "idle"

Started(enabled) == [Down EXCEPT !.up = TRUE, !.enabled = enabled,
                                 !.fingerprint = active, !.dir = active]

(* VaultCache::with_disk_cache and the load at startup; the session is the *)
(* one the stored token resumes.                                           *)
Starts ==
    /\ main.pc = "off"
    /\ Settles(Rest)
    /\ Update("daemon", Started(setting))
    /\ Step(Main, [Idle EXCEPT !.pc = "opened"])
    /\ serving' = [of |-> active, live |-> TRUE]
    /\ UNCHANGED <<disk, active, setting, history>>

(* What a process was writing when it ended stays as it is. *)
CutShort(p, f) == IF f.state = "writing" /\ f.by \in ThreadsOf(p)
                  THEN [NoFile EXCEPT !.state = "torn"] ELSE f
Ends(p) ==
    /\ file' = [a \in Accounts |-> CutShort(p, file[a])]
    /\ tmp' = [a \in Accounts |-> CutShort(p, tmp[a])]
    /\ Update(p, Down)
    /\ op' = [t \in Threads |-> IF ProcessOf(t) = p THEN Idle ELSE op[t]]
    /\ UNCHANGED <<keyFile>>

(* A quit or a crash, at any point. *)
DaemonEnds ==
    /\ main.pc # "off"
    /\ Ends("daemon")
    /\ Settles([Rest EXCEPT !.pc = "off"])
    /\ UNCHANGED <<active, setting, serving, history>>

Clear ==
    /\ Update("daemon", [cache["daemon"] EXCEPT !.vault = NoVault])
    /\ op' = [t \in Threads |-> IF t \in Daemon /\ op[t].pc \in {"fetch", "land"}
                                THEN [op[t] EXCEPT !.cleared = TRUE] ELSE op[t]]

(* On a lock the file stays. *)
Lock ==
    /\ MainIdle
    /\ Clear
    /\ UNCHANGED <<disk, daemonOnly>>

(* switch_to_account: the disk cache is repointed before anything else;    *)
(* its paths and its key are two critical sections.                        *)
RepointPaths(to, back) ==
    /\ PathsFree("daemon")
    /\ Update("daemon", [cache["daemon"] EXCEPT !.fingerprint = to, !.dir = to])
    /\ Settles([pc |-> "keys", to |-> to, back |-> back, door |-> "tray"])
    /\ UNCHANGED <<disk, op, active, setting, serving, history>>

(* Mutant: settings.json names the account before the switch is made. *)
BeginSwitchNamed(to) ==
    /\ MainIdle /\ to # active /\ PathsFree("daemon")
    /\ Update("daemon", [cache["daemon"] EXCEPT !.fingerprint = to, !.dir = to])
    /\ Settles([pc |-> "keys", to |-> to, back |-> FALSE, door |-> "tray"])
    /\ active' = to
    /\ UNCHANGED <<disk, op, setting, serving, history>>

BeginSwitch(to) == MainIdle /\ to # active /\ RepointPaths(to, FALSE)

(* A switch asked for in the window (main.rs:8085), which has ended with   *)
(* the answer, repoints nothing.                                           *)
SwitchFromWindow(to) ==
    /\ cast \in Asking /\ MainIdle /\ to # active /\ ~cache["window"].up
    /\ Settles([pc |-> "wait", to |-> to, back |-> FALSE, door |-> "window"])
    /\ astray' = TRUE
    /\ UNCHANGED <<disk, cache, op, active, setting, serving, cast>>

RepointKey ==
    /\ main.pc = "keys" /\ KeyFree("daemon")
    /\ Update("daemon", [cache["daemon"] EXCEPT !.key = NoKey])
    /\ Goes("wait")
    /\ UNCHANGED <<disk, op, active, setting, serving, history>>

(* A re-authentication settles again on the account it is on. *)
Reauthenticate ==
    /\ MainIdle
    /\ Settles([pc |-> "wait", to |-> active, back |-> TRUE, door |-> "tray"])
    /\ UNCHANGED <<disk, cache, op, active, setting, serving, history>>

(* Mutant: nothing in flight is waited for. *)
NoWait ==
    /\ main.pc = "wait"
    /\ Goes("clear")
    /\ UNCHANGED <<disk, cache, op, active, setting, serving, history>>

(* resettle_session: the operation in flight is waited for, up to          *)
(* BACKEND_OP_TIMEOUT.                                                     *)
WaitEnds ==
    /\ main.pc = "wait"
    /\ ~Timeouts => \A t \in Tracked : op[t].pc = "idle"
    /\ Goes("clear")
    /\ UNCHANGED <<disk, cache, op, active, setting, serving, history>>

ClearVault ==
    /\ main.pc = "clear"
    /\ Clear
    /\ Goes("forget")
    /\ UNCHANGED <<disk, active, setting, serving, history>>

Deleted(d) == /\ file' = [file EXCEPT ![d] = NoFile]
              /\ tmp' = [tmp EXCEPT ![d] = NoFile]

(* forget_disk_copy deletes from the directory the paths name now. *)
AgeAll ==
    /\ cache' = [p \in Processes |-> [cache[p] EXCEPT !.vault = Aged(@)]]
    /\ op' = [t \in Threads |-> [op[t] EXCEPT !.vault = Aged(@)]]

(* Mutant: the file stays, as on a lock. *)
KeepCopy ==
    /\ main.pc = "forget" /\ PathsFree("daemon")
    /\ file' = [file EXCEPT ![main.to].vault = Aged(@)]
    /\ AgeAll
    /\ serving' = [serving EXCEPT !.live = FALSE]
    /\ Goes("authenticate")
    /\ UNCHANGED <<tmp, keyFile, active, setting, history>>

(* The backend of the session before is stopped with it. *)
ForgetCopy ==
    /\ main.pc = "forget" /\ PathsFree("daemon")
    /\ Deleted(cache["daemon"].dir)
    /\ AgeAll
    /\ serving' = [serving EXCEPT !.live = FALSE]
    /\ Goes("authenticate")
    /\ UNCHANGED <<keyFile, active, setting, history>>

(* The password is accepted, the backend starts and the window probes it:  *)
(* the vault is loaded on this thread.                                     *)
Authenticated ==
    /\ main.pc = "authenticate"
    /\ serving' = [of |-> main.to, live |-> TRUE]
    /\ Goes("populate")
    /\ UNCHANGED <<disk, cache, op, active, setting, history>>

(* The prompt is closed, or no backend starts: back to the account before, *)
(* by the same sequence; or the daemon stands down.                        *)
Declined ==
    /\ main.pc = "authenticate"
    /\ \/ /\ ~main.back /\ main.door = "tray"
          /\ RepointPaths(active, TRUE)
       \/ /\ main.back \/ main.door = "window"
          /\ Settles(IF main.back THEN Rest
                     ELSE [main EXCEPT !.pc = "wait", !.to = active, !.back = TRUE])
          /\ UNCHANGED <<disk, cache, op, active, setting, serving, history>>

(* The switch is made: the account is adopted, and named in settings.json. *)
Settled ==
    /\ main.pc = "populate" /\ op[Main].pc = "idle"
    /\ active' = main.to
    /\ Settles(Rest)
    /\ UNCHANGED <<disk, cache, op, setting, serving, history>>

(* disable_disk_persistence: the flag first, then the delete; then the     *)
(* setting is saved.                                                       *)
Disable ==
    /\ MainIdle /\ setting
    /\ Update("daemon", [cache["daemon"] EXCEPT !.enabled = FALSE])
    /\ Goes("delete")
    /\ UNCHANGED <<disk, op, active, setting, serving, history>>

DeleteCopy ==
    /\ main.pc = "delete" /\ PathsFree("daemon")
    /\ Deleted(cache["daemon"].dir)
    /\ setting' = FALSE
    /\ Settles(Rest)
    /\ UNCHANGED <<keyFile, cache, op, active, serving, history>>

(* enable_disk_persistence: the key first, for without one the change is   *)
(* refused; then the flag, and a first copy.                               *)
Enable ==
    /\ MainIdle /\ ~setting
    /\ Step(Main, [Idle EXCEPT !.pc = "key", !.task = "enable", !.dir = cache["daemon"].dir])
    /\ UNCHANGED <<disk, cache, daemonOnly>>

Enabled ==
    /\ op[Main].pc = "enable"
    /\ Update("daemon", [cache["daemon"] EXCEPT !.enabled = TRUE])
    /\ setting' = TRUE
    /\ Step(Main, [Idle EXCEPT !.pc = "flag"])
    /\ UNCHANGED <<disk, main, active, serving, history>>

(* The window's process: opened for the active account, with the setting   *)
(* as it is then; it loads the copy first and keeps no ear for either.     *)
WindowOpens ==
    /\ Window \in cast /\ MainIdle /\ ~cache["window"].up
    /\ Update("window", Started(setting))
    /\ Step(Window, [Idle EXCEPT !.pc = "opened"])
    /\ UNCHANGED <<disk, daemonOnly>>

(* open_local_copy, from the card of a window with no vault to show. *)
OpensLocalCopy ==
    /\ cache["window"].up /\ op[Window].pc = "idle" /\ cache["window"].vault = NoVault
    /\ Step(Window, [Idle EXCEPT !.pc = "opened"])
    /\ UNCHANGED <<disk, cache, daemonOnly>>

WindowEnds ==
    /\ cache["window"].up
    /\ Ends("window")
    /\ UNCHANGED daemonOnly

Next ==
    \/ \E t \in Threads : Works(t)
    \/ Starts \/ DaemonEnds \/ Lock \/ Reauthenticate
    \/ \E to \in Accounts : BeginSwitch(to) \/ SwitchFromWindow(to)
    \/ RepointKey \/ WaitEnds \/ ClearVault \/ ForgetCopy \/ Authenticated
    \/ Declined \/ Settled \/ Disable \/ DeleteCopy \/ Enable \/ Enabled
    \/ WindowOpens \/ OpensLocalCopy \/ WindowEnds

Spec == Init /\ [][Next]_vars

-----------------------------------------------------------------------------
(* Properties. *)

AtRest == main.pc \in {"idle", "off"}

(* The copy a launch would open, the one in the active account's directory *)
(* with its fingerprint on it, holds that account's vault: while the       *)
(* daemon is not in the middle of a switch, and after a crash in one.      *)
(* During the switch the snapshot of the account being left is persisted   *)
(* under the fingerprint of the one to come (main.rs:3060).                *)
TheActiveCopyIsItsOwn ==
    AtRest /\ ~astray /\ file[active].state = "whole" /\ file[active].owner = active
        => file[active].vault.of = active

(* A copy forgotten by a re-authentication stays forgotten                 *)
(* (main.rs:9189): what is found there later was fetched after it.  A      *)
(* window that was open through it may write an older vault.               *)
ForgottenStaysForgotten ==
    Window \notin cast => \A a \in Accounts : file[a].vault.age # "old"

(* A crash leaves the old copy or the new one, never part of one           *)
(* (DiskCache::write), while one process writes.                           *)
WholeCopies == Window \notin cast => \A a \in Accounts : file[a].state \in {"none", "whole"}

(* What the daemon's launch finds on the disk and lands is the vault of    *)
(* the account it is on, whenever it ended before and whatever a window    *)
(* does meanwhile (check_header, load_from_disk).  A window may be loading *)
(* its account's copy while the daemon switches to that account.           *)
Lands == Restore(Main) /\ ~op[Main].cleared
LoadsItsOwn ==
    [][Lands /\ ~astray => cache'["daemon"].vault.of = cache["daemon"].fingerprint]_vars
=============================================================================
