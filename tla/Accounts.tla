------------------------------ MODULE Accounts ------------------------------
(***************************************************************************)
(* The accounts of one Deskwarden and what names them: settings.json and   *)
(* its writers (settings.rs), the directories and sign-in secrets on disk  *)
(* (accounts.rs), and the switch, addition and removal of an account by    *)
(* the daemon (main.rs), through prompts that are closed, backends that do *)
(* not start, writes that fail and crashes.                                *)
(*                                                                         *)
(* A list of accounts is the set of their ids: where the code takes the    *)
(* first of a list, any of them is taken.                                  *)
(***************************************************************************)
EXTENDS FiniteSets

CONSTANTS
    Ids,         \* the ids AccountId::generate can return
    NoId,        \* Option::None where an id is expected
    Hazards      \* of "crash", "refused" and "window": what this machine meets

ASSUME IdsAssumption == NoId \notin Ids
ASSUME HazardsAssumption == Hazards \subseteq {"crash", "refused", "window"}

VARIABLES
    file,        \* settings.json: blank (or absent), torn, or whole
    dirs,        \* the ids whose directory exists
    profile,     \* those with a signed-in profile in it
    secrets,     \* those with a session token in it
    pc,          \* what the daemon is doing
    op,          \* the switch it is in: for what, from where, to where, and back
    listed,      \* AccountsState: the list and the active account
    active,      \* estate.active_account
    pointers,    \* the token store, bw's data directory, the backend's account
    session,     \* the account whose backend is up
    drafts,      \* what each writer of settings.json is about to write
    window,      \* the vault window's write: none, read, open
    cut,         \* ids whose addition or removal a crash or an error cut short
    mishaps      \* what befell the file: refused, overlap, blank

vars == <<file, dirs, profile, secrets, pc, op, listed, active, pointers, session,
          drafts, window, cut, mishaps>>

Lists == [accounts : SUBSET Ids, active : Ids \cup {NoId}]
Nothing == [accounts |-> {}, active |-> NoId]
NoOp == [kind |-> "none", from |-> NoId, to |-> NoId, back |-> FALSE]
Everywhere(id) == [store |-> id, dir |-> id, backend |-> id]

Stages == {"off", "resolve", "resolveOpen", "point", "startSignIn", "rest", "prefs", "prefsOpen",
           "newSignIn", "claim", "claimOpen", "repoint", "stop", "prompt", "start",
           "delete", "record", "recordOpen", "unclaim", "unclaimOpen", "discard"}

TypeOK ==
    /\ file \in [form : {"blank", "torn", "whole"}, list : Lists]
    /\ file.form # "whole" => file.list = Nothing
    /\ profile \subseteq dirs /\ secrets \subseteq dirs /\ dirs \subseteq Ids
    /\ pc \in Stages
    /\ op \in [kind : {"none", "switch", "add", "remove"}, from : Ids \cup {NoId},
               to : Ids \cup {NoId}, back : BOOLEAN]
    /\ listed \in Lists
    /\ active \in Ids \cup {NoId}
    /\ pointers \in [store : Ids \cup {NoId}, dir : Ids \cup {NoId}, backend : Ids \cup {NoId}]
    /\ session \in Ids \cup {NoId}
    /\ drafts \in [{"daemon", "window"} -> Lists]
    /\ window \in {"none", "read", "open"}
    /\ cut \subseteq Ids
    /\ mishaps \subseteq {"refused", "overlap", "blank"}

Blank == [form |-> "blank", list |-> Nothing]
Torn == [form |-> "torn", list |-> Nothing]
Whole(list) == [form |-> "whole", list |-> list]

Init ==
    /\ file = Blank
    /\ dirs = {} /\ profile = {} /\ secrets = {}
    /\ pc = "off" /\ op = NoOp
    /\ listed = Nothing /\ active = NoId
    /\ pointers = Everywhere(NoId) /\ session = NoId
    /\ drafts = [w \in {"daemon", "window"} |-> Nothing]
    /\ window = "none"
    /\ cut = {} /\ mishaps = {}

disk == <<dirs, profile, secrets>>
memory == <<listed, active, pointers, session>>
history == <<cut, mishaps>>

(* A generated id is one that nothing bears. *)
Fresh == Ids \ (dirs \cup file.list.accounts \cup listed.accounts \cup cut
                \cup drafts["window"].accounts \cup drafts["daemon"].accounts)

-----------------------------------------------------------------------------
(* settings.json.  Every writer loads the file, changes its own fields, and *)
(* writes it whole with fs::write: the file is emptied, and then filled.    *)

DaemonWrites == {"resolveOpen", "claimOpen", "recordOpen", "unclaimOpen", "prefsOpen"}

(* persist_accounts: the list is written over whatever the file had, unless *)
(* it had something that could not be read, or the write fails.             *)
Persist(stage, open, drawn, refused) ==
    /\ pc = stage
    /\ \/ /\ file.form # "torn"
          /\ file' = Blank
          /\ drafts' = [drafts EXCEPT !["daemon"] = drawn]
          /\ pc' = open
          /\ mishaps' = IF window # "none" THEN mishaps \cup {"overlap"} ELSE mishaps
       \/ /\ file.form = "torn" \/ "refused" \in Hazards
          /\ mishaps' = mishaps \cup {"refused"}
          /\ pc' = refused
          /\ UNCHANGED <<file, drafts>>

(* What is written over a shorter text that another filled in meanwhile     *)
(* leaves nothing of it, over a longer one its end.                         *)
Filled(list) == {Whole(list)} \cup IF file = Blank THEN {} ELSE {Torn}

Persisted(open, next) ==
    /\ pc = open
    /\ file' \in Filled(drafts["daemon"])
    /\ drafts' = [drafts EXCEPT !["daemon"] = Nothing]
    /\ pc' = next

(* persist_preferences, of the daemon as the preferences window ends: the   *)
(* account list is the one just loaded.                                     *)
Preferences ==
    /\ pc = "rest" /\ file.form # "torn"
    /\ drafts' = [drafts EXCEPT !["daemon"] = file.list]
    /\ pc' = "prefs"
    /\ mishaps' = IF window # "none" THEN mishaps \cup {"overlap"} ELSE mishaps
    /\ UNCHANGED <<file, disk, op, memory, window, cut>>

PreferencesOpen ==
    /\ pc = "prefs"
    /\ file' = Blank
    /\ pc' = "prefsOpen"
    /\ UNCHANGED <<disk, op, memory, drafts, window, history>>

PreferencesEnd ==
    /\ Persisted("prefsOpen", "rest")
    /\ UNCHANGED <<disk, op, memory, window, history>>

(* persist_vault_window_geometry, of the window's process, as it closes. *)
WindowReads ==
    /\ window = "none" /\ "window" \in Hazards /\ file.form # "torn"
    /\ drafts' = [drafts EXCEPT !["window"] = file.list]
    /\ window' = "read"
    /\ mishaps' = IF pc \in DaemonWrites \cup {"prefs"} THEN mishaps \cup {"overlap"} ELSE mishaps
    /\ UNCHANGED <<file, disk, pc, op, memory, cut>>

WindowOpens ==
    /\ window = "read"
    /\ file' = Blank
    /\ window' = "open"
    /\ UNCHANGED <<disk, pc, op, memory, drafts, history>>

WindowWrites ==
    /\ window = "open"
    /\ file' \in Filled(drafts["window"])
    /\ drafts' = [drafts EXCEPT !["window"] = Nothing]
    /\ window' = "none"
    /\ UNCHANGED <<disk, pc, op, memory, history>>

-----------------------------------------------------------------------------
(* Startup. *)

(* load and resolve_startup: an unreadable list is not replaced, an empty   *)
(* one is a first run, and the active account is the stored one if listed.  *)
Starts ==
    /\ pc = "off"
    /\ \/ /\ file.form = "torn"
          /\ pc' = "point"
          /\ UNCHANGED <<listed, active>>
       \/ /\ file.form # "torn" /\ file.list.accounts = {}
          /\ \E id \in Fresh :
                /\ listed' = [accounts |-> {id}, active |-> id]
                /\ active' = id
          /\ pc' = "resolve"
       \/ /\ file.list.accounts # {}
          /\ \E id \in file.list.accounts :
                /\ file.list.active \in file.list.accounts => id = file.list.active
                /\ listed' = [file.list EXCEPT !.active = id]
                /\ active' = id
                /\ pc' = IF id = file.list.active THEN "point" ELSE "resolve"
    /\ mishaps' = IF window = "open" THEN mishaps \cup {"overlap"} ELSE mishaps
    /\ UNCHANGED <<file, disk, op, pointers, session, drafts, window, cut>>

(* A first run whose list cannot be written signs in all the same: the     *)
(* next launch mints another id, at the cost of one sign-in (main.rs:615). *)
Resolves ==
    /\ Persist("resolve", "resolveOpen", listed, "point")
    /\ cut' = IF pc' = "point" THEN cut \cup {active} ELSE cut
    /\ UNCHANGED <<disk, op, memory, window>>

Resolved ==
    /\ Persisted("resolveOpen", "point")
    /\ UNCHANGED <<disk, op, memory, window, history>>

(* ensure_account_dir, set_active_data_dir, SessionStore::new and           *)
(* settle_the_vault_backend.                                                *)
Points ==
    /\ pc = "point"
    /\ dirs' = dirs \cup ({active} \cap Ids)
    /\ pointers' = Everywhere(active)
    /\ pc' = "startSignIn"
    /\ UNCHANGED <<file, profile, secrets, op, listed, active, session, drafts, window, history>>

(* The stored token is good, or the login window gave one; a login window   *)
(* that is closed, or a backend that does not start, ends the process.      *)
StartSignsIn ==
    /\ pc = "startSignIn"
    /\ pc' = "rest"
    /\ profile' = profile \cup ({pointers.dir} \cap Ids)
    /\ secrets' = secrets \cup ({pointers.store} \cap Ids)
    /\ session' = pointers.dir
    /\ UNCHANGED <<file, dirs, op, listed, active, pointers, drafts, window, history>>

-----------------------------------------------------------------------------
(* A switch, on its own or as a part of an addition or a removal.           *)

Chooses(kind, to, next) ==
    /\ pc = "rest" /\ active # NoId
    /\ op' = [kind |-> kind, from |-> active, to |-> to, back |-> FALSE]
    /\ pc' = next

(* The tray's list of accounts, or the window's. *)
Switch ==
    /\ \E to \in listed.accounts \ {listed.active} : Chooses("switch", to, "repoint")
    /\ UNCHANGED <<file, disk, memory, drafts, window, history>>

(* remove_account settles onto another account first: the one removed is   *)
(* the active one, and never the last.                                     *)
Remove ==
    /\ \E to \in listed.accounts \ {listed.active} : Chooses("remove", to, "repoint")
    /\ UNCHANGED <<file, disk, memory, drafts, window, history>>

(* add_account: prepare_new_account makes the directory.                   *)
Add ==
    /\ \E id \in Fresh : Chooses("add", id, "newSignIn") /\ dirs' = dirs \cup {id}
    /\ UNCHANGED <<file, profile, secrets, memory, drafts, window, history>>

(* Mutant: only the directory is accounted for. *)
RemovedTheDirectory(id) == dirs' = dirs \ {id} /\ UNCHANGED <<profile, secrets>>

Removed(id) ==
    /\ dirs' = dirs \ {id}
    /\ profile' = profile \ {id}
    /\ secrets' = secrets \ {id}

(* discard_prepared_account: the directory goes, or that fails and is      *)
(* logged.                                                                 *)
Discarded ==
    /\ \/ Removed(op.to) /\ cut' = cut
       \/ "refused" \in Hazards /\ cut' = cut \cup {op.to} /\ UNCHANGED disk
    /\ op' = NoOp
    /\ pc' = "rest"

SignInClosed ==
    /\ pc = "newSignIn"
    /\ Discarded
    /\ UNCHANGED <<file, memory, drafts, window, mishaps>>

(* The new account's sign-in, in its own directory, and its token. *)
SignedIn ==
    /\ pc = "newSignIn"
    /\ profile' = profile \cup {op.to}
    /\ secrets' = secrets \cup {op.to}
    /\ pc' = "claim"
    /\ UNCHANGED <<file, dirs, op, memory, drafts, window, history>>

(* Mutant: the new account is listed when the switch has landed. *)
ClaimsLater ==
    /\ pc = "claim"
    /\ pc' = "repoint"
    /\ UNCHANGED <<file, disk, op, memory, drafts, window, history>>

(* The new account is listed before the switch, the active id after it.    *)
Claims ==
    /\ Persist("claim", "claimOpen",
               [accounts |-> listed.accounts \cup {op.to}, active |-> op.from], "discard")
    /\ UNCHANGED <<disk, op, memory, window, cut>>

Claimed ==
    /\ Persisted("claimOpen", "repoint")
    /\ UNCHANGED <<disk, op, memory, window, history>>

Discards ==
    /\ pc = "discard"
    /\ Discarded
    /\ UNCHANGED <<file, memory, drafts, window, mishaps>>

Heading == IF op.back THEN op.from ELSE op.to

(* Mutant: the way back leaves the token store where it was. *)
RepointsTheCli ==
    /\ pc = "repoint"
    /\ pointers' = [pointers EXCEPT !.dir = Heading, !.backend = Heading,
                                    !.store = IF op.back THEN @ ELSE Heading]
    /\ pc' = "stop"
    /\ UNCHANGED <<file, disk, op, listed, active, session, drafts, window, history>>

(* switch_to_account points the CLI, the token store and the backend at    *)
(* the account it goes to, and back again the same way.                    *)
Repoints ==
    /\ pc = "repoint"
    /\ pointers' = Everywhere(Heading)
    /\ pc' = "stop"
    /\ UNCHANGED <<file, disk, op, listed, active, session, drafts, window, history>>

(* resettle_session: the vault is cleared and the backend stopped ... *)
Stops ==
    /\ pc = "stop"
    /\ session' = NoId
    /\ pc' = "prompt"
    /\ UNCHANGED <<file, disk, op, listed, active, pointers, drafts, window, history>>

(* ... authenticate_for_switch asks, and stores the token it is given ... *)
Authenticates ==
    /\ pc = "prompt"
    /\ profile' = profile \cup {pointers.dir}
    /\ secrets' = secrets \cup {pointers.store}
    /\ dirs' = dirs \cup {pointers.dir}
    /\ pc' = "start"
    /\ UNCHANGED <<file, op, memory, drafts, window, history>>

(* ... and the backend starts.  What could not be settled on is left again *)
(* (RolledBack, Declined), and after that the app stands down (StoodDown). *)
Fails ==
    /\ pc \in {"prompt", "start"}
    /\ IF op.back
       THEN IF op.kind = "add" THEN pc' = "unclaim" /\ op' = op
                               ELSE pc' = "rest" /\ op' = NoOp
       ELSE pc' = "repoint" /\ op' = [op EXCEPT !.back = TRUE]
    /\ UNCHANGED <<file, disk, memory, drafts, window, history>>

(* The way back settled. *)
ComesBack ==
    /\ pc = "start" /\ op.back
    /\ session' = pointers.backend
    /\ IF op.kind = "add" THEN pc' = "unclaim" /\ op' = op
                          ELSE pc' = "rest" /\ op' = NoOp
    /\ UNCHANGED <<file, disk, listed, active, pointers, drafts, window, history>>

(* Switched: the sign-in left behind is dropped (clear_sign_in_secrets),   *)
(* and the account adopted.                                                *)
Lands ==
    /\ pc = "start" /\ ~op.back
    /\ session' = pointers.backend
    /\ active' = op.to
    /\ listed' = [accounts |-> listed.accounts \cup {op.to}, active |-> op.to]
    /\ secrets' = secrets \ {op.from}
    /\ pc' = IF op.kind = "remove" THEN "delete" ELSE "record"
    /\ UNCHANGED <<file, dirs, profile, op, pointers, drafts, window, history>>

(* delete_account_dir, whatever bw logout said, and AccountsState::forget:  *)
(* the account leaves the list even if its directory stays.                *)
Deletes ==
    /\ pc = "delete"
    /\ \/ Removed(op.from)
       \/ "refused" \in Hazards /\ UNCHANGED disk
    /\ cut' = cut \cup {op.from}
    /\ listed' = [listed EXCEPT !.accounts = @ \ {op.from}]
    /\ pc' = "record"
    /\ UNCHANGED <<file, op, active, pointers, session, drafts, window, mishaps>>

(* Mutant: the list taken before the account was forgotten. *)
RecordsTheOldList ==
    /\ Persist("record", "recordOpen", [listed EXCEPT !.accounts = @ \cup {op.from}], "rest")
    /\ op' = IF pc' = "rest" THEN NoOp ELSE op
    /\ UNCHANGED <<disk, memory, window, cut>>

Records ==
    /\ Persist("record", "recordOpen", listed, "rest")
    /\ op' = IF pc' = "rest" THEN NoOp ELSE op
    /\ UNCHANGED <<disk, memory, window, cut>>

Recorded ==
    /\ Persisted("recordOpen", "rest")
    /\ op' = NoOp
    /\ UNCHANGED <<disk, memory, window, history>>

(* Mutant: the directory first. *)
DiscardsThenUnclaims ==
    /\ IF op.to \in dirs
       THEN pc = "unclaim" /\ Removed(op.to) /\ UNCHANGED <<file, drafts, pc, op, mishaps>>
       ELSE /\ Persist("unclaim", "unclaimOpen", [listed EXCEPT !.active = op.from], "rest")
            /\ op' = IF pc' = "rest" THEN NoOp ELSE op
            /\ UNCHANGED disk
    /\ UNCHANGED <<memory, window, cut>>

(* An addition that did not settle: the old list is written back, and then *)
(* the directory discarded; it is kept if the list could not be written.   *)
Unclaims ==
    /\ Persist("unclaim", "unclaimOpen", [listed EXCEPT !.active = op.from], "rest")
    /\ op' = IF pc' = "rest" THEN NoOp ELSE op
    /\ UNCHANGED <<disk, memory, window, cut>>

Unclaimed ==
    /\ Persisted("unclaimOpen", "discard")
    /\ UNCHANGED <<disk, op, memory, window, history>>

-----------------------------------------------------------------------------
(* The daemon quits or crashes: what it was writing stays as it is, and so *)
(* does whatever it was adding or removing.                                *)
Stop ==
    /\ pc # "off"
    /\ pc = "rest" \/ "crash" \in Hazards
    /\ file' \in IF pc \in DaemonWrites THEN {file, Torn} ELSE {file}
    /\ mishaps' = IF pc \in DaemonWrites THEN mishaps \cup {"blank"} ELSE mishaps
    /\ cut' = cut \cup IF pc \in {"newSignIn", "claim", "claimOpen", "discard"} THEN {op.to} ELSE {}
    /\ pc' = "off" /\ op' = NoOp
    /\ listed' = Nothing /\ active' = NoId /\ pointers' = Everywhere(NoId) /\ session' = NoId
    /\ drafts' = [drafts EXCEPT !["daemon"] = Nothing]
    /\ UNCHANGED <<disk, window>>

(* So does the window, in the middle of its write. *)
WindowStops ==
    /\ window # "none" /\ "crash" \in Hazards
    /\ file' \in IF window = "open" THEN {file, Torn} ELSE {file}
    /\ mishaps' = IF window = "open" THEN mishaps \cup {"blank"} ELSE mishaps
    /\ window' = "none"
    /\ drafts' = [drafts EXCEPT !["window"] = Nothing]
    /\ UNCHANGED <<disk, pc, op, memory, cut>>

Next ==
    \/ Preferences \/ PreferencesOpen \/ PreferencesEnd
    \/ WindowReads \/ WindowOpens \/ WindowWrites \/ WindowStops
    \/ Starts \/ Resolves \/ Resolved \/ Points \/ StartSignsIn
    \/ Switch \/ Remove \/ Add
    \/ SignInClosed \/ SignedIn \/ Claims \/ Claimed \/ Discards
    \/ Repoints \/ Stops \/ Authenticates \/ Fails \/ ComesBack \/ Lands
    \/ Deletes \/ Records \/ Recorded \/ Unclaims \/ Unclaimed
    \/ Stop

Spec == Init /\ [][Next]_vars

-----------------------------------------------------------------------------
(* Properties. *)

AtRest == pc = "rest"

(* "The app pointed at the new account's profile beside the old account's   *)
(* cache ... is not reachable from here" (switch_to_account): at rest the   *)
(* token store, the CLI's directory, the backend and the list agree on one  *)
(* account, after a switch that failed and one that stood down as well, and *)
(* a backend that is up is that account's.                                  *)
OneAccountAtOnce ==
    AtRest => /\ pointers = Everywhere(active)
              /\ listed.active = active
              /\ session \in {NoId, active}

(* A signed-in profile is named by settings.json (add_account: "a stranded  *)
(* profile unrepresentable"), whenever the daemon is stopped; except one    *)
(* being signed in to, removed or discarded when it was, one that could not *)
(* be deleted, or one of a list that was itself hit.                        *)
NothingStranded ==
    AtRest /\ window # "open" /\ mishaps = {} => profile \subseteq file.list.accounts \cup cut

(* The list never names a directory that is gone, at whatever moment the    *)
(* daemon stops, except one it was just removing and the one a first run    *)
(* is about to make ("the permanently signed-out account", add_account).    *)
ListedHaveDirectories ==
    mishaps = {} => file.list.accounts \ ({file.list.active} \cup cut) \subseteq dirs

(* What the next launch will read is what the daemon holds, once it rests   *)
(* and nothing befell the file (persist_accounts).                          *)
FileIsTheList ==
    AtRest /\ window = "none" /\ mishaps = {} /\ active # NoId => file = Whole(listed)
=============================================================================
