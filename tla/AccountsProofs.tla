--------------------------- MODULE AccountsProofs ---------------------------
(* What TLAPS proves of Accounts, for any ids and any hazards.             *)
EXTENDS Accounts, TLAPS

(* The daemon holds one account: at startup before anything points to it,  *)
(* and wherever no switch is under way with the three pointers on it.      *)
Startup == {"resolve", "resolveOpen", "point"}
Resting == {"startSignIn", "rest", "prefs", "prefsOpen"}
Adding == {"newSignIn", "claim", "claimOpen", "discard", "unclaim", "unclaimOpen"}
Switching == {"repoint", "stop", "prompt", "start"}
Landed == {"delete", "record", "recordOpen"}

HoldsOne ==
    /\ listed.active = active
    /\ pc \in {"off"} \cup Startup => session = NoId
    /\ pc \in {"resolve", "resolveOpen"} => active \in Ids
    /\ pc \in Resting => pointers = Everywhere(active) /\ session \in {NoId, active}

(* A switch runs between two accounts: before it lands the daemon's is the *)
(* one it came from, after it the one it goes to.                          *)
Between ==
    /\ pc \in Adding \cup Switching \cup Landed => op.from \in Ids /\ op.to \in Ids
    /\ pc \in Adding \cup Switching => active = op.from
    /\ pc \in Landed => /\ active = op.to /\ pointers = Everywhere(op.to)
                        /\ session = op.to
    /\ pc \in Adding => pointers = Everywhere(op.from) /\ session \in {NoId, op.from}
    /\ pc \in {"stop", "prompt", "start"} => pointers = Everywhere(Heading)
    /\ pc \in {"prompt", "start"} => session = NoId

(* What is signed in to has its directory. *)
HasItsDirectory ==
    /\ pc = "startSignIn" => active \in dirs \cup {NoId}
    /\ pc = "newSignIn" => op.to \in dirs

IInv == TypeOK /\ HoldsOne /\ Between /\ HasItsDirectory

-----------------------------------------------------------------------------
(* An installation that was never started holds nothing. *)
LEMMA InitHolds == Init => IInv
BY DEF Init, IInv, TypeOK, HoldsOne, Between, HasItsDirectory, Stages, Lists, Nothing, NoOp,
       Blank, Everywhere, Startup, Resting, Adding, Switching, Landed

(* settings.json and what is about to be written to it are typed. *)
Writes ==
    /\ file \in [form : {"blank", "torn", "whole"}, list : Lists]
    /\ file.form # "whole" => file.list = Nothing
    /\ drafts \in [{"daemon", "window"} -> Lists]
    /\ mishaps \subseteq {"refused", "overlap", "blank"}

(* What a write, or its interruption, leaves is a file. *)
LEMMA FilesTyped ==
    \A list \in Lists : \A f :
        f = Whole(list) \/ f = Torn =>
            /\ f \in [form : {"blank", "torn", "whole"}, list : Lists]
            /\ f.form # "whole" => f.list = Nothing
<1>1. Nothing \in Lists
  BY DEF Nothing, Lists
<1>2. QED
  BY <1>1 DEF Whole, Torn

(* A write that begins, or is refused, keeps the file's types. *)
LEMMA PersistKeeps ==
    ASSUME Writes, NEW drawn \in Lists, NEW stage, NEW open, NEW refused,
           Persist(stage, open, drawn, refused)
    PROVE  Writes' /\ pc = stage /\ pc' \in {open, refused}
<1>1. Nothing \in Lists
  BY DEF Nothing, Lists
<1>2. drafts' \in [{"daemon", "window"} -> Lists]
  BY DEF Persist, Writes
<1>3. file' = Blank \/ file' = file
  BY DEF Persist
<1>4. /\ file' \in [form : {"blank", "torn", "whole"}, list : Lists]
      /\ file'.form # "whole" => file'.list = Nothing
  BY <1>1, <1>3 DEF Writes, Blank
<1>5. QED
  BY <1>2, <1>4 DEF Persist, Writes

(* So does the end of a write. *)
LEMMA PersistedKeeps ==
    ASSUME Writes, NEW open, NEW next, Persisted(open, next), mishaps' = mishaps
    PROVE  Writes' /\ pc = open /\ pc' = next
<1>1. Nothing \in Lists
  BY DEF Nothing, Lists
<1>2. drafts' \in [{"daemon", "window"} -> Lists]
  BY <1>1 DEF Persisted, Writes
<1>3. drafts["daemon"] \in Lists
  BY DEF Writes
<1>4. file' \in {Whole(drafts["daemon"]), Torn}
  BY DEF Persisted, Filled
<1>5. /\ file' \in [form : {"blank", "torn", "whole"}, list : Lists]
      /\ file'.form # "whole" => file'.list = Nothing
  BY <1>1, <1>3, <1>4 DEF Whole, Torn
<1>6. QED
  BY <1>2, <1>5 DEF Persisted, Writes

(* And the end of the window's write, or of either process during one.     *)
LEMMA WindowWritesKeeps == Writes /\ WindowWrites => Writes'
<1> SUFFICES ASSUME Writes, WindowWrites PROVE Writes'
  OBVIOUS
<1>1. Nothing \in Lists /\ drafts["window"] \in Lists
  BY DEF Nothing, Lists, Writes
<1>2. file' = Whole(drafts["window"]) \/ file' = Torn
  BY DEF WindowWrites, Filled
<1>3. drafts' \in [{"daemon", "window"} -> Lists]
  BY <1>1 DEF WindowWrites, Writes
<1>4. QED
  BY <1>1, <1>2, <1>3, FilesTyped DEF WindowWrites, Writes, history

LEMMA StopKeeps == Writes /\ (Stop \/ WindowStops) => Writes'
<1> SUFFICES ASSUME Writes, Stop \/ WindowStops PROVE Writes'
  OBVIOUS
<1>1. Nothing \in Lists
  BY DEF Nothing, Lists
<1>2. file' = file \/ file' = Torn
  BY DEF Stop, WindowStops
<1>3. drafts' \in [{"daemon", "window"} -> Lists]
  BY <1>1 DEF Stop, WindowStops, Writes
<1>4. mishaps' \subseteq {"refused", "overlap", "blank"}
  BY DEF Stop, WindowStops, Writes
<1>5. /\ file' \in [form : {"blank", "torn", "whole"}, list : Lists]
      /\ file'.form # "whole" => file'.list = Nothing
  BY <1>1, <1>2, FilesTyped DEF Writes
<1>6. QED
  BY <1>3, <1>4, <1>5 DEF Writes

(* What a switch becomes when it does not land, and when it is over. *)
LEMMA OpsTyped ==
    ASSUME TypeOK, op' = NoOp \/ op' = op \/ op' = [op EXCEPT !.back = TRUE]
    PROVE  op' \in [kind : {"none", "switch", "add", "remove"}, from : Ids \cup {NoId},
                    to : Ids \cup {NoId}, back : BOOLEAN]
<1>1. CASE op' = NoOp
  BY <1>1 DEF NoOp
<1>2. CASE op' = op \/ op' = [op EXCEPT !.back = TRUE]
  BY <1>2 DEF TypeOK
<1>3. QED
  BY <1>1, <1>2

(* Every step, of the daemon, of the window and of a crash, keeps it.      *)
LEMMA StepHolds == IInv /\ [Next]_vars => IInv'
<1> SUFFICES ASSUME IInv, [Next]_vars PROVE IInv'
  OBVIOUS
<1> USE IdsAssumption
    DEF IInv, TypeOK, HoldsOne, Between, HasItsDirectory, Stages, Lists, Nothing, NoOp, Blank,
        Torn, Whole, Everywhere, Startup, Resting, Adding, Switching, Landed, Heading,
        disk, memory, history, DaemonWrites
<1>1. CASE Preferences
  BY <1>1 DEF Preferences
<1>2. CASE PreferencesOpen
  BY <1>2 DEF PreferencesOpen
<1>3. CASE PreferencesEnd
  <2>1. Writes' /\ pc' \in Stages
    BY <1>3, PersistedKeeps DEF PreferencesEnd, Writes
  <2>2. QED
    BY <1>3, <2>1, PersistedKeeps DEF PreferencesEnd, Writes
<1>4. CASE WindowReads
  BY <1>4 DEF WindowReads
<1>5. CASE WindowOpens
  BY <1>5 DEF WindowOpens
<1>6. CASE WindowWrites
  BY <1>6, WindowWritesKeeps DEF WindowWrites, Writes
<1>7. CASE WindowStops
  BY <1>7, StopKeeps DEF WindowStops, Writes
<1>8. CASE Starts
  BY <1>8 DEF Starts, Fresh
<1>9. CASE Resolves
  <2>1. listed \in Lists /\ Writes
    BY <1>9 DEF Resolves, Persist, Writes
  <2>2. Writes' /\ pc' \in Stages
    BY <1>9, <2>1, PersistKeeps DEF Resolves
  <2>3. pc = "resolve" /\ pc' \in {"resolveOpen", "point"} /\ cut' \subseteq Ids
    BY <1>9, <2>1, PersistKeeps DEF Resolves
  <2>4. QED
    BY <1>9, <2>2, <2>3 DEF Resolves, Writes
<1>10. CASE Resolved
  <2>1. Writes' /\ pc' \in Stages
    BY <1>10, PersistedKeeps DEF Resolved, Writes
  <2>2. QED
    BY <1>10, <2>1, PersistedKeeps DEF Resolved, Writes
<1>11. CASE Points
  BY <1>11 DEF Points
<1>12. CASE StartSignsIn
  BY <1>12 DEF StartSignsIn
<1>13. CASE Switch
  BY <1>13 DEF Switch, Chooses
<1>14. CASE Remove
  BY <1>14 DEF Remove, Chooses
<1>15. CASE Add
  BY <1>15 DEF Add, Chooses, Fresh
<1>16. CASE SignInClosed
  BY <1>16 DEF SignInClosed, Discarded, Removed
<1>17. CASE SignedIn
  BY <1>17 DEF SignedIn
<1>18. CASE Claims
  <2>1. [accounts |-> listed.accounts \cup {op.to}, active |-> op.from] \in Lists /\ Writes
    BY <1>18 DEF Claims, Persist, Writes
  <2>2. Writes' /\ pc' \in Stages
    BY <1>18, <2>1, PersistKeeps DEF Claims
  <2>3. QED
    BY <1>18, <2>1, <2>2, PersistKeeps DEF Claims, Writes
<1>19. CASE Claimed
  <2>1. Writes' /\ pc' \in Stages
    BY <1>19, PersistedKeeps DEF Claimed, Writes
  <2>2. QED
    BY <1>19, <2>1, PersistedKeeps DEF Claimed, Writes
<1>20. CASE Discards
  BY <1>20 DEF Discards, Discarded, Removed
<1>21. CASE Repoints
  BY <1>21 DEF Repoints, Heading
<1>22. CASE Stops
  BY <1>22 DEF Stops
<1>23. CASE Authenticates
  BY <1>23 DEF Authenticates
<1>24. CASE Fails
  <2>1. CASE op.back /\ op.kind = "add"
    BY <1>24, <2>1 DEF Fails
  <2>2. CASE op.back /\ op.kind # "add"
    <3>0. op' = NoOp
      BY <1>24, <2>2 DEF Fails
    <3>1. TypeOK'
      BY <1>24, <2>2, <3>0, OpsTyped DEF Fails
    <3>2. pc' = "rest" /\ pointers' = pointers /\ listed' = listed /\ active' = active
      BY <1>24, <2>2 DEF Fails
    <3>3. pointers = Everywhere(active) /\ listed.active = active
      BY <1>24, <2>2 DEF Fails
    <3>4. session' \in {NoId, active}
      BY <1>24, <2>2 DEF Fails
    <3>5. QED
      BY <3>1, <3>2, <3>3, <3>4
  <2>3. CASE ~op.back
    <3>0. op' = [op EXCEPT !.back = TRUE]
      BY <1>24, <2>3 DEF Fails
    <3>1. TypeOK'
      BY <1>24, <2>3, <3>0, OpsTyped DEF Fails
    <3>2. pc' = "repoint" /\ op'.from = op.from /\ op'.to = op.to
      BY <1>24, <2>3 DEF Fails
    <3>3. QED
      BY <1>24, <3>1, <3>2 DEF Fails
  <2>4. QED
    BY <2>1, <2>2, <2>3
<1>25. CASE ComesBack
  <2>1. CASE op.back /\ op.kind = "add"
    BY <1>25, <2>1 DEF ComesBack
  <2>2. CASE op.back /\ op.kind # "add"
    <3>0. op' = NoOp
      BY <1>25, <2>2 DEF ComesBack
    <3>1. TypeOK'
      BY <1>25, <2>2, <3>0, OpsTyped DEF ComesBack
    <3>2. pc' = "rest" /\ pointers' = pointers /\ listed' = listed /\ active' = active
      BY <1>25, <2>2 DEF ComesBack
    <3>3. pointers = Everywhere(active) /\ listed.active = active
      BY <1>25, <2>2 DEF ComesBack
    <3>4. session' \in {NoId, active}
      BY <1>25, <2>2 DEF ComesBack
    <3>5. QED
      BY <3>1, <3>2, <3>3, <3>4
  <2>3. CASE ~op.back
    BY <1>25, <2>3 DEF ComesBack
  <2>4. QED
    BY <2>1, <2>2, <2>3
<1>26. CASE Lands
  BY <1>26 DEF Lands
<1>27. CASE Deletes
  BY <1>27 DEF Deletes, Removed
<1>28. CASE Records
  <2>1. listed \in Lists /\ Writes
    BY <1>28 DEF Records, Persist, Writes
  <2>2. Writes' /\ pc' \in Stages
    BY <1>28, <2>1, PersistKeeps DEF Records
  <2>3. QED
    BY <1>28, <2>1, <2>2, PersistKeeps DEF Records, Writes
<1>29. CASE Recorded
  <2>1. Writes' /\ pc' \in Stages
    BY <1>29, PersistedKeeps DEF Recorded, Writes
  <2>2. QED
    BY <1>29, <2>1, PersistedKeeps DEF Recorded, Writes
<1>30. CASE Unclaims
  <2>1. [listed EXCEPT !.active = op.from] \in Lists /\ Writes
    BY <1>30 DEF Unclaims, Persist, Writes
  <2>2. Writes' /\ pc' \in Stages
    BY <1>30, <2>1, PersistKeeps DEF Unclaims
  <2>3. QED
    BY <1>30, <2>1, <2>2, PersistKeeps DEF Unclaims, Writes
<1>31. CASE Unclaimed
  <2>1. Writes' /\ pc' \in Stages
    BY <1>31, PersistedKeeps DEF Unclaimed, Writes
  <2>2. QED
    BY <1>31, <2>1, PersistedKeeps DEF Unclaimed, Writes
<1>32. CASE Stop
  <2>1. cut' \subseteq Ids
    BY <1>32 DEF Stop
  <2>2. QED
    BY <1>32, <2>1, StopKeeps DEF Stop, Writes
<1>33. CASE UNCHANGED vars
  BY <1>33 DEF vars
<1> HIDE DEF IInv
<1>34. QED
  BY <1>1, <1>2, <1>3, <1>4, <1>5, <1>6, <1>7, <1>8, <1>9, <1>10, <1>11,
     <1>12, <1>13, <1>14, <1>15, <1>16, <1>17, <1>18, <1>19, <1>20, <1>21,
     <1>22, <1>23, <1>24, <1>25, <1>26, <1>27, <1>28, <1>29, <1>30, <1>31,
     <1>32, <1>33
  DEF Next

(* IInv is inductive, for every set of ids. *)
LEMMA Inductive == Spec => []IInv
BY InitHolds, StepHolds, PTL DEF Spec

-----------------------------------------------------------------------------
(* Every variable keeps its type; in particular no profile and no token is *)
(* ever outside an account's directory.                                    *)
THEOREM TypeCorrect == Spec => []TypeOK
BY Inductive, PTL DEF IInv

(* At rest the token store, the CLI's directory, the backend and the list  *)
(* agree on one account (switch_to_account), whatever failed on the way.   *)
THEOREM OneAccountAlways == Spec => []OneAccountAtOnce
<1>1. IInv => OneAccountAtOnce
  BY DEF IInv, HoldsOne, OneAccountAtOnce, AtRest, Resting
<1>2. QED
  BY <1>1, Inductive, PTL

-----------------------------------------------------------------------------
(* settings.json and the disk, for as long as nothing has befallen the     *)
(* file (mishaps): what the file holds or is about to hold again, against  *)
(* what the daemon holds at each stage.                                    *)

(* The list with the account that is being added, listed before its switch.*)
WithTheNewOne == [accounts |-> listed.accounts \cup {op.to}, active |-> op.from]
Claiming == op.kind = "add" /\ pc \in Switching \cup {"unclaim"}
Believed == IF Claiming THEN WithTheNewOne ELSE listed
ToWrite == IF pc = "claimOpen" THEN WithTheNewOne ELSE listed

(* The file, or what the window puts back into it. *)
Kept == IF window = "open" THEN Whole(drafts["window"]) ELSE file

Steady == {"point", "startSignIn", "rest", "prefs", "newSignIn", "claim", "discard", "unclaim"}
             \cup Switching

(* One writer at a time, and each writes what the daemon believes.         *)
FileHolds ==
    /\ file.form # "torn"
    /\ window = "read" => drafts["window"] = file.list
    /\ window = "open" => file = Blank
    /\ window # "none" => pc \notin DaemonWrites \cup {"prefs"}
    /\ pc \in DaemonWrites => file = Blank /\ drafts["daemon"] = ToWrite
    /\ pc = "prefs" => drafts["daemon"] = listed
    /\ pc \in Steady => Kept = Whole(Believed)
    /\ pc \in {"resolve", "delete", "record"} =>
          Kept.list.accounts \subseteq listed.accounts \cup cut

(* The account a switch goes to is listed, and one that is added is not.   *)
ListHolds ==
    /\ pc # "off" => active \in listed.accounts
    /\ pc \in Adding => op.kind = "add"
    /\ op.kind = "add" /\ pc \in Adding \cup Switching => op.to \notin listed.accounts
    /\ op.kind # "add" /\ pc \in Switching => op.to \in listed.accounts
    /\ pc \in Switching \cup {"delete"} => op.from # op.to

HasDirectories(list) == list.accounts \ ({list.active} \cup cut) \subseteq dirs

DirectoriesHold ==
    /\ HasDirectories(listed) /\ HasDirectories(Kept.list)
    /\ pc \in Resting \cup Adding \cup Switching \cup Landed => active \in dirs
    /\ pc \in {"newSignIn", "claim", "claimOpen"} => op.to \in dirs
    /\ pc = "start" => Heading \in dirs

(* A profile is named by what the file holds or is being given, or is on   *)
(* its way in or out.                                                      *)
InTransit == IF pc \in {"newSignIn", "claim", "unclaimOpen", "discard"} THEN {op.to} ELSE {}
Named == IF pc \in DaemonWrites THEN drafts["daemon"].accounts ELSE Kept.list.accounts
ProfilesHold == profile \subseteq Named \cup cut \cup InTransit

Undisturbed == mishaps = {} => FileHolds /\ ListHolds /\ DirectoriesHold /\ ProfilesHold

LEMMA UndisturbedInit == Init => Undisturbed
BY DEF Init, Undisturbed, FileHolds, ListHolds, DirectoriesHold, ProfilesHold, Named, InTransit,
       HasDirectories, Kept, Blank, Nothing, NoOp, DaemonWrites, Steady, Switching, Adding, Landed,
       Resting

LEMMA UndisturbedStep == IInv /\ Undisturbed /\ [Next]_vars => Undisturbed'
<1> SUFFICES ASSUME IInv, Undisturbed, [Next]_vars, mishaps' = {}
             PROVE  FileHolds' /\ ListHolds' /\ DirectoriesHold' /\ ProfilesHold'
  BY DEF Undisturbed
<1> USE IdsAssumption
    DEF IInv, TypeOK, HoldsOne, Between, Undisturbed, FileHolds, ListHolds, DirectoriesHold,
        ProfilesHold, Named, InTransit, HasDirectories, Kept, Steady, Believed, ToWrite, Claiming,
        WithTheNewOne, Stages, Lists, Nothing, NoOp, Blank, Torn, Whole, Everywhere, Startup,
        Resting, Adding, Switching, Landed, Heading, disk, memory, history, DaemonWrites
<1>1. CASE Preferences
  <2>1. FileHolds'
    BY <1>1 DEF Preferences
  <2>2. ListHolds'
    BY <1>1 DEF Preferences
  <2>3. DirectoriesHold'
    BY <1>1 DEF Preferences
  <2>4. ProfilesHold'
    BY <1>1 DEF Preferences
  <2>5. QED
    BY <2>1, <2>2, <2>3, <2>4
<1>2. CASE PreferencesOpen
  <2>1. FileHolds'
    BY <1>2 DEF PreferencesOpen
  <2>2. ListHolds'
    BY <1>2 DEF PreferencesOpen
  <2>3. DirectoriesHold'
    BY <1>2 DEF PreferencesOpen
  <2>4. ProfilesHold'
    BY <1>2 DEF PreferencesOpen
  <2>5. QED
    BY <2>1, <2>2, <2>3, <2>4
<1>3. CASE PreferencesEnd
  <2>1. FileHolds'
    BY <1>3 DEF PreferencesEnd, Persisted, Filled
  <2>2. ListHolds'
    BY <1>3 DEF PreferencesEnd, Persisted, Filled
  <2>3. DirectoriesHold'
    BY <1>3 DEF PreferencesEnd, Persisted, Filled
  <2>4. ProfilesHold'
    BY <1>3 DEF PreferencesEnd, Persisted, Filled
  <2>5. QED
    BY <2>1, <2>2, <2>3, <2>4
<1>4. CASE WindowReads
  <2>1. FileHolds'
    BY <1>4 DEF WindowReads
  <2>2. ListHolds'
    BY <1>4 DEF WindowReads
  <2>3. DirectoriesHold'
    BY <1>4 DEF WindowReads
  <2>4. ProfilesHold'
    BY <1>4 DEF WindowReads
  <2>5. QED
    BY <2>1, <2>2, <2>3, <2>4
<1>5. CASE WindowOpens
  <2>1. FileHolds'
    BY <1>5 DEF WindowOpens
  <2>2. ListHolds'
    BY <1>5 DEF WindowOpens
  <2>3. DirectoriesHold'
    BY <1>5 DEF WindowOpens
  <2>4. ProfilesHold'
    BY <1>5 DEF WindowOpens
  <2>5. QED
    BY <2>1, <2>2, <2>3, <2>4
<1>6. CASE WindowWrites
  <2>1. FileHolds'
    BY <1>6 DEF WindowWrites, Filled
  <2>2. ListHolds'
    BY <1>6 DEF WindowWrites, Filled
  <2>3. DirectoriesHold'
    BY <1>6 DEF WindowWrites, Filled
  <2>4. ProfilesHold'
    BY <1>6 DEF WindowWrites, Filled
  <2>5. QED
    BY <2>1, <2>2, <2>3, <2>4
<1>7. CASE WindowStops
  <2>1. FileHolds'
    BY <1>7 DEF WindowStops
  <2>2. ListHolds'
    BY <1>7 DEF WindowStops
  <2>3. DirectoriesHold'
    BY <1>7 DEF WindowStops
  <2>4. ProfilesHold'
    BY <1>7 DEF WindowStops
  <2>5. QED
    BY <2>1, <2>2, <2>3, <2>4
<1>8. CASE Starts
  <2>1. FileHolds'
    BY <1>8 DEF Starts, Fresh
  <2>2. ListHolds'
    BY <1>8 DEF Starts, Fresh
  <2>3. DirectoriesHold'
    BY <1>8 DEF Starts, Fresh
  <2>4. ProfilesHold'
    BY <1>8 DEF Starts, Fresh
  <2>5. QED
    BY <2>1, <2>2, <2>3, <2>4
<1>9. CASE Resolves
  <2>1. FileHolds'
    BY <1>9 DEF Resolves, Persist
  <2>2. ListHolds'
    BY <1>9 DEF Resolves, Persist
  <2>3. DirectoriesHold'
    BY <1>9 DEF Resolves, Persist
  <2>4. ProfilesHold'
    BY <1>9 DEF Resolves, Persist
  <2>5. QED
    BY <2>1, <2>2, <2>3, <2>4
<1>10. CASE Resolved
  <2>1. FileHolds'
    BY <1>10 DEF Resolved, Persisted, Filled
  <2>2. ListHolds'
    BY <1>10 DEF Resolved, Persisted, Filled
  <2>3. DirectoriesHold'
    BY <1>10 DEF Resolved, Persisted, Filled
  <2>4. ProfilesHold'
    BY <1>10 DEF Resolved, Persisted, Filled
  <2>5. QED
    BY <2>1, <2>2, <2>3, <2>4
<1>11. CASE Points
  <2>1. FileHolds'
    BY <1>11 DEF Points
  <2>2. ListHolds'
    BY <1>11 DEF Points
  <2>3. DirectoriesHold'
    BY <1>11 DEF Points
  <2>4. ProfilesHold'
    BY <1>11 DEF Points
  <2>5. QED
    BY <2>1, <2>2, <2>3, <2>4
<1>12. CASE StartSignsIn
  <2>1. FileHolds'
    BY <1>12 DEF StartSignsIn
  <2>2. ListHolds'
    BY <1>12 DEF StartSignsIn
  <2>3. DirectoriesHold'
    BY <1>12 DEF StartSignsIn
  <2>4. ProfilesHold'
    BY <1>12 DEF StartSignsIn
  <2>5. QED
    BY <2>1, <2>2, <2>3, <2>4
<1>13. CASE Switch
  <2>1. FileHolds'
    BY <1>13 DEF Switch, Chooses
  <2>2. ListHolds'
    BY <1>13 DEF Switch, Chooses
  <2>3. DirectoriesHold'
    BY <1>13 DEF Switch, Chooses
  <2>4. ProfilesHold'
    BY <1>13 DEF Switch, Chooses
  <2>5. QED
    BY <2>1, <2>2, <2>3, <2>4
<1>14. CASE Remove
  <2>1. FileHolds'
    BY <1>14 DEF Remove, Chooses
  <2>2. ListHolds'
    BY <1>14 DEF Remove, Chooses
  <2>3. DirectoriesHold'
    BY <1>14 DEF Remove, Chooses
  <2>4. ProfilesHold'
    BY <1>14 DEF Remove, Chooses
  <2>5. QED
    BY <2>1, <2>2, <2>3, <2>4
<1>15. CASE Add
  <2>1. FileHolds'
    BY <1>15 DEF Add, Chooses, Fresh
  <2>2. ListHolds'
    BY <1>15 DEF Add, Chooses, Fresh
  <2>3. DirectoriesHold'
    BY <1>15 DEF Add, Chooses, Fresh
  <2>4. ProfilesHold'
    BY <1>15 DEF Add, Chooses, Fresh
  <2>5. QED
    BY <2>1, <2>2, <2>3, <2>4
<1>16. CASE SignInClosed
  <2>1. FileHolds'
    BY <1>16 DEF SignInClosed, Discarded, Removed
  <2>2. ListHolds'
    BY <1>16 DEF SignInClosed, Discarded, Removed
  <2>3. DirectoriesHold'
    BY <1>16 DEF SignInClosed, Discarded, Removed
  <2>4. ProfilesHold'
    BY <1>16 DEF SignInClosed, Discarded, Removed
  <2>5. QED
    BY <2>1, <2>2, <2>3, <2>4
<1>17. CASE SignedIn
  <2>1. FileHolds'
    BY <1>17 DEF SignedIn
  <2>2. ListHolds'
    BY <1>17 DEF SignedIn
  <2>3. DirectoriesHold'
    BY <1>17 DEF SignedIn
  <2>4. ProfilesHold'
    BY <1>17 DEF SignedIn
  <2>5. QED
    BY <2>1, <2>2, <2>3, <2>4
<1>18. CASE Claims
  <2>1. FileHolds'
    <3> DEFINE new == WithTheNewOne
    <3>1. Persist("claim", "claimOpen", new, "discard")
      BY <1>18 DEF Claims
    <3> HIDE DEF new
    <3>2. /\ pc' = "claimOpen" /\ file' = Blank /\ window = "none" /\ mishaps = {}
          /\ drafts' = [drafts EXCEPT !["daemon"] = new]
      BY <3>1 DEF Persist
    <3>3. drafts'["daemon"] = new
      BY <3>2
    <3>4. /\ pc' = "claimOpen" /\ file' = Blank /\ window = "none" /\ mishaps = {}
          /\ drafts'["daemon"] = WithTheNewOne
      BY <3>2, <3>3 DEF new
    <3>5. op' = op /\ listed' = listed /\ window' = window
      BY <1>18 DEF Claims
    <3>6. QED
      BY <3>4, <3>5
  <2>2. ListHolds'
    BY <1>18 DEF Claims, Persist
  <2>3. DirectoriesHold'
    BY <1>18 DEF Claims, Persist
  <2>4. ProfilesHold'
    BY <1>18 DEF Claims, Persist
  <2>5. QED
    BY <2>1, <2>2, <2>3, <2>4
<1>19. CASE Claimed
  <2>1. FileHolds'
    <3>1. /\ pc = "claimOpen" /\ pc' = "repoint" /\ window = "none" /\ mishaps = {}
          /\ op' = op /\ listed' = listed /\ window' = window
      BY <1>19 DEF Claimed, Persisted
    <3>2. file' = Whole(WithTheNewOne)
      BY <1>19, <3>1 DEF Claimed, Persisted, Filled
    <3>3. op.kind = "add"
      BY <3>1
    <3>4. Believed' = WithTheNewOne /\ Kept' = Whole(WithTheNewOne)
      BY <3>1, <3>2, <3>3
    <3>5. QED
      BY <3>1, <3>2, <3>4
  <2>2. ListHolds'
    BY <1>19 DEF Claimed, Persisted, Filled
  <2>3. DirectoriesHold'
    BY <1>19 DEF Claimed, Persisted, Filled
  <2>4. ProfilesHold'
    BY <1>19 DEF Claimed, Persisted, Filled
  <2>5. QED
    BY <2>1, <2>2, <2>3, <2>4
<1>20. CASE Discards
  <2>1. FileHolds'
    BY <1>20 DEF Discards, Discarded, Removed
  <2>2. ListHolds'
    BY <1>20 DEF Discards, Discarded, Removed
  <2>3. DirectoriesHold'
    BY <1>20 DEF Discards, Discarded, Removed
  <2>4. ProfilesHold'
    BY <1>20 DEF Discards, Discarded, Removed
  <2>5. QED
    BY <2>1, <2>2, <2>3, <2>4
<1>21. CASE Repoints
  <2>1. FileHolds'
    BY <1>21 DEF Repoints
  <2>2. ListHolds'
    BY <1>21 DEF Repoints
  <2>3. DirectoriesHold'
    BY <1>21 DEF Repoints
  <2>4. ProfilesHold'
    BY <1>21 DEF Repoints
  <2>5. QED
    BY <2>1, <2>2, <2>3, <2>4
<1>22. CASE Stops
  <2>1. FileHolds'
    BY <1>22 DEF Stops
  <2>2. ListHolds'
    BY <1>22 DEF Stops
  <2>3. DirectoriesHold'
    BY <1>22 DEF Stops
  <2>4. ProfilesHold'
    BY <1>22 DEF Stops
  <2>5. QED
    BY <2>1, <2>2, <2>3, <2>4
<1>23. CASE Authenticates
  <2>1. FileHolds'
    BY <1>23 DEF Authenticates
  <2>2. ListHolds'
    BY <1>23 DEF Authenticates
  <2>3. DirectoriesHold'
    BY <1>23 DEF Authenticates
  <2>4. ProfilesHold'
    BY <1>23 DEF Authenticates
  <2>5. QED
    BY <2>1, <2>2, <2>3, <2>4
<1>24. CASE Fails
  <2>1. FileHolds'
    BY <1>24 DEF Fails
  <2>2. ListHolds'
    BY <1>24 DEF Fails
  <2>3. DirectoriesHold'
    BY <1>24 DEF Fails
  <2>4. ProfilesHold'
    BY <1>24 DEF Fails
  <2>5. QED
    BY <2>1, <2>2, <2>3, <2>4
<1>25. CASE ComesBack
  <2>1. FileHolds'
    BY <1>25 DEF ComesBack
  <2>2. ListHolds'
    BY <1>25 DEF ComesBack
  <2>3. DirectoriesHold'
    BY <1>25 DEF ComesBack
  <2>4. ProfilesHold'
    BY <1>25 DEF ComesBack
  <2>5. QED
    BY <2>1, <2>2, <2>3, <2>4
<1>26. CASE Lands
  <2>1. FileHolds'
    BY <1>26 DEF Lands
  <2>2. ListHolds'
    BY <1>26 DEF Lands
  <2>3. DirectoriesHold'
    BY <1>26 DEF Lands
  <2>4. ProfilesHold'
    BY <1>26 DEF Lands
  <2>5. QED
    BY <2>1, <2>2, <2>3, <2>4
<1>27. CASE Deletes
  <2>1. FileHolds'
    BY <1>27 DEF Deletes, Removed
  <2>2. ListHolds'
    BY <1>27 DEF Deletes, Removed
  <2>3. DirectoriesHold'
    BY <1>27 DEF Deletes, Removed
  <2>4. ProfilesHold'
    BY <1>27 DEF Deletes, Removed
  <2>5. QED
    BY <2>1, <2>2, <2>3, <2>4
<1>28. CASE Records
  <2>1. FileHolds'
    BY <1>28 DEF Records, Persist
  <2>2. ListHolds'
    BY <1>28 DEF Records, Persist
  <2>3. DirectoriesHold'
    BY <1>28 DEF Records, Persist
  <2>4. ProfilesHold'
    BY <1>28 DEF Records, Persist
  <2>5. QED
    BY <2>1, <2>2, <2>3, <2>4
<1>29. CASE Recorded
  <2>1. FileHolds'
    BY <1>29 DEF Recorded, Persisted, Filled
  <2>2. ListHolds'
    BY <1>29 DEF Recorded, Persisted, Filled
  <2>3. DirectoriesHold'
    BY <1>29 DEF Recorded, Persisted, Filled
  <2>4. ProfilesHold'
    BY <1>29 DEF Recorded, Persisted, Filled
  <2>5. QED
    BY <2>1, <2>2, <2>3, <2>4
<1>30. CASE Unclaims
  <2>1. FileHolds'
    BY <1>30 DEF Unclaims, Persist
  <2>2. ListHolds'
    BY <1>30 DEF Unclaims, Persist
  <2>3. DirectoriesHold'
    BY <1>30 DEF Unclaims, Persist
  <2>4. ProfilesHold'
    BY <1>30 DEF Unclaims, Persist
  <2>5. QED
    BY <2>1, <2>2, <2>3, <2>4
<1>31. CASE Unclaimed
  <2>1. FileHolds'
    BY <1>31 DEF Unclaimed, Persisted, Filled
  <2>2. ListHolds'
    BY <1>31 DEF Unclaimed, Persisted, Filled
  <2>3. DirectoriesHold'
    BY <1>31 DEF Unclaimed, Persisted, Filled
  <2>4. ProfilesHold'
    BY <1>31 DEF Unclaimed, Persisted, Filled
  <2>5. QED
    BY <2>1, <2>2, <2>3, <2>4
<1>32. CASE Stop
  <2>1. FileHolds'
    BY <1>32 DEF Stop
  <2>2. ListHolds'
    BY <1>32 DEF Stop
  <2>3. DirectoriesHold'
    BY <1>32 DEF Stop
  <2>4. ProfilesHold'
    BY <1>32 DEF Stop
  <2>5. QED
    BY <2>1, <2>2, <2>3, <2>4
<1>33. CASE UNCHANGED vars
  BY <1>33 DEF vars
<1> HIDE DEF FileHolds, ListHolds, DirectoriesHold, ProfilesHold
<1>34. QED
  BY <1>1, <1>2, <1>3, <1>4, <1>5, <1>6, <1>7, <1>8, <1>9, <1>10, <1>11,
     <1>12, <1>13, <1>14, <1>15, <1>16, <1>17, <1>18, <1>19, <1>20, <1>21,
     <1>22, <1>23, <1>24, <1>25, <1>26, <1>27, <1>28, <1>29, <1>30, <1>31,
     <1>32, <1>33
  DEF Next
(* Whatever the daemon and the window do, as long as nothing befalls the   *)
(* file, for every set of ids.                                             *)
LEMMA InductiveUndisturbed == Spec => [](IInv /\ Undisturbed)
BY InitHolds, StepHolds, UndisturbedInit, UndisturbedStep, PTL DEF Spec

-----------------------------------------------------------------------------
(* A signed-in profile is named by settings.json whenever the daemon is at *)
(* rest (add_account): it is listed before its switch, and leaves the list *)
(* only as its directory does.                                             *)
THEOREM NothingStrandedAlways == Spec => []NothingStranded
<1>1. IInv /\ Undisturbed => NothingStranded
  BY DEF IInv, Undisturbed, ProfilesHold, Named, InTransit, Kept, DaemonWrites, NothingStranded,
         AtRest
<1>2. QED
  BY <1>1, InductiveUndisturbed, PTL

(* The list never names a directory that is gone, at whatever moment the   *)
(* daemon stops (add_account, remove_account).                             *)
THEOREM ListedHaveDirectoriesAlways == Spec => []ListedHaveDirectories
<1>1. IInv /\ Undisturbed => ListedHaveDirectories
  BY DEF IInv, Undisturbed, FileHolds, DirectoriesHold, HasDirectories, Kept, Blank, Nothing,
         ListedHaveDirectories
<1>2. QED
  BY <1>1, InductiveUndisturbed, PTL

(* At rest the next launch will read what the daemon holds                 *)
(* (persist_accounts): no writer puts back an older list.                  *)
THEOREM FileIsTheListAlways == Spec => []FileIsTheList
<1>1. IInv /\ Undisturbed => FileIsTheList
  BY DEF IInv, Undisturbed, FileHolds, Steady, Believed, Claiming, Switching, Kept,
         FileIsTheList, AtRest
<1>2. QED
  BY <1>1, InductiveUndisturbed, PTL
=============================================================================
