--------------------------- MODULE TakeoverProofs ---------------------------
(* What TLAPS proves of Takeover, for any copies, panels and bounds.       *)
EXTENDS Takeover, TLAPS

(* Who owns the app has the name; a peek's handle is closed before its     *)
(* process goes on; and a panel that starts setup has let the name go.     *)
HasTheName == Owners \subseteq held
Peeks == \A p \in Procs : p \in peeking => pc[p] \in {"peek", "peekForced"}
LetsGo == \A p \in Procs : pc[p] \in {"spawn", "started"} => p \notin held

IInv == HasTheName /\ OneRuns /\ Peeks /\ LetsGo

(* For the name's owner a step is none, the first one's coming, or the     *)
(* only one's going.                                                       *)
Passes == Owners' = Owners \/ Name!Next

-----------------------------------------------------------------------------
(* A machine on which nothing runs is well typed.                          *)
LEMMA InitTypes == Init => TypeOK
<1> SUFFICES ASSUME Init PROVE TypeOK
  OBVIOUS
<1>1. /\ pc \in [Procs -> Stages] /\ polls \in [Procs -> 0 .. Polls]
      /\ victims \in [Procs -> SUBSET Procs]
  BY PollsAssumption DEF Init, Stages
<1>2. heard \in [Procs -> BOOLEAN] /\ ended \in [Procs -> BOOLEAN]
  BY DEF Init
<1>3. /\ held \subseteq Procs /\ peeking \subseteq Procs
      /\ ears \subseteq Copies /\ asking \subseteq Procs
      /\ signalled \in BOOLEAN /\ installer \in {"none", "asking", "replacing"}
      /\ cast \subseteq Procs
  BY CastsAssumption DEF Init, Procs
<1>4. QED
  BY <1>1, <1>2, <1>3 DEF TypeOK

(* Every step keeps the types, of the copies, the panels and setup alike.  *)
LEMMA StepTypes == TypeOK /\ [Next]_vars => TypeOK'
<1> SUFFICES ASSUME TypeOK, [Next]_vars PROVE TypeOK'
  OBVIOUS
<1> USE PollsAssumption DEF TypeOK, Stages, Goes, mutex, event, memory, outside
<1>1. ASSUME NEW p \in Copies, Launch(p) PROVE TypeOK'
  BY <1>1 DEF Launch, Procs
<1>2. ASSUME NEW p \in Copies, Listen(p) PROVE TypeOK'
  BY <1>2 DEF Listen, Procs
<1>3. ASSUME NEW p \in Copies, Hears(p) PROVE TypeOK'
  BY <1>3 DEF Hears, Procs
<1>4. ASSUME NEW p \in Copies, Quits(p) PROVE TypeOK'
  BY <1>4 DEF Quits, Procs
<1>5. ASSUME NEW p \in Panels, Opens(p) PROVE TypeOK'
  BY <1>5 DEF Opens, Procs
<1>6. ASSUME NEW p \in Panels, Install(p) PROVE TypeOK'
  BY <1>6 DEF Install, Procs
<1>7. ASSUME NEW p \in Panels, Release(p) PROVE TypeOK'
  BY <1>7 DEF Release, Procs
<1>8. ASSUME NEW p \in Panels, Spawn(p) PROVE TypeOK'
  BY <1>8 DEF Spawn, Procs
<1>9. ASSUME NEW p \in Procs, Ask(p) PROVE TypeOK'
  BY <1>9 DEF Ask, EventExists, Procs
<1>10. ASSUME NEW p \in Procs, SetQuit(p) PROVE TypeOK'
  BY <1>10 DEF SetQuit, Procs
<1>11. ASSUME NEW p \in Procs, CloseQuit(p) PROVE TypeOK'
  BY <1>11 DEF CloseQuit, Procs
<1>12. ASSUME NEW p \in Procs, LetGo(p) PROVE TypeOK'
  BY <1>12 DEF LetGo, Procs
<1>13. ASSUME NEW p \in Procs, Poll(p) PROVE TypeOK'
  BY <1>13 DEF Poll, Look, Procs
<1>14. ASSUME NEW p \in Procs, PollForced(p) PROVE TypeOK'
  BY <1>14 DEF PollForced, Look, Procs
<1>15. ASSUME NEW p \in Procs, EndPeek(p) PROVE TypeOK'
  BY <1>15 DEF EndPeek, Procs
<1>16. ASSUME NEW p \in Procs, TimesOut(p) PROVE TypeOK'
  BY <1>16 DEF TimesOut, Procs
<1>17. ASSUME NEW p \in Procs, Enumerate(p) PROVE TypeOK'
  BY <1>17 DEF Enumerate, Procs
<1>18. ASSUME NEW p \in Procs, Forced(p) PROVE TypeOK'
  BY <1>18 DEF Forced, Procs
<1>19. ASSUME NEW p \in Procs, Exits(p) PROVE TypeOK'
  BY <1>19 DEF Exits, Ends, Gone, Forgotten, Procs
<1>20. ASSUME NEW p \in Procs, NEW q \in Procs, Kill(p, q) PROVE TypeOK'
  <2>1. heard' \in [Procs -> BOOLEAN] /\ ended' \in [Procs -> BOOLEAN]
    BY <1>20 DEF Kill, Forgotten
  <2>2. /\ pc' \in [Procs -> Stages] /\ polls' \in [Procs -> 0 .. Polls]
        /\ victims' \in [Procs -> SUBSET Procs]
    BY <1>20 DEF Kill, Forgotten
  <2>3. QED
    BY <1>20, <2>1, <2>2 DEF Kill, Gone
<1>21. CASE SetupAsks
  BY <1>21 DEF SetupAsks
<1>22. CASE SetupEnds
  BY <1>22 DEF SetupEnds
<1>23. CASE UNCHANGED vars
  BY <1>23 DEF vars
<1> HIDE DEF TypeOK
<1>24. QED
  BY <1>1, <1>2, <1>3, <1>4, <1>5, <1>6, <1>7, <1>8, <1>9, <1>10, <1>11, <1>12,
     <1>13, <1>14, <1>15, <1>16, <1>17, <1>18, <1>19, <1>20, <1>21, <1>22, <1>23
  DEF Next, Takes

(* Every variable keeps its type, whatever the processes and the bounds.   *)
THEOREM TypeCorrect == Spec => []TypeOK
BY InitTypes, StepTypes, PTL DEF Spec

-----------------------------------------------------------------------------
(* At first nobody has the name. *)
LEMMA InitNames == Init => IInv /\ Owners = {}
BY DEF Init, IInv, HasTheName, OneRuns, Peeks, LetsGo, Owners, Procs

(* The heart of it: who comes to own the app found no handle to the name,  *)
(* and so no owner either (acquire, take_if_free).                         *)
LEMMA StepNames == TypeOK /\ IInv /\ [Next]_vars => IInv' /\ Passes
<1> SUFFICES ASSUME TypeOK, IInv, [Next]_vars PROVE IInv' /\ Passes
  OBVIOUS
<1> USE DEF IInv, HasTheName, OneRuns, Peeks, LetsGo, Owners, Passes, Name!Next, Name!Take,
            Name!Leave, TypeOK, Goes, mutex, event, memory, outside
<1>1. ASSUME NEW p \in Copies, Launch(p) PROVE IInv' /\ Passes
  BY <1>1 DEF Launch, Procs, MutexExists
<1>2. ASSUME NEW p \in Copies, Listen(p) PROVE IInv' /\ Passes
  BY <1>2 DEF Listen, Procs
<1>3. ASSUME NEW p \in Copies, Hears(p) PROVE IInv' /\ Passes
  BY <1>3 DEF Hears, Procs
<1>4. ASSUME NEW p \in Copies, Quits(p) PROVE IInv' /\ Passes
  BY <1>4 DEF Quits, Procs
<1>5. ASSUME NEW p \in Panels, Opens(p) PROVE IInv' /\ Passes
  BY <1>5 DEF Opens, Procs
<1>6. ASSUME NEW p \in Panels, Install(p) PROVE IInv' /\ Passes
  BY <1>6 DEF Install, Procs
<1>7. ASSUME NEW p \in Panels, Release(p) PROVE IInv' /\ Passes
  BY <1>7 DEF Release, Procs
<1>8. ASSUME NEW p \in Panels, Spawn(p) PROVE IInv' /\ Passes
  BY <1>8 DEF Spawn, Procs
<1>9. ASSUME NEW p \in Procs, Ask(p) PROVE IInv' /\ Passes
  BY <1>9 DEF Ask, EventExists, Procs
<1>10. ASSUME NEW p \in Procs, SetQuit(p) PROVE IInv' /\ Passes
  BY <1>10 DEF SetQuit, Procs
<1>11. ASSUME NEW p \in Procs, CloseQuit(p) PROVE IInv' /\ Passes
  BY <1>11 DEF CloseQuit, Procs
<1>12. ASSUME NEW p \in Procs, LetGo(p) PROVE IInv' /\ Passes
  BY <1>12 DEF LetGo, Procs
<1>13. ASSUME NEW p \in Procs, Poll(p) PROVE IInv' /\ Passes
  BY <1>13 DEF Poll, Look, Procs, MutexExists
<1>14. ASSUME NEW p \in Procs, PollForced(p) PROVE IInv' /\ Passes
  BY <1>14 DEF PollForced, Look, Procs, MutexExists
<1>15. ASSUME NEW p \in Procs, EndPeek(p) PROVE IInv' /\ Passes
  BY <1>15 DEF EndPeek, Procs
<1>16. ASSUME NEW p \in Procs, TimesOut(p) PROVE IInv' /\ Passes
  BY <1>16 DEF TimesOut, Procs
<1>17. ASSUME NEW p \in Procs, Enumerate(p) PROVE IInv' /\ Passes
  BY <1>17 DEF Enumerate, Procs
<1>18. ASSUME NEW p \in Procs, Forced(p) PROVE IInv' /\ Passes
  BY <1>18 DEF Forced, Procs
<1>19. ASSUME NEW p \in Procs, Exits(p) PROVE IInv' /\ Passes
  BY <1>19 DEF Exits, Ends, Gone, Forgotten, Procs
<1>20. ASSUME NEW p \in Procs, NEW q \in Procs, Kill(p, q) PROVE IInv' /\ Passes
  BY <1>20 DEF Kill, Gone, Forgotten
<1>21. CASE SetupAsks
  BY <1>21 DEF SetupAsks
<1>22. CASE SetupEnds
  BY <1>22 DEF SetupEnds
<1>23. CASE UNCHANGED vars
  BY <1>23 DEF vars
<1> HIDE DEF IInv, Passes, TypeOK
<1>24. QED
  BY <1>1, <1>2, <1>3, <1>4, <1>5, <1>6, <1>7, <1>8, <1>9, <1>10, <1>11, <1>12,
     <1>13, <1>14, <1>15, <1>16, <1>17, <1>18, <1>19, <1>20, <1>21, <1>22, <1>23
  DEF Next, Takes

(* IInv is inductive: an owner's handle is in the name until it ends.      *)
THEOREM Inductive == Spec => []IInv
BY InitTypes, StepTypes, InitNames, StepNames, PTL DEF Spec

(* No two processes run at once (OneRuns), for any number of launches,     *)
(* looks and ends.                                                         *)
THEOREM OneRunsAlways == Spec => []OneRuns
<1>1. IInv => OneRuns
  BY DEF IInv
<1>2. QED
  BY <1>1, Inductive, PTL

(* Takeover implements OneOwner (acquire, take_if_free, take_over): every  *)
(* step takes the free name, leaves it, or does not touch it.              *)
THEOREM HandsOverAlways == Spec => HandsOver
<1>1. TypeOK /\ IInv /\ [Next]_vars => [Name!Next]_Owners
  BY StepNames DEF Passes
<1>2. Init => Name!Init
  BY InitNames DEF Name!Init
<1>3. QED
  BY <1>1, <1>2, TypeCorrect, Inductive, PTL DEF Spec, HandsOver, Name!Spec

(* Setup never gives up for the sake of the window that started it         *)
(* (launch_installer).                                                     *)
THEOREM SetupIsLetInAlways == Spec => SetupIsLetIn
<1>1. TypeOK /\ IInv /\ [Next]_vars =>
        [installer = "asking" /\ installer' = "none"
           => \E p \in held \cup peeking : pc[p] # "started"]_vars
  <2> SUFFICES ASSUME TypeOK, IInv, [Next]_vars, installer = "asking", installer' = "none"
               PROVE  \E p \in held \cup peeking : pc[p] # "started"
    OBVIOUS
  <2>1. SetupAsks /\ MutexExists
    BY DEF Next, vars, SetupAsks, SetupEnds, MutexExists, Launch, Listen, Hears, Quits, Opens,
           Install, Release, Spawn, Takes, Ask, SetQuit, CloseQuit, LetGo, Poll, PollForced,
           Look, EndPeek, TimesOut, Enumerate, Kill, Forced, Exits, outside
  <2>2. PICK p \in held \cup peeking : TRUE
    BY <2>1 DEF MutexExists
  <2>3. pc[p] # "started"
    BY DEF TypeOK, IInv, Peeks, LetsGo
  <2>4. QED
    BY <2>3
<1>2. QED
  BY <1>1, TypeCorrect, Inductive, PTL DEF Spec, SetupIsLetIn
=============================================================================
