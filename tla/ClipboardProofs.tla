-------------------------- MODULE ClipboardProofs --------------------------
(* What TLAPS proves of Clipboard, for any processes, preferences and      *)
(* bounds.                                                                 *)
EXTENDS Clipboard, TLAPS

Ticks == 0 .. MaxTimer
Records == [sequence : Nat, left : Ticks]
Waiters == [stage : {"none", "asleep", "clearing"}, left : Ticks]
Ats == {"gone", "idle", "landed", "read", "clearing", "answered"}
Whats == {Nothing} \cup Copies \cup Foreign
Clips == [sequence : Nat \ {NoSequence}, holds : Whats]

(* TypeOK in three parts: what is one for the desktop, what each process   *)
(* and copy has, and what a process knows of the sequence numbers.         *)
Desktop ==
    /\ clip \in Clips
    /\ copied \in 0 .. MaxCopies /\ written \in 0 .. MaxForeign
    /\ saved \in Preferences
    /\ age \in Ticks
    /\ crossed \in BOOLEAN /\ excused \in BOOLEAN

Tables ==
    /\ prefs \in [Processes -> Preferences]
    /\ armed \in [Processes -> Records]
    /\ thread \in [Processes -> Thread]
    /\ waiter \in [Copies -> Waiters]
    /\ owner \in [Copies -> Processes \cup {NoProcess}]

Known == \A p \in Processes : /\ armed[p].sequence <= clip.sequence
                              /\ thread[p].hand <= clip.sequence

(* Together the parts are TypeOK. *)
LEMMA TypesInParts == TypeOK <=> Desktop /\ Tables /\ Known
BY DEF TypeOK, Desktop, Tables, Known, Records, Waiters, Whats, Clips, Ticks

-----------------------------------------------------------------------------
(* The values the variables are given. *)

(* The fields of a record of ARMED. *)
LEMMA RecordsHave == \A r \in Records : r.sequence \in Nat /\ r.left \in Ticks
BY DEF Records

(* The fields of a thread. *)
LEMMA ThreadsHave == \A t \in Thread : t.hand \in Nat /\ t.at \in Ats
BY DEF Thread, Ats

(* A timer is a number of ticks. *)
LEMMA PreferencesHave == \A c \in Preferences : c.timer \in Ticks
BY DEF Preferences, Ticks

(* The fields of the clipboard. *)
LEMMA ClipsHave == \A c \in Clips : c.sequence \in Nat /\ c.sequence # 0 /\ c.holds \in Whats
BY DEF Clips, NoSequence

(* The values at rest. *)
LEMMA Plain ==
    /\ Unarmed \in Records /\ Unarmed.sequence = 0
    /\ NoWaiter \in Waiters /\ NoWaiter.stage = "none"
    /\ Idle \in Thread /\ Idle.hand = 0 /\ Idle.at = "idle"
    /\ Gone \in Thread /\ Gone.hand = 0 /\ Gone.at = "gone"
BY DEF Unarmed, NoWaiter, Idle, Gone, Records, Waiters, Thread, Ticks, MaxTimer, NoSequence

(* A waiter that goes to sleep. *)
LEMMA Sleeps == \A n \in Ticks : Asleep(n) \in Waiters /\ Asleep(n).stage = "asleep"
BY DEF Asleep, Waiters

(* A record that is armed. *)
LEMMA Arms ==
    \A n \in Nat, k \in Ticks : /\ [sequence |-> n, left |-> k] \in Records
                                /\ [sequence |-> n, left |-> k].sequence = n
                                /\ [sequence |-> n, left |-> k].left = k
BY DEF Records

(* A thread that goes on. *)
LEMMA Moves ==
    \A t \in Thread, a \in Ats :
        /\ [t EXCEPT !.at = a] \in Thread
        /\ [t EXCEPT !.at = a].at = a /\ [t EXCEPT !.at = a].hand = t.hand
BY DEF Thread, Ats

(* A waiter that is about to clear. *)
LEMMA GoesOff ==
    \A w \in Waiters : /\ [w EXCEPT !.stage = "clearing"] \in Waiters
                       /\ [w EXCEPT !.stage = "clearing"].left = w.left
BY DEF Waiters

(* A tick takes one off what is left. *)
LEMMA Lesser == \A n \in Ticks : Less(n) \in Ticks /\ Less(n) <= n
BY DEF Less, Ticks, MaxTimer

(* So it does in a record, and for a waiter. *)
LEMMA LessLeft ==
    /\ \A r \in Records : LET s == [r EXCEPT !.left = Less(@)] IN
          s \in Records /\ s.sequence = r.sequence /\ s.left = Less(r.left)
    /\ \A w \in Waiters : LET v == [w EXCEPT !.left = Less(@)] IN
          v \in Waiters /\ v.stage = w.stage /\ v.left = Less(w.left)
BY Lesser DEF Records, Waiters

(* A write moves the sequence number on, and whoever is between two calls  *)
(* is crossed by it.                                                       *)
LEMMA Written ==
    ASSUME Desktop, NEW what \in Whats, NEW n \in Ticks, NEW b \in BOOLEAN, Writes(what, n, b)
    PROVE  /\ clip' \in Clips /\ clip'.sequence = clip.sequence + 1 /\ clip'.holds = what
           /\ age' \in Ticks /\ age' = n
           /\ crossed' \in BOOLEAN /\ excused' \in BOOLEAN
           /\ (\E p \in Processes : thread[p].at = "landed" \/ Clearing(p)) => crossed'
<1>1. clip' \in Clips /\ clip'.sequence = clip.sequence + 1 /\ clip'.holds = what
  BY DEF Writes, Desktop, Clips, NoSequence
<1>2. crossed' \in BOOLEAN /\ excused' \in BOOLEAN
  BY DEF Writes
<1>3. (\E p \in Processes : thread[p].at = "landed" \/ Clearing(p)) => crossed'
  BY Zenon DEF Writes
<1>4. QED
  BY <1>1, <1>2, <1>3 DEF Writes

(* A clear, or a refused one.                                              *)
LEMMA Emptied ==
    ASSUME Desktop, Empties
    PROVE  /\ clip' \in Clips /\ age' \in Ticks
           /\ crossed' \in BOOLEAN /\ excused' \in BOOLEAN
           /\ \/ /\ clip'.holds = Nothing /\ age' = 0
                 /\ clip'.sequence = clip.sequence + 1
              \/ clip' = clip /\ age' = age /\ crossed' = crossed /\ excused'
<1>1. CASE Writes(Nothing, 0, FALSE)
  <2>1. Nothing \in Whats /\ 0 \in Ticks /\ FALSE \in BOOLEAN
    BY DEF Whats, Ticks, MaxTimer
  <2>2. QED
    BY <1>1, <2>1, Written
<1>2. CASE excused' = TRUE /\ UNCHANGED <<clip, age, crossed>>
  BY <1>2 DEF Desktop
<1>3. QED
  BY <1>1, <1>2 DEF Empties

-----------------------------------------------------------------------------
(* The invariant. *)

(* What the clipboard holds, if anything, is a copy of p's. *)
Holds(p) == clip.holds # Nothing => clip.holds \in Copies /\ owner[clip.holds] = p

(* Wherever a thread or a waiter of p relies on the sequence number, and   *)
(* nothing was written between two of its calls, the clipboard holds what  *)
(* p put there, for no longer than it still has to wait.                   *)
Traced ==
    ~crossed =>
        /\ \A p \in Processes :
              /\ thread[p].at = "landed" => Holds(p) /\ age <= prefs[p].timer
              /\ thread[p].at = "read" /\ thread[p].hand = clip.sequence
                    => Holds(p) /\ age <= prefs[p].timer
              /\ armed[p].sequence = clip.sequence => Holds(p) /\ age <= armed[p].left
              /\ thread[p].at = "clearing" => Holds(p)
        /\ \A c \in Copies : waiter[c].stage = "clearing" => Holds(owner[c]) /\ age = 0

(* A waiter is some process' waiter. *)
Owned == \A c \in Copies : waiter[c].stage # "none" => owner[c] \in Processes

(* A copy of p's that the clipboard holds is on its way to ARMED, or there.*)
Answerable ==
    \A p \in Processes :
        clip.holds \in Copies /\ owner[clip.holds] = p /\ ~excused
        => \/ thread[p].at = "landed" /\ prefs[p].timer # 0
           \/ thread[p].at = "read" /\ prefs[p].timer # 0 /\ thread[p].hand = clip.sequence
           \/ thread[p].at \notin {"landed", "read"} /\ armed[p].sequence = clip.sequence

IInv == Desktop /\ Tables /\ Known /\ Owned /\ Traced /\ Answerable /\ AnsweredMeansTaken

(* What a step does to what the clipboard loses. *)
Takings ==
    \/ clip' = clip \/ crossed \/ clip'.holds # Nothing \/ copied' # copied
    \/ clip.holds = Nothing
    \/ /\ clip.holds \in Copies
       /\ LET p == owner[clip.holds] IN
          \/ thread[p].at = "clearing" /\ thread'[p].at = "answered"
          \/ age = 0 /\ \E c \in Mine(p) : /\ waiter[c].stage = "clearing"
                                          /\ waiter'[c] = NoWaiter

(* An untouched clipboard. *)
LEMMA InitHolds == Init => IInv
<1> SUFFICES ASSUME Init PROVE IInv
  OBVIOUS
<1>1. Desktop
  <2>1. clip \in Clips
    BY DEF Init, Clips, Whats, Nothing, NoSequence
  <2>2. /\ copied \in 0 .. MaxCopies /\ written \in 0 .. MaxForeign
        /\ age \in Ticks
    BY BoundsAssumption DEF Init, Ticks, MaxTimer
  <2>3. saved \in Preferences /\ crossed \in BOOLEAN /\ excused \in BOOLEAN
    BY ChoicesAssumption DEF Init
  <2>4. QED
    BY <2>1, <2>2, <2>3 DEF Desktop
<1>2. Tables
  BY Plain, ChoicesAssumption DEF Init, Tables
<1>3. /\ \A p \in Processes : armed[p].sequence = 0 /\ thread[p].hand = 0 /\ thread[p].at = "gone"
      /\ \A c \in Copies : waiter[c].stage = "none"
      /\ clip.sequence = 1 /\ clip.holds = Nothing
  BY Plain DEF Init
<1>4. QED
  BY <1>1, <1>2, <1>3, BoundsAssumption
  DEF IInv, Known, Owned, Traced, Answerable, AnsweredMeansTaken, Nothing, Copies, Mine
(* A copy crosses whoever is between two calls, and is p's own. *)
LEMMA CopyKeeps ==
    ASSUME IInv, NEW p \in Processes, Copy(p)
    PROVE  IInv' /\ Takings
<1> USE BoundsAssumption, RecordsHave, ThreadsHave, PreferencesHave, ClipsHave, Plain
    DEF IInv, history, Move, Nothing
<1> DEFINE c == copied + 1
<1>1. c \in Copies /\ thread[p].at = "idle"
  BY DEF Copy
<1>2. c \in Whats /\ prefs[p].timer \in Ticks /\ (prefs[p].timer = 0) \in BOOLEAN
  BY <1>1 DEF Whats, Tables
<1>3. Writes(c, prefs[p].timer, prefs[p].timer = 0)
  BY DEF Copy
<1>4. /\ clip' \in Clips /\ clip'.sequence = clip.sequence + 1 /\ clip'.holds = c
      /\ age' \in Ticks /\ age' = prefs[p].timer
      /\ crossed' \in BOOLEAN /\ excused' \in BOOLEAN
      /\ (\E q \in Processes : thread[q].at = "landed" \/ Clearing(q)) => crossed'
  BY <1>2, <1>3, Written
<1>5. ~excused' => prefs[p].timer # 0
  BY <1>3, Zenon DEF Writes
<1>6. /\ owner' = [owner EXCEPT ![c] = p]
      /\ thread' = [thread EXCEPT ![p] = [thread[p] EXCEPT !.at = "landed"]]
      /\ UNCHANGED <<written, saved, prefs, armed, waiter>> /\ copied' = c
  BY DEF Copy
<1>7. /\ [thread[p] EXCEPT !.at = "landed"] \in Thread
      /\ [thread[p] EXCEPT !.at = "landed"].at = "landed"
      /\ [thread[p] EXCEPT !.at = "landed"].hand = thread[p].hand
  BY Moves DEF Tables, Ats
<1>8. Desktop'
  BY <1>1, <1>4, <1>6 DEF Desktop, Copies
<1>9. Tables'
  BY <1>1, <1>6, <1>7 DEF Tables
<1>10. Known' /\ Owned'
  BY <1>1, <1>4, <1>6, <1>7 DEF Desktop, Tables, Known, Owned
<1>11. ~crossed' => /\ \A q \in Processes : thread[q].at \notin {"landed", "clearing"}
                    /\ \A d \in Copies : waiter[d].stage # "clearing"
  BY <1>4 DEF Clearing, Mine, Owned
<1>12. Traced'
  BY <1>1, <1>4, <1>6, <1>7, <1>10, <1>11 DEF Traced, Holds, Known, Tables, Desktop, Ticks
<1>13. Answerable'
  BY <1>1, <1>4, <1>5, <1>6, <1>7 DEF Answerable, Tables
<1>14. AnsweredMeansTaken'
  BY <1>1, <1>4, <1>6, <1>7 DEF AnsweredMeansTaken, Mine, Tables
<1>15. QED
  BY <1>1, <1>4, <1>6, <1>8, <1>9, <1>10, <1>12, <1>13, <1>14 DEF Takings, Desktop, Copies
(* A copy that fails is excused, and leaves no thread between two calls. *)
LEMMA CopyFailsKeeps ==
    ASSUME IInv, NEW p \in Processes, CopyFails(p)
    PROVE  IInv' /\ Takings
<1> USE BoundsAssumption, RecordsHave, ThreadsHave, PreferencesHave, ClipsHave, Plain
    DEF IInv, history, Move, Nothing
<1> DEFINE c == copied + 1
<1>1. c \in Copies /\ thread[p].at = "idle"
  BY DEF CopyFails
<1>2. PICK what \in {c, Nothing} : Writes(what, 0, TRUE)
  BY DEF CopyFails
<1>3. what \in Whats /\ 0 \in Ticks /\ TRUE \in BOOLEAN
  BY <1>1 DEF Whats, Ticks, MaxTimer
<1>4. /\ clip' \in Clips /\ clip'.sequence = clip.sequence + 1 /\ clip'.holds = what
      /\ age' \in Ticks /\ age' = 0
      /\ crossed' \in BOOLEAN /\ excused' \in BOOLEAN
      /\ (\E q \in Processes : thread[q].at = "landed" \/ Clearing(q)) => crossed'
  BY <1>2, <1>3, Written
<1>5. excused'
  BY <1>2 DEF Writes
<1>6. /\ owner' = [owner EXCEPT ![c] = p]
      /\ UNCHANGED <<written, saved, prefs, armed, thread, waiter>> /\ copied' = c
  BY DEF CopyFails
<1>8. Desktop'
  BY <1>1, <1>4, <1>6 DEF Desktop, Copies
<1>9. Tables'
  BY <1>1, <1>6 DEF Tables
<1>10. Known' /\ Owned'
  BY <1>1, <1>4, <1>6 DEF Desktop, Tables, Known, Owned
<1>11. ~crossed' => /\ \A q \in Processes : thread[q].at \notin {"landed", "clearing"}
                    /\ \A d \in Copies : waiter[d].stage # "clearing"
  BY <1>4 DEF Clearing, Mine, Owned
<1>12. Traced'
  BY <1>1, <1>4, <1>6, <1>10, <1>11 DEF Traced, Holds, Known, Tables, Desktop, Ticks
<1>13. Answerable' /\ AnsweredMeansTaken'
  BY <1>5 DEF Answerable, AnsweredMeansTaken
<1>15. QED
  BY <1>1, <1>4, <1>6, <1>8, <1>9, <1>10, <1>12, <1>13 DEF Takings, Desktop, Copies

(* The sequence number read is the clipboard's of now. *)
LEMMA ReadSequenceKeeps ==
    ASSUME IInv, NEW p \in Processes, ReadSequence(p)
    PROVE  IInv' /\ Takings
<1> USE BoundsAssumption, RecordsHave, ThreadsHave, PreferencesHave, ClipsHave, Plain
    DEF IInv, history, Move, Nothing
<1> DEFINE t == [thread[p] EXCEPT !.at = "read", !.hand = clip.sequence]
<1>1. thread[p].at = "landed" /\ thread' = [thread EXCEPT ![p] = t]
  BY DEF ReadSequence
<1>2. t \in Thread /\ t.at = "read" /\ t.hand = clip.sequence
  <2>1. thread[p] \in Thread /\ clip.sequence \in Nat
    BY DEF Tables, Desktop
  <2>2. QED
    BY <2>1 DEF Thread
<1>3. UNCHANGED <<clip, copied, written, saved, prefs, armed, waiter, history>>
  BY DEF ReadSequence
<1> HIDE DEF t
<1>4. Desktop' /\ Tables' /\ Known' /\ Owned'
  BY <1>1, <1>2, <1>3 DEF Desktop, Tables, Known, Owned
<1>5. Traced'
  BY <1>1, <1>2, <1>3 DEF Traced, Holds, Tables
<1>6. Answerable' /\ AnsweredMeansTaken'
  BY <1>1, <1>2, <1>3 DEF Answerable, AnsweredMeansTaken, Mine, Tables
<1>7. QED
  BY <1>3, <1>4, <1>5, <1>6 DEF Takings

(* The record is armed with what was read, and the timer of the copy. *)
LEMMA ArmKeeps ==
    ASSUME IInv, NEW p \in Processes, Arm(p)
    PROVE  IInv' /\ Takings
<1> USE BoundsAssumption, RecordsHave, ThreadsHave, PreferencesHave, ClipsHave, Plain
    DEF IInv, history, Move, Nothing
<1> DEFINE r == [sequence |-> thread[p].hand, left |-> prefs[p].timer]
<1>1. thread[p].at = "read" /\ thread' = [thread EXCEPT ![p] = Idle]
  BY DEF Arm
<1>2. UNCHANGED <<clip, copied, written, saved, prefs, history>>
  BY DEF Arm
<1>3. r \in Records /\ r.sequence = thread[p].hand /\ r.left = prefs[p].timer
  BY Arms DEF Tables
<1>4. PICK c \in Mine(p) :
        IF prefs[p].timer = 0 THEN UNCHANGED <<armed, waiter>>
        ELSE armed' = [armed EXCEPT ![p] = r] /\ waiter' = [waiter EXCEPT ![c] = Asleep(prefs[p].timer)]
  BY DEF Arm
<1> HIDE DEF r
<1>5. /\ Asleep(prefs[p].timer) \in Waiters /\ Asleep(prefs[p].timer).stage = "asleep"
      /\ c \in Copies /\ owner[c] = p
  BY Sleeps DEF Tables, Mine
<1>6. Desktop' /\ Tables' /\ Known'
  BY <1>1, <1>2, <1>3, <1>4, <1>5 DEF Desktop, Tables, Known
<1>7. Owned'
  BY <1>2, <1>4, <1>5 DEF Owned, Tables
<1>8. Traced'
  <2>1. CASE prefs[p].timer = 0
    BY <1>1, <1>2, <1>4, <2>1 DEF Traced, Holds, Tables
  <2>2. CASE prefs[p].timer # 0
    BY <1>1, <1>2, <1>3, <1>4, <1>5, <2>2 DEF Traced, Holds, Tables
  <2>3. QED
    BY <2>1, <2>2
<1>9. Answerable'
  BY <1>1, <1>2, <1>3, <1>4 DEF Answerable, Tables
<1>10. AnsweredMeansTaken'
  BY <1>1, <1>2 DEF AnsweredMeansTaken, Mine, Tables
<1>11. QED
  BY <1>2, <1>6, <1>7, <1>8, <1>9, <1>10 DEF Takings

(* An answer takes the record for what the clipboard holds, or for nothing of p's. *)
LEMMA AnswersKeeps ==
    ASSUME IInv, NEW p \in Processes, NEW why \in Triggers, Answers(p, why)
    PROVE  IInv' /\ Takings
<1> USE BoundsAssumption, RecordsHave, ThreadsHave, PreferencesHave, ClipsHave, Plain
    DEF IInv, history, Move, Nothing
<1> DEFINE at == IF why \in prefs[p].on /\ Verdict(p, TRUE) = "Clear" THEN "clearing" ELSE "answered"
           t == [thread[p] EXCEPT !.why = why, !.at = at]
<1>1. thread[p].at = "idle" /\ thread' = [thread EXCEPT ![p] = t]
  BY DEF Answers
<1>2. t \in Thread /\ t.at = at /\ t.hand = thread[p].hand /\ t.why = why
  <2>1. thread[p] \in Thread /\ at \in Ats
    BY DEF Tables, Ats
  <2>2. QED
    BY <2>1 DEF Thread, Ats
<1>3. UNCHANGED <<clip, copied, written, saved, prefs, waiter, history>>
  BY DEF Answers
<1>4. /\ armed' = armed \/ armed' = [armed EXCEPT ![p] = Unarmed]
      /\ armed' # armed => armed[p].sequence # clip.sequence
  BY DEF Answers, Takes, Verdict, Tables
<1>5. /\ at \in {"clearing", "answered"}
      /\ at = "clearing" => armed[p].sequence = clip.sequence
      /\ at = "answered" /\ why \in prefs[p].on => armed[p].sequence # clip.sequence
  <2>1. clip.sequence # 0
    BY DEF Desktop
  <2>2. Verdict(p, TRUE) = "Clear" <=> armed[p].sequence = clip.sequence
    <3>1. armed[p] = Unarmed => armed[p].sequence # clip.sequence
      BY <2>1
    <3>2. QED
      BY <3>1 DEF Verdict
  <2>3. QED
    BY <2>2
<1> HIDE DEF t, at
<1>6. Desktop' /\ Tables' /\ Known' /\ Owned'
  BY <1>1, <1>2, <1>3, <1>4 DEF Desktop, Tables, Known, Owned
<1>7. Traced'
  BY <1>1, <1>2, <1>3, <1>4, <1>5 DEF Traced, Holds, Tables, Desktop
<1>8. Answerable'
  BY <1>1, <1>2, <1>3, <1>4, <1>5 DEF Answerable, Tables, Desktop
<1>9. AnsweredMeansTaken'
  BY <1>1, <1>2, <1>3, <1>5 DEF AnsweredMeansTaken, Answerable, Mine, Tables
<1>10. QED
  BY <1>3, <1>6, <1>7, <1>8, <1>9 DEF Takings

(* An answer's clear empties what its process put there. *)
LEMMA ClearsKeeps ==
    ASSUME IInv, NEW p \in Processes, Clears(p)
    PROVE  IInv' /\ Takings
<1> USE BoundsAssumption, RecordsHave, ThreadsHave, PreferencesHave, ClipsHave, Plain
    DEF IInv, history, Move, Nothing
<1> DEFINE t == [thread[p] EXCEPT !.at = "answered"]
<1>1. /\ thread[p].at = "clearing" /\ thread' = [thread EXCEPT ![p] = t]
      /\ armed' = [armed EXCEPT ![p] = Unarmed]
      /\ UNCHANGED <<copied, written, saved, prefs, waiter, owner>>
  BY DEF Clears
<1>2. /\ clip' \in Clips /\ age' \in Ticks
      /\ crossed' \in BOOLEAN /\ excused' \in BOOLEAN
      /\ \/ clip'.holds = Nothing /\ age' = 0 /\ clip'.sequence = clip.sequence + 1
         \/ clip' = clip /\ age' = age /\ crossed' = crossed /\ excused'
  BY Emptied DEF Clears
<1>3. t \in Thread /\ t.at = "answered" /\ t.hand = thread[p].hand
  BY Moves DEF Tables, Ats
<1> HIDE DEF t
<1>6. Desktop' /\ Tables' /\ Known' /\ Owned'
  BY <1>1, <1>2, <1>3 DEF Desktop, Tables, Known, Owned
<1>7. CASE clip'.holds = Nothing /\ age' = 0 /\ clip'.sequence = clip.sequence + 1
  <2>1. Traced'
    BY <1>1, <1>2, <1>3, <1>7 DEF Traced, Holds, Tables, Known, Ticks, Desktop
  <2>2. Answerable' /\ AnsweredMeansTaken'
    BY <1>1, <1>2, <1>3, <1>7 DEF Answerable, AnsweredMeansTaken, Mine, Tables, Copies
  <2>3. Takings
    BY <1>1, <1>2, <1>3, <1>7 DEF Takings, Traced, Holds, Desktop, Whats, Mine, Tables, Owned
  <2>4. QED
    BY <1>6, <2>1, <2>2, <2>3
<1>8. CASE clip' = clip /\ age' = age /\ crossed' = crossed /\ excused'
  <2>1. Traced'
    BY <1>1, <1>2, <1>3, <1>8 DEF Traced, Holds, Tables, Desktop
  <2>2. Answerable' /\ AnsweredMeansTaken' /\ Takings
    BY <1>8 DEF Answerable, AnsweredMeansTaken, Takings
  <2>3. QED
    BY <1>6, <2>1, <2>2
<1>9. QED
  BY <1>2, <1>7, <1>8

(* So does a waiter's, once its interval has run out. *)
LEMMA WaiterClearsKeeps ==
    ASSUME IInv, NEW c \in Copies, WaiterClears(c)
    PROVE  IInv' /\ Takings
<1> USE BoundsAssumption, RecordsHave, ThreadsHave, PreferencesHave, ClipsHave, Plain
    DEF IInv, history, Move, Nothing
<1>1. /\ waiter[c].stage = "clearing" /\ waiter' = [waiter EXCEPT ![c] = NoWaiter]
      /\ armed' = [armed EXCEPT ![owner[c]] = Unarmed]
      /\ UNCHANGED <<copied, written, saved, prefs, thread, owner>>
  BY DEF WaiterClears
<1>2. /\ clip' \in Clips /\ age' \in Ticks
      /\ crossed' \in BOOLEAN /\ excused' \in BOOLEAN
      /\ \/ clip'.holds = Nothing /\ age' = 0 /\ clip'.sequence = clip.sequence + 1
         \/ clip' = clip /\ age' = age /\ crossed' = crossed /\ excused'
  BY Emptied DEF WaiterClears
<1>3. owner[c] \in Processes
  BY <1>1 DEF Owned
<1>6. Desktop' /\ Tables' /\ Known' /\ Owned'
  BY <1>1, <1>2, <1>3 DEF Desktop, Tables, Known, Owned
<1>7. CASE clip'.holds = Nothing /\ age' = 0 /\ clip'.sequence = clip.sequence + 1
  <2>1. Traced'
    BY <1>1, <1>2, <1>3, <1>7 DEF Traced, Holds, Tables, Known, Ticks, Desktop
  <2>2. Answerable' /\ AnsweredMeansTaken'
    BY <1>1, <1>2, <1>3, <1>7 DEF Answerable, AnsweredMeansTaken, Mine, Tables, Copies
  <2>3. Takings
    BY <1>1, <1>2, <1>3, <1>7 DEF Takings, Traced, Holds, Desktop, Whats, Mine, Tables, Owned
  <2>4. QED
    BY <1>6, <2>1, <2>2, <2>3
<1>8. CASE clip' = clip /\ age' = age /\ crossed' = crossed /\ excused'
  <2>1. Traced'
    BY <1>1, <1>2, <1>3, <1>8 DEF Traced, Holds, Tables, Desktop
  <2>2. Answerable' /\ AnsweredMeansTaken' /\ Takings
    BY <1>8 DEF Answerable, AnsweredMeansTaken, Takings
  <2>3. QED
    BY <1>6, <2>1, <2>2
<1>9. QED
  BY <1>2, <1>7, <1>8
(* A waiter that wakes goes off on its own process' record alone. *)
LEMMA WakesKeeps ==
    ASSUME IInv, NEW c \in Copies, Wakes(c)
    PROVE  IInv' /\ Takings
<1> USE BoundsAssumption, RecordsHave, ThreadsHave, PreferencesHave, ClipsHave, Plain
    DEF IInv, history, Move, Nothing
<1> DEFINE p == owner[c]
           w == waiter'[c]
<1>1. /\ waiter[c] = Asleep(0) /\ Takes(p, FALSE)
      /\ UNCHANGED <<clip, copied, written, saved, prefs, thread, history>>
  BY DEF Wakes
<1>2. waiter[c].stage = "asleep" /\ p \in Processes
  BY <1>1, Sleeps DEF Owned, Ticks, MaxTimer
<1>3. /\ armed' = armed \/ armed' = [armed EXCEPT ![p] = Unarmed]
      /\ armed' # armed => armed[p].sequence # clip.sequence
  BY <1>1, <1>2 DEF Takes, Verdict, Tables
<1>4. /\ waiter' = [waiter EXCEPT ![c] = w] /\ w \in Waiters
      /\ w.stage = "clearing" => armed[p].sequence = clip.sequence /\ armed[p].left = 0
  <2>1. CASE Verdict(p, FALSE) = "TooEarly"
    <3>1. waiter' = [waiter EXCEPT ![c] = Asleep(armed[p].left)]
      BY <2>1 DEF Wakes
    <3>2. Asleep(armed[p].left) \in Waiters /\ Asleep(armed[p].left).stage = "asleep"
      BY <1>2, Sleeps DEF Tables
    <3>3. QED
      BY <3>1, <3>2 DEF Tables
  <2>2. CASE Verdict(p, FALSE) = "Clear"
    <3>1. waiter' = [waiter EXCEPT ![c] = [waiter[c] EXCEPT !.stage = "clearing"]]
      BY <2>2 DEF Wakes
    <3>2. [waiter[c] EXCEPT !.stage = "clearing"] \in Waiters
      BY GoesOff DEF Tables
    <3>3. armed[p].sequence = clip.sequence /\ armed[p].left = 0
      BY <2>2 DEF Verdict
    <3>4. QED
      BY <3>1, <3>2, <3>3 DEF Tables
  <2>3. CASE Verdict(p, FALSE) \notin {"TooEarly", "Clear"}
    <3>1. waiter' = [waiter EXCEPT ![c] = NoWaiter]
      BY <2>3 DEF Wakes
    <3>2. QED
      BY <3>1 DEF Tables
  <2>4. QED
    BY <2>1, <2>2, <2>3
<1> HIDE DEF w
<1>5. Desktop' /\ Tables' /\ Known' /\ Owned'
  BY <1>1, <1>2, <1>3, <1>4 DEF Desktop, Tables, Known, Owned
<1>6. Traced'
  <2>1. age \in Nat
    BY DEF Desktop, Ticks
  <2>2. ~crossed /\ w.stage = "clearing" => Holds(p) /\ age = 0
    BY <1>2, <1>4, <2>1 DEF Traced
  <2>3. QED
    BY <1>1, <1>2, <1>3, <1>4, <2>2 DEF Traced, Holds, Tables, Desktop
<1>7. Answerable'
  BY <1>1, <1>2, <1>3, <1>4 DEF Answerable, Tables, Desktop
<1>8. AnsweredMeansTaken'
  BY <1>1, <1>2, <1>3, <1>4 DEF AnsweredMeansTaken, Mine, Tables
<1>9. QED
  BY <1>1, <1>2, <1>3, <1>4, <1>5, <1>6, <1>7, <1>8 DEF Takings

(* A process that ends leaves no record and no waiter. *)
LEMMA EndKeeps ==
    ASSUME IInv, NEW dead \in SUBSET Processes, End(dead)
    PROVE  IInv' /\ Takings
<1> USE BoundsAssumption, RecordsHave, ThreadsHave, PreferencesHave, ClipsHave, Plain
    DEF IInv, history, Move, Nothing
<1>1. /\ UNCHANGED <<clip, copied, written, saved, prefs, owner, age, crossed>>
      /\ excused' \in BOOLEAN /\ (excused => excused')
      /\ clip.holds \in UNION {Mine(p) : p \in dead} => excused'
  BY DEF End
<1>2. \A p \in Processes :
        \/ p \notin dead /\ armed'[p] = armed[p] /\ thread'[p] = thread[p] /\ thread[p].at # "answered"
        \/ p \notin dead /\ armed'[p] = armed[p] /\ thread'[p] = Idle /\ thread[p].at = "answered"
        \/ p \in dead /\ armed'[p] = Unarmed /\ thread'[p] = Gone
  BY DEF End
<1>3. \A c \in Copies : waiter'[c] = NoWaiter \/ waiter'[c] = waiter[c]
  BY DEF End
<1>4. Tables'
  <2>1. /\ armed' = [p \in Processes |-> armed'[p]] /\ thread' = [p \in Processes |-> thread'[p]]
        /\ waiter' = [c \in Copies |-> waiter'[c]]
    BY DEF End
  <2>2. QED
    BY <1>1, <1>2, <1>3, <2>1 DEF Tables
<1>5. Desktop' /\ Known' /\ Owned'
  BY <1>1, <1>2, <1>3 DEF Desktop, Known, Owned
<1>6. Traced'
  BY <1>1, <1>2, <1>3 DEF Traced, Holds, Desktop
<1>7. Answerable'
  <2>1. \A p \in dead : clip.holds \in Copies /\ owner[clip.holds] = p => excused'
    BY <1>1 DEF Mine
  <2>2. QED
    BY <1>1, <1>2, <2>1 DEF Answerable
<1>8. AnsweredMeansTaken'
  BY <1>1, <1>2 DEF AnsweredMeansTaken, Mine
<1>9. QED
  BY <1>1, <1>4, <1>5, <1>6, <1>7, <1>8 DEF Takings

(* A process starts with the saved preferences, and nothing armed. *)
LEMMA StartsKeeps ==
    ASSUME IInv, NEW p \in Processes, Starts(p)
    PROVE  IInv' /\ Takings
<1> USE BoundsAssumption, RecordsHave, ThreadsHave, PreferencesHave, ClipsHave, Plain
    DEF IInv, history, Move, Nothing
<1>1. /\ thread[p].at = "gone" /\ thread' = [thread EXCEPT ![p] = Idle]
      /\ prefs' = [prefs EXCEPT ![p] = saved]
      /\ UNCHANGED <<clip, copied, written, saved, armed, waiter, history>>
  BY DEF Starts
<1>2. Desktop' /\ Tables' /\ Known' /\ Owned'
  BY <1>1 DEF Desktop, Tables, Known, Owned
<1>3. Traced'
  BY <1>1 DEF Traced, Holds, Tables, Desktop
<1>4. Answerable'
  BY <1>1 DEF Answerable, Tables, Desktop
<1>5. AnsweredMeansTaken'
  BY <1>1 DEF AnsweredMeansTaken, Mine, Tables
<1>6. QED
  BY <1>1, <1>2, <1>3, <1>4, <1>5 DEF Takings

(* Preferences are edited while the daemon's thread is idle. *)
LEMMA EditKeeps ==
    ASSUME IInv, Edit
    PROVE  IInv' /\ Takings
<1> USE BoundsAssumption, RecordsHave, ThreadsHave, PreferencesHave, ClipsHave, Plain
    DEF IInv, history, Move, Nothing
<1>1. /\ thread[Daemon].at = "idle" /\ saved' \in Choices /\ prefs' = [prefs EXCEPT ![Daemon] = saved']
      /\ UNCHANGED <<clip, copied, written, armed, thread, waiter, history>>
  BY DEF Edit
<1>2. Desktop' /\ Tables' /\ Known' /\ Owned'
  BY <1>1, ChoicesAssumption DEF Desktop, Tables, Known, Owned
<1>3. Traced'
  BY <1>1, ChoicesAssumption DEF Traced, Holds, Tables
<1>4. Answerable'
  BY <1>1 DEF Answerable, Tables
<1>5. AnsweredMeansTaken'
  BY <1>1 DEF AnsweredMeansTaken, Mine, Tables
<1>6. QED
  BY <1>1, <1>2, <1>3, <1>4, <1>5 DEF Takings

(* Another program's write crosses whoever is between two calls. *)
LEMMA ForeignWriteKeeps ==
    ASSUME IInv, ForeignWrite
    PROVE  IInv' /\ Takings
<1> USE BoundsAssumption, RecordsHave, ThreadsHave, PreferencesHave, ClipsHave, Plain
    DEF IInv, history, Move, Nothing
<1> DEFINE f == MaxCopies + written + 1
<1>1. /\ Writes(f, 0, FALSE) /\ written < MaxForeign /\ written' = written + 1
      /\ UNCHANGED <<copied, saved, prefs, armed, thread, waiter, owner>>
  BY DEF ForeignWrite
<1>2. f \in Foreign /\ f \notin Copies /\ f # 0 /\ f \in Whats
  BY <1>1 DEF Foreign, Copies, Whats, Desktop
<1>3. 0 \in Ticks /\ FALSE \in BOOLEAN
  BY DEF Ticks, MaxTimer
<1>4. /\ clip' \in Clips /\ clip'.sequence = clip.sequence + 1 /\ clip'.holds = f
      /\ age' \in Ticks /\ age' = 0
      /\ crossed' \in BOOLEAN /\ excused' \in BOOLEAN
      /\ (\E q \in Processes : thread[q].at = "landed" \/ Clearing(q)) => crossed'
  BY <1>1, <1>2, <1>3, Written
<1>5. Desktop'
  BY <1>1, <1>4 DEF Desktop
<1> HIDE DEF f
<1>6. Tables' /\ Known' /\ Owned'
  BY <1>1, <1>4 DEF Desktop, Tables, Known, Owned
<1>7. ~crossed' => /\ \A q \in Processes : thread[q].at \notin {"landed", "clearing"}
                   /\ \A d \in Copies : waiter[d].stage # "clearing"
  BY <1>4 DEF Clearing, Mine, Owned
<1>8. Traced'
  BY <1>1, <1>4, <1>6, <1>7 DEF Traced, Holds, Known, Tables, Desktop
<1>9. Answerable' /\ AnsweredMeansTaken' /\ Takings
  BY <1>1, <1>2, <1>4 DEF Answerable, AnsweredMeansTaken, Takings, Mine
<1>10. QED
  BY <1>5, <1>6, <1>8, <1>9

(* A tick takes one off every interval alike. *)
LEMMA TickKeeps ==
    ASSUME IInv, Tick
    PROVE  IInv' /\ Takings
<1> USE BoundsAssumption, RecordsHave, ThreadsHave, PreferencesHave, ClipsHave, Plain
    DEF IInv, history, Move, Nothing
<1>1. /\ armed' = [p \in Processes |-> [armed[p] EXCEPT !.left = Less(@)]]
      /\ waiter' = [c \in Copies |-> [waiter[c] EXCEPT !.left = Less(@)]]
      /\ age' = Less(age)
      /\ UNCHANGED <<clip, copied, written, saved, prefs, thread, owner, crossed, excused>>
  BY DEF Tick
<1>2. \A p \in Processes : /\ armed'[p] \in Records /\ armed'[p].sequence = armed[p].sequence
                            /\ armed'[p].left = Less(armed[p].left)
  BY <1>1, LessLeft DEF Tables
<1>3. \A c \in Copies : waiter'[c] \in Waiters /\ waiter'[c].stage = waiter[c].stage
  BY <1>1, LessLeft DEF Tables
<1>4. Tables'
  <2>1. /\ armed' = [p \in Processes |-> armed'[p]] /\ waiter' = [c \in Copies |-> waiter'[c]]
    BY <1>1
  <2>2. QED
    BY <1>1, <1>2, <1>3, <2>1 DEF Tables
<1>5. Desktop' /\ Known' /\ Owned'
  BY <1>1, <1>2, <1>3, Lesser DEF Desktop, Known, Owned
<1>6. age \in Ticks /\ age' <= age /\ (age = 0 => age' = 0)
  BY <1>1, Lesser DEF Desktop, Less
<1>7. \A n \in Ticks : age <= n => age' <= Less(n)
  BY <1>1, <1>6 DEF Less, Ticks, MaxTimer
<1>8. Traced'
  <2>1. \A p \in Processes : prefs[p].timer \in Ticks /\ armed[p].left \in Ticks
    BY DEF Tables
  <2>2. \A n \in Ticks : age <= n => age' <= n
    BY <1>5, <1>6 DEF Ticks, Desktop, MaxTimer
  <2>3. \A p \in Processes : Holds(p)' = Holds(p)
    BY <1>1 DEF Holds
  <2>4. \A c \in Copies : Holds(owner[c])' = Holds(owner[c])
    BY <1>1 DEF Holds
  <2>5. ASSUME ~crossed', NEW p \in Processes
        PROVE  /\ thread'[p].at = "landed" => Holds(p)' /\ age' <= prefs'[p].timer
               /\ thread'[p].at = "read" /\ thread'[p].hand = clip'.sequence
                     => Holds(p)' /\ age' <= prefs'[p].timer
               /\ armed'[p].sequence = clip'.sequence => Holds(p)' /\ age' <= armed'[p].left
               /\ thread'[p].at = "clearing" => Holds(p)'
    BY <1>1, <1>2, <1>7, <2>1, <2>2, <2>3, <2>5 DEF Traced
  <2>6. ASSUME ~crossed', NEW c \in Copies, waiter'[c].stage = "clearing"
        PROVE  Holds(owner[c])' /\ age' = 0
    BY <1>1, <1>3, <1>6, <2>4, <2>6 DEF Traced
  <2>7. QED
    BY <1>1, <2>5, <2>6 DEF Traced
<1>9. Answerable'
  BY <1>1, <1>2 DEF Answerable
<1>10. AnsweredMeansTaken'
  BY <1>1 DEF AnsweredMeansTaken, Mine
<1>11. QED
  BY <1>1, <1>4, <1>5, <1>8, <1>9, <1>10 DEF Takings

-----------------------------------------------------------------------------
(* Every step keeps the invariant, and takes only what is its own.         *)
LEMMA StepHolds == IInv /\ [Next]_vars => IInv' /\ [Takings]_vars
<1> SUFFICES ASSUME IInv, [Next]_vars PROVE IInv' /\ [Takings]_vars
  OBVIOUS
<1>1. ASSUME NEW p \in Processes, Copy(p) \/ CopyFails(p) \/ ReadSequence(p) \/ Arm(p)
      PROVE  IInv' /\ Takings
  BY <1>1, CopyKeeps, CopyFailsKeeps, ReadSequenceKeeps, ArmKeeps
<1>2. ASSUME NEW p \in Processes, NEW why \in Triggers, Answers(p, why)
      PROVE  IInv' /\ Takings
  BY <1>2, AnswersKeeps
<1>3. ASSUME NEW p \in Processes, Clears(p) \/ Starts(p) PROVE IInv' /\ Takings
  BY <1>3, ClearsKeeps, StartsKeeps
<1>4. ASSUME NEW p \in Processes, Ends(p) PROVE IInv' /\ Takings
  <2>1. PICK dead \in SUBSET Processes : End(dead)
    BY <1>4 DEF Ends, Processes
  <2>2. QED
    BY <2>1, EndKeeps
<1>5. ASSUME NEW w \in Windows, Closes(w) PROVE IInv' /\ Takings
  <2>1. End({w}) /\ {w} \in SUBSET Processes
    BY <1>5 DEF Closes, Processes
  <2>2. QED
    BY <2>1, EndKeeps
<1>6. ASSUME NEW c \in Copies, Wakes(c) \/ WaiterClears(c) PROVE IInv' /\ Takings
  BY <1>6, WakesKeeps, WaiterClearsKeeps
<1>7. CASE Edit \/ ForeignWrite \/ Tick
  BY <1>7, EditKeeps, ForeignWriteKeeps, TickKeeps
<1>8. CASE UNCHANGED vars
  BY <1>8 DEF vars, IInv, Desktop, Tables, Known, Owned, Traced, Holds, Answerable,
             AnsweredMeansTaken, Mine
<1>9. QED
  BY <1>1, <1>2, <1>3, <1>4, <1>5, <1>6, <1>7, <1>8 DEF Next

(* IInv is inductive, for any processes, choices and bounds. *)
LEMMA Inductive == Spec => []IInv /\ [][Takings]_vars
BY InitHolds, StepHolds, PTL DEF Spec

(* Every variable keeps its type, and no record and no thread names a      *)
(* sequence number that the clipboard has not reached.                     *)
THEOREM TypeCorrect == Spec => []TypeOK
<1>1. IInv => TypeOK
  BY TypesInParts DEF IInv
<1>2. QED
  BY <1>1, Inductive, PTL

(* A process whose lock, account change or quitting the user wants to      *)
(* clear the clipboard ends with none of its copies left behind            *)
(* (clear_if_still_ours_for, ends_a_copied_secrets_life).                  *)
THEOREM AnsweredMeansTakenAlways == Spec => []AnsweredMeansTaken
<1>1. IInv => AnsweredMeansTaken
  BY DEF IInv
<1>2. QED
  BY <1>1, Inductive, PTL

(* A clear takes only what its own process put there, and only when its    *)
(* interval is over or the user locked, changed account or quit (verdict,  *)
(* take_if).                                                               *)
THEOREM TakesOnlyItsOwnAlways == Spec => TakesOnlyItsOwn
<1>1. [Takings]_vars => [Takings]_vars
  OBVIOUS
<1>2. QED
  BY Inductive, PTL DEF TakesOnlyItsOwn, Takings
=============================================================================
