------------------------------ MODULE Clipboard ------------------------------
(***************************************************************************)
(* A copied secret and what takes it back off the clipboard (clipboard.rs).*)
(*                                                                         *)
(* The clipboard is one for the whole desktop, and every program on it may *)
(* write it; ARMED and CLEARING are statics, so the daemon and each window *)
(* have their own.  A copy is three steps of its thread: it lands, the     *)
(* sequence number is read, the record is armed and a waiter started.  A   *)
(* clear is two: the verdict, and the emptying, with ARMED locked for both *)
(* and the clipboard open to everybody in between.                         *)
(***************************************************************************)
EXTENDS Naturals

CONSTANTS
    Daemon, Windows,  \* the processes
    NoProcess,        \* no process has made the copy yet
    Choices,          \* the clipboard preferences the user may save
    Happenings,       \* what may happen in this instance
    MaxCopies,        \* bound: secrets ever copied
    MaxForeign        \* bound: writes by other programs

Processes == Windows \cup {Daemon}
Triggers == {"lock", "change", "quit"}
MaxTimer == 2         \* bound: ticks of the clock in the longest interval

(* Whole: the preferences as clipboard_clearing folds the master switch    *)
(* in: a timer of 0 is None, and then no trigger is on.                    *)
Preferences == {c \in [timer : 0 .. MaxTimer, on : SUBSET Triggers] : c.timer = 0 => c.on = {}}

ASSUME BoundsAssumption == MaxCopies \in Nat /\ MaxForeign \in Nat
ASSUME ChoicesAssumption == Choices \subseteq Preferences
ASSUME ProcessesAssumption == NoProcess \notin Processes

Copies == 1 .. MaxCopies
Foreign == MaxCopies + 1 .. MaxCopies + MaxForeign
Nothing == 0
NoSequence == 0

VARIABLES
    clip,     \* the clipboard: its sequence number and what it holds
    copied,   \* how many secrets were ever copied
    written,  \* how many writes other programs ever made
    saved,    \* the preferences in settings.json
    prefs,    \* CLEARING of each process
    armed,    \* ARMED of each process
    thread,   \* the thread of each process that copies and answers triggers
    waiter,   \* the waiter of each copy
    owner,    \* history: the process that made each copy
    age,      \* history: what is left of the interval of what the clipboard holds
    crossed,  \* history: what it holds was written between two calls of a thread
    excused   \* history: the code cannot be held to taking back what it holds

vars == <<clip, copied, written, saved, prefs, armed, thread, waiter, owner, age, crossed,
          excused>>
history == <<owner, age, crossed, excused>>

Unarmed == [sequence |-> NoSequence, left |-> 0]
Asleep(n) == [stage |-> "asleep", left |-> n]
NoWaiter == [stage |-> "none", left |-> 0]

(* `at` is where the thread is, `hand` the sequence number it has read,    *)
(* `why` the trigger it answers.                                           *)
Thread == [at : {"gone", "idle", "landed", "read", "clearing", "answered"},
           hand : Nat, why : Triggers \cup {"none"}]
Idle == [at |-> "idle", hand |-> NoSequence, why |-> "none"]
Gone == [Idle EXCEPT !.at = "gone"]

Init ==
    /\ clip = [sequence |-> 1, holds |-> Nothing]
    /\ copied = 0 /\ written = 0
    /\ saved \in Choices
    /\ prefs = [p \in Processes |-> saved]
    /\ armed = [p \in Processes |-> Unarmed]
    /\ thread = [p \in Processes |-> Gone]
    /\ waiter = [c \in Copies |-> NoWaiter]
    /\ owner = [c \in Copies |-> NoProcess]
    /\ age = 0
    /\ crossed = FALSE
    /\ excused = FALSE

-----------------------------------------------------------------------------
(* The clipboard. *)

AliveProcess(p) == thread[p].at # "gone"
Mine(p) == {c \in Copies : owner[c] = p}
Clearing(p) == thread[p].at = "clearing" \/ \E c \in Mine(p) : waiter[c].stage = "clearing"

(* A write by anybody moves the sequence number on.                        *)
Writes(what, interval, failed) ==
    /\ clip' = [sequence |-> clip.sequence + 1, holds |-> what]
    /\ age' = interval
    /\ excused' = failed
    /\ crossed' = \E p \in Processes : thread[p].at = "landed" \/ Clearing(p)

(* win32::clear, which another program holding the clipboard open refuses. *)
Empties ==
    \/ Writes(Nothing, 0, FALSE)
    \/ /\ "refused" \in Happenings
       /\ excused' = TRUE
       /\ UNCHANGED <<clip, age, crossed>>

(* Mutant: whose secret it is is asked last. *)
VerdictDeadlineFirst(p, waived) ==
    IF armed[p] = Unarmed THEN "NothingArmed"
    ELSE IF waived \/ armed[p].left = 0 THEN "Clear"
    ELSE IF armed[p].sequence # clip.sequence THEN "NotOurs"
    ELSE "TooEarly"

(* verdict, for a process that has just locked ARMED.                      *)
Verdict(p, waived) ==
    IF armed[p] = Unarmed THEN "NothingArmed"
    ELSE IF armed[p].sequence # clip.sequence THEN "NotOurs"
    ELSE IF waived \/ armed[p].left = 0 THEN "Clear"
    ELSE "TooEarly"

(* Mutant: a record that is too early is forgotten as well. *)
TakesAndForgets(p, waived) ==
    armed' = [armed EXCEPT ![p] = IF Verdict(p, waived) = "Clear" THEN @ ELSE Unarmed]

(* take_if up to its clear: a record that is not for now is forgotten.     *)
Takes(p, waived) ==
    armed' = [armed EXCEPT ![p] =
                IF Verdict(p, waived) \in {"NotOurs", "NothingArmed"} THEN Unarmed ELSE @]

Move(p, t) == thread' = [thread EXCEPT ![p] = t]

-----------------------------------------------------------------------------
(* Copying. *)

(* put_secret: the whole of it between OpenClipboard and CloseClipboard.   *)
Copy(p) ==
    LET c == copied + 1 IN
    /\ thread[p].at = "idle" /\ c \in Copies
    /\ Writes(c, prefs[p].timer, prefs[p].timer = 0)
    /\ copied' = c
    /\ owner' = [owner EXCEPT ![c] = p]
    /\ Move(p, [thread[p] EXCEPT !.at = "landed"])
    /\ UNCHANGED <<written, saved, prefs, armed, waiter>>

(* put_secret failing after EmptyClipboard: with the text already placed,  *)
(* or before it.  Nothing is armed.                                        *)
CopyFails(p) ==
    LET c == copied + 1 IN
    /\ "refused" \in Happenings
    /\ thread[p].at = "idle" /\ c \in Copies
    /\ \E what \in {c, Nothing} : Writes(what, 0, TRUE)
    /\ copied' = c
    /\ owner' = [owner EXCEPT ![c] = p]
    /\ UNCHANGED <<written, saved, prefs, armed, thread, waiter>>

(* sequence_number(), after the clipboard was closed.                      *)
ReadSequence(p) ==
    /\ thread[p].at = "landed"
    /\ Move(p, [thread[p] EXCEPT !.at = "read", !.hand = clip.sequence])
    /\ UNCHANGED <<clip, copied, written, saved, prefs, armed, waiter, history>>

(* Mutant: the first record is kept. *)
ArmOnce(p) ==
  \E c \in Mine(p) :
    /\ \A d \in Mine(p) : d <= c
    /\ thread[p].at = "read"
    /\ ~Clearing(p)
    /\ IF prefs[p].timer = 0 \/ armed[p] # Unarmed
         THEN UNCHANGED <<armed, waiter>>
         ELSE /\ armed' = [armed EXCEPT ![p] = [sequence |-> thread[p].hand,
                                                left |-> prefs[p].timer]]
              /\ waiter' = [waiter EXCEPT ![c] = Asleep(prefs[p].timer)]
    /\ Move(p, Idle)
    /\ UNCHANGED <<clip, copied, written, saved, prefs, history>>

(* arm: the record replaces the one before it, whose waiter is left alone. *)
Arm(p) ==
  \E c \in Mine(p) :
    /\ \A d \in Mine(p) : d <= c
    /\ thread[p].at = "read"
    /\ ~Clearing(p)
    /\ IF prefs[p].timer = 0
         THEN UNCHANGED <<armed, waiter>>
         ELSE /\ armed' = [armed EXCEPT ![p] = [sequence |-> thread[p].hand,
                                                left |-> prefs[p].timer]]
              /\ waiter' = [waiter EXCEPT ![c] = Asleep(prefs[p].timer)]
    /\ Move(p, Idle)
    /\ UNCHANGED <<clip, copied, written, saved, prefs, history>>

-----------------------------------------------------------------------------
(* Taking it back. *)

(* wait_and_clear awake: take_if(Respected), and asleep again when early.  *)
Wakes(c) ==
    LET p == owner[c] IN
    /\ waiter[c] = Asleep(0)
    /\ ~Clearing(p)
    /\ Takes(p, FALSE)
    /\ waiter' = [waiter EXCEPT ![c] =
                    CASE Verdict(p, FALSE) = "TooEarly" -> Asleep(armed[p].left)
                      [] Verdict(p, FALSE) = "Clear"    -> [@ EXCEPT !.stage = "clearing"]
                      [] OTHER                          -> NoWaiter]
    /\ UNCHANGED <<clip, copied, written, saved, prefs, thread, history>>

WaiterClears(c) ==
    /\ waiter[c].stage = "clearing"
    /\ Empties
    /\ armed' = [armed EXCEPT ![owner[c]] = Unarmed]
    /\ waiter' = [waiter EXCEPT ![c] = NoWaiter]
    /\ UNCHANGED <<copied, written, saved, prefs, thread, owner>>

(* clear_if_still_ours_for: a window answers a lock or an account change   *)
(* as it ends, the daemon a lock, and its own end.                         *)
Answers(p, why) ==
    /\ why \in Happenings
    /\ why \in (IF p = Daemon THEN {"lock", "quit"} ELSE {"lock", "change"})
    /\ thread[p].at = "idle"
    /\ ~Clearing(p)
    /\ IF why \in prefs[p].on
         THEN /\ Takes(p, TRUE)
              /\ Move(p, [thread[p] EXCEPT !.why = why,
                    !.at = IF Verdict(p, TRUE) = "Clear" THEN "clearing" ELSE "answered"])
         ELSE /\ Move(p, [thread[p] EXCEPT !.why = why, !.at = "answered"])
              /\ UNCHANGED armed
    /\ UNCHANGED <<clip, copied, written, saved, prefs, waiter, history>>

Clears(p) ==
    /\ thread[p].at = "clearing"
    /\ Empties
    /\ armed' = [armed EXCEPT ![p] = Unarmed]
    /\ Move(p, [thread[p] EXCEPT !.at = "answered"])
    /\ UNCHANGED <<copied, written, saved, prefs, waiter, owner>>

-----------------------------------------------------------------------------
(* The processes. *)

(* A process ends with its statics and its waiters.                        *)
End(dead) ==
    /\ thread' = [p \in Processes |->
                    IF p \in dead THEN Gone
                    ELSE IF thread[p].at = "answered" THEN Idle ELSE thread[p]]
    /\ armed' = [p \in Processes |-> IF p \in dead THEN Unarmed ELSE armed[p]]
    /\ waiter' = [c \in Copies |-> IF owner[c] \in dead THEN NoWaiter ELSE waiter[c]]
    /\ excused' = (excused \/ clip.holds \in UNION {Mine(p) : p \in dead})
    /\ UNCHANGED <<clip, copied, written, saved, prefs, owner, age, crossed>>

(* What follows the answer: a window is over; a lock of the daemon's, and  *)
(* its quitting, terminate the windows.                                    *)
Ends(p) ==
    /\ thread[p].at = "answered"
    /\ End(IF p # Daemon THEN {p} ELSE IF thread[p].why = "lock" THEN Windows ELSE Processes)

(* A window closed, with keep_ui_loaded off: no trigger is named.          *)
Closes(w) ==
    /\ "close" \in Happenings
    /\ thread[w].at = "idle"
    /\ End({w})

Starts(p) ==
    /\ thread[p].at = "gone"
    /\ p # Daemon => AliveProcess(Daemon)
    /\ Move(p, Idle)
    /\ prefs' = [prefs EXCEPT ![p] = saved]
    /\ UNCHANGED <<clip, copied, written, saved, armed, waiter, history>>

(* apply_edited_settings: the file and the daemon's CLEARING, and no       *)
(* window's.                                                               *)
Edit ==
    /\ "edit" \in Happenings
    /\ thread[Daemon].at = "idle"
    /\ saved' \in Choices \ {saved}
    /\ prefs' = [prefs EXCEPT ![Daemon] = saved']
    /\ UNCHANGED <<clip, copied, written, armed, thread, waiter, history>>

ForeignWrite ==
    /\ written < MaxForeign
    /\ written' = written + 1
    /\ Writes(MaxCopies + written + 1, 0, FALSE)
    /\ UNCHANGED <<copied, saved, prefs, armed, thread, waiter, owner>>

(* Mutant: the clock runs below zero. *)
LessBelowZero(n) == n - 1

Less(n) == IF n = 0 THEN 0 ELSE n - 1
Tick ==
    /\ armed' = [p \in Processes |-> [armed[p] EXCEPT !.left = Less(@)]]
    /\ waiter' = [c \in Copies |-> [waiter[c] EXCEPT !.left = Less(@)]]
    /\ age' = Less(age)
    /\ UNCHANGED <<clip, copied, written, saved, prefs, thread, owner, crossed, excused>>

Next ==
    \/ \E p \in Processes : \/ Copy(p) \/ CopyFails(p) \/ ReadSequence(p) \/ Arm(p)
                            \/ \E why \in Triggers : Answers(p, why)
                            \/ Clears(p) \/ Ends(p) \/ Starts(p)
    \/ \E w \in Windows : Closes(w)
    \/ \E c \in Copies : Wakes(c) \/ WaiterClears(c)
    \/ Edit \/ ForeignWrite \/ Tick

Spec == Init /\ [][Next]_vars

(* The clock runs, and a thread that can go on does.                       *)
Fairness ==
    /\ WF_vars(Tick)
    /\ \A p \in Processes : WF_vars(ReadSequence(p)) /\ WF_vars(Arm(p)) /\ WF_vars(Clears(p))
                            /\ WF_vars(Ends(p))
    /\ \A c \in Copies : WF_vars(Wakes(c)) /\ WF_vars(WaiterClears(c))

FairSpec == Spec /\ Fairness

-----------------------------------------------------------------------------
(* What the file is for. *)

TypeOK ==
    /\ clip \in [sequence : Nat \ {NoSequence}, holds : {Nothing} \cup Copies \cup Foreign]
    /\ copied \in 0 .. MaxCopies /\ written \in 0 .. MaxForeign
    /\ saved \in Preferences
    /\ prefs \in [Processes -> Preferences]
    /\ armed \in [Processes -> [sequence : Nat, left : 0 .. MaxTimer]]
    /\ thread \in [Processes -> Thread]
    /\ waiter \in [Copies -> [stage : {"none", "asleep", "clearing"}, left : 0 .. MaxTimer]]
    /\ owner \in [Copies -> Processes \cup {NoProcess}]
    /\ age \in 0 .. MaxTimer
    /\ crossed \in BOOLEAN /\ excused \in BOOLEAN
    /\ \A p \in Processes : armed[p].sequence <= clip.sequence /\ thread[p].hand <= clip.sequence

(* What the clipboard loses to a clear was put there by the process that   *)
(* clears, and either its interval has run out or the user has locked,     *)
(* changed account or quit there -- unless it was written between two      *)
(* calls of a thread that read the sequence number (verdict, take_if).     *)
TakesOnlyItsOwn ==
    [][ \/ clip' = clip \/ crossed \/ clip'.holds # Nothing \/ copied' # copied
        \/ clip.holds = Nothing
        \/ /\ clip.holds \in Copies
           /\ LET p == owner[clip.holds] IN
              \/ thread[p].at = "clearing" /\ thread'[p].at = "answered"
              \/ age = 0 /\ \E c \in Mine(p) : /\ waiter[c].stage = "clearing"
                                              /\ waiter'[c] = NoWaiter ]_vars

(* A window whose lock or account change the user wants answered ends with *)
(* none of its copies left behind, however the copies, their waiters and   *)
(* the answer overlap (clear_if_still_ours_for, ends_a_copied_secrets_life).*)
AnsweredMeansTaken ==
    \A p \in Processes :
        thread[p].at = "answered" /\ thread[p].why \in prefs[p].on
        => clip.holds \notin Mine(p) \/ excused

(* A secret copied with the timer on is taken back or replaced, as long as *)
(* the process that copied it lives and no clear of it was refused         *)
(* (arm, wait_and_clear, take_if).                                         *)
TimerTakesBack ==
    \A c \in Copies : clip.holds = c /\ ~excused ~> clip.holds # c \/ excused

(* What PRIVACY.md says of closing a window: the timer still applies.      *)
TimerStillApplies ==
    \A c \in Copies : clip.holds = c /\ age > 0 ~> clip.holds # c
=============================================================================
