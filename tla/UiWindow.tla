------------------------------ MODULE UiWindow ------------------------------
(***************************************************************************)
(* The daemon and the processes that draw the vault window (main.rs,       *)
(* ui_process.rs, ui_show.rs, vault_window/mod.rs).                        *)
(*                                                                         *)
(* The daemon keeps one slot: the child it spawned last and the doorbell   *)
(* it made for it.  What the two processes know of each other crosses as   *)
(* kernel names and files named by the child's pid: the name the child     *)
(* holds while its window is on screen, the event that asks it to show     *)
(* itself, the doorbell it rings when it has left edited settings, and the *)
(* result file and exit code it ends with.  Each action is one frame of    *)
(* the window, or one step of the daemon's loop between two calls that the *)
(* other process can be seen by.                                           *)
(***************************************************************************)
EXTENDS Naturals, FiniteSets

CONSTANTS
    None,        \* no settings: an empty cell, an absent file
    KeepLoaded,  \* the values keep_ui_loaded takes in this instance
    Reports,     \* the reasons to close a window reports in this instance
    Events,      \* what happens to the daemon in this instance
    MaxSpawns,   \* bound: window processes ever started
    MaxEdits     \* bound: edits ever made to the preferences

ASSUME KeepAssumption == KeepLoaded \subseteq BOOLEAN /\ KeepLoaded # {}
ASSUME ReportsAssumption == Reports \subseteq {"lock", "switch"}
ASSUME EventsAssumption ==
    Events \subseteq {"open", "preferences", "away", "quit", "crash", "refusal"}
ASSUME BoundsAssumption == MaxSpawns \in Nat /\ MaxEdits \in Nat

Pids == 1 .. MaxSpawns
NoPid == 0

(* Settings: which edit made it, and the one preference read here. *)
Settings == [version : Nat, keep : BOOLEAN]
ASSUME NoneAssumption == None \notin Settings
Cell == Settings \cup {None}

VARIABLES
    turn,      \* where the daemon's loop is
    slot,      \* UiWindows.vault: the child's pid
    rung,      \* the settings doorbell of the slot is signalled
    settings,  \* the daemon's settings, which it saves as it changes them
    inHand,    \* an edit the daemon has read and whose file it has not deleted
    win,       \* the window processes: [Pids -> Process]
    signal,    \* the processes whose show event is signalled
    edits,     \* the files ui-settings-<pid>.json
    results,   \* the files ui-result-<pid>.json
    spawned,   \* how many processes were ever started
    version,   \* how many edits were ever made
    served     \* history: the processes whose lock the daemon has carried out

vars == <<turn, slot, rung, settings, inHand, win, signal, edits, results, spawned, version,
          served>>

-----------------------------------------------------------------------------
(* A window's process.  `hooks` is HideHooks being Some; `form` is the     *)
(* preferences modal; `cell` is edited_settings; `closing` is the close    *)
(* the next frame reports; `waiting` is a thread inside wait_for_show and  *)
(* `woken` what it left behind; `sent` is history: what was last delivered.*)
Stages == {"unborn", "starting", "open", "hidden", "leaving", "written", "gone", "killed"}
Process == [stage : Stages, hooks : BOOLEAN, visible : BOOLEAN, closing : BOOLEAN,
            waiting : BOOLEAN, woken : BOOLEAN, form : Cell, cell : Cell,
            delivered : BOOLEAN, sent : Cell, report : Reports \cup {"none"}]
Unborn == [stage |-> "unborn", hooks |-> FALSE, visible |-> FALSE, closing |-> FALSE,
           waiting |-> FALSE, woken |-> FALSE, form |-> None, cell |-> None,
           delivered |-> FALSE, sent |-> None, report |-> "none"]

(* UiVaultResult as the file carries it. *)
Result == [report : Reports \cup {"none"}, edited : Cell]
NoResult == [report |-> "absent", edited |-> None]

Alive(p) == win[p].stage \notin {"unborn", "gone", "killed"}

(* The name of the show event exists while the process, or its waiter,     *)
(* holds the handle.                                                       *)
ShowEvent(p) == /\ Alive(p)
                /\ win[p].hooks
                /\ win[p].stage \in {"open", "hidden"} \/ win[p].waiting

Become(p, w) == win' = [win EXCEPT ![p] = w]

(* A process that ended: what is left is how, and its exit code. *)
Ended(p) == [Unborn EXCEPT !.stage = "gone", !.report = win[p].report]
Killed(p) == IF Alive(p) THEN [Unborn EXCEPT !.stage = "killed"] ELSE win[p]

Init ==
    /\ turn = "decide"
    /\ slot = NoPid
    /\ rung = FALSE
    /\ \E keep \in KeepLoaded : settings = [version |-> 0, keep |-> keep]
    /\ inHand = None
    /\ win = [p \in Pids |-> Unborn]
    /\ signal = {}
    /\ edits = [p \in Pids |-> None]
    /\ results = [p \in Pids |-> NoResult]
    /\ spawned = 0
    /\ version = 0
    /\ served = {}

-----------------------------------------------------------------------------
(* The child. *)

childOnly == UNCHANGED <<turn, slot, settings, inHand, results, spawned, served>>

(* The child has read settings.json, taken its visible name and, if        *)
(* keep_ui_loaded is on and it needs no sign-in, put its hooks in place.   *)
Starts(p) ==
    /\ win[p].stage = "starting"
    /\ \E hooks \in BOOLEAN :
          /\ hooks => settings.keep
          /\ Become(p, [win[p] EXCEPT !.stage = "open", !.visible = TRUE, !.hooks = hooks])
    /\ UNCHANGED <<signal, edits, rung, version>> /\ childOnly

(* UiStartFailure: the process ends with a code that is no result. *)
FailsToStart(p) ==
    /\ win[p].stage = "starting" /\ "refusal" \in Events
    /\ Become(p, Ended(p))
    /\ UNCHANGED <<signal, edits, rung, version>> /\ childOnly

(* The gear: the form starts from the cell, or from settings.json. *)
Seed(p) == IF win[p].cell # None THEN win[p].cell ELSE settings

OpenForm(p) ==
    /\ win[p].stage = "open" /\ win[p].form = None /\ MaxEdits > 0
    /\ Become(p, [win[p] EXCEPT !.form = Seed(p), !.cell = Seed(p), !.delivered = FALSE])
    /\ UNCHANGED <<signal, edits, rung, version>> /\ childOnly

EditForm(p) ==
    /\ win[p].stage = "open" /\ win[p].form # None /\ version < MaxEdits
    /\ \E keep \in KeepLoaded :
          LET edited == [version |-> version + 1, keep |-> keep]
          IN Become(p, [win[p] EXCEPT !.form = edited, !.cell = edited, !.delivered = FALSE])
    /\ version' = version + 1
    /\ UNCHANGED <<signal, edits, rung>> /\ childOnly

(* deliver_if_needed: the file first, then the doorbell, which exists      *)
(* while a daemon has this process in its slot.                            *)
Owed(w) == w.cell # None /\ ~w.delivered
Listening(p) == slot = p
Deliver(p, w) ==
    /\ edits' = IF Owed(w) THEN [edits EXCEPT ![p] = w.cell] ELSE edits
    /\ rung' = (rung \/ (Owed(w) /\ Listening(p)))
Delivered(p, w) == w.delivered \/ (Owed(w) /\ Listening(p))
Sent(p, w) == IF Owed(w) /\ Listening(p) THEN w.cell ELSE w.sent

DismissForm(p) ==
    /\ win[p].stage = "open" /\ win[p].form # None
    /\ LET w == [win[p] EXCEPT !.form = None, !.delivered = FALSE]
       IN IF w.hooks
          THEN /\ Deliver(p, w)
               /\ Become(p, [w EXCEPT !.delivered = Delivered(p, w), !.sent = Sent(p, w)])
          ELSE Become(p, w) /\ UNCHANGED <<edits, rung>>
    /\ UNCHANGED <<signal, version>> /\ childOnly

(* The user closes the window, by the title bar or by Alt+F4. *)
UserCloses(p) ==
    /\ win[p].stage = "open" /\ ~win[p].closing
    /\ Become(p, [win[p] EXCEPT !.closing = TRUE])
    /\ UNCHANGED <<signal, edits, rung, version>> /\ childOnly

(* Ctrl+L, the menu, the idle timer, a refused save: a cell is filled and  *)
(* a Close command sent.  The idle timer also runs in a hidden window's    *)
(* frames, when it gets any.                                               *)
Raise(p) ==
    /\ win[p].stage \in {"open", "hidden"} /\ win[p].report = "none"
    /\ \E report \in Reports :
          /\ win[p].stage = "hidden" => report = "lock"
          /\ Become(p, [win[p] EXCEPT !.report = report, !.closing = TRUE])
    /\ UNCHANGED <<signal, edits, rung, version>> /\ childOnly

(* on_close: hide only with keep_ui_loaded on, now, and nothing to report. *)
KeepNow(w) == IF w.cell = None THEN w.hooks ELSE w.cell.keep
(* Mutant: whether the edit reached the daemon is not asked. *)
HidesUndelivered(p, w) == KeepNow(w) /\ w.report = "none"
Hides(p, w) == KeepNow(w) /\ w.report = "none" /\ (w.cell # None => Delivered(p, w))

(* A frame with close_requested, in a window with hooks: it cancels that   *)
(* close, then close_or_hide decides.  Exit sends a Close of its own, for  *)
(* the next frame to report.  A form that is still up is drawn after.      *)
CloseOrHide(p) ==
    /\ win[p].stage = "open" /\ win[p].hooks /\ win[p].closing
    /\ Deliver(p, win[p])
    /\ LET w == [win[p] EXCEPT !.delivered = Delivered(p, win[p]) /\ win[p].form = None,
                               !.sent = Sent(p, win[p])]
       IN IF Hides(p, win[p])
          THEN Become(p, [w EXCEPT !.stage = "hidden", !.visible = FALSE,
                                   !.waiting = TRUE, !.closing = FALSE])
          ELSE Become(p, w)
    /\ UNCHANGED <<turn, slot, settings, inHand, results, spawned, served, signal, version>>

(* A close nobody cancels ends the event loop.  The hooks go, and with     *)
(* them the show event, unless the waiter has it.                          *)
Leaves(p) ==
    /\ win[p].closing
    /\ \/ win[p].stage = "open" /\ ~win[p].hooks
       \/ win[p].stage = "hidden" /\ ~win[p].woken
    /\ Become(p, [win[p] EXCEPT !.stage = "leaving"])
    /\ signal' = IF win[p].waiting THEN signal ELSE signal \ {p}
    /\ UNCHANGED <<edits, rung, version>> /\ childOnly

(* Mutant: the waiter takes the signal and asks for no frame. *)
WaitEndsUnheard(p) ==
    /\ win[p].stage = "hidden" /\ win[p].waiting /\ ~win[p].woken /\ p \in signal
    /\ signal' = signal \ {p}
    /\ UNCHANGED <<win, edits, rung, version>> /\ childOnly

(* The waiter thread takes the signal. *)
WaitEnds(p) ==
    /\ win[p].stage = "hidden" /\ win[p].waiting /\ ~win[p].woken /\ p \in signal
    /\ signal' = signal \ {p}
    /\ Become(p, [win[p] EXCEPT !.woken = TRUE])
    /\ UNCHANGED <<edits, rung, version>> /\ childOnly

(* Mutant: the waiter ends and nobody closes the window. *)
WaitFailsUnseen(p) ==
    /\ win[p].stage = "hidden" /\ win[p].waiting /\ ~win[p].woken /\ "refusal" \in Events
    /\ Become(p, [win[p] EXCEPT !.waiting = FALSE])
    /\ UNCHANGED <<signal, edits, rung, version>> /\ childOnly

(* Its wait failed, for want of an event: the window closes instead. *)
WaitFails(p) ==
    /\ win[p].stage = "hidden" /\ win[p].waiting /\ ~win[p].woken /\ "refusal" \in Events
    /\ Become(p, [win[p] EXCEPT !.waiting = FALSE, !.closing = TRUE])
    /\ UNCHANGED <<signal, edits, rung, version>> /\ childOnly

(* The frame the waiter asked for: on_shown takes the visible name back. *)
Shows(p) ==
    /\ win[p].stage = "hidden" /\ win[p].woken
    /\ Become(p, [win[p] EXCEPT !.stage = "open", !.visible = TRUE,
                                !.waiting = FALSE, !.woken = FALSE])
    /\ UNCHANGED <<signal, edits, rung, version>> /\ childOnly

(* The last acts: the result file, which may fail, and the exit code. *)
WritesResult(p) ==
    /\ win[p].stage = "leaving"
    /\ Become(p, [win[p] EXCEPT !.stage = "written"])
    /\ \/ results' = [results EXCEPT ![p] = [report |-> win[p].report, edited |-> win[p].cell]]
       \/ results' = results
    /\ UNCHANGED <<turn, slot, settings, inHand, spawned, served, signal, edits, rung, version>>

Exits(p) ==
    /\ win[p].stage = "written"
    /\ Become(p, Ended(p))
    /\ signal' = signal \ {p}
    /\ UNCHANGED <<edits, rung, version>> /\ childOnly

Child(p) ==
    \/ Starts(p) \/ FailsToStart(p) \/ OpenForm(p) \/ EditForm(p) \/ DismissForm(p)
    \/ UserCloses(p) \/ Raise(p) \/ CloseOrHide(p) \/ Leaves(p)
    \/ WaitEnds(p) \/ WaitFails(p) \/ Shows(p) \/ WritesResult(p) \/ Exits(p)

-----------------------------------------------------------------------------
(* The daemon.  A pass of its loop takes a delivered edit, reaps a window  *)
(* that ended, and handles one event.                                      *)

(* Mutant: an edit that never came is applied as one. *)
applyAnything(edited) == settings' = edited

apply(edited) == settings' = IF edited = None THEN settings ELSE edited

(* take_edited_settings: the doorbell, the file; then the file goes and    *)
(* the edit is applied.                                                    *)
NoEdit ==
    /\ turn = "settings" /\ ~(slot # NoPid /\ rung)
    /\ turn' = "poll"
    /\ UNCHANGED <<slot, rung, settings, inHand, win, signal, edits, results, spawned, version,
                   served>>

ReadEdit ==
    /\ turn = "settings" /\ slot # NoPid /\ rung
    /\ rung' = FALSE
    /\ inHand' = edits[slot]
    /\ turn' = "forget"
    /\ UNCHANGED <<slot, settings, win, signal, edits, results, spawned, version, served>>

ForgetEdit ==
    /\ turn = "forget"
    /\ edits' = [edits EXCEPT ![slot] = None]
    /\ apply(inHand)
    /\ inHand' = None
    /\ turn' = "poll"
    /\ UNCHANGED <<slot, rung, win, signal, results, spawned, version, served>>

(* The files of a process that is done with, or about to be. *)
forget(p) == /\ edits' = [edits EXCEPT ![p] = None]
             /\ results' = [results EXCEPT ![p] = NoResult]

StillRunning ==
    /\ turn = "poll" /\ ~(slot # NoPid /\ ~Alive(slot))
    /\ turn' = "events"
    /\ UNCHANGED <<slot, rung, settings, inHand, win, signal, edits, results, spawned, version,
                   served>>

(* ui_vault_outcome: the file, and the exit code for what fits in one. *)
ExitCode(p) == IF win[p].stage = "gone" /\ win[p].report = "lock" THEN "lock" ELSE "none"

(* Mutant: what the file does not say is not heard. *)
OutcomeInTheFile(p) ==
    IF results[p] = NoResult THEN [report |-> "none", edited |-> None] ELSE results[p]

Outcome(p) ==
    IF results[p] = NoResult THEN [report |-> ExitCode(p), edited |-> None]
    ELSE IF ExitCode(p) = "lock" THEN [results[p] EXCEPT !.report = "lock"]
    ELSE results[p]

(* poll_the_vault_window and run_vault_loop: the edit is applied, a lock   *)
(* is carried out, and an account action asks for a new window.            *)
Reap ==
    /\ turn = "poll" /\ slot # NoPid /\ ~Alive(slot)
    /\ LET outcome == Outcome(slot)
       IN /\ apply(outcome.edited)
          /\ served' = IF outcome.report = "lock" THEN served \cup {slot} ELSE served
          /\ turn' = IF outcome.report = "switch" THEN "decide" ELSE "events"
    /\ forget(slot)
    /\ slot' = NoPid
    /\ rung' = FALSE
    /\ UNCHANGED <<inHand, win, signal, spawned, version>>

NoEvent ==
    /\ turn = "events"
    /\ turn' = "settings"
    /\ UNCHANGED <<slot, rung, settings, inHand, win, signal, edits, results, spawned, version,
                   served>>

(* Open Vault: open_decision looks at the slot and the visible name... *)
Wanted ==
    /\ turn = "events" /\ "open" \in Events
    /\ turn' = "decide"
    /\ UNCHANGED <<slot, rung, settings, inHand, win, signal, edits, results, spawned, version,
                   served>>

Decide ==
    /\ turn = "decide"
    /\ turn' = IF slot = NoPid THEN "spawn"
               ELSE IF win[slot].visible THEN "focus" ELSE "show"
    /\ UNCHANGED <<slot, rung, settings, inHand, win, signal, edits, results, spawned, version,
                   served>>

(* ...and the answer is acted on: raise_process finds a window or not.     *)
Focus ==
    /\ turn = "focus"
    /\ turn' = "settings"
    /\ UNCHANGED <<slot, rung, settings, inHand, win, signal, edits, results, spawned, version,
                   served>>

AskToShow ==
    /\ turn = "show" /\ ShowEvent(slot)
    /\ signal' = signal \cup {slot}
    /\ turn' = "settings"
    /\ UNCHANGED <<slot, rung, settings, inHand, win, edits, results, spawned, version, served>>

(* CreateProcess, then the doorbell; or no process could be started. *)
SpawnInto(w) ==
    /\ signal' = IF slot = NoPid THEN signal ELSE signal \ {slot}
    /\ rung' = FALSE
    /\ turn' = "settings"
    /\ \/ /\ spawned < MaxSpawns
          /\ spawned' = spawned + 1
          /\ slot' = spawned + 1
          /\ win' = [w EXCEPT ![spawned + 1] = [Unborn EXCEPT !.stage = "starting"]]
       \/ /\ spawned' = spawned /\ slot' = NoPid /\ win' = w
    /\ UNCHANGED <<settings, inHand, edits, results, version, served>>

Spawn == turn = "spawn" /\ SpawnInto(win)

(* Mutant: the child that did not answer is left running. *)
ReplaceBeside == turn = "show" /\ ~ShowEvent(slot) /\ SpawnInto(win)

(* Nothing answered on the show event: the child is killed and replaced. *)
Replace == turn = "show" /\ ~ShowEvent(slot) /\ SpawnInto([win EXCEPT ![slot] = Killed(slot)])

(* close_because_the_user_walked_away, then the vault is locked. *)
WalkedAway ==
    /\ turn = "events" /\ "away" \in Events /\ slot # NoPid
    /\ Become(slot, Killed(slot))
    /\ signal' = signal \ {slot}
    /\ forget(slot)
    /\ served' = served \cup {slot}
    /\ slot' = NoPid
    /\ rung' = FALSE
    /\ UNCHANGED <<turn, settings, inHand, spawned, version>>

(* Preferences in the tray: a form over the daemon's own settings. *)
Preferences ==
    /\ turn = "events" /\ "preferences" \in Events /\ version < MaxEdits
    /\ \E keep \in KeepLoaded : settings' = [version |-> version + 1, keep |-> keep]
    /\ version' = version + 1
    /\ turn' = "settings"
    /\ UNCHANGED <<slot, rung, inHand, win, signal, edits, results, spawned, served>>

(* Quit in the tray: close_on_quit, then the process ends. *)
Quit ==
    /\ turn = "events" /\ "quit" \in Events
    /\ turn' = "down"
    /\ IF slot = NoPid THEN UNCHANGED <<win, signal, edits, results>>
       ELSE Become(slot, Killed(slot)) /\ signal' = signal \ {slot} /\ forget(slot)
    /\ slot' = NoPid
    /\ rung' = FALSE
    /\ UNCHANGED <<settings, inHand, spawned, version, served>>

(* An update or a crash ends the daemon; the window stays up. *)
Crash ==
    /\ turn # "down" /\ "crash" \in Events
    /\ turn' = "down"
    /\ slot' = NoPid
    /\ rung' = FALSE
    /\ inHand' = None
    /\ UNCHANGED <<settings, win, signal, edits, results, spawned, version, served>>

(* Launched again: a launch asks for the window, or goes to the tray. *)
Launch ==
    /\ turn = "down"
    /\ turn' \in {"decide", "settings"}
    /\ UNCHANGED <<slot, rung, settings, inHand, win, signal, edits, results, spawned, version,
                   served>>

Loop ==
    \/ NoEdit \/ ReadEdit \/ ForgetEdit \/ StillRunning \/ Reap \/ NoEvent
    \/ Decide \/ Focus \/ AskToShow \/ Spawn \/ Replace \/ Launch

Daemon == Loop \/ Wanted \/ WalkedAway \/ Preferences \/ Quit \/ Crash

Next == Daemon \/ \E p \in Pids : Child(p)

Spec == Init /\ [][Next]_vars

(* The daemon's loop runs for ever and never blocks on a window; a process *)
(* that is scheduled starts, and finishes what it has begun.  Frames come  *)
(* while a window is on screen, and while one is hidden only because the   *)
(* waiter, or a Close command, asked for one.  No user owes anybody a      *)
(* click, and a hidden window no idle frame.                               *)
Fairness ==
    /\ WF_vars(Loop)
    /\ \A p \in Pids : /\ WF_vars(Starts(p)) /\ WF_vars(CloseOrHide(p)) /\ WF_vars(Leaves(p))
                       /\ WF_vars(WaitEnds(p)) /\ WF_vars(Shows(p))
                       /\ WF_vars(WritesResult(p)) /\ WF_vars(Exits(p))

FairSpec == Spec /\ Fairness

-----------------------------------------------------------------------------
(* Properties. *)

Turns == {"settings", "forget", "poll", "events", "decide", "focus", "show", "spawn", "down"}

(* The type invariant: the slot, the windows and the files are what the    *)
(* types of UiWindows, HideHooks and UiVaultResult allow.                  *)
TypeOK ==
    /\ turn \in Turns
    /\ slot \in Pids \cup {NoPid}
    /\ rung \in BOOLEAN
    /\ settings \in Settings
    /\ inHand \in Cell
    /\ win \in [Pids -> Process]
    /\ signal \subseteq Pids
    /\ edits \in [Pids -> Cell]
    /\ results \in [Pids -> Result \cup {NoResult}]
    /\ spawned \in 0 .. MaxSpawns
    /\ version \in Nat
    /\ served \subseteq Pids

(* One vault window: unless the daemon ends without saying goodbye, no two *)
(* window processes run at once, whichever of ask_for_the_vault_window's   *)
(* roads replaced one by the other.                                        *)
OneWindow ==
    "crash" \notin Events => \A p, q \in Pids : Alive(p) /\ Alive(q) => p = q

(* A hidden window keeps nothing from the daemon: its edit has been        *)
(* delivered as it stands, and unless it is on its way out it has no       *)
(* reason to close.  This is what on_close and the delivery before it are  *)
(* for.                                                                    *)
HiddenOwesNothing ==
    \A p \in Pids : win[p].stage = "hidden" =>
        /\ win[p].cell = win[p].sent
        /\ win[p].closing \/ win[p].report = "none"

(* A hidden window can be brought back: whatever frames it is given, the   *)
(* event Open Vault sets exists and a thread is inside the wait for it,    *)
(* unless the window is closing.  spawn_show_waiter is called at the hide  *)
(* for this.                                                               *)
HiddenCanBeShown ==
    \A p \in Pids : win[p].stage = "hidden" /\ ~win[p].closing =>
        ShowEvent(p) /\ win[p].waiting

(* A window asked to show itself while hidden does: it is on screen again, *)
(* or it is over.                                                          *)
AskedIsShown ==
    \A p \in Pids : (p \in signal /\ win[p].stage = "hidden") ~> win[p].stage # "hidden"

(* A lock a window reports is carried out by the daemon that has it in its *)
(* slot, even if the result file could not be written.                     *)
LockIsServed ==
    \A p \in Pids : (slot = p /\ win[p].report = "lock") ~> (p \in served)
=============================================================================
