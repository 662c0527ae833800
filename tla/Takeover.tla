------------------------------ MODULE Takeover ------------------------------
(***************************************************************************)
(* Which copy of Deskwarden runs: the named mutex of app_mutex.rs, the     *)
(* named quit event of single_instance.rs, the launch that takes over from *)
(* the copy that runs, by asking and then by force, and the handover to    *)
(* the installer (stand_down_for_install, and launch_installer of          *)
(* updater.rs).                                                            *)
(*                                                                         *)
(* Both names are the kernel's: a name exists while any process has a      *)
(* handle to it, however briefly, and a process that ends has none.        *)
(***************************************************************************)
EXTENDS Naturals

CONSTANTS
    Copies,      \* processes launched as Deskwarden itself
    Panels,      \* processes of its windows, from which an update is installed
    Unnamed,     \* the copies for which creating the mutex may fail
    Casts,       \* bound: the processes that ever start beside each other
    Polls        \* how often a wait looks (TAKEOVER_TIMEOUT, FORCE_TIMEOUT, HANDOVER_TIMEOUT)

ASSUME CopiesAssumption == Copies \cap Panels = {} /\ Unnamed \subseteq Copies
ASSUME CastsAssumption == Casts \subseteq SUBSET (Copies \cup Panels)
ASSUME PollsAssumption == Polls \in Nat \ {0}

Procs == Copies \cup Panels

VARIABLES
    pc,          \* where each process is
    held,        \* the processes whose HELD has a handle to the mutex
    peeking,     \* those with the handle of a take_if_free that found it taken
    ears,        \* those that listen, with a handle to the quit event
    asking,      \* those that have it open to set it
    signalled,   \* whether the quit event is set; it stays so while it exists
    heard,       \* whether each process' ask found the event
    polls,       \* the looks its wait has left
    victims,     \* the processes it found to end
    ended,       \* whether it ended one
    installer,   \* setup: not started, asking for the mutex, replacing the program
    cast         \* the processes that ever start

vars == <<pc, held, peeking, ears, asking, signalled, heard, polls, victims,
          ended, installer, cast>>

Stages == {"off", "ask", "set", "close", "letGo", "wait", "peek", "force", "kill",
           "waitForced", "peekForced", "gaveUp", "up", "listening", "leaving",
           "panel", "launch", "spawn", "started"}

TypeOK ==
    /\ pc \in [Procs -> Stages]
    /\ held \subseteq Procs /\ peeking \subseteq Procs
    /\ ears \subseteq Copies /\ asking \subseteq Procs
    /\ signalled \in BOOLEAN
    /\ heard \in [Procs -> BOOLEAN]
    /\ polls \in [Procs -> 0..Polls]
    /\ victims \in [Procs -> SUBSET Procs]
    /\ ended \in [Procs -> BOOLEAN]
    /\ installer \in {"none", "asking", "replacing"}
    /\ cast \subseteq Procs

Init ==
    /\ pc = [p \in Procs |-> "off"]
    /\ held = {} /\ peeking = {} /\ ears = {} /\ asking = {}
    /\ signalled = FALSE
    /\ heard = [p \in Procs |-> FALSE]
    /\ polls = [p \in Procs |-> 0]
    /\ victims = [p \in Procs |-> {}]
    /\ ended = [p \in Procs |-> FALSE]
    /\ installer = "none"
    /\ cast \in Casts

MutexExists == held \cup peeking # {}
EventExists == ears \cup asking # {}

Goes(p, stage) == pc' = [pc EXCEPT ![p] = stage]
mutex == <<held, peeking>>
event == <<ears, asking, signalled>>
memory == <<heard, polls, victims, ended>>
outside == <<installer, cast>>

-----------------------------------------------------------------------------
(* main, acquire and resolve: the handle is kept whatever was found, and a *)
(* copy that cannot have one runs without.                                 *)
Launch(p) ==
    /\ pc[p] = "off" /\ p \in cast
    /\ \/ /\ held' = held \cup {p}
          /\ Goes(p, IF MutexExists THEN "ask" ELSE "up")
       \/ /\ p \in Unnamed
          /\ held' = held
          /\ Goes(p, "up")
    /\ UNCHANGED <<peeking, event, memory, outside>>

(* signal_quit: OpenEventW, SetEvent, CloseHandle. *)
Ask(p) ==
    /\ pc[p] = "ask"
    /\ heard' = [heard EXCEPT ![p] = EventExists]
    /\ asking' = IF EventExists THEN asking \cup {p} ELSE asking
    /\ Goes(p, IF EventExists THEN "set" ELSE "letGo")
    /\ UNCHANGED <<mutex, ears, signalled, polls, victims, ended, outside>>

SetQuit(p) ==
    /\ pc[p] = "set"
    /\ signalled' = TRUE
    /\ Goes(p, "close")
    /\ UNCHANGED <<mutex, ears, asking, memory, outside>>

CloseQuit(p) ==
    /\ pc[p] = "close"
    /\ asking' = asking \ {p}
    /\ signalled' = (signalled /\ ears \cup asking' # {})
    /\ Goes(p, "letGo")
    /\ UNCHANGED <<mutex, ears, memory, outside>>

(* take_over lets its own handle go after asking, and waits if it was      *)
(* heard; a panel, which let go before, waits in any case.                 *)
LetGo(p) ==
    /\ pc[p] = "letGo"
    /\ held' = held \ {p}
    /\ polls' = [polls EXCEPT ![p] = Polls]
    /\ heard' = [heard EXCEPT ![p] = FALSE]
    /\ Goes(p, IF p \in Panels \/ heard[p] THEN "wait" ELSE "force")
    /\ UNCHANGED <<peeking, event, victims, ended, outside>>

(* Mutant: one look too many. *)
LookOnceMore(p, got, not) ==
    /\ polls' = [polls EXCEPT ![p] = IF MutexExists THEN @ - 1 ELSE 0]
    /\ IF MutexExists
       THEN held' = held /\ peeking' = peeking \cup {p} /\ Goes(p, not)
       ELSE held' = held \cup {p} /\ peeking' = peeking /\ Goes(p, got)
    /\ UNCHANGED <<event, heard, victims, ended, outside>>

(* take_if_free: one handle, kept if the name is new and dropped if not. *)
Look(p, got, not) ==
    /\ polls[p] > 0
    /\ polls' = [polls EXCEPT ![p] = IF MutexExists THEN @ - 1 ELSE 0]
    /\ IF MutexExists
       THEN held' = held /\ peeking' = peeking \cup {p} /\ Goes(p, not)
       ELSE held' = held \cup {p} /\ peeking' = peeking /\ Goes(p, got)
    /\ UNCHANGED <<event, heard, victims, ended, outside>>

(* Mutant: the handle is kept, as acquire keeps it. *)
PollAndTake(p) ==
    /\ pc[p] = "wait" /\ polls[p] > 0
    /\ polls' = [polls EXCEPT ![p] = @ - 1]
    /\ held' = held \cup {p}
    /\ Goes(p, IF p \in Panels THEN "launch" ELSE "up")
    /\ UNCHANGED <<peeking, event, heard, victims, ended, outside>>

Poll(p) == pc[p] = "wait" /\ Look(p, IF p \in Panels THEN "launch" ELSE "up", "peek")
PollForced(p) == pc[p] = "waitForced" /\ Look(p, "up", "peekForced")

EndPeek(p) ==
    /\ pc[p] \in {"peek", "peekForced"}
    /\ peeking' = peeking \ {p}
    /\ Goes(p, IF pc[p] = "peek" THEN "wait" ELSE "waitForced")
    /\ UNCHANGED <<held, event, memory, outside>>

(* Mutant: a wait that ran out waits again. *)
WaitsOn(p) ==
    /\ pc[p] \in {"wait", "waitForced"} /\ polls[p] = 0
    /\ polls' = [polls EXCEPT ![p] = Polls]
    /\ UNCHANGED <<pc, mutex, event, heard, victims, ended, outside>>

(* Mutant: a forced wait that ran out runs anyway. *)
TimesOutAndRuns(p) ==
    /\ pc[p] \in {"wait", "waitForced"} /\ polls[p] = 0
    /\ Goes(p, IF p \in Panels THEN "panel"
               ELSE IF pc[p] = "wait" THEN "force" ELSE "up")
    /\ UNCHANGED <<mutex, event, memory, outside>>

(* The looks are used up. *)
TimesOut(p) ==
    /\ pc[p] \in {"wait", "waitForced"} /\ polls[p] = 0
    /\ Goes(p, IF p \in Panels THEN "panel"
               ELSE IF pc[p] = "wait" THEN "force" ELSE "gaveUp")
    /\ UNCHANGED <<mutex, event, memory, outside>>

-----------------------------------------------------------------------------
(* end_other_deskwardens: the processes of this program's name, windows    *)
(* included, as the snapshot has them; then one after the other.           *)
Enumerate(p) ==
    /\ pc[p] = "force"
    /\ victims' = [victims EXCEPT ![p] = {q \in Procs \ {p} : pc[q] # "off"}]
    /\ ended' = [ended EXCEPT ![p] = FALSE]
    /\ Goes(p, "kill")
    /\ UNCHANGED <<mutex, event, heard, polls, outside>>

(* A process that is gone has no handles, and remembers nothing. *)
Gone(q) ==
    /\ held' = held \ {q} /\ peeking' = peeking \ {q}
    /\ ears' = ears \ {q} /\ asking' = asking \ {q}
    /\ signalled' = (signalled /\ ears' \cup asking' # {})

Forgotten(q, f, none) == [f EXCEPT ![q] = none]

(* TerminateProcess; one that has gone by now is passed over. *)
Kill(p, q) ==
    /\ pc[p] = "kill" /\ q \in victims[p]
    /\ IF pc[q] = "off"
       THEN /\ victims' = [victims EXCEPT ![p] = @ \ {q}]
            /\ UNCHANGED <<pc, mutex, event, heard, polls, ended>>
       ELSE /\ victims' = [victims EXCEPT ![p] = @ \ {q}, ![q] = {}]
            /\ ended' = [ended EXCEPT ![p] = TRUE, ![q] = FALSE]
            /\ heard' = Forgotten(q, heard, FALSE)
            /\ polls' = Forgotten(q, polls, 0)
            /\ Goes(q, "off")
            /\ Gone(q)
    /\ UNCHANGED outside

Forced(p) ==
    /\ pc[p] = "kill" /\ victims[p] = {}
    /\ polls' = [polls EXCEPT ![p] = Polls]
    /\ Goes(p, IF ended[p] THEN "waitForced" ELSE "gaveUp")
    /\ UNCHANGED <<mutex, event, heard, victims, ended, outside>>

-----------------------------------------------------------------------------
(* listen_for_takeover: CreateEventW opens the event that is there, if one *)
(* is, as it is.  It may fail, and an older build has none.                *)
Listen(p) ==
    /\ pc[p] = "up"
    /\ ears' = ears \cup {p}
    /\ Goes(p, "listening")
    /\ UNCHANGED <<mutex, asking, signalled, memory, outside>>

(* The listener runs the shutdown: the vault and the clipboard are cleared *)
(* before the process exits.                                               *)
Hears(p) ==
    /\ pc[p] = "listening" /\ signalled
    /\ Goes(p, "leaving")
    /\ UNCHANGED <<mutex, event, memory, outside>>

(* The tray's Quit. *)
Quits(p) ==
    /\ pc[p] \in {"up", "listening"}
    /\ Goes(p, "leaving")
    /\ UNCHANGED <<mutex, event, memory, outside>>

Ends(p) ==
    /\ Gone(p)
    /\ heard' = Forgotten(p, heard, FALSE)
    /\ polls' = Forgotten(p, polls, 0)
    /\ victims' = Forgotten(p, victims, {})
    /\ ended' = Forgotten(p, ended, FALSE)
    /\ Goes(p, "off")

(* process::exit: of a copy that leaves, of one whose message box is       *)
(* dismissed, of a window that is closed.                                  *)
Exits(p) ==
    /\ pc[p] \in {"leaving", "gaveUp", "panel", "started"}
    /\ Ends(p)
    /\ UNCHANGED outside

-----------------------------------------------------------------------------
(* A window's process opens for a copy that runs, and outlives it. *)
Opens(p) ==
    /\ p \in Panels \cap cast /\ pc[p] = "off"
    /\ \E q \in Copies : pc[q] \in {"up", "listening"}
    /\ Goes(p, "panel")
    /\ UNCHANGED <<mutex, event, memory, outside>>

(* stand_down_for_install: its own handle first, then it asks. *)
Install(p) ==
    /\ pc[p] = "panel" /\ p \in Panels
    /\ held' = held \ {p}
    /\ Goes(p, "ask")
    /\ UNCHANGED <<peeking, event, memory, outside>>

(* Mutant: the name is left to the exit. *)
KeepName(p) ==
    /\ pc[p] = "launch"
    /\ Goes(p, "spawn")
    /\ UNCHANGED <<mutex, event, memory, outside>>

(* launch_installer: the name it took is let go for setup to find free.    *)
Release(p) ==
    /\ pc[p] = "launch"
    /\ held' = held \ {p}
    /\ Goes(p, "spawn")
    /\ UNCHANGED <<peeking, event, memory, outside>>

Spawn(p) ==
    /\ pc[p] = "spawn"
    /\ \/ installer' = "asking" /\ Goes(p, "started")
       \/ installer' = installer /\ Goes(p, "panel")
    /\ UNCHANGED <<mutex, event, memory, cast>>

(* Setup, once: in silence it gives up if the name exists. *)
SetupAsks ==
    /\ installer = "asking"
    /\ installer' = IF MutexExists THEN "none" ELSE "replacing"
    /\ UNCHANGED <<pc, mutex, event, memory, cast>>

SetupEnds ==
    /\ installer = "replacing"
    /\ installer' = "none"
    /\ UNCHANGED <<pc, mutex, event, memory, cast>>

Takes(p) == \/ Ask(p) \/ SetQuit(p) \/ CloseQuit(p) \/ LetGo(p) \/ Poll(p)
            \/ PollForced(p) \/ EndPeek(p) \/ TimesOut(p) \/ Enumerate(p)
            \/ \E q \in Procs : Kill(p, q)
            \/ Forced(p)

Next ==
    \/ \E p \in Copies : Launch(p) \/ Listen(p) \/ Hears(p) \/ Quits(p)
    \/ \E p \in Panels : Opens(p) \/ Install(p) \/ Release(p) \/ Spawn(p)
    \/ \E p \in Procs : Takes(p) \/ Exits(p)
    \/ SetupAsks \/ SetupEnds

Spec == Init /\ [][Next]_vars

(* A process goes on with what it has begun; nobody must launch, quit or   *)
(* dismiss anything.                                                       *)
Fairness == \A p \in Procs : /\ WF_vars(Takes(p))
                             /\ WF_vars(Hears(p))
                             /\ WF_vars(pc[p] = "leaving" /\ Exits(p))
FairSpec == Spec /\ Fairness

-----------------------------------------------------------------------------
(* Properties. *)

(* The copies past resolve, and the panel that was told that the app is    *)
(* its own.                                                                *)
Owners == {p \in Procs \ Unnamed : pc[p] \in {"up", "listening", "leaving", "launch"}}

(* Two copies never run at once, however many are launched, quit, asked    *)
(* and ended meanwhile, and none runs when stand_down_for_install has      *)
(* answered that the app was handed over (GaveUp::StillRunning).           *)
OneRuns == \A p, q \in Owners : p = q

(* The name goes from one process to the next only by being let go and     *)
(* found free, whoever asks, waits and ends whom: OneOwner is implemented  *)
(* (acquire, take_if_free, release, end_other_deskwardens).                *)
Name == INSTANCE OneOwner WITH owners <- Owners
HandsOver == Name!Spec

(* A launch comes to an end: the copy runs, or says that it will not, or   *)
(* was itself ended (TAKEOVER_TIMEOUT).                                    *)
LaunchSettles ==
    \A p \in Copies :
        pc[p] = "ask" ~> pc[p] \in {"up", "listening", "leaving", "gaveUp", "off"}

(* Setup, which is silent, never gives up for the sake of the window that  *)
(* started it (launch_installer): only for a copy launched since, or for   *)
(* another window's install.                                               *)
SetupIsLetIn ==
    [][installer = "asking" /\ installer' = "none"
           => \E p \in held \cup peeking : pc[p] # "started"]_vars
=============================================================================
