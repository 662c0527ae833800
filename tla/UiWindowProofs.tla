--------------------------- MODULE UiWindowProofs ---------------------------
(* What TLAPS proves of UiWindow, for every value of the constants. *)
EXTENDS UiWindow, TLAPS

(* A single process: what was delivered is what is in the cell, and a      *)
(* hidden one has its hooks, its waiter and nothing to say.                *)
Good(w) ==
    /\ w.delivered => w.cell = w.sent
    /\ w.cell = None => w.sent = None
    /\ w.stage = "hidden" =>
          /\ w.hooks
          /\ w.cell = w.sent
          /\ w.closing \/ (w.waiting /\ w.report = "none")

Windows == \A p \in Pids : Good(win[p])

(* Processes are numbered as they are started. *)
Born == \A p \in Pids : win[p].stage = "unborn" <=> p > spawned

(* Every process that runs is the one in the slot. *)
Owned == "crash" \notin Events => \A p \in Pids : Alive(p) => slot = p

(* What the loop has just looked at is still so. *)
Looked == /\ turn = "spawn" => slot = NoPid
          /\ turn = "show" => slot # NoPid

IInv == TypeOK /\ Windows /\ Born /\ Owned /\ Looked

-----------------------------------------------------------------------------
LEMMA PidsFacts == Pids \subseteq Nat /\ NoPid \notin Pids
BY BoundsAssumption DEF Pids, NoPid

LEMMA UnbornFacts == /\ Unborn \in Process
                     /\ Good(Unborn)
                     /\ Unborn.stage = "unborn"
BY DEF Unborn, Process, Stages, Cell, Good

(* A process's next record leaves the table well typed and touches no      *)
(* other row.                                                              *)
LEMMA BecomeFacts ==
    ASSUME NEW W \in [Pids -> Process], NEW p \in Pids, NEW w \in Process
    PROVE  /\ [W EXCEPT ![p] = w] \in [Pids -> Process]
           /\ [W EXCEPT ![p] = w][p] = w
           /\ \A q \in Pids : q # p => [W EXCEPT ![p] = w][q] = W[q]
OBVIOUS

(* A frame of one process keeps what IInv says of the table, if the new    *)
(* record is good and the process neither starts nor comes back to life.   *)
LEMMA FrameKeeps ==
    ASSUME IInv, NEW p \in Pids, NEW w \in Process, Become(p, w), Good(w),
           Alive(p), w.stage # "unborn", UNCHANGED <<turn, slot, spawned>>
    PROVE  win' \in [Pids -> Process] /\ Windows' /\ Born' /\ Owned' /\ Looked'
<1>1. win \in [Pids -> Process]
  BY DEF IInv, TypeOK
<1>2. /\ win' \in [Pids -> Process]
      /\ win'[p] = w
      /\ \A q \in Pids : q # p => win'[q] = win[q]
  BY <1>1 DEF Become
<1>3. Windows'
  BY <1>2 DEF IInv, Windows
<1>4. Born'
  BY <1>2 DEF IInv, Born, Alive
<1>5. Owned'
  BY <1>2 DEF IInv, Owned, Alive
<1>6. Looked'
  BY DEF IInv, Looked
<1> QED BY <1>2, <1>3, <1>4, <1>5, <1>6

(* The rest of the type invariant, when only the table and the signals     *)
(* may change.                                                             *)
LEMMA RestKeeps ==
    ASSUME TypeOK, childOnly, win' \in [Pids -> Process], signal' \subseteq Pids,
           UNCHANGED <<edits, rung, version>>
    PROVE  TypeOK'
BY DEF TypeOK, childOnly

-----------------------------------------------------------------------------
(* The child's steps. *)

LEMMA StartsKeeps == ASSUME IInv, NEW p \in Pids, Starts(p) PROVE IInv'
<1>1. PICK hooks \in BOOLEAN :
         Become(p, [win[p] EXCEPT !.stage = "open", !.visible = TRUE, !.hooks = hooks])
  BY DEF Starts
<1> DEFINE w == [win[p] EXCEPT !.stage = "open", !.visible = TRUE, !.hooks = hooks]
<1>2. win[p] \in Process /\ Good(win[p]) /\ Alive(p)
  BY DEF IInv, TypeOK, Windows, Starts, Alive
<1>3. w \in Process /\ Good(w) /\ w.stage # "unborn"
  BY <1>2 DEF Process, Stages, Good
<1>4. UNCHANGED <<turn, slot, spawned>> /\ UNCHANGED <<edits, rung, version, signal>> /\ childOnly
  BY DEF Starts, childOnly
<1>5. win' \in [Pids -> Process] /\ Windows' /\ Born' /\ Owned' /\ Looked'
  BY <1>1, <1>2, <1>3, <1>4, FrameKeeps
<1> QED BY <1>4, <1>5, RestKeeps DEF IInv, TypeOK

LEMMA EndedFacts ==
    ASSUME IInv, NEW p \in Pids
    PROVE  /\ Ended(p) \in Process /\ Good(Ended(p)) /\ Ended(p).stage = "gone"
           /\ Killed(p) \in Process /\ Good(Killed(p)) /\ Killed(p).stage # "starting"
           /\ Killed(p).stage \in {"unborn", "gone", "killed"}
           /\ Killed(p).stage = "unborn" <=> win[p].stage = "unborn"
<1>1. win[p] \in Process /\ Good(win[p])
  BY DEF IInv, TypeOK, Windows
<1>2. Ended(p) \in Process /\ Good(Ended(p)) /\ Ended(p).stage = "gone"
  BY <1>1 DEF Ended, Unborn, Process, Stages, Good, Cell
<1>3. CASE Alive(p)
  BY <1>1, <1>2, <1>3 DEF Killed, Unborn, Process, Stages, Good, Cell, Alive
<1>4. CASE ~Alive(p)
  BY <1>1, <1>2, <1>4 DEF Killed, Alive
<1> QED BY <1>3, <1>4

LEMMA FailsToStartKeeps == ASSUME IInv, NEW p \in Pids, FailsToStart(p) PROVE IInv'
<1>1. Alive(p) /\ Become(p, Ended(p))
  BY DEF FailsToStart, Alive
<1>2. UNCHANGED <<turn, slot, spawned>> /\ UNCHANGED <<edits, rung, version, signal>> /\ childOnly
  BY DEF FailsToStart, childOnly
<1>3. win' \in [Pids -> Process] /\ Windows' /\ Born' /\ Owned' /\ Looked'
  BY <1>1, <1>2, EndedFacts, FrameKeeps
<1> QED BY <1>2, <1>3, RestKeeps DEF IInv, TypeOK

LEMMA OpenFormKeeps == ASSUME IInv, NEW p \in Pids, OpenForm(p) PROVE IInv'
<1> DEFINE w == [win[p] EXCEPT !.form = Seed(p), !.cell = Seed(p), !.delivered = FALSE]
<1>1. win[p] \in Process /\ Good(win[p]) /\ win[p].stage = "open" /\ Alive(p)
  BY DEF IInv, TypeOK, Windows, OpenForm, Alive
<1>2. Seed(p) \in Settings
  BY <1>1 DEF Seed, IInv, TypeOK, Process, Cell
<1>3. w \in Process /\ Good(w) /\ w.stage # "unborn"
  BY <1>1, <1>2, NoneAssumption DEF Process, Stages, Good, Cell
<1>4. Become(p, w) /\ UNCHANGED <<turn, slot, spawned>>
      /\ UNCHANGED <<edits, rung, version, signal>> /\ childOnly
  BY DEF OpenForm, childOnly
<1>5. win' \in [Pids -> Process] /\ Windows' /\ Born' /\ Owned' /\ Looked'
  BY <1>1, <1>3, <1>4, FrameKeeps
<1> QED BY <1>4, <1>5, RestKeeps DEF IInv, TypeOK

LEMMA EditFormKeeps == ASSUME IInv, NEW p \in Pids, EditForm(p) PROVE IInv'
<1>1. PICK keep \in KeepLoaded :
         Become(p, [win[p] EXCEPT !.form = [version |-> version + 1, keep |-> keep],
                                  !.cell = [version |-> version + 1, keep |-> keep],
                                  !.delivered = FALSE])
  BY DEF EditForm
<1> DEFINE edited == [version |-> version + 1, keep |-> keep]
           w == [win[p] EXCEPT !.form = edited, !.cell = edited, !.delivered = FALSE]
<1>2. win[p] \in Process /\ Good(win[p]) /\ win[p].stage = "open" /\ Alive(p)
  BY DEF IInv, TypeOK, Windows, EditForm, Alive
<1>3. edited \in Settings
  BY KeepAssumption DEF Settings, IInv, TypeOK
<1>4. w \in Process /\ Good(w) /\ w.stage # "unborn"
  BY <1>2, <1>3, NoneAssumption DEF Process, Stages, Good, Cell
<1>5. /\ UNCHANGED <<turn, slot, spawned>> /\ UNCHANGED <<edits, rung, signal>> /\ childOnly
      /\ version' \in Nat
  BY DEF EditForm, childOnly, IInv, TypeOK
<1>6. win' \in [Pids -> Process] /\ Windows' /\ Born' /\ Owned' /\ Looked'
  BY <1>1, <1>2, <1>4, <1>5, FrameKeeps
<1> QED BY <1>5, <1>6 DEF IInv, TypeOK, childOnly

(* A delivery leaves the files and the doorbell well typed, and a record   *)
(* that has taken note of it good.                                         *)
LEMMA DeliverFacts ==
    ASSUME IInv, NEW p \in Pids, NEW w \in Process, Good(w), Deliver(p, w)
    PROVE  /\ edits' \in [Pids -> Cell] /\ rung' \in BOOLEAN
           /\ Delivered(p, w) \in BOOLEAN /\ Sent(p, w) \in Cell
           /\ Delivered(p, w) => Sent(p, w) = w.cell
           /\ w.cell = None => Sent(p, w) = None
<1>1. w.cell \in Cell /\ w.sent \in Cell /\ w.delivered \in BOOLEAN
  BY DEF Process
<1>2. edits' \in [Pids -> Cell] /\ rung' \in BOOLEAN
  BY <1>1 DEF Deliver, Owed, Listening, IInv, TypeOK
<1>3. Delivered(p, w) \in BOOLEAN /\ Sent(p, w) \in Cell
  BY <1>1 DEF Delivered, Sent, Owed, Listening
<1>4. Delivered(p, w) => Sent(p, w) = w.cell
  BY DEF Delivered, Sent, Owed, Listening, Good
<1>5. w.cell = None => Sent(p, w) = None
  BY DEF Sent, Owed, Good
<1> QED BY <1>2, <1>3, <1>4, <1>5

LEMMA DismissFormKeeps == ASSUME IInv, NEW p \in Pids, DismissForm(p) PROVE IInv'
<1> DEFINE w == [win[p] EXCEPT !.form = None, !.delivered = FALSE]
           d == [w EXCEPT !.delivered = Delivered(p, w), !.sent = Sent(p, w)]
<1>1. win[p] \in Process /\ Good(win[p]) /\ win[p].stage = "open" /\ Alive(p)
  BY DEF IInv, TypeOK, Windows, DismissForm, Alive
<1>2. w \in Process /\ Good(w) /\ w.stage = "open"
  BY <1>1 DEF Process, Stages, Good, Cell
<1>3. UNCHANGED <<turn, slot, spawned>> /\ UNCHANGED <<version, signal>> /\ childOnly
  BY DEF DismissForm, childOnly
<1>4. CASE w.hooks
  <2>1. Deliver(p, w) /\ Become(p, d)
    BY <1>4 DEF DismissForm
  <2>2. /\ edits' \in [Pids -> Cell] /\ rung' \in BOOLEAN
        /\ Delivered(p, w) \in BOOLEAN /\ Sent(p, w) \in Cell
        /\ Delivered(p, w) => Sent(p, w) = w.cell
        /\ w.cell = None => Sent(p, w) = None
    BY <1>2, <2>1, DeliverFacts
  <2>3. d \in Process /\ Good(d) /\ d.stage # "unborn"
    BY <1>2, <2>2 DEF Process, Stages, Good
  <2>4. win' \in [Pids -> Process] /\ Windows' /\ Born' /\ Owned' /\ Looked'
    BY <1>1, <1>3, <2>1, <2>3, FrameKeeps
  <2> QED BY <1>3, <2>2, <2>4 DEF IInv, TypeOK, childOnly
<1>5. CASE ~w.hooks
  <2>1. Become(p, w) /\ UNCHANGED <<edits, rung>>
    BY <1>5 DEF DismissForm
  <2>2. win' \in [Pids -> Process] /\ Windows' /\ Born' /\ Owned' /\ Looked'
    BY <1>1, <1>2, <1>3, <2>1, FrameKeeps
  <2> QED BY <1>3, <2>1, <2>2, RestKeeps DEF IInv, TypeOK
<1> QED BY <1>4, <1>5

LEMMA UserClosesKeeps == ASSUME IInv, NEW p \in Pids, UserCloses(p) PROVE IInv'
<1> DEFINE w == [win[p] EXCEPT !.closing = TRUE]
<1>1. win[p] \in Process /\ Good(win[p]) /\ win[p].stage = "open" /\ Alive(p)
  BY DEF IInv, TypeOK, Windows, UserCloses, Alive
<1>2. w \in Process /\ Good(w) /\ w.stage # "unborn"
  BY <1>1 DEF Process, Stages, Good
<1>3. Become(p, w) /\ UNCHANGED <<turn, slot, spawned>>
      /\ UNCHANGED <<edits, rung, version, signal>> /\ childOnly
  BY DEF UserCloses, childOnly
<1>4. win' \in [Pids -> Process] /\ Windows' /\ Born' /\ Owned' /\ Looked'
  BY <1>1, <1>2, <1>3, FrameKeeps
<1> QED BY <1>3, <1>4, RestKeeps DEF IInv, TypeOK

LEMMA RaiseKeeps == ASSUME IInv, NEW p \in Pids, Raise(p) PROVE IInv'
<1>1. PICK report \in Reports :
         Become(p, [win[p] EXCEPT !.report = report, !.closing = TRUE])
  BY DEF Raise
<1> DEFINE w == [win[p] EXCEPT !.report = report, !.closing = TRUE]
<1>2. win[p] \in Process /\ Good(win[p]) /\ win[p].stage \in {"open", "hidden"} /\ Alive(p)
  BY DEF IInv, TypeOK, Windows, Raise, Alive
<1>3. w \in Process /\ Good(w) /\ w.stage # "unborn"
  BY <1>2 DEF Process, Stages, Good
<1>4. UNCHANGED <<turn, slot, spawned>>
      /\ UNCHANGED <<edits, rung, version, signal>> /\ childOnly
  BY DEF Raise, childOnly
<1>5. win' \in [Pids -> Process] /\ Windows' /\ Born' /\ Owned' /\ Looked'
  BY <1>1, <1>2, <1>3, <1>4, FrameKeeps
<1> QED BY <1>4, <1>5, RestKeeps DEF IInv, TypeOK

LEMMA HiddenFacts ==
    ASSUME NEW w \in Process, w.cell = w.sent, w.hooks, w.report = "none",
           NEW h, h = [w EXCEPT !.stage = "hidden", !.visible = FALSE,
                                !.waiting = TRUE, !.closing = FALSE]
    PROVE  h \in Process /\ Good(h) /\ h.stage = "hidden"
<1>1. h \in Process
  BY DEF Process, Stages
<1>2. h.cell = w.cell /\ h.sent = w.sent /\ h.hooks /\ h.waiting /\ h.report = "none"
      /\ h.stage = "hidden"
  BY DEF Process
<1> QED BY <1>1, <1>2 DEF Good

(* The frame that closes or hides: on_close answers Hide only when         *)
(* everything was delivered and there is nothing to report.                *)
LEMMA CloseOrHideKeeps == ASSUME IInv, NEW p \in Pids, CloseOrHide(p) PROVE IInv'
<1> DEFINE v == win[p]
           w == [v EXCEPT !.delivered = Delivered(p, v) /\ v.form = None, !.sent = Sent(p, v)]
           h == [w EXCEPT !.stage = "hidden", !.visible = FALSE,
                          !.waiting = TRUE, !.closing = FALSE]
<1>1. v \in Process /\ Good(v) /\ v.stage = "open" /\ v.hooks /\ v.closing /\ Alive(p)
  BY DEF IInv, TypeOK, Windows, CloseOrHide, Alive
<1>2. Deliver(p, v) /\ UNCHANGED <<turn, slot, spawned>>
      /\ UNCHANGED <<settings, inHand, results, served, signal, version>>
  BY DEF CloseOrHide
<1>3. /\ edits' \in [Pids -> Cell] /\ rung' \in BOOLEAN
      /\ Delivered(p, v) \in BOOLEAN /\ Sent(p, v) \in Cell
      /\ Delivered(p, v) => Sent(p, v) = v.cell
      /\ v.cell = None => Sent(p, v) = None
  BY <1>1, <1>2, DeliverFacts
<1>4. w \in Process /\ Good(w) /\ w.stage = "open"
  BY <1>1, <1>3 DEF Process, Stages, Good
<1>5. CASE Hides(p, v)
  <2>1. Become(p, h)
    BY <1>5 DEF CloseOrHide
  <2>2. v.report = "none" /\ Sent(p, v) = v.cell
    <3>1. v.report = "none" /\ (v.cell # None => Delivered(p, v))
      BY <1>5 DEF Hides
    <3>2. CASE v.cell # None
      <4>1. Delivered(p, v)
        BY <3>1, <3>2
      <4> QED BY <1>3, <3>1, <4>1
    <3>3. CASE v.cell = None
      <4>1. Sent(p, v) = None
        BY <1>3, <3>3
      <4> QED BY <3>1, <3>3, <4>1
    <3> QED BY <3>2, <3>3
  <2>3. w.cell = w.sent /\ w.hooks /\ w.report = "none"
    BY <1>1, <2>2 DEF Process
  <2>4. h \in Process /\ Good(h) /\ h.stage = "hidden"
    <3> HIDE DEF w
    <3> QED BY <1>4, <2>3, HiddenFacts
  <2>5. win' \in [Pids -> Process] /\ Windows' /\ Born' /\ Owned' /\ Looked'
    <3> HIDE DEF h
    <3> QED BY <1>1, <1>2, <2>1, <2>4, FrameKeeps
  <2> QED BY <1>2, <1>3, <2>1, <2>5 DEF IInv, TypeOK
<1>6. CASE ~Hides(p, v)
  <2>1. Become(p, w)
    BY <1>6 DEF CloseOrHide
  <2>2. win' \in [Pids -> Process] /\ Windows' /\ Born' /\ Owned' /\ Looked'
    BY <1>1, <1>2, <1>4, <2>1, FrameKeeps
  <2> QED BY <1>2, <1>3, <2>1, <2>2 DEF IInv, TypeOK
<1> QED BY <1>5, <1>6

LEMMA LeavesKeeps == ASSUME IInv, NEW p \in Pids, Leaves(p) PROVE IInv'
<1> DEFINE w == [win[p] EXCEPT !.stage = "leaving"]
<1>1. win[p] \in Process /\ Good(win[p]) /\ win[p].stage \in {"open", "hidden"} /\ Alive(p)
  BY DEF IInv, TypeOK, Windows, Leaves, Alive
<1>2. w \in Process /\ Good(w) /\ w.stage # "unborn"
  BY <1>1 DEF Process, Stages, Good
<1>3. /\ Become(p, w) /\ UNCHANGED <<turn, slot, spawned>>
      /\ UNCHANGED <<edits, rung, version>> /\ childOnly
      /\ signal' \subseteq Pids
  BY DEF Leaves, childOnly, IInv, TypeOK
<1>4. win' \in [Pids -> Process] /\ Windows' /\ Born' /\ Owned' /\ Looked'
  BY <1>1, <1>2, <1>3, FrameKeeps
<1> QED BY <1>3, <1>4, RestKeeps DEF IInv

LEMMA WaitEndsKeeps == ASSUME IInv, NEW p \in Pids, WaitEnds(p) PROVE IInv'
<1> DEFINE w == [win[p] EXCEPT !.woken = TRUE]
<1>1. win[p] \in Process /\ Good(win[p]) /\ win[p].stage = "hidden" /\ Alive(p)
  BY DEF IInv, TypeOK, Windows, WaitEnds, Alive
<1>2. w \in Process /\ Good(w) /\ w.stage # "unborn"
  BY <1>1 DEF Process, Stages, Good
<1>3. /\ Become(p, w) /\ UNCHANGED <<turn, slot, spawned>>
      /\ UNCHANGED <<edits, rung, version>> /\ childOnly
      /\ signal' \subseteq Pids
  BY DEF WaitEnds, childOnly, IInv, TypeOK
<1>4. win' \in [Pids -> Process] /\ Windows' /\ Born' /\ Owned' /\ Looked'
  BY <1>1, <1>2, <1>3, FrameKeeps
<1> QED BY <1>3, <1>4, RestKeeps DEF IInv

LEMMA WaitFailsKeeps == ASSUME IInv, NEW p \in Pids, WaitFails(p) PROVE IInv'
<1> DEFINE w == [win[p] EXCEPT !.waiting = FALSE, !.closing = TRUE]
<1>1. win[p] \in Process /\ Good(win[p]) /\ win[p].stage = "hidden" /\ Alive(p)
  BY DEF IInv, TypeOK, Windows, WaitFails, Alive
<1>2. w \in Process /\ Good(w) /\ w.stage # "unborn"
  BY <1>1 DEF Process, Stages, Good
<1>3. Become(p, w) /\ UNCHANGED <<turn, slot, spawned>>
      /\ UNCHANGED <<edits, rung, version, signal>> /\ childOnly
  BY DEF WaitFails, childOnly
<1>4. win' \in [Pids -> Process] /\ Windows' /\ Born' /\ Owned' /\ Looked'
  BY <1>1, <1>2, <1>3, FrameKeeps
<1> QED BY <1>3, <1>4, RestKeeps DEF IInv, TypeOK

LEMMA ShowsKeeps == ASSUME IInv, NEW p \in Pids, Shows(p) PROVE IInv'
<1> DEFINE w == [win[p] EXCEPT !.stage = "open", !.visible = TRUE,
                               !.waiting = FALSE, !.woken = FALSE]
<1>1. win[p] \in Process /\ Good(win[p]) /\ win[p].stage = "hidden" /\ Alive(p)
  BY DEF IInv, TypeOK, Windows, Shows, Alive
<1>2. w \in Process /\ Good(w) /\ w.stage # "unborn"
  BY <1>1 DEF Process, Stages, Good
<1>3. Become(p, w) /\ UNCHANGED <<turn, slot, spawned>>
      /\ UNCHANGED <<edits, rung, version, signal>> /\ childOnly
  BY DEF Shows, childOnly
<1>4. win' \in [Pids -> Process] /\ Windows' /\ Born' /\ Owned' /\ Looked'
  BY <1>1, <1>2, <1>3, FrameKeeps
<1> QED BY <1>3, <1>4, RestKeeps DEF IInv, TypeOK

LEMMA WritesResultKeeps == ASSUME IInv, NEW p \in Pids, WritesResult(p) PROVE IInv'
<1> DEFINE w == [win[p] EXCEPT !.stage = "written"]
<1>1. win[p] \in Process /\ Good(win[p]) /\ win[p].stage = "leaving" /\ Alive(p)
  BY DEF IInv, TypeOK, Windows, WritesResult, Alive
<1>2. w \in Process /\ Good(w) /\ w.stage # "unborn"
  BY <1>1 DEF Process, Stages, Good
<1>3. /\ Become(p, w) /\ UNCHANGED <<turn, slot, spawned>>
      /\ UNCHANGED <<settings, inHand, served, signal, edits, rung, version>>
  BY DEF WritesResult
<1>4. [report |-> win[p].report, edited |-> win[p].cell] \in Result
  BY <1>1 DEF Result, Process
<1>5. results' \in [Pids -> Result \cup {NoResult}]
  BY <1>4 DEF WritesResult, IInv, TypeOK
<1>6. win' \in [Pids -> Process] /\ Windows' /\ Born' /\ Owned' /\ Looked'
  BY <1>1, <1>2, <1>3, FrameKeeps
<1> QED BY <1>3, <1>5, <1>6 DEF IInv, TypeOK

LEMMA ExitsKeeps == ASSUME IInv, NEW p \in Pids, Exits(p) PROVE IInv'
<1>1. Alive(p) /\ Become(p, Ended(p))
  BY DEF Exits, Alive
<1>2. /\ UNCHANGED <<turn, slot, spawned>> /\ UNCHANGED <<edits, rung, version>> /\ childOnly
      /\ signal' \subseteq Pids
  BY DEF Exits, childOnly, IInv, TypeOK
<1>3. win' \in [Pids -> Process] /\ Windows' /\ Born' /\ Owned' /\ Looked'
  BY <1>1, <1>2, EndedFacts, FrameKeeps
<1> QED BY <1>2, <1>3, RestKeeps DEF IInv

LEMMA ChildKeeps == ASSUME IInv, NEW p \in Pids, Child(p) PROVE IInv'
BY StartsKeeps, FailsToStartKeeps, OpenFormKeeps, EditFormKeeps, DismissFormKeeps,
   UserClosesKeeps, RaiseKeeps, CloseOrHideKeeps, LeavesKeeps, WaitEndsKeeps,
   WaitFailsKeeps, ShowsKeeps, WritesResultKeeps, ExitsKeeps DEF Child

-----------------------------------------------------------------------------
(* The daemon's steps. *)

(* A step that leaves the table of processes and the slot alone keeps what *)
(* IInv says of them; what the loop has looked at is its own to show.      *)
LEMMA TableKeeps ==
    ASSUME IInv, UNCHANGED <<win, slot, spawned>>
    PROVE  Windows' /\ Born' /\ Owned'
BY DEF IInv, Windows, Born, Owned, Alive

LEMMA ApplyFacts ==
    ASSUME IInv, NEW edited \in Cell, apply(edited) PROVE settings' \in Settings
BY DEF apply, Cell, IInv, TypeOK

LEMMA ForgetFacts ==
    ASSUME IInv, NEW p \in Pids, forget(p)
    PROVE  edits' \in [Pids -> Cell] /\ results' \in [Pids -> Result \cup {NoResult}]
BY DEF forget, IInv, TypeOK, Cell

LEMMA SettingsStepsKeep ==
    ASSUME IInv, NoEdit \/ ReadEdit \/ ForgetEdit PROVE IInv'
<1>1. slot = NoPid \/ slot \in Pids
  BY DEF IInv, TypeOK
<1>2. CASE NoEdit
  BY <1>2, TableKeeps DEF NoEdit, IInv, TypeOK, Turns, Looked
<1>3. CASE ReadEdit
  <2>1. inHand' \in Cell
    BY <1>1, <1>3 DEF ReadEdit, IInv, TypeOK
  <2> QED BY <1>3, <2>1, TableKeeps DEF ReadEdit, IInv, TypeOK, Turns, Looked
<1>4. CASE ForgetEdit
  <2>1. settings' \in Settings
    BY <1>4, ApplyFacts DEF ForgetEdit, IInv, TypeOK
  <2>2. edits' \in [Pids -> Cell]
    BY <1>4 DEF ForgetEdit, IInv, TypeOK, Cell
  <2> QED BY <1>4, <2>1, <2>2, TableKeeps DEF ForgetEdit, IInv, TypeOK, Turns, Looked, Cell
<1> QED BY <1>2, <1>3, <1>4

LEMMA LookingStepsKeep ==
    ASSUME IInv, StillRunning \/ NoEvent \/ Wanted \/ Decide \/ Focus \/ Launch PROVE IInv'
<1>1. UNCHANGED <<win, slot, spawned>>
  BY DEF StillRunning, NoEvent, Wanted, Decide, Focus, Launch
<1>2. TypeOK'
  BY DEF StillRunning, NoEvent, Wanted, Decide, Focus, Launch, IInv, TypeOK, Turns
<1>3. Looked'
  BY DEF StillRunning, NoEvent, Wanted, Decide, Focus, Launch, Looked
<1> QED BY <1>1, <1>2, <1>3, TableKeeps DEF IInv

LEMMA AskToShowKeeps == ASSUME IInv, AskToShow PROVE IInv'
<1>1. slot \in Pids
  BY DEF AskToShow, IInv, Looked, TypeOK
<1> QED BY <1>1, TableKeeps DEF AskToShow, IInv, TypeOK, Turns, Looked

LEMMA PreferencesKeeps == ASSUME IInv, Preferences PROVE IInv'
<1>1. settings' \in Settings /\ version' \in Nat
  BY KeepAssumption DEF Preferences, IInv, TypeOK, Settings
<1> QED BY <1>1, TableKeeps DEF Preferences, IInv, TypeOK, Turns, Looked

(* What a finished process is taken to have reported is well typed. *)
LEMMA OutcomeFacts ==
    ASSUME IInv, NEW p \in Pids PROVE Outcome(p).edited \in Cell
<1>1. results[p] \in Result \cup {NoResult}
  BY DEF IInv, TypeOK
<1>2. CASE results[p] = NoResult
  BY <1>2 DEF Outcome, Cell
<1>3. CASE results[p] # NoResult
  <2>1. results[p] \in Result
    BY <1>1, <1>3
  <2>2. results[p].edited \in Cell
    BY <2>1 DEF Result
  <2>3. [results[p] EXCEPT !.report = "lock"].edited = results[p].edited
    BY <2>1 DEF Result
  <2> QED BY <1>3, <2>2, <2>3 DEF Outcome
<1> QED BY <1>2, <1>3

(* A slot that is emptied when its process has ended owns nobody. *)
LEMMA ReapKeeps == ASSUME IInv, Reap PROVE IInv'
<1>1. slot \in Pids /\ slot # NoPid /\ ~Alive(slot) /\ slot' = NoPid
  BY DEF Reap, IInv, TypeOK
<1>2. Outcome(slot).edited \in Cell
  BY <1>1, OutcomeFacts
<1>3. settings' \in Settings
  BY <1>2, ApplyFacts DEF Reap
<1>4. edits' \in [Pids -> Cell] /\ results' \in [Pids -> Result \cup {NoResult}]
  BY <1>1, ForgetFacts DEF Reap
<1>5. served' \subseteq Pids
  BY <1>1 DEF Reap, IInv, TypeOK
<1>6. turn' \in {"decide", "events"}
  BY DEF Reap
<1>7. TypeOK'
  BY <1>1, <1>3, <1>4, <1>5, <1>6 DEF Reap, IInv, TypeOK, Turns
<1>8. Windows' /\ Born'
  BY DEF Reap, IInv, Windows, Born
<1>9. Owned'
  BY <1>1 DEF Reap, IInv, Owned, Alive
<1> QED BY <1>6, <1>7, <1>8, <1>9 DEF IInv, Looked

(* The window in the slot is killed, or had ended: the table stays good,   *)
(* and without a crash nobody runs any more.                               *)
LEMMA KilledTable ==
    ASSUME IInv, slot \in Pids, NEW w, w = [win EXCEPT ![slot] = Killed(slot)]
    PROVE  /\ w \in [Pids -> Process]
           /\ \A p \in Pids : Good(w[p])
           /\ \A p \in Pids : w[p].stage = "unborn" <=> p > spawned
           /\ "crash" \notin Events =>
                 \A p \in Pids : w[p].stage \in {"unborn", "gone", "killed"}
<1>1. /\ Killed(slot) \in Process /\ Good(Killed(slot))
      /\ Killed(slot).stage \in {"unborn", "gone", "killed"}
      /\ Killed(slot).stage = "unborn" <=> win[slot].stage = "unborn"
  BY EndedFacts
<1>2. /\ w \in [Pids -> Process] /\ w[slot] = Killed(slot)
      /\ \A p \in Pids : p # slot => w[p] = win[p]
  BY <1>1 DEF IInv, TypeOK
<1>3. \A p \in Pids : Good(w[p])
  BY <1>1, <1>2 DEF IInv, Windows
<1>4. \A p \in Pids : w[p].stage = "unborn" <=> p > spawned
  BY <1>1, <1>2 DEF IInv, Born
<1>5. "crash" \notin Events => \A p \in Pids : w[p].stage \in {"unborn", "gone", "killed"}
  BY <1>1, <1>2 DEF IInv, Owned, Alive
<1> QED BY <1>2, <1>3, <1>4, <1>5

(* The daemon starts a process over a table in which nobody else runs. *)
LEMMA SpawnKeeps ==
    ASSUME IInv, NEW w \in [Pids -> Process], SpawnInto(w),
           \A p \in Pids : Good(w[p]),
           \A p \in Pids : w[p].stage = "unborn" <=> p > spawned,
           "crash" \notin Events =>
               \A p \in Pids : w[p].stage \in {"unborn", "gone", "killed"}
    PROVE  IInv'
<1> DEFINE new == [Unborn EXCEPT !.stage = "starting"]
<1>1. new \in Process /\ Good(new) /\ new.stage = "starting"
  BY DEF Unborn, Process, Stages, Cell, Good
<1>2. /\ turn' = "settings" /\ rung' = FALSE /\ signal' \subseteq Pids
      /\ UNCHANGED <<settings, inHand, edits, results, version, served>>
  BY DEF SpawnInto, IInv, TypeOK
<1>3. Looked'
  BY <1>2 DEF Looked
<1>4. CASE /\ spawned < MaxSpawns /\ spawned' = spawned + 1 /\ slot' = spawned + 1
           /\ win' = [w EXCEPT ![spawned + 1] = new]
  <2> HIDE DEF new
  <2>1. spawned + 1 \in Pids /\ spawned' \in 0 .. MaxSpawns /\ spawned \in Nat
    BY <1>4, BoundsAssumption DEF IInv, TypeOK, Pids
  <2>2. /\ win' \in [Pids -> Process] /\ win'[spawned + 1] = new
        /\ \A p \in Pids : p # spawned + 1 => win'[p] = w[p]
    BY <1>1, <1>4, <2>1
  <2>3. TypeOK'
    BY <1>2, <1>4, <2>1, <2>2 DEF IInv, TypeOK, Turns
  <2>4. Windows'
    BY <1>1, <2>2 DEF Windows
  <2>5. Born'
    <3>1. SUFFICES ASSUME NEW p \in Pids
                   PROVE  win'[p].stage = "unborn" <=> p > spawned + 1
      BY <1>4 DEF Born
    <3>2. p \in Nat
      BY PidsFacts
    <3>3. CASE p = spawned + 1
      BY <1>1, <2>1, <2>2, <3>3
    <3>4. CASE p # spawned + 1
      <4>1. win'[p] = w[p] /\ (w[p].stage = "unborn" <=> p > spawned)
        BY <2>2, <3>4
      <4>2. p > spawned <=> p > spawned + 1
        BY <2>1, <3>2, <3>4
      <4> QED BY <4>1, <4>2
    <3> QED BY <3>3, <3>4
  <2>6. Owned'
    BY <1>4, <2>2 DEF Owned, Alive
  <2> QED BY <1>3, <2>3, <2>4, <2>5, <2>6 DEF IInv
<1>5. CASE spawned' = spawned /\ slot' = NoPid /\ win' = w
  <2>1. TypeOK'
    BY <1>2, <1>5 DEF IInv, TypeOK, Turns
  <2>2. Windows' /\ Born' /\ Owned'
    BY <1>5 DEF Windows, Born, Owned, Alive
  <2> QED BY <1>3, <2>1, <2>2 DEF IInv
<1> QED BY <1>4, <1>5 DEF SpawnInto

LEMMA SpawnStepKeeps == ASSUME IInv, Spawn PROVE IInv'
<1>1. SpawnInto(win) /\ slot = NoPid
  BY DEF Spawn, IInv, Looked
<1>2. /\ win \in [Pids -> Process]
      /\ \A p \in Pids : Good(win[p])
      /\ \A p \in Pids : win[p].stage = "unborn" <=> p > spawned
  BY DEF IInv, TypeOK, Windows, Born
<1>3. "crash" \notin Events => \A p \in Pids : win[p].stage \in {"unborn", "gone", "killed"}
  BY <1>1, PidsFacts DEF IInv, Owned, Alive
<1> QED BY <1>1, <1>2, <1>3, SpawnKeeps

LEMMA ReplaceKeeps == ASSUME IInv, Replace PROVE IInv'
<1> DEFINE w == [win EXCEPT ![slot] = Killed(slot)]
<1>1. slot \in Pids /\ SpawnInto(w)
  BY DEF Replace, IInv, Looked, TypeOK
<1> HIDE DEF w
<1>2. /\ w \in [Pids -> Process]
      /\ \A p \in Pids : Good(w[p])
      /\ \A p \in Pids : w[p].stage = "unborn" <=> p > spawned
      /\ "crash" \notin Events =>
            \A p \in Pids : w[p].stage \in {"unborn", "gone", "killed"}
  BY <1>1, KilledTable DEF w
<1> QED BY <1>1, <1>2, SpawnKeeps

(* The window is killed and the slot emptied. *)
LEMMA KilledKeeps ==
    ASSUME IInv, slot \in Pids, Become(slot, Killed(slot)), slot' = NoPid, spawned' = spawned
    PROVE  win' \in [Pids -> Process] /\ Windows' /\ Born' /\ Owned'
BY KilledTable DEF Become, Windows, Born, Owned, Alive

LEMMA WalkedAwayKeeps == ASSUME IInv, WalkedAway PROVE IInv'
<1>1. slot \in Pids /\ Become(slot, Killed(slot)) /\ slot' = NoPid /\ spawned' = spawned
  BY DEF WalkedAway, IInv, TypeOK
<1>2. win' \in [Pids -> Process] /\ Windows' /\ Born' /\ Owned'
  BY <1>1, KilledKeeps
<1>3. edits' \in [Pids -> Cell] /\ results' \in [Pids -> Result \cup {NoResult}]
  BY <1>1, ForgetFacts DEF WalkedAway
<1>4. TypeOK'
  BY <1>1, <1>2, <1>3 DEF WalkedAway, IInv, TypeOK
<1>5. Looked'
  BY DEF WalkedAway, Looked
<1> QED BY <1>2, <1>4, <1>5 DEF IInv

LEMMA QuitKeeps == ASSUME IInv, Quit PROVE IInv'
<1>1. turn' = "down" /\ slot' = NoPid /\ rung' = FALSE
      /\ UNCHANGED <<settings, inHand, spawned, version, served>>
  BY DEF Quit
<1>2. CASE slot = NoPid
  <2>1. UNCHANGED <<win, signal, edits, results>> /\ UNCHANGED <<win, slot, spawned>>
    BY <1>1, <1>2 DEF Quit
  <2> QED BY <1>1, <2>1, TableKeeps DEF IInv, TypeOK, Turns, Looked
<1>3. CASE slot # NoPid
  <2>1. slot \in Pids /\ Become(slot, Killed(slot)) /\ forget(slot)
        /\ signal' = signal \ {slot}
    BY <1>3 DEF Quit, IInv, TypeOK
  <2>2. win' \in [Pids -> Process] /\ Windows' /\ Born' /\ Owned'
    BY <1>1, <2>1, KilledKeeps
  <2>3. edits' \in [Pids -> Cell] /\ results' \in [Pids -> Result \cup {NoResult}]
    BY <2>1, ForgetFacts
  <2>4. TypeOK'
    BY <1>1, <2>1, <2>2, <2>3 DEF IInv, TypeOK, Turns
  <2> QED BY <1>1, <2>2, <2>4 DEF IInv, Looked
<1> QED BY <1>2, <1>3

LEMMA CrashKeeps == ASSUME IInv, Crash PROVE IInv'
<1>1. TypeOK'
  BY DEF Crash, IInv, TypeOK, Turns, Cell
<1>2. Windows' /\ Born' /\ Owned' /\ Looked'
  BY DEF Crash, IInv, Windows, Born, Owned, Looked
<1> QED BY <1>1, <1>2 DEF IInv

LEMMA DaemonKeeps == ASSUME IInv, Daemon PROVE IInv'
BY SettingsStepsKeep, LookingStepsKeep, AskToShowKeeps, PreferencesKeeps, ReapKeeps,
   SpawnStepKeeps, ReplaceKeeps, WalkedAwayKeeps, QuitKeeps, CrashKeeps DEF Daemon, Loop

-----------------------------------------------------------------------------
LEMMA InitHolds == Init => IInv
<1> SUFFICES ASSUME Init PROVE IInv
  OBVIOUS
<1>1. settings \in Settings
  BY KeepAssumption DEF Init, Settings
<1>2. win = [p \in Pids |-> Unborn] /\ spawned = 0 /\ slot = NoPid
  BY DEF Init
<1>3. TypeOK
  <2>1. /\ win \in [Pids -> Process]
        /\ edits \in [Pids -> Cell] /\ results \in [Pids -> Result \cup {NoResult}]
    BY <1>2, UnbornFacts DEF Init, Cell
  <2>2. spawned \in 0 .. MaxSpawns /\ version \in Nat
    BY BoundsAssumption DEF Init
  <2>3. turn \in Turns /\ rung \in BOOLEAN /\ inHand \in Cell
    BY DEF Init, Turns, Cell
  <2>4. signal \subseteq Pids /\ served \subseteq Pids
    BY DEF Init
  <2> QED BY <1>1, <1>2, <2>1, <2>2, <2>3, <2>4 DEF TypeOK
<1>4. Windows
  BY <1>2, UnbornFacts DEF Windows
<1>5. Born
  <2>1. \A p \in Pids : win[p].stage = "unborn"
    BY <1>2, UnbornFacts
  <2>2. \A p \in Pids : p > 0
    BY BoundsAssumption DEF Pids
  <2> QED BY <1>2, <2>1, <2>2 DEF Born
<1>6. Owned
  BY <1>2, UnbornFacts DEF Owned, Alive
<1> QED BY <1>3, <1>4, <1>5, <1>6 DEF IInv, Looked, Init

LEMMA StepKeeps == IInv /\ [Next]_vars => IInv'
<1> SUFFICES ASSUME IInv, [Next]_vars PROVE IInv'
  OBVIOUS
<1>1. CASE UNCHANGED vars
  BY <1>1 DEF vars, IInv, TypeOK, Windows, Born, Owned, Looked, Alive
<1>2. CASE Next
  BY <1>2, DaemonKeeps, ChildKeeps DEF Next
<1> QED BY <1>1, <1>2

(* The inductive invariant holds in every reachable state: it is the type  *)
(* invariant, with what a hidden window, the slot and the numbering of     *)
(* processes always satisfy.                                               *)
THEOREM Inductive == Spec => []IInv
<1>1. Init => IInv
  BY InitHolds
<1>2. IInv /\ [Next]_vars => IInv'
  BY StepKeeps
<1> QED BY <1>1, <1>2, PTL DEF Spec

(* Every reachable state is one the types of UiWindows, HideHooks and      *)
(* UiVaultResult allow.                                                    *)
THEOREM TypeCorrect == Spec => []TypeOK
<1>1. IInv => TypeOK
  BY DEF IInv
<1> QED BY <1>1, Inductive, PTL

(* For any number of processes and edits, while the daemon does not end    *)
(* without saying goodbye no two window processes run at once: every       *)
(* running one is the one in the slot of ask_for_the_vault_window.         *)
THEOREM OneWindowAlways == Spec => []OneWindow
<1>1. IInv => OneWindow
  BY DEF IInv, Owned, OneWindow
<1> QED BY <1>1, Inductive, PTL

(* A window hidden by close_or_hide has delivered its edit as it stands    *)
(* and, unless it is on its way out, has nothing to report.                *)
THEOREM HiddenOwesNothingAlways == Spec => []HiddenOwesNothing
<1>1. IInv => HiddenOwesNothing
  BY DEF IInv, Windows, Good, HiddenOwesNothing
<1> QED BY <1>1, Inductive, PTL

(* A hidden window that is not closing holds the event the daemon sets to  *)
(* show it and waits on it, whatever the daemon and the user did.          *)
THEOREM HiddenCanBeShownAlways == Spec => []HiddenCanBeShown
<1>1. IInv => HiddenCanBeShown
  <2> SUFFICES ASSUME IInv, NEW p \in Pids, win[p].stage = "hidden", ~win[p].closing
               PROVE  ShowEvent(p) /\ win[p].waiting
    BY DEF HiddenCanBeShown
  <2>1. win[p].hooks /\ win[p].waiting
    BY DEF IInv, Windows, Good
  <2> QED BY <2>1 DEF ShowEvent, Alive
<1> QED BY <1>1, Inductive, PTL
=============================================================================
