----------------------------- MODULE LiveUpdates -----------------------------
(***************************************************************************)
(* How an open vault window on the built-in client follows its server      *)
(* (rest/notifications.rs, vault_window/mod.rs).                           *)
(*                                                                         *)
(* A listener thread holds a connection to the server's notifications hub  *)
(* and puts what it announces in an inbox.  The window's frame looks at    *)
(* the inbox, or asks on a timer while the hub is not live, and starts a   *)
(* load: of the announced items alone, or of the whole vault behind a      *)
(* sync that costs the built-in client nothing.  A load works on the       *)
(* shared cache and sends what it read; the frame paints it unless a newer *)
(* load was started.                                                       *)
(*                                                                         *)
(* The vault is the set of changes made to it, each to an item of its own. *)
(***************************************************************************)
EXTENDS Naturals, Sequences

CONSTANTS
    MaxChanges,  \* bound: changes other clients ever make
    MaxLoads,    \* bound: the loads that can be in flight together
    Wide,        \* the changes announced without an item, "the whole vault"
    Polling,     \* "Update via polling" is on
    Happenings   \* what may go wrong in this instance

ASSUME BoundsAssumption == MaxChanges \in Nat /\ MaxLoads \in Nat

Changes == 1 .. MaxChanges
Slots == 1 .. MaxLoads
Whole == 0                   \* Announcement::Whole, and a VaultAt without its twin
Ack == MaxChanges + 1        \* the answer to the SignalR handshake

VARIABLES
    made,       \* the server: how many changes were made
    registered, \* the hub sends what changes down this connection
    wire,       \* what it has sent and the listener has not read
    listener,   \* where the listener's thread is
    before,     \* connected_before
    live,       \* Shared::live
    inbox,      \* Inbox::announced
    cache,      \* the cache's snapshot
    populated,  \* Snapshot::populated
    loads,      \* the load workers
    syncing,    \* sync_in_progress on behalf of a sync
    items,      \* what the window paints
    excused     \* history: the changes this code may miss, see Excuses

hub == <<registered, wire, listener, before, live>>
vars == <<made, hub, inbox, cache, populated, loads, syncing, items, excused>>

Server == 1 .. made

(* A load.  `newest`: its generation is load_generation; `answers`: its    *)
(* generation is announced_generation; `todo`: the announced changes it    *)
(* has yet to apply; `rows`: what it fetched, or sends; `kept`: what was   *)
(* announced and landed since its fetch began, which its write back        *)
(* replays.                                                                *)
Load == [at : {"free", "applying", "fetching", "fetched", "sent", "failed"},
         newest : BOOLEAN, answers : BOOLEAN,
         todo : SUBSET Changes, rows : SUBSET Changes, kept : SUBSET Changes]
Free == [at |-> "free", newest |-> FALSE, answers |-> FALSE,
         todo |-> {}, rows |-> {}, kept |-> {}]

SyncInProgress == syncing \/ \E s \in Slots : loads[s].answers

(* spawn_load under a new load_generation.  With nothing announced to      *)
(* apply it fetches the whole vault.                                       *)
Begin(todo) ==
    \E s \in Slots :
        /\ loads[s].at = "free" /\ \A t \in 1 .. s - 1 : loads[t].at # "free"
        /\ loads' = [t \in Slots |->
                        IF t # s THEN [loads[t] EXCEPT !.newest = FALSE]
                        ELSE [Free EXCEPT !.at = IF todo = {} THEN "fetching" ELSE "applying",
                                          !.newest = TRUE, !.answers = (todo # {}),
                                          !.todo = todo]]

(* The changes made before a listener was first connected and after the    *)
(* last read, those a failed read was to bring, those of a load that a     *)
(* newer one overtook, and those an older write back takes out of the      *)
(* cache: this code has no second look at them while the hub is live.      *)
Excuses(missed) == excused' = excused \cup missed

(* The window opens: its first load is out, and so is its sync. *)
Init ==
    /\ made = 0
    /\ registered = FALSE /\ wire = <<>> /\ listener = "waiting" /\ before = FALSE
    /\ live = FALSE /\ inbox = {}
    /\ cache = {} /\ populated = FALSE
    /\ loads = [s \in Slots |-> IF s = 1 THEN [Free EXCEPT !.at = "fetching", !.newest = TRUE]
                                ELSE Free]
    /\ syncing = TRUE
    /\ items = {}
    /\ excused = {}

-----------------------------------------------------------------------------
(* The hub and its listener. *)

windowOnly == <<cache, populated, loads, syncing, items>>

(* Another client changes an item, or several at once. *)
Change ==
    /\ made < MaxChanges
    /\ made' = made + 1
    /\ wire' = IF ~registered THEN wire
               ELSE Append(wire, IF made' \in Wide THEN Whole ELSE made')
    /\ UNCHANGED <<registered, listener, before, live, inbox, excused, windowOnly>>

(* one_connection up to its read loop, and the hub taking it on.  What     *)
(* changed before that, and was not read before that, the hub will not     *)
(* say: the listener asks for the whole vault if it was connected before.  *)
Connects ==
    /\ listener = "waiting"
    /\ listener' = "open"
    /\ registered' = TRUE
    /\ wire' = <<Ack>>
    /\ IF before THEN UNCHANGED excused ELSE Excuses(Server \ items)
    /\ UNCHANGED <<made, before, live, inbox, windowOnly>>

(* Ended::Unsupported: the thread is over.                                 *)
Unsupported ==
    /\ "unsupported" \in Happenings
    /\ listener \in {"waiting", "open"}
    /\ listener' = "done" /\ live' = FALSE
    /\ registered' = FALSE /\ wire' = <<>>
    /\ UNCHANGED <<made, before, inbox, excused, windowOnly>>

Reads ==
    /\ listener = "open" /\ wire # <<>>
    /\ wire' = Tail(wire)
    /\ IF Head(wire) = Ack
         THEN /\ live' = TRUE /\ before' = TRUE
              /\ inbox' = IF before THEN inbox \cup {Whole} ELSE inbox
         ELSE /\ inbox' = inbox \cup {Head(wire)}
              /\ UNCHANGED <<live, before>>
    /\ UNCHANGED <<made, registered, listener, excused, windowOnly>>

(* The connection dies and nobody has noticed.                             *)
Severed ==
    /\ "severed" \in Happenings
    /\ registered
    /\ registered' = FALSE /\ wire' = <<>>
    /\ UNCHANGED <<made, listener, before, live, inbox, excused, windowOnly>>

(* Mutant: the flag outlives its connection. *)
DropsStillLive ==
    /\ listener = "open"
    /\ ~registered \/ "dropped" \in Happenings
    /\ listener' = "waiting"
    /\ registered' = FALSE /\ wire' = <<>>
    /\ UNCHANGED <<made, before, live, inbox, excused, windowOnly>>

(* Ended::Dropped, Failed, Superseded: said goodbye to, or heard nothing.  *)
Drops ==
    /\ listener = "open"
    /\ ~registered \/ "dropped" \in Happenings
    /\ listener' = "waiting" /\ live' = FALSE
    /\ registered' = FALSE /\ wire' = <<>>
    /\ UNCHANGED <<made, before, inbox, excused, windowOnly>>

(* "Live updates from the server" turned off, and on: a listener dropped   *)
(* with its inbox, and a new one.                                          *)
Relisten ==
    /\ "switch" \in Happenings
    /\ listener' = IF listener = "off" THEN "waiting" ELSE "off"
    /\ registered' = FALSE /\ wire' = <<>> /\ before' = FALSE /\ live' = FALSE
    /\ inbox' = {}
    /\ UNCHANGED <<made, excused, windowOnly>>

-----------------------------------------------------------------------------
(* The window's frame. *)

hubOnly == <<made, hub>>

Syncs == /\ syncing' = TRUE
         /\ UNCHANGED loads

(* Mutant: items are applied although the whole vault was announced. *)
PushBeatItemsOnly ==
    /\ ~SyncInProgress
    /\ inbox # {}
    /\ inbox' = {}
    /\ Begin(inbox \ {Whole})
    /\ IF \E s \in Slots : loads[s].newest THEN Excuses(Server \ items)
       ELSE UNCHANGED excused
    /\ UNCHANGED <<hubOnly, cache, populated, items, syncing>>

(* heartbeat_sync_due for a push: whatever the inbox holds is answered, an *)
(* item at a time while the hub is live and named nothing wider.           *)
PushBeat ==
    /\ ~SyncInProgress
    /\ inbox # {}
    /\ inbox' = {}
    /\ IF live /\ Whole \notin inbox
         THEN /\ Begin(inbox)
              /\ IF \E s \in Slots : loads[s].newest THEN Excuses(Server \ items)
                 ELSE UNCHANGED excused
              /\ UNCHANGED syncing
         ELSE Syncs /\ UNCHANGED excused
    /\ UNCHANGED <<hubOnly, cache, populated, items>>

(* ... and for the timer, which stands down while the hub is live.         *)
PollBeat ==
    /\ Polling
    /\ ~SyncInProgress
    /\ ~live
    /\ inbox' = {}
    /\ Syncs
    /\ UNCHANGED <<hubOnly, cache, populated, items, excused>>

(* The Sync pill. *)
Click ==
    /\ "click" \in Happenings
    /\ ~SyncInProgress
    /\ Syncs
    /\ UNCHANGED <<hubOnly, inbox, cache, populated, items, excused>>

(* DirectRestTasks::sync is Ok at once, and the sync is over: what reads   *)
(* the server is the load that the frame forces next.                      *)
SyncAnswers ==
    /\ syncing
    /\ syncing' = FALSE
    /\ Begin({})
    /\ UNCHANGED <<hubOnly, inbox, cache, populated, items, excused>>

(* The load's answer, which may no longer be the newest.                   *)
Drains(s) ==
    /\ loads[s].at \in {"sent", "failed"}
    /\ LET l == loads[s] IN
       /\ items' = IF l.at = "sent" /\ l.newest THEN l.rows ELSE items
       /\ IF l.newest THEN UNCHANGED excused ELSE Excuses(Server \ items)
    /\ loads' = [loads EXCEPT ![s] = Free]
    /\ UNCHANGED <<hubOnly, inbox, cache, populated, syncing>>

-----------------------------------------------------------------------------
(* The load worker. *)

workerOnly == <<hubOnly, inbox, syncing, items>>

(* apply_announced, one change: the row is skipped when it is held, read   *)
(* back and noted for the write backs in flight when it is not.            *)
Applies(s, c) ==
    /\ loads[s].at = "applying" /\ c \in loads[s].todo
    /\ populated
    /\ loads' = [t \in Slots |->
                    IF t = s THEN [loads[s] EXCEPT !.todo = @ \ {c}]
                    ELSE IF loads[t].at \in {"fetching", "fetched"} /\ c \notin cache
                    THEN [loads[t] EXCEPT !.kept = @ \cup {c}]
                    ELSE loads[t]]
    /\ cache' = cache \cup {c}
    /\ UNCHANGED <<workerOnly, populated, excused>>

(* The item could not be read back, or there is no snapshot to put it in:  *)
(* the whole vault after all.                                              *)
AppliesNot(s) ==
    /\ loads[s].at = "applying" /\ loads[s].todo # {}
    /\ ~populated \/ "failures" \in Happenings
    /\ loads' = [loads EXCEPT ![s].todo = {}, ![s].at = "fetching"]
    /\ UNCHANGED <<workerOnly, cache, populated, excused>>

(* populate: the fetch, and its write back. *)
Fetches(s) ==
    /\ loads[s].at = "fetching"
    /\ loads' = [loads EXCEPT ![s].at = "fetched", ![s].rows = Server]
    /\ UNCHANGED <<workerOnly, cache, populated, excused>>

FetchFails(s) ==
    /\ "failures" \in Happenings
    /\ loads[s].at = "fetching"
    /\ loads' = [loads EXCEPT ![s].at = "failed"]
    /\ Excuses(Server \ items)
    /\ UNCHANGED <<workerOnly, cache, populated>>

(* Mutant: what was announced during the fetch is not replayed. *)
WritesWhatItRead(s) ==
    /\ loads[s].at = "fetched"
    /\ cache' = loads[s].rows
    /\ populated' = TRUE
    /\ Excuses(cache \ (loads[s].rows \cup loads[s].kept))
    /\ loads' = [loads EXCEPT ![s].at = "applying", ![s].rows = {}, ![s].kept = {}]
    /\ UNCHANGED workerOnly

WritesBack(s) ==
    /\ loads[s].at = "fetched"
    /\ cache' = loads[s].rows \cup loads[s].kept
    /\ populated' = TRUE
    /\ Excuses(cache \ (loads[s].rows \cup loads[s].kept))
    /\ loads' = [loads EXCEPT ![s].at = "applying", ![s].rows = {}, ![s].kept = {}]
    /\ UNCHANGED workerOnly

(* vault_load_step with nothing left to apply or fetch:                    *)
(* snapshot_unless_superseded, and the answer sent.                        *)
Sends(s) ==
    /\ loads[s].at = "applying" /\ loads[s].todo = {}
    /\ loads' = [loads EXCEPT ![s].at = "sent", ![s].rows = cache]
    /\ UNCHANGED <<workerOnly, cache, populated, excused>>

-----------------------------------------------------------------------------
Worker(s) == (\E c \in Changes : Applies(s, c)) \/ Fetches(s) \/ WritesBack(s) \/ Sends(s)
Fails(s) == AppliesNot(s) \/ FetchFails(s)

Next ==
    \/ Change \/ Connects \/ Unsupported \/ Reads \/ Severed \/ Drops \/ Relisten
    \/ PushBeat \/ PollBeat \/ Click \/ SyncAnswers
    \/ \E s \in Slots : Drains(s) \/ Worker(s) \/ Fails(s)

Spec == Init /\ [][Next]_vars

(* The frame runs every half second, workers that can go on do, what was   *)
(* sent is read and a dead connection is noticed; the frame's gaps and the *)
(* listener's back-offs pass.  Nothing is asked of Connects: a server may  *)
(* be out of reach for ever.                                               *)
Frame == PushBeat \/ PollBeat \/ SyncAnswers \/ \E s \in Slots : Drains(s)

Fairness ==
    /\ WF_vars(Frame)
    /\ WF_vars(\E s \in Slots : Worker(s) \/ AppliesNot(s))
    /\ WF_vars(Reads)
    /\ WF_vars(Drops /\ ~registered)

FairSpec == Spec /\ Fairness

-----------------------------------------------------------------------------
TypeOK ==
    /\ made \in 0 .. MaxChanges
    /\ wire \in Seq({Whole, Ack} \cup Changes)
    /\ listener \in {"off", "waiting", "open", "done"}
    /\ registered \in BOOLEAN /\ before \in BOOLEAN /\ live \in BOOLEAN /\ populated \in BOOLEAN
    /\ syncing \in BOOLEAN
    /\ inbox \subseteq Changes \cup {Whole}
    /\ cache \subseteq Server /\ items \subseteq Server
    /\ loads \in [Slots -> Load]
    /\ live => listener = "open"
    /\ \A s, t \in Slots : loads[s].newest /\ loads[t].newest => s = t

(* What is on its way to the window: said and not read, read and not       *)
(* answered, or in the hands of the newest load.                           *)
Says(c, messages) == c \in messages \/ Whole \in messages
Brings(l, c) ==
    CASE l.at = "applying" -> ~populated \/ c \in l.todo \cup cache
      [] l.at = "fetching" -> TRUE
      [] l.at = "fetched"  -> c \in l.rows \cup l.kept
      [] l.at = "sent"     -> c \in l.rows
      [] OTHER             -> FALSE
OnItsWay(c) ==
    \/ Says(c, inbox) \/ Says(c, {wire[i] : i \in DOMAIN wire})
    \/ before /\ Ack \in {wire[i] : i \in DOMAIN wire}
    \/ syncing
    \/ \E s \in Slots : loads[s].newest /\ Brings(loads[s], c)

(* While the hub is live and the timer stands down, every change is on the *)
(* screen, or on its way there (one_connection, heartbeat_sync_due,        *)
(* targeted_refresh, apply_announced, apply_vault_load_result).            *)
NothingSlips ==
    live /\ registered => \A c \in Server : c \in items \cup excused \/ OnItsWay(c)

(* A change another client makes gets to the screen, whatever the          *)
(* connection does meanwhile.                                              *)
ChangesAreShown == \A c \in Changes : c \in Server ~> c \in items \cup excused
=============================================================================
