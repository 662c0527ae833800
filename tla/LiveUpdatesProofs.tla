-------------------------- MODULE LiveUpdatesProofs --------------------------
(***************************************************************************)
(* Proofs about LiveUpdates: while the hub is live every change is on the  *)
(* screen or on its way there -- for any number of changes and of loads in *)
(* flight, and whatever of Happenings befalls them.                        *)
(***************************************************************************)
EXTENDS LiveUpdates, TLAPS

(* What the hub has said and the listener has not read. *)
Elems(messages) == {messages[i] : i \in DOMAIN messages}
Messages == Elems(wire)

(* A load brings a change that it has yet to apply, has in the cache it    *)
(* will send, will fetch, has fetched or is to replay, or sends.           *)
InTheHandsOf(l, c) ==
    \/ l.at = "applying" /\ c \in l.todo \cup cache
    \/ l.at = "fetching"
    \/ l.at = "fetched" /\ c \in l.rows \cup l.kept
    \/ l.at = "sent" /\ c \in l.rows

Coming(c) ==
    \/ c \in inbox \cup Messages \/ Whole \in inbox \cup Messages
    \/ before /\ Ack \in Messages
    \/ syncing
    \/ \E s \in Slots : loads[s].newest /\ InTheHandsOf(loads[s], c)

(* From the moment the hub takes a connection on, live or not yet.         *)
Announced == registered => \A c \in Server : c \in items \cup excused \/ Coming(c)

(* Nobody speaks of a change that was not made.                            *)
NothingUnmade ==
    /\ Messages \subseteq Server \cup {Whole, Ack} /\ inbox \subseteq Server \cup {Whole}
    /\ \A s \in Slots : loads[s].todo \cup loads[s].rows \cup loads[s].kept \subseteq Server

(* What is painted is in the cache, and in what is to be painted next, so  *)
(* that the next answer takes nothing off the screen.                      *)
PaintedIsHeld ==
    /\ items \subseteq cache \cup excused
    /\ \A s \in Slots : loads[s].newest /\ loads[s].at = "sent" =>
          items \subseteq loads[s].rows \cup excused /\ loads[s].rows \subseteq cache \cup excused

IInv == TypeOK /\ Announced /\ NothingUnmade /\ PaintedIsHeld

-----------------------------------------------------------------------------
(* What sequences of messages hold. *)

LEMMA NothingSaid == Elems(<<>>) = {}
BY DEF Elems

LEMMA OneSaid == ASSUME NEW m PROVE Elems(<<m>>) = {m}
BY DEF Elems

LEMMA SaidLast ==
  ASSUME NEW S, NEW w \in Seq(S), NEW m \in S
  PROVE  Append(w, m) \in Seq(S) /\ Elems(Append(w, m)) = Elems(w) \cup {m}
<1>1. /\ Append(w, m) \in Seq(S) /\ Len(w) \in Nat
      /\ DOMAIN w = 1 .. Len(w) /\ DOMAIN Append(w, m) = 1 .. Len(w) + 1
      /\ \A i \in 1 .. Len(w) : Append(w, m)[i] = w[i]
      /\ Append(w, m)[Len(w) + 1] = m
  OBVIOUS
<1> DEFINE longer == Append(w, m)
<1> HIDE DEF longer
<1>2. ASSUME NEW i \in DOMAIN longer
      PROVE  longer[i] \in Elems(w) \cup {m}
  <2>1. i \in DOMAIN w \/ i = Len(w) + 1
    BY <1>1 DEF longer
  <2>2. QED
    BY <1>1, <2>1 DEF longer, Elems
<1>3. ASSUME NEW i \in DOMAIN w
      PROVE  w[i] \in Elems(longer)
  <2>1. i \in DOMAIN longer /\ longer[i] = w[i]
    BY <1>1, <1>3 DEF longer
  <2>2. QED
    BY <2>1 DEF Elems
<1>4. m \in Elems(longer)
  <2>1. Len(w) + 1 \in DOMAIN longer /\ longer[Len(w) + 1] = m
    BY <1>1 DEF longer
  <2>2. QED
    BY <2>1 DEF Elems
<1>5. Elems(longer) = Elems(w) \cup {m}
  BY <1>2, <1>3, <1>4 DEF Elems
<1>6. QED
  BY <1>1, <1>5 DEF longer

LEMMA HeardFirst ==
  ASSUME NEW S, NEW w \in Seq(S), w # <<>>
  PROVE  Tail(w) \in Seq(S) /\ Head(w) \in S /\ Elems(w) = {Head(w)} \cup Elems(Tail(w))
<1>1. /\ Tail(w) \in Seq(S) /\ Head(w) \in S /\ Head(w) = w[1] /\ Len(w) \in Nat /\ Len(w) >= 1
      /\ DOMAIN w = 1 .. Len(w) /\ DOMAIN Tail(w) = 1 .. Len(w) - 1
      /\ \A i \in 1 .. Len(w) - 1 : Tail(w)[i] = w[i + 1]
  OBVIOUS
<1> DEFINE t == Tail(w)
<1> HIDE DEF t
<1>2. ASSUME NEW i \in DOMAIN w
      PROVE  w[i] \in {Head(w)} \cup Elems(t)
  <2>1. CASE i = 1
    BY <1>1, <2>1
  <2>2. CASE i # 1
    <3>1. i - 1 \in DOMAIN t /\ t[i - 1] = w[i]
      BY <1>1, <1>2, <2>2 DEF t
    <3>2. QED
      BY <3>1 DEF Elems
  <2>3. QED
    BY <2>1, <2>2
<1>3. ASSUME NEW i \in DOMAIN t
      PROVE  t[i] \in Elems(w)
  <2>1. i + 1 \in DOMAIN w /\ w[i + 1] = t[i]
    BY <1>1, <1>3 DEF t
  <2>2. QED
    BY <2>1 DEF Elems
<1>4. Head(w) \in Elems(w)
  BY <1>1 DEF Elems
<1>5. Elems(w) = {Head(w)} \cup Elems(t)
  BY <1>2, <1>3, <1>4 DEF Elems
<1>6. QED
  BY <1>1, <1>5 DEF t

(* What of the loads a new one leaves, and what it is itself. *)
LEMMA Begun ==
  ASSUME loads \in [Slots -> Load], NEW todo, todo \subseteq Changes, Begin(todo)
  PROVE  /\ loads' \in [Slots -> Load]
         /\ \E s \in Slots :
               /\ loads'[s].newest /\ loads'[s].todo = todo
               /\ loads'[s].rows = {} /\ loads'[s].kept = {}
               /\ loads'[s].at = IF todo = {} THEN "fetching" ELSE "applying"
               /\ \A t \in Slots \ {s} :
                     /\ ~loads'[t].newest /\ loads'[t].todo = loads[t].todo
                     /\ loads'[t].rows = loads[t].rows /\ loads'[t].kept = loads[t].kept
<1>1. PICK s \in Slots :
         loads' = [t \in Slots |->
                      IF t # s THEN [loads[t] EXCEPT !.newest = FALSE]
                      ELSE [Free EXCEPT !.at = IF todo = {} THEN "fetching" ELSE "applying",
                                        !.newest = TRUE, !.answers = (todo # {}),
                                        !.todo = todo]]
  BY DEF Begin
<1> DEFINE new == [Free EXCEPT !.at = IF todo = {} THEN "fetching" ELSE "applying",
                               !.newest = TRUE, !.answers = (todo # {}), !.todo = todo]
<1>2. /\ new \in Load /\ new.newest /\ new.todo = todo /\ new.rows = {} /\ new.kept = {}
      /\ new.at = IF todo = {} THEN "fetching" ELSE "applying"
  BY DEF Free, Load
<1>3. loads'[s] = new
  BY <1>1
<1>4. \A t \in Slots \ {s} : loads'[t] = [loads[t] EXCEPT !.newest = FALSE]
  BY <1>1
<1>5. loads' = [t \in Slots |-> IF t # s THEN [loads[t] EXCEPT !.newest = FALSE] ELSE new]
  BY <1>1
<1> HIDE DEF new
<1>6. \A t \in Slots : [loads[t] EXCEPT !.newest = FALSE] \in Load
  BY DEF Load
<1>7. loads' \in [Slots -> Load]
  BY <1>2, <1>5, <1>6
<1>8. ASSUME NEW t \in Slots \ {s}
      PROVE  /\ ~loads'[t].newest /\ loads'[t].todo = loads[t].todo
             /\ loads'[t].rows = loads[t].rows /\ loads'[t].kept = loads[t].kept
  <2>1. loads'[t] = [loads[t] EXCEPT !.newest = FALSE] /\ loads[t] \in Load
    BY <1>4
  <2>2. QED
    BY <2>1 DEF Load
<1>9. QED
  BY <1>2, <1>3, <1>7, <1>8
-----------------------------------------------------------------------------
LEMMA InitHolds == Init => IInv
<1> SUFFICES ASSUME Init PROVE IInv
  OBVIOUS
<1>1. wire = <<>> /\ Messages = {}
  BY NothingSaid DEF Init, Messages
<1>2. wire \in Seq({Whole, Ack} \cup Changes)
  BY <1>1
<1>3. loads \in [Slots -> Load] /\ \A s \in Slots :
         /\ loads[s].newest => s = 1
         /\ loads[s].at # "sent" /\ loads[s].todo = {} /\ loads[s].rows = {} /\ loads[s].kept = {}
  BY DEF Init, Free, Load
<1>4. TypeOK
  <2>1. made \in 0 .. MaxChanges /\ cache \subseteq Server /\ items \subseteq Server
    BY BoundsAssumption DEF Init
  <2>2. \A s, t \in Slots : loads[s].newest /\ loads[t].newest => s = t
    BY <1>3
  <2>3. QED
    BY <1>2, <1>3, <2>1, <2>2 DEF Init, TypeOK
<1>5. QED
  BY <1>1, <1>3, <1>4 DEF Init, IInv, Announced, NothingUnmade, PaintedIsHeld

(* The hub, its listener and the other clients leave the window alone. *)
LEMMA HubStep ==
  ASSUME IInv, UNCHANGED <<made, windowOnly>>, excused \subseteq excused', TypeOK',
         Messages' \subseteq Server \cup {Whole, Ack}, inbox' \subseteq Server \cup {Whole},
         registered' =>
            \A c \in Server : c \in items \cup excused \/ Coming(c)
                               => c \in items \cup excused' \/ Coming(c)',
         registered' => registered \/ Server \subseteq items \cup excused' \/ \A c \in Server : Coming(c)'
  PROVE  IInv'
<1>1. Announced'
  BY DEF IInv, Announced, Server, windowOnly
<1>2. NothingUnmade' /\ PaintedIsHeld'
  BY DEF IInv, NothingUnmade, PaintedIsHeld, Server, windowOnly
<1>3. QED
  BY <1>1, <1>2 DEF IInv

LEMMA ChangeStep == IInv /\ Change => IInv'
<1> SUFFICES ASSUME IInv, Change PROVE IInv'
  OBVIOUS
<1> DEFINE M == {Whole, Ack} \cup Changes
           said == IF made' \in Wide THEN Whole ELSE made'
<1>1. /\ made \in Nat /\ made' = made + 1 /\ made' \in Changes /\ wire \in Seq(M)
      /\ UNCHANGED <<registered, listener, before, live, inbox, excused, cache, populated, loads,
                     syncing, items>>
      /\ wire' = IF ~registered THEN wire ELSE Append(wire, said)
  BY BoundsAssumption DEF Change, IInv, TypeOK, Changes, windowOnly
<1>2. said \in M
  BY <1>1
<1> HIDE DEF M, said
<1>3. /\ wire' \in Seq(M)
      /\ Messages' = IF ~registered THEN Messages ELSE Messages \cup {said}
  <2>1. Append(wire, said) \in Seq(M) /\ Elems(Append(wire, said)) = Elems(wire) \cup {said}
    BY <1>1, <1>2, SaidLast
  <2>2. QED
    BY <1>1, <2>1 DEF Messages
<1>4. Server' = Server \cup {made'}
  BY <1>1 DEF Server
<1>5. TypeOK'
  <2>1. made' \in 0 .. MaxChanges
    BY <1>1, BoundsAssumption DEF Changes
  <2>2. QED
    BY <1>1, <1>3, <1>4, <2>1 DEF IInv, TypeOK, M
<1>6. NothingUnmade' /\ PaintedIsHeld'
  BY <1>1, <1>3, <1>4 DEF IInv, NothingUnmade, PaintedIsHeld, said
<1>7. Announced'
  <2> SUFFICES ASSUME registered, NEW c \in Server'
               PROVE  (c \in items \cup excused \/ Coming(c))'
    BY <1>1 DEF Announced
  <2>1. CASE c \in Server
    <3>1. c \in items \cup excused \/ Coming(c)
      BY <2>1 DEF IInv, Announced
    <3>2. QED
      BY <1>1, <1>3, <3>1 DEF Coming, InTheHandsOf
  <2>2. CASE c = made'
    BY <1>1, <1>3, <2>2 DEF Coming, said
  <2>3. QED
    BY <1>4, <2>1, <2>2
<1>8. QED
  BY <1>5, <1>6, <1>7 DEF IInv

LEMMA ReadsStep == IInv /\ Reads => IInv'
<1> SUFFICES ASSUME IInv, Reads PROVE IInv'
  OBVIOUS
<1> DEFINE M == {Whole, Ack} \cup Changes
           first == Head(wire)
           rest == Tail(wire)
<1>1. /\ UNCHANGED <<made, registered, listener, excused, windowOnly>>
      /\ listener = "open" /\ wire \in Seq(M) /\ wire # <<>> /\ wire' = rest
  BY DEF Reads, IInv, TypeOK
<1>2. rest \in Seq(M) /\ first \in M /\ Messages = {first} \cup Messages'
  BY <1>1, HeardFirst DEF Messages
<1>3. IF first = Ack
      THEN /\ live' = TRUE /\ before' = TRUE
           /\ inbox' = IF before THEN inbox \cup {Whole} ELSE inbox
      ELSE inbox' = inbox \cup {first} /\ UNCHANGED <<live, before>>
  BY DEF Reads
<1> HIDE DEF first, rest
<1>4. TypeOK'
  BY <1>1, <1>2, <1>3 DEF IInv, TypeOK, Server, windowOnly
<1>5. Messages' \subseteq Server \cup {Whole, Ack} /\ inbox' \subseteq Server \cup {Whole}
  BY <1>2, <1>3 DEF IInv, NothingUnmade
<1>6. ASSUME NEW c \in Server, Coming(c)
      PROVE  Coming(c)'
  <2>1. CASE \/ c \in inbox \cup Messages \/ Whole \in inbox \cup Messages
             \/ before /\ Ack \in Messages
    <3>1. c # Ack /\ Whole # Ack
      BY BoundsAssumption DEF IInv, TypeOK, Server, Whole, Ack
    <3>2. QED
      BY <1>2, <1>3, <2>1, <3>1 DEF Coming
  <2>2. CASE syncing \/ \E s \in Slots : loads[s].newest /\ InTheHandsOf(loads[s], c)
    BY <1>1, <2>2 DEF Coming, InTheHandsOf, windowOnly
  <2>3. QED
    BY <1>6, <2>1, <2>2 DEF Coming
<1>7. QED
  BY <1>1, <1>4, <1>5, <1>6, HubStep DEF windowOnly

LEMMA ConnectsStep == IInv /\ Connects => IInv'
<1> SUFFICES ASSUME IInv, Connects PROVE IInv'
  OBVIOUS
<1>1. Messages' = {Ack}
  BY OneSaid DEF Connects, Messages
<1>2. TypeOK'
  <2>1. wire' \in Seq({Whole, Ack} \cup Changes)
    BY DEF Connects
  <2>2. QED
    BY <2>1 DEF IInv, TypeOK, Connects, Server, windowOnly
<1>3. /\ UNCHANGED <<made, windowOnly, before, inbox>>
      /\ excused' = IF before THEN excused ELSE excused \cup (Server \ items)
  BY DEF Connects, Excuses
<1>4. before => \A c \in Server : Coming(c)'
  BY <1>1, <1>3 DEF Coming
<1>5. ~before => Server \subseteq items \cup excused'
  BY <1>3
<1>6. inbox' \subseteq Server \cup {Whole}
  BY <1>3 DEF IInv, NothingUnmade
<1>7. QED
  BY <1>1, <1>2, <1>3, <1>4, <1>5, <1>6, HubStep

(* No connection: nothing is promised. *)
LEMMA DisconnectsStep ==
  ASSUME IInv, Unsupported \/ Severed \/ Drops \/ Relisten
  PROVE  IInv'
<1>1. /\ UNCHANGED <<made, windowOnly, excused>> /\ registered' = FALSE /\ wire' = <<>>
      /\ inbox' \subseteq inbox
  BY DEF Unsupported, Severed, Drops, Relisten
<1>2. Messages' = {}
  BY <1>1, NothingSaid DEF Messages
<1>3. TypeOK'
  <2>1. wire' \in Seq({Whole, Ack} \cup Changes)
    BY <1>1
  <2>2. /\ listener' \in {"off", "waiting", "open", "done"} /\ before' \in BOOLEAN
        /\ live' \in BOOLEAN /\ (live' => listener' = "open")
    <3>1. CASE Unsupported
      BY <3>1 DEF IInv, TypeOK, Unsupported
    <3>2. CASE Severed
      BY <3>2 DEF IInv, TypeOK, Severed
    <3>3. CASE Drops
      BY <3>3 DEF IInv, TypeOK, Drops
    <3>4. CASE Relisten
      BY <3>4 DEF IInv, TypeOK, Relisten
    <3>5. QED
      BY <3>1, <3>2, <3>3, <3>4
  <2>3. QED
    BY <1>1, <2>1, <2>2 DEF IInv, TypeOK, Server, windowOnly
<1>4. inbox' \subseteq Server \cup {Whole}
  BY <1>1 DEF IInv, NothingUnmade
<1>5. QED
  BY <1>1, <1>2, <1>3, <1>4, HubStep
-----------------------------------------------------------------------------
(* The frame. *)

(* A sync brings everything. *)
LEMMA SyncsStep ==
  ASSUME IInv, UNCHANGED <<made, hub, cache, populated, items, excused>>, Syncs,
         inbox' \in {inbox, {}}
  PROVE  IInv'
<1>1. UNCHANGED <<made, registered, wire, listener, before, live, cache, populated, items, excused,
                  loads>> /\ syncing' = TRUE
  BY DEF hub, Syncs
<1>2. TypeOK'
  BY <1>1 DEF IInv, TypeOK, Server
<1>3. Announced'
  BY <1>1 DEF Announced, Coming
<1>4. NothingUnmade' /\ PaintedIsHeld'
  BY <1>1 DEF IInv, NothingUnmade, PaintedIsHeld, Server, Messages
<1>5. QED
  BY <1>2, <1>3, <1>4 DEF IInv

(* A new load: it has in hand what was announced, or fetches everything;   *)
(* what an older one had in hand is excused.                               *)
LEMMA BeginStep ==
  ASSUME IInv, UNCHANGED <<made, hub, cache, populated, items>>, inbox' \in {inbox, {}},
         syncing' \in {syncing, FALSE}, excused \subseteq excused',
         NEW todo, todo \subseteq Server, Begin(todo),
         \/ todo = {}
         \/ /\ todo = inbox /\ Whole \notin inbox /\ ~syncing
            /\ \/ Server \subseteq items \cup excused'
               \/ ~\E s \in Slots : loads[s].newest
  PROVE  IInv'
<1>1. UNCHANGED <<made, registered, wire, listener, before, live, cache, populated, items>>
      /\ Messages' = Messages /\ Server' = Server
  BY DEF hub, Messages, Server
<1>2. todo \subseteq Changes /\ loads \in [Slots -> Load]
  BY BoundsAssumption DEF IInv, TypeOK, Server, Changes
<1>3. loads' \in [Slots -> Load]
  BY <1>2, Begun
<1>4. PICK s \in Slots :
         /\ loads'[s].newest /\ loads'[s].todo = todo
         /\ loads'[s].rows = {} /\ loads'[s].kept = {}
         /\ loads'[s].at = IF todo = {} THEN "fetching" ELSE "applying"
         /\ \A t \in Slots \ {s} :
               /\ ~loads'[t].newest /\ loads'[t].todo = loads[t].todo
               /\ loads'[t].rows = loads[t].rows /\ loads'[t].kept = loads[t].kept
  BY <1>2, Begun
<1>5. TypeOK'
  <2>1. \A t, u \in Slots : loads'[t].newest /\ loads'[u].newest => t = u
    BY <1>4
  <2>2. QED
    BY <1>1, <1>3, <2>1 DEF IInv, TypeOK
<1>6. NothingUnmade'
  BY <1>1, <1>4 DEF IInv, NothingUnmade
<1>7. PaintedIsHeld'
  BY <1>1, <1>4 DEF IInv, PaintedIsHeld
<1>8. Announced'
  <2> SUFFICES ASSUME registered, NEW c \in Server
               PROVE  (c \in items \cup excused \/ Coming(c))'
    BY <1>1 DEF Announced
  <2>1. CASE todo = {}
    BY <1>4, <2>1 DEF Coming, InTheHandsOf
  <2>2. CASE Server \subseteq items \cup excused'
    BY <1>1, <2>2
  <2>3. CASE todo = inbox /\ Whole \notin inbox /\ ~syncing /\ ~\E t \in Slots : loads[t].newest
    <3>1. \/ c \in items \cup excused \/ c \in todo
          \/ c \in Messages \/ Whole \in Messages \/ (before /\ Ack \in Messages)
      BY <2>3 DEF IInv, Announced, Coming
    <3>2. c \in todo => InTheHandsOf(loads[s], c)'
      BY <1>4 DEF InTheHandsOf
    <3>3. QED
      BY <1>1, <1>4, <3>1, <3>2 DEF Coming
  <2>4. QED
    BY <2>1, <2>2, <2>3
<1>9. QED
  BY <1>5, <1>6, <1>7, <1>8 DEF IInv

LEMMA FrameStep ==
  ASSUME IInv, PushBeat \/ PollBeat \/ Click \/ SyncAnswers
  PROVE  IInv'
<1>1. CASE PushBeat /\ live /\ Whole \notin inbox
  <2>1. /\ UNCHANGED <<made, hub, cache, populated, items, syncing>> /\ inbox' = {} /\ Begin(inbox)
        /\ ~syncing
        /\ IF \E s \in Slots : loads[s].newest THEN excused' = excused \cup (Server \ items)
                                               ELSE excused' = excused
    BY <1>1 DEF PushBeat, hubOnly, Excuses, SyncInProgress
  <2>2. inbox \subseteq Server
    BY <1>1 DEF IInv, NothingUnmade
  <2>3. QED
    BY <1>1, <2>1, <2>2, BeginStep
<1>2. CASE PushBeat /\ ~(live /\ Whole \notin inbox)
  BY <1>2, SyncsStep DEF PushBeat, hubOnly
<1>3. CASE PollBeat
  BY <1>3, SyncsStep DEF PollBeat, hubOnly
<1>4. CASE Click
  BY <1>4, SyncsStep DEF Click, hubOnly
<1>5. CASE SyncAnswers
  BY <1>5, BeginStep DEF SyncAnswers, hubOnly
<1>6. QED
  BY <1>1, <1>2, <1>3, <1>4, <1>5

(* A load that is over is not the newest one any more, or is painted.      *)
LEMMA DrainsStep ==
  ASSUME IInv, NEW s \in Slots, Drains(s)
  PROVE  IInv'
<1>1. /\ UNCHANGED <<made, registered, wire, listener, before, live, inbox, cache, populated, syncing>>
      /\ Messages' = Messages /\ Server' = Server
      /\ items' = IF loads[s].at = "sent" /\ loads[s].newest THEN loads[s].rows ELSE items
      /\ excused' = IF loads[s].newest THEN excused ELSE excused \cup (Server \ items)
      /\ loads[s].at \in {"sent", "failed"}
      /\ loads' = [loads EXCEPT ![s] = Free]
  BY DEF Drains, hubOnly, hub, Messages, Server, Excuses
<1>2. /\ Free \in Load /\ ~Free.newest /\ Free.at = "free"
      /\ Free.todo = {} /\ Free.rows = {} /\ Free.kept = {}
  BY DEF Free, Load
<1>3. /\ loads' \in [Slots -> Load] /\ loads'[s] = Free
      /\ \A t \in Slots : t # s => loads'[t] = loads[t]
  BY <1>1, <1>2 DEF IInv, TypeOK
<1>4. \A t \in Slots : loads[s].newest /\ t # s => ~loads[t].newest
  BY DEF IInv, TypeOK
<1>5. TypeOK'
  <2>1. items' \subseteq Server
    BY <1>1 DEF IInv, TypeOK, NothingUnmade
  <2>2. \A t, u \in Slots : loads'[t].newest /\ loads'[u].newest => t = u
    BY <1>2, <1>3 DEF IInv, TypeOK
  <2>3. QED
    BY <1>1, <1>3, <2>1, <2>2 DEF IInv, TypeOK
<1>6. NothingUnmade'
  BY <1>1, <1>2, <1>3 DEF IInv, NothingUnmade
<1>7. PaintedIsHeld'
  BY <1>1, <1>2, <1>3, <1>4 DEF IInv, PaintedIsHeld
<1>8. Announced'
  <2> SUFFICES ASSUME registered, NEW c \in Server
               PROVE  (c \in items \cup excused \/ Coming(c))'
    BY <1>1 DEF Announced
  <2>1. CASE ~loads[s].newest
    BY <1>1, <2>1
  <2>2. CASE loads[s].newest
    <3>1. c \in items \cup excused \/ Coming(c)
      BY DEF IInv, Announced
    <3>2. items \subseteq items' \cup excused'
      BY <1>1, <2>2 DEF IInv, PaintedIsHeld
    <3>3. InTheHandsOf(loads[s], c) => c \in items'
      BY <1>1, <2>2 DEF InTheHandsOf
    <3>4. \A t \in Slots : loads[t].newest => t = s
      BY <1>4, <2>2
    <3>5. QED
      BY <1>1, <2>2, <3>1, <3>2, <3>3, <3>4 DEF Coming
  <2>3. QED
    BY <2>1, <2>2
<1>9. QED
  BY <1>5, <1>6, <1>7, <1>8 DEF IInv

-----------------------------------------------------------------------------
(* The workers.  A step of a load keeps what the newest one has in hand.   *)
LEMMA WorkerStep ==
  ASSUME IInv, UNCHANGED workerOnly, excused \subseteq excused', cache' \subseteq Server,
         populated' \in BOOLEAN, loads' \in [Slots -> Load],
         \A t \in Slots :
            /\ loads'[t].newest = loads[t].newest
            /\ loads'[t].todo \cup loads'[t].rows \cup loads'[t].kept \subseteq Server
            /\ loads[t].newest /\ loads'[t].at = "sent" =>
                  /\ items \subseteq loads'[t].rows \cup excused'
                  /\ loads'[t].rows \subseteq cache' \cup excused',
         cache \subseteq cache' \cup excused',
         \A t \in Slots : \A c \in Server :
            loads[t].newest /\ InTheHandsOf(loads[t], c)
               => c \in items \cup excused' \/ InTheHandsOf(loads[t], c)'
  PROVE  IInv'
<1>1. UNCHANGED <<made, registered, wire, listener, before, live, inbox, syncing, items>>
      /\ Messages' = Messages /\ Server' = Server
  BY DEF workerOnly, hubOnly, hub, Messages, Server
<1>2. TypeOK'
  BY <1>1 DEF IInv, TypeOK
<1>3. NothingUnmade' /\ PaintedIsHeld'
  BY <1>1 DEF IInv, NothingUnmade, PaintedIsHeld
<1>4. Announced'
  <2> SUFFICES ASSUME registered, NEW c \in Server
               PROVE  (c \in items \cup excused \/ Coming(c))'
    BY <1>1 DEF Announced
  <2>1. c \in items \cup excused \/ Coming(c)
    BY DEF IInv, Announced
  <2>2. CASE \E t \in Slots : loads[t].newest /\ InTheHandsOf(loads[t], c)
    BY <1>1, <2>2 DEF Coming
  <2>3. CASE c \in items \cup excused \/ ~\E t \in Slots : loads[t].newest /\ InTheHandsOf(loads[t], c)
    BY <1>1, <2>1, <2>3 DEF Coming
  <2>4. QED
    BY <2>2, <2>3
<1>5. QED
  BY <1>2, <1>3, <1>4 DEF IInv
LEMMA AppliesStep ==
  ASSUME IInv, NEW s \in Slots, NEW c \in Changes, Applies(s, c)
  PROVE  IInv'
<1>1. /\ UNCHANGED workerOnly /\ UNCHANGED <<populated, excused>>
      /\ loads[s].at = "applying" /\ c \in loads[s].todo
      /\ cache' = cache \cup {c}
      /\ loads' = [t \in Slots |->
                      IF t = s THEN [loads[s] EXCEPT !.todo = @ \ {c}]
                      ELSE IF loads[t].at \in {"fetching", "fetched"} /\ c \notin cache
                      THEN [loads[t] EXCEPT !.kept = @ \cup {c}]
                      ELSE loads[t]]
  BY DEF Applies
<1>2. c \in Server /\ cache' \subseteq Server
  BY <1>1 DEF IInv, NothingUnmade, TypeOK
<1>3. ASSUME NEW t \in Slots
      PROVE  /\ loads'[t] \in Load /\ loads'[t].newest = loads[t].newest
             /\ loads'[t].at = loads[t].at /\ loads'[t].rows = loads[t].rows
             /\ loads[t].todo \subseteq loads'[t].todo \cup {c} /\ loads'[t].todo \subseteq loads[t].todo
             /\ loads[t].kept \subseteq loads'[t].kept /\ loads'[t].kept \subseteq loads[t].kept \cup {c}
  <2>1. loads[t] \in Load
    BY DEF IInv, TypeOK
  <2>2. CASE t = s
    <3>1. loads'[t] = [loads[t] EXCEPT !.todo = @ \ {c}]
      BY <1>1, <2>2
    <3>2. QED
      BY <2>1, <3>1 DEF Load
  <2>3. CASE t # s /\ loads[t].at \in {"fetching", "fetched"} /\ c \notin cache
    <3>1. loads'[t] = [loads[t] EXCEPT !.kept = @ \cup {c}]
      BY <1>1, <2>3
    <3>2. QED
      BY <2>1, <3>1 DEF Load
  <2>4. CASE t # s /\ ~(loads[t].at \in {"fetching", "fetched"} /\ c \notin cache)
    <3>1. loads'[t] = loads[t]
      BY <1>1, <2>4
    <3>2. QED
      BY <2>1, <3>1
  <2>5. QED
    BY <2>2, <2>3, <2>4
<1>4. loads' \in [Slots -> Load]
  BY <1>1, <1>3
<1>5. ASSUME NEW t \in Slots
      PROVE  /\ loads'[t].todo \cup loads'[t].rows \cup loads'[t].kept \subseteq Server
             /\ loads[t].newest /\ loads'[t].at = "sent" =>
                  /\ items \subseteq loads'[t].rows \cup excused'
                  /\ loads'[t].rows \subseteq cache' \cup excused'
             /\ \A d \in Server : InTheHandsOf(loads[t], d) => InTheHandsOf(loads[t], d)'
  BY <1>1, <1>2, <1>3 DEF IInv, NothingUnmade, PaintedIsHeld, InTheHandsOf
<1>6. populated' \in BOOLEAN
  BY <1>1 DEF IInv, TypeOK
<1>7. QED
  BY <1>1, <1>2, <1>3, <1>4, <1>5, <1>6, WorkerStep

(* A step of one load and of the cache. *)
LEMMA OneLoadStep ==
  ASSUME IInv, NEW s \in Slots, NEW l \in Load, loads' = [loads EXCEPT ![s] = l],
         UNCHANGED workerOnly, excused \subseteq excused', cache' \subseteq Server,
         populated' \in BOOLEAN, l.newest = loads[s].newest,
         l.todo \cup l.rows \cup l.kept \subseteq Server,
         l.at = "sent" => l.rows = cache /\ cache' = cache,
         cache \subseteq cache' \cup excused',
         \A c \in Server : InTheHandsOf(loads[s], c) =>
            c \in items \cup excused' \/ InTheHandsOf(loads[s], c)'
  PROVE  IInv'
<1>1. loads' \in [Slots -> Load] /\ loads'[s] = l /\ \A t \in Slots : t # s => loads'[t] = loads[t]
  BY DEF IInv, TypeOK
<1>2. ASSUME NEW t \in Slots
      PROVE  /\ loads'[t].newest = loads[t].newest
             /\ loads'[t].todo \cup loads'[t].rows \cup loads'[t].kept \subseteq Server
             /\ loads[t].newest /\ loads'[t].at = "sent" =>
                  /\ items \subseteq loads'[t].rows \cup excused'
                  /\ loads'[t].rows \subseteq cache' \cup excused'
  BY <1>1 DEF IInv, NothingUnmade, PaintedIsHeld
<1>3. ASSUME NEW t \in Slots, NEW c \in Server, InTheHandsOf(loads[t], c)
      PROVE  c \in items \cup excused' \/ InTheHandsOf(loads[t], c)'
  <2>1. CASE t = s
    BY <1>3, <2>1
  <2>2. CASE t # s
    BY <1>1, <1>3, <2>2 DEF InTheHandsOf
  <2>3. QED
    BY <2>1, <2>2
<1>4. QED
  BY <1>1, <1>2, <1>3, WorkerStep

(* What a load was about to bring, it fetches. *)
LEMMA FetchingStep ==
  ASSUME IInv, NEW s \in Slots, AppliesNot(s) \/ Fetches(s) \/ FetchFails(s) \/ Sends(s)
  PROVE  IInv'
<1>1. loads[s] \in Load /\ loads[s].todo \cup loads[s].rows \cup loads[s].kept \subseteq Server
      /\ cache \subseteq Server /\ populated \in BOOLEAN /\ Server \subseteq Changes
  BY BoundsAssumption DEF IInv, TypeOK, NothingUnmade, Server, Changes
<1>2. CASE AppliesNot(s)
  <2> DEFINE l == [loads[s] EXCEPT !.todo = {}, !.at = "fetching"]
  <2>1. loads' = [loads EXCEPT ![s] = l] /\ UNCHANGED workerOnly
        /\ UNCHANGED <<cache, populated, excused>>
    BY <1>2 DEF AppliesNot, IInv, TypeOK
  <2>2. /\ l \in Load /\ l.newest = loads[s].newest /\ l.at = "fetching"
        /\ l.todo = {} /\ l.rows = loads[s].rows /\ l.kept = loads[s].kept
    BY <1>1 DEF Load
  <2> HIDE DEF l
  <2>3. loads'[s] = l
    BY <2>1 DEF IInv, TypeOK
  <2>4. QED
    BY <1>1, <2>1, <2>2, <2>3, OneLoadStep DEF InTheHandsOf
<1>3. CASE Fetches(s)
  <2> DEFINE l == [loads[s] EXCEPT !.at = "fetched", !.rows = Server]
  <2>1. loads' = [loads EXCEPT ![s] = l] /\ UNCHANGED workerOnly
        /\ UNCHANGED <<cache, populated, excused>>
    BY <1>3 DEF Fetches, IInv, TypeOK
  <2>2. /\ l \in Load /\ l.newest = loads[s].newest /\ l.at = "fetched"
        /\ l.todo = loads[s].todo /\ l.rows = Server /\ l.kept = loads[s].kept
    BY <1>1 DEF Load
  <2> HIDE DEF l
  <2>3. loads'[s] = l
    BY <2>1 DEF IInv, TypeOK
  <2>4. QED
    BY <1>1, <2>1, <2>2, <2>3, OneLoadStep DEF InTheHandsOf
<1>4. CASE FetchFails(s)
  <2> DEFINE l == [loads[s] EXCEPT !.at = "failed"]
  <2>1. loads' = [loads EXCEPT ![s] = l] /\ UNCHANGED workerOnly
        /\ UNCHANGED <<cache, populated>> /\ excused' = excused \cup (Server \ items)
    BY <1>4 DEF FetchFails, IInv, TypeOK, Excuses
  <2>2. /\ l \in Load /\ l.newest = loads[s].newest /\ l.at = "failed"
        /\ l.todo = loads[s].todo /\ l.rows = loads[s].rows /\ l.kept = loads[s].kept
    BY <1>1 DEF Load
  <2> HIDE DEF l
  <2>3. QED
    BY <1>1, <2>1, <2>2, OneLoadStep
<1>5. CASE Sends(s)
  <2> DEFINE l == [loads[s] EXCEPT !.at = "sent", !.rows = cache]
  <2>1. loads' = [loads EXCEPT ![s] = l] /\ UNCHANGED workerOnly
        /\ UNCHANGED <<cache, populated, excused>> /\ loads[s].at = "applying" /\ loads[s].todo = {}
    BY <1>5 DEF Sends, IInv, TypeOK
  <2>2. /\ l \in Load /\ l.newest = loads[s].newest /\ l.at = "sent"
        /\ l.todo = loads[s].todo /\ l.rows = cache /\ l.kept = loads[s].kept
    BY <1>1 DEF Load
  <2> HIDE DEF l
  <2>3. loads'[s] = l
    BY <2>1 DEF IInv, TypeOK
  <2>4. QED
    BY <1>1, <2>1, <2>2, <2>3, OneLoadStep DEF InTheHandsOf
<1>6. QED
  BY <1>2, <1>3, <1>4, <1>5

(* It lands, with what was announced while it was under way. *)
LEMMA WritesBackStep ==
  ASSUME IInv, NEW s \in Slots, WritesBack(s)
  PROVE  IInv'
<1>1. loads[s] \in Load /\ loads[s].todo \cup loads[s].rows \cup loads[s].kept \subseteq Server
      /\ Server \subseteq Changes
  BY BoundsAssumption DEF IInv, TypeOK, NothingUnmade, Server, Changes
<1> DEFINE l == [loads[s] EXCEPT !.at = "applying", !.rows = {}, !.kept = {}]
<1>2. /\ loads' = [loads EXCEPT ![s] = l] /\ UNCHANGED workerOnly
      /\ loads[s].at = "fetched" /\ populated' = TRUE
      /\ cache' = loads[s].rows \cup loads[s].kept /\ excused' = excused \cup (cache \ cache')
  BY DEF WritesBack, IInv, TypeOK, Excuses
<1>3. /\ l \in Load /\ l.newest = loads[s].newest /\ l.at = "applying"
      /\ l.todo = loads[s].todo /\ l.rows = {} /\ l.kept = {}
  BY <1>1 DEF Load
<1> HIDE DEF l
<1>4. loads'[s] = l
  BY <1>2 DEF IInv, TypeOK
<1>5. QED
  BY <1>1, <1>2, <1>3, <1>4, OneLoadStep DEF InTheHandsOf

-----------------------------------------------------------------------------
LEMMA StepHolds == IInv /\ [Next]_vars => IInv'
<1> SUFFICES ASSUME IInv, [Next]_vars PROVE IInv'
  OBVIOUS
<1>1. CASE Change \/ Connects \/ Reads
  BY <1>1, ChangeStep, ConnectsStep, ReadsStep
<1>2. CASE Unsupported \/ Severed \/ Drops \/ Relisten
  BY <1>2, DisconnectsStep
<1>3. CASE PushBeat \/ PollBeat \/ Click \/ SyncAnswers
  BY <1>3, FrameStep
<1>4. ASSUME NEW s \in Slots, Drains(s) \/ Worker(s) \/ Fails(s)
      PROVE  IInv'
  BY <1>4, DrainsStep, AppliesStep, FetchingStep, WritesBackStep DEF Worker, Fails
<1>5. CASE UNCHANGED vars
  BY <1>5 DEF vars, hub, IInv, TypeOK, Announced, Coming, InTheHandsOf, NothingUnmade, PaintedIsHeld,
              Messages, Server
<1>6. QED
  BY <1>1, <1>2, <1>3, <1>4, <1>5 DEF Next

LEMMA Inductive == Spec => []IInv
BY InitHolds, StepHolds, PTL DEF Spec

(* Every variable keeps its type: the hub is live only over an open        *)
(* connection, the newest load is one, and the window and the cache hold   *)
(* only what the server has.                                               *)
THEOREM TypeCorrect == Spec => []TypeOK
BY Inductive, PTL DEF IInv

(* While the hub is live and the timer stands down, every change is on the *)
(* screen, or on its way there (one_connection, heartbeat_sync_due,        *)
(* targeted_refresh, apply_announced, apply_vault_load_result): no order   *)
(* of announcements, loads and answers loses one without an excuse.        *)
THEOREM NothingEverSlips == Spec => []NothingSlips
<1>1. IInv => NothingSlips
  <2> SUFFICES ASSUME IInv, live, registered, NEW c \in Server, ~(c \in items \cup excused)
               PROVE  OnItsWay(c)
    BY DEF NothingSlips
  <2>1. Coming(c)
    BY DEF IInv, Announced
  <2>2. Messages = {wire[i] : i \in DOMAIN wire}
    BY DEF Messages, Elems
  <2>3. \A s \in Slots : InTheHandsOf(loads[s], c) => Brings(loads[s], c)
    BY DEF InTheHandsOf, Brings
  <2>4. QED
    BY <2>1, <2>2, <2>3 DEF Coming, OnItsWay, Says
<1>2. QED
  BY <1>1, Inductive, PTL
=============================================================================
