-------------------------- MODULE VaultCacheProofs --------------------------
(***************************************************************************)
(* Proofs about VaultCache: type correctness, that no landing fetch takes  *)
(* the snapshot behind a landed write, and that no row survives the        *)
(* session it was fetched in -- for any number of ids and loaders.         *)
(***************************************************************************)
EXTENDS VaultCache, TLAPS

-----------------------------------------------------------------------------
(* Type correctness *)

ServerRow == [state : {"none", "live", "gone"}, body : Nat, rev : Nat]

LEMMA IdleIsAnOp == Idle \in Op
<1>1. (CHOOSE id \in Ids : TRUE) \in Ids
  BY IdsAssumption DEF Ids
<1>2. Empty \in [Ids -> Seq(Value)]
  BY DEF Empty
<1> QED
  BY <1>1, <1>2 DEF Idle, Op, Value, NoValue, Mark, Steps, OpKinds

LEMMA RowType ==
  ASSUME TypeOK, NEW id \in Ids
  PROVE  /\ server[id] \in ServerRow
         /\ Row(id) \in Value
         /\ Listed(id) \in Seq(Value)
         /\ Epoch \in Mark
<1>1. server[id] \in ServerRow
  BY DEF TypeOK, ServerRow
<1>2. Row(id) \in Value
  BY <1>1 DEF TypeOK, Row, Value, ServerRow
<1>3. Listed(id) \in Seq(Value)
  BY <1>2 DEF Listed
<1>4. Epoch \in Mark
  BY DEF TypeOK, Epoch, Mark
<1> QED
  BY <1>1, <1>2, <1>3, <1>4

(* What the sequence operators of the snapshot return, over any set. *)
LEMMA EmptySeq ==
  ASSUME NEW S
  PROVE  <<>> \in Seq(S)
OBVIOUS

LEMMA HeadTail ==
  ASSUME NEW S, NEW s \in Seq(S), s # <<>>
  PROVE  Head(s) \in S /\ Tail(s) \in Seq(S)
OBVIOUS

LEMMA Cons ==
  ASSUME NEW S, NEW s \in Seq(S), NEW v \in S
  PROVE  /\ <<v>> \o s \in Seq(S)
         /\ <<v>> \o s # <<>>
         /\ Head(<<v>> \o s) = v
OBVIOUS

LEMMA PutFirstFacts ==
  ASSUME NEW S, NEW s \in Seq(S), NEW v \in S
  PROVE  /\ PutFirst(s, v) \in Seq(S)
         /\ PutFirst(s, v) # <<>>
         /\ Head(PutFirst(s, v)) = v
<1> DEFINE r == IF s = <<>> THEN <<>> ELSE Tail(s)
<1>1. r \in Seq(S)
  BY HeadTail, EmptySeq
<1>2. PutFirst(s, v) = <<v>> \o r
  BY DEF PutFirst
<1> HIDE DEF r
<1> QED
  BY <1>1, <1>2, Cons

LEMMA AppendFacts ==
  ASSUME NEW S, NEW s \in Seq(S), NEW v \in S
  PROVE  /\ Append(s, v) \in Seq(S)
         /\ Append(s, v) # <<>>
<1>1. Append(s, v) \in Seq(S) /\ Len(Append(s, v)) = Len(s) + 1
  OBVIOUS
<1>2. Len(s) \in Nat /\ Len(<<>>) = 0
  OBVIOUS
<1> QED
  BY <1>1, <1>2

LEMMA ReplayedIn ==
  ASSUME NEW S, NEW id \in Ids, items[id] \in Seq(S), NEW f \in Seq(S), NEW since
  PROVE  Replayed(id, f, since) \in Seq(S)
<1>1. ASSUME items[id] # <<>>
      PROVE  PutFirst(f, Head(items[id])) \in Seq(S)
  <2>1. Head(items[id]) \in S
    BY <1>1, HeadTail
  <2> QED
    BY <2>1, PutFirstFacts
<1>2. <<>> \in Seq(S)
  BY EmptySeq
<1> QED
  BY <1>1, <1>2 DEF Replayed

LEMMA LandType ==
  ASSUME TypeOK, NEW id \in Ids, NEW copies \in Seq(Value), NEW deleted \in BOOLEAN, NEW rev \in Nat,
         copies # <<>> \/ deleted,
         Land(id, copies, deleted, rev)
  PROVE  /\ items' \in [Ids -> Seq(Value)]
         /\ shown' \subseteq Ids
         /\ writes' \in Nat
         /\ pending' \in [Ids -> PendingWrite]
         /\ landed' \in [Ids -> Landing]
         /\ populated' = populated
         /\ era' = era
<1> USE DEF TypeOK, Land
<1>1. items' \in [Ids -> Seq(Value)] /\ shown' \subseteq Ids
  OBVIOUS
<1>2. writes' \in Nat /\ pending' \in [Ids -> PendingWrite]
  BY DEF Note, PendingWrite
<1>3. landed' \in [Ids -> Landing]
  <2>1. ~deleted => Head(copies) \in Value
    BY HeadTail
  <2>2. ~deleted => Head(copies).rev \in Nat
    BY <2>1 DEF Value
  <2> QED
    BY <2>2 DEF Landing, NoLanding
<1> QED
  BY <1>1, <1>2, <1>3

LEMMA OpFacts ==
  ASSUME TypeOK, NEW t \in Threads
  PROVE  /\ op[t] \in Op
         /\ op[t].id \in Ids
         /\ op[t].copy \in Value
         /\ op[t].copy.rev \in Nat
         /\ op[t].live \in BOOLEAN
         /\ op[t].mark \in Mark
         /\ \A id \in Ids : op[t].fetched[id] \in Seq(Value)
<1>1. op[t] \in Op
  BY DEF TypeOK
<1> QED
  BY <1>1 DEF Op, Value

LEMMA BecomesFacts ==
  ASSUME TypeOK, NEW t \in Threads, NEW o \in Op, Becomes(t, o)
  PROVE  /\ op' \in [Threads -> Op]
         /\ op'[t] = o
         /\ \A u \in Threads : u # t => op'[u] = op[u]
BY DEF TypeOK, Becomes

LEMMA EndFacts ==
  ASSUME TypeOK, NEW t \in Threads, End(t)
  PROVE  /\ op' \in [Threads -> Op]
         /\ op'[t] = Idle
         /\ \A u \in Threads : u # t => op'[u] = op[u]
BY IdleIsAnOp, BecomesFacts DEF End

LEMMA ServerType ==
  ASSUME TypeOK, NEW id \in Ids
  PROVE  /\ Rewritten(id) \in [Ids -> ServerRow]
         /\ \A s \in {"none", "live", "gone"} : Restated(id, s) \in [Ids -> ServerRow]
         /\ Removal(id) \in {"none", "live", "gone"}
<1>1. Rewritten(id) \in [Ids -> ServerRow]
  BY DEF TypeOK, ServerRow, Rewritten
<1>2. ASSUME NEW s \in {"none", "live", "gone"}
      PROVE  Restated(id, s) \in [Ids -> ServerRow]
  <2>1. [state |-> s, body |-> server[id].body, rev |-> clock + 1] \in ServerRow
    BY RowType DEF TypeOK, ServerRow
  <2> QED
    BY <2>1 DEF TypeOK, Restated, ServerRow
<1> QED
  BY <1>1, <1>2 DEF Removal

LEMMA TypeInit == Init => TypeOK
<1> SUFFICES ASSUME Init PROVE TypeOK
  OBVIOUS
<1> USE DEF Init
<1>1. server \in [Ids -> ServerRow]
  BY DEF ServerRow
<1>2. items \in [Ids -> Seq(Value)]
  BY DEF Empty
<1>3. op \in [Threads -> Op]
  BY IdleIsAnOp
<1>4. pending \in [Ids -> PendingWrite]
  BY DEF PendingWrite, NoWrite
<1>5. landed \in [Ids -> Landing]
  BY DEF Landing, NoLanding
<1> QED
  BY <1>1, <1>2, <1>3, <1>4, <1>5 DEF TypeOK, ServerRow

LEMMA TypePopulating ==
  ASSUME TypeOK, NEW t \in Loaders, Populating(t)
  PROVE  TypeOK'
<1>0. t \in Threads
  BY DEF Threads
<1>1. CASE BeginPopulate(t)
  <2>1. [Idle EXCEPT !.kind = "populate", !.pc = "fetchItems", !.mark = Epoch] \in Op
    BY IdleIsAnOp, RowType, IdsAssumption DEF TypeOK, Op, Mark, Epoch, Steps, OpKinds
  <2> QED
    BY <1>0, <1>1, <2>1, BecomesFacts DEF BeginPopulate, TypeOK, cacheVars
<1>2. CASE FetchItems(t)
  <2> DEFINE f == [id \in Ids |-> IF id \in ItemIds THEN Listed(id) ELSE <<>>]
  <2>1. f \in [Ids -> Seq(Value)]
    BY RowType
  <2>2. [op[t] EXCEPT !.pc = "fetchFolders", !.fetched = f] \in Op
    BY <1>0, <2>1, OpFacts DEF Op, Steps
  <2> QED
    BY <1>0, <1>2, <2>2, BecomesFacts DEF FetchItems, TypeOK, cacheVars
<1>3. CASE FetchFolders(t)
  <2> DEFINE f == [id \in Ids |-> IF id \in FolderIds THEN Listed(id) ELSE op[t].fetched[id]]
  <2>1. f \in [Ids -> Seq(Value)]
    BY <1>0, RowType, OpFacts
  <2>2. [op[t] EXCEPT !.pc = "writeBack", !.fetched = f] \in Op
    BY <1>0, <2>1, OpFacts DEF Op, Steps
  <2> QED
    BY <1>0, <1>3, <2>2, BecomesFacts DEF FetchFolders, TypeOK, cacheVars
<1>4. CASE FetchFails(t)
  BY <1>0, <1>4, EndFacts DEF FetchFails, TypeOK, cacheVars
<1>5. CASE DiscardStale(t)
  BY <1>0, <1>5, EndFacts DEF DiscardStale, TypeOK, cacheVars
<1>6. CASE WriteBack(t)
  <2>1. op' \in [Threads -> Op]
    BY <1>0, <1>6, EndFacts DEF WriteBack
  <2>2. items' \in [Ids -> Seq(Value)]
    <3>1. ASSUME NEW id \in Ids
          PROVE  Replayed(id, op[t].fetched[id], op[t].mark.writes) \in Seq(Value)
      <4>1. op[t].fetched[id] \in Seq(Value) /\ items[id] \in Seq(Value)
        BY <1>0, OpFacts DEF TypeOK
      <4> QED
        BY <4>1, ReplayedIn
    <3> QED
      BY <1>6, <3>1 DEF WriteBack
  <2>3. landed' \in [Ids -> Landing]
    BY <1>6 DEF WriteBack, TypeOK, NoLanding, Landing
  <2> QED
    BY <1>6, <2>1, <2>2, <2>3 DEF WriteBack, TypeOK
<1> QED
  BY <1>1, <1>2, <1>3, <1>4, <1>5, <1>6 DEF Populating

LEMMA TypeAnnouncing ==
  ASSUME TypeOK, NEW t \in Loaders, Announcing(t)
  PROVE  TypeOK'
<1>0. t \in Threads
  BY DEF Threads
<1>1. ASSUME NEW id \in Ids, NEW kind \in {"changed", "removed"}, NEW rev \in Nat, Announced(t, id, kind, rev)
      PROVE  TypeOK'
  <2>1. [Idle EXCEPT !.kind = kind, !.pc = "check", !.id = id,
                     !.mark = [era |-> era, writes |-> 0, clock |-> 0],
                     !.copy = [body |-> 0, rev |-> rev, born |-> era]] \in Op
    BY IdleIsAnOp DEF TypeOK, Op, Mark, Value, Steps, OpKinds
  <2> QED
    BY <1>0, <1>1, <2>1, BecomesFacts DEF Announced, TypeOK, cacheVars
<1>2. ASSUME NEW id \in Ids, AnnounceChanged(t, id) \/ AnnounceRemoved(t, id)
      PROVE  TypeOK'
  <2>1. server[id].rev \in Nat
    BY RowType DEF ServerRow
  <2> QED
    BY <1>1, <1>2, <2>1 DEF AnnounceChanged, AnnounceRemoved
<1>3. CASE AnnouncedTooLate(t)
  BY <1>0, <1>3, EndFacts DEF AnnouncedTooLate, TypeOK, cacheVars
<1>4. CASE ApplyRemoved(t)
  <2>1. Land(op[t].id, <<>>, TRUE, op[t].copy.rev)
    BY <1>4 DEF ApplyRemoved
  <2>2. op[t].id \in Ids /\ op[t].copy.rev \in Nat /\ <<>> \in Seq(Value)
    BY <1>0, OpFacts
  <2> QED
    BY <1>0, <1>4, <2>1, <2>2, EndFacts, LandType DEF ApplyRemoved, TypeOK
<1>5. CASE SkipChanged(t)
  BY <1>0, <1>5, EndFacts DEF SkipChanged, TypeOK, cacheVars
<1>6. CASE CheckChanged(t)
  <2>1. [op[t] EXCEPT !.pc = "get"] \in Op
    BY <1>0, OpFacts DEF Op, Steps
  <2> QED
    BY <1>0, <1>6, <2>1, BecomesFacts DEF CheckChanged, TypeOK, cacheVars
<1>7. CASE GetChanged(t)
  <2>1. Row(op[t].id) \in Value
    BY <1>0, OpFacts, RowType
  <2>2. [op[t] EXCEPT !.pc = "land", !.copy = Row(op[t].id),
                      !.live = (server[op[t].id].state = "live")] \in Op
    BY <1>0, <2>1, OpFacts DEF Op, Steps
  <2> QED
    BY <1>0, <1>7, <2>2, BecomesFacts DEF GetChanged, TypeOK, cacheVars
<1>8. CASE LandChanged(t)
  <2> DEFINE o == op[t]
             rest == IF items[o.id] = <<>> THEN <<>> ELSE Tail(items[o.id])
             copies == IF o.live THEN <<o.copy>> \o rest ELSE rest
  <2>1. o.id \in Ids /\ o.copy \in Value /\ o.copy.rev \in Nat /\ o.live \in BOOLEAN
    BY <1>0, OpFacts
  <2>2. items[o.id] \in Seq(Value)
    BY <2>1 DEF TypeOK
  <2>3. rest \in Seq(Value)
    BY <2>2, HeadTail, EmptySeq
  <2>4. <<o.copy>> \o rest \in Seq(Value) /\ <<o.copy>> \o rest # <<>>
    BY <2>1, <2>3, Cons
  <2>5. copies \in Seq(Value) /\ (copies # <<>> \/ ~o.live)
    BY <2>3, <2>4
  <2>6. Land(o.id, copies, ~o.live, o.copy.rev)
    BY <1>8 DEF LandChanged
  <2> HIDE DEF o, rest, copies
  <2>7. /\ items' \in [Ids -> Seq(Value)]
        /\ shown' \subseteq Ids
        /\ writes' \in Nat
        /\ pending' \in [Ids -> PendingWrite]
        /\ landed' \in [Ids -> Landing]
        /\ populated' = populated
        /\ era' = era
    BY <2>1, <2>5, <2>6, LandType
  <2> QED
    BY <1>0, <1>8, <2>7, EndFacts DEF LandChanged, TypeOK
<1> QED
  BY <1>2, <1>3, <1>4, <1>5, <1>6, <1>7, <1>8 DEF Announcing

LEMMA TypeCall ==
  ASSUME TypeOK, NEW kind \in OpKinds, NEW id \in Ids, NEW copy \in Value, NEW pc \in Steps,
         Call(kind, id, copy, pc)
  PROVE  op' \in [Threads -> Op]
<1>1. [Idle EXCEPT !.kind = kind, !.pc = pc, !.id = id, !.copy = copy] \in Op
  BY IdleIsAnOp DEF Op
<1>2. Main \in Threads
  BY DEF Threads
<1> QED
  BY <1>1, <1>2, BecomesFacts DEF Call

LEMMA TypeWriting ==
  ASSUME TypeOK, Writing
  PROVE  TypeOK'
<1>0. /\ Main \in Threads
      /\ op[Main].id \in Ids
      /\ op[Main].copy \in Value
      /\ op[Main].copy.rev \in Nat
      /\ items[op[Main].id] \in Seq(Value)
  BY OpFacts DEF Threads, TypeOK
<1>1. ASSUME NEW id \in Ids, CallCreate(id) \/ CallUpdate(id) \/ CallRemove(id) \/ BeginRevive(id)
      PROVE  TypeOK'
  <2>1. [body |-> clock + 1, rev |-> clock + 1, born |-> era] \in Value
    BY DEF TypeOK, Value
  <2>2. [body |-> server[id].body, rev |-> clock + 1, born |-> era] \in Value
    BY RowType DEF TypeOK, Value, ServerRow
  <2>3. CASE CallCreate(id) \/ CallUpdate(id)
    <3>1. op' \in [Threads -> Op]
      BY <2>1, <2>3, TypeCall DEF CallCreate, CallUpdate, OpKinds, Steps
    <3>2. server' \in [Ids -> ServerRow]
      BY <2>3, ServerType DEF CallCreate, CallUpdate
    <3> QED
      BY <2>3, <3>1, <3>2 DEF CallCreate, CallUpdate, Tick, TypeOK, cacheVars, ServerRow
  <2>4. CASE CallRemove(id)
    <3>1. op' \in [Threads -> Op]
      BY <2>2, <2>4, TypeCall DEF CallRemove, OpKinds, Steps
    <3>2. server' \in [Ids -> ServerRow]
      BY <2>4, ServerType DEF CallRemove
    <3> QED
      BY <2>4, <3>1, <3>2 DEF CallRemove, Tick, TypeOK, cacheVars, ServerRow
  <2>5. CASE BeginRevive(id)
    <3>1. op' \in [Threads -> Op]
      BY <2>5, TypeCall, RowType DEF BeginRevive, OpKinds, Steps
    <3> QED
      BY <2>5, <3>1 DEF BeginRevive, TypeOK, cacheVars
  <2> QED
    BY <1>1, <2>3, <2>4, <2>5
<1>2. CASE CallRevive
  <2>1. [op[Main] EXCEPT !.pc = "readBack"] \in Op
    BY <1>0, OpFacts DEF Op, Steps
  <2>2. server' \in [Ids -> ServerRow]
    BY <1>0, <1>2, ServerType DEF CallRevive
  <2>3. op' \in [Threads -> Op]
    BY <1>0, <1>2, <2>1, BecomesFacts DEF CallRevive
  <2> QED
    BY <1>2, <2>2, <2>3 DEF CallRevive, Tick, TypeOK, cacheVars, ServerRow
<1>3. CASE ReviveFails
  BY <1>0, <1>3, EndFacts DEF ReviveFails, TypeOK, cacheVars
<1>4. CASE ReadBack
  <2> DEFINE c == [body |-> op[Main].copy.body, rev |-> server[op[Main].id].rev, born |-> op[Main].copy.born]
  <2>1. c \in Value
    BY <1>0, RowType DEF Value, ServerRow
  <2> HIDE DEF c
  <2>2. [op[Main] EXCEPT !.pc = "land", !.copy = c] \in Op
    BY <1>0, <2>1, OpFacts DEF Op, Steps
  <2>3. Becomes(Main, [op[Main] EXCEPT !.pc = "land", !.copy = c])
    BY <1>4 DEF ReadBack, c
  <2> QED
    BY <1>0, <1>4, <2>2, <2>3, BecomesFacts DEF ReadBack, TypeOK, cacheVars
<1>5. CASE ReadBackFails
  <2>1. [op[Main] EXCEPT !.pc = "land"] \in Op
    BY <1>0, OpFacts DEF Op, Steps
  <2> QED
    BY <1>0, <1>5, <2>1, BecomesFacts DEF ReadBackFails, TypeOK, cacheVars
<1>6. CASE LandUnpopulated
  BY <1>0, <1>6, EndFacts DEF LandUnpopulated, TypeOK, cacheVars
<1>7. ASSUME NEW copies \in Seq(Value), NEW deleted \in BOOLEAN, copies # <<>> \/ deleted,
             Land(op[Main].id, copies, deleted, op[Main].copy.rev), End(Main),
             UNCHANGED <<server, clock>>
      PROVE  TypeOK'
  <2>1. /\ items' \in [Ids -> Seq(Value)]
        /\ shown' \subseteq Ids
        /\ writes' \in Nat
        /\ pending' \in [Ids -> PendingWrite]
        /\ landed' \in [Ids -> Landing]
        /\ populated' = populated
        /\ era' = era
    BY <1>0, <1>7, LandType
  <2>2. op' \in [Threads -> Op]
    BY <1>0, <1>7, EndFacts
  <2> QED
    BY <1>7, <2>1, <2>2 DEF TypeOK
<1>8. CASE LandCreate
  <2>1. Append(items[op[Main].id], op[Main].copy) \in Seq(Value) /\ Append(items[op[Main].id], op[Main].copy) # <<>>
    BY <1>0, AppendFacts
  <2> QED
    BY <1>7, <1>8, <2>1 DEF LandCreate
<1>9. CASE LandUpdate \/ LandRevive
  <2> DEFINE s == items[op[Main].id]
             v == op[Main].copy
  <2>1. s \in Seq(Value) /\ v \in Value
    BY <1>0
  <2>2. /\ Land(op[Main].id, PutFirst(s, v), FALSE, op[Main].copy.rev)
        /\ End(Main)
        /\ UNCHANGED <<server, clock>>
    BY <1>9 DEF LandUpdate, LandRevive
  <2> HIDE DEF s, v
  <2>3. PutFirst(s, v) \in Seq(Value) /\ PutFirst(s, v) # <<>>
    BY <2>1, PutFirstFacts
  <2> QED
    BY <1>7, <2>2, <2>3
<1>10. CASE MissUpdate
  BY <1>0, <1>10, EndFacts DEF MissUpdate, TypeOK, cacheVars
<1>11. CASE LandRemove
  <2>1. <<>> \in Seq(Value)
    BY EmptySeq
  <2> QED
    BY <1>7, <1>11, <2>1 DEF LandRemove
<1> QED
  BY <1>1, <1>2, <1>3, <1>4, <1>5, <1>6, <1>8, <1>9, <1>10, <1>11 DEF Writing

LEMMA TypeClear == TypeOK /\ Clear => TypeOK'
<1> SUFFICES ASSUME TypeOK, Clear PROVE TypeOK'
  OBVIOUS
<1>1. items' \in [Ids -> Seq(Value)]
  BY EmptySeq DEF Clear, Empty
<1>2. pending' \in [Ids -> PendingWrite] /\ landed' \in [Ids -> Landing]
  BY DEF Clear, NoWrite, PendingWrite, NoLanding, Landing
<1>3. populated' \in BOOLEAN /\ shown' \subseteq Ids
  BY DEF Clear
<1>4. era' \in Nat
  BY DEF Clear, TypeOK
<1>5. UNCHANGED <<server, clock, writes, op>>
  BY DEF Clear
<1> QED
  BY <1>1, <1>2, <1>3, <1>4, <1>5 DEF TypeOK

LEMMA TypeRemote ==
  ASSUME TypeOK, NEW id \in Ids, Remote(id)
  PROVE  TypeOK'
<1>1. server' \in [Ids -> ServerRow]
  BY ServerType DEF Remote
<1> QED
  BY <1>1 DEF Remote, Tick, TypeOK, cacheVars, ServerRow

LEMMA TypeStep == TypeOK /\ [Next]_vars => TypeOK'
<1>1. TypeOK /\ UNCHANGED vars => TypeOK'
  BY DEF TypeOK, vars
<1> QED
  BY <1>1, TypePopulating, TypeAnnouncing, TypeWriting, TypeClear, TypeRemote DEF Next

(* Every variable keeps its type: rows stay sequences of values, the       *)
(* pending log keeps one entry per id, and every thread is at a step its   *)
(* operation has.                                                          *)
THEOREM TypeCorrect == Spec => []TypeOK
  BY TypeInit, TypeStep, PTL DEF Spec

-----------------------------------------------------------------------------
(* The inductive invariant.  Steps are grouped by what they do to the      *)
(* shared state: nothing, a change of the server, a landing, a write-back  *)
(* or a clear.  OpOK of a thread whose operation did not change survives   *)
(* each of them.                                                           *)

LEMMA SeqMonotone ==
  ASSUME NEW S, NEW T, S \subseteq T
  PROVE  Seq(S) \subseteq Seq(T)
<1>1. ASSUME NEW s \in Seq(S)
      PROVE  s \in Seq(T)
  <2>1. s \in [1..Len(s) -> S] /\ Len(s) \in Nat
    OBVIOUS
  <2>2. s \in [1..Len(s) -> T]
    BY <2>1
  <2> QED
    BY <2>1, <2>2
<1> QED
  BY <1>1

LEMMA InitIInv == Init => IInv
<1> SUFFICES ASSUME Init PROVE IInv
  OBVIOUS
<1>1. TypeOK
  BY TypeInit
<1>2. RowsAreFresh
  BY EmptySeq DEF Init, RowsAreFresh, Empty
<1>3. LogIsBehindCounter
  BY DEF Init, LogIsBehindCounter, NoWrite
<1>4. ServerIsBehindClock
  <2>1. ASSUME NEW id \in Ids
        PROVE  server[id].rev <= 1
    <3>1. server[id] \in {[state |-> "live", body |-> 1, rev |-> 1],
                         [state |-> "none", body |-> 0, rev |-> 0]}
      BY DEF Init
    <3>2. server[id].rev \in {0, 1}
      BY <3>1
    <3> QED
      BY <3>2
  <2> QED
    BY <2>1 DEF Init, ServerIsBehindClock
<1>5. LandingsAreLogged
  BY DEF Init, LandingsAreLogged, NoLanding
<1>6. ASSUME NEW t \in Threads
      PROVE  OpOK(t)
  <2>1. op[t] = Idle /\ era = 0 /\ writes = 0
    BY DEF Init
  <2>2. op[t].pc = "idle" /\ op[t].mark.era = 0 /\ op[t].mark.writes = 0
    BY <2>1 DEF Idle
  <2> QED
    BY <2>1, <2>2 DEF OpOK, MarkOK, FetchOK, CopyOK
<1> QED
  BY <1>1, <1>2, <1>3, <1>4, <1>5, <1>6 DEF IInv

(* A step that changes nothing but one operation. *)
LEMMA OnlyOp ==
  ASSUME IInv, TypeOK', NEW t \in Threads, \A u \in Threads : u # t => op'[u] = op[u],
         UNCHANGED <<server, clock, items, era, writes, pending, landed>>,
         OpOK(t)'
  PROVE  IInv'
<1> USE DEF IInv
<1>1. \A id \in Ids : Fresh(id)' = Fresh(id)
  BY DEF Fresh
<1>2. RowsAreFresh'
  BY <1>1 DEF RowsAreFresh
<1>3. LogIsBehindCounter' /\ ServerIsBehindClock' /\ LandingsAreLogged'
  BY DEF LogIsBehindCounter, ServerIsBehindClock, LandingsAreLogged, Reached, Reflects
<1>4. ASSUME NEW u \in Threads, u # t
      PROVE  OpOK(u)'
  <2>1. op'[u] = op[u] /\ OpOK(u)
    BY <1>4
  <2>2. op[u].id \in Ids
    BY <1>4, OpFacts
  <2>3. MarkOK(u)'
    BY <2>1 DEF OpOK, MarkOK
  <2>4. FetchOK(u)'
    BY <1>1, <2>1 DEF OpOK, FetchOK, Reflects
  <2>5. CopyOK(u)'
    BY <1>1, <2>1, <2>2 DEF OpOK, CopyOK, Reached, Removes
  <2> QED
    BY <2>3, <2>4, <2>5 DEF OpOK
<1> QED
  BY <1>2, <1>3, <1>4

LEMMA IdleIsOK ==
  ASSUME TypeOK', NEW t \in Threads, op'[t] = Idle
  PROVE  OpOK(t)'
<1>1. era' \in Nat /\ writes' \in Nat
  BY DEF TypeOK
<1> QED
  BY <1>1 DEF OpOK, MarkOK, FetchOK, CopyOK, Idle

(* A change of the server: what was fresh and reached stays so. *)
LEMMA ServerStep ==
  ASSUME IInv, TypeOK', NEW id \in Ids, NEW row \in ServerRow, row.rev = clock + 1,
         server' = [server EXCEPT ![id] = row], clock' = clock + 1,
         UNCHANGED <<items, era, writes, pending, landed>>
  PROVE  /\ RowsAreFresh' /\ LogIsBehindCounter' /\ ServerIsBehindClock' /\ LandingsAreLogged'
         /\ \A j \in Ids : Fresh(j) \subseteq Fresh(j)'
         /\ \A j \in Ids, rev \in Nat, d \in BOOLEAN :
               Reached(j, rev, d) => Reached(j, rev, d)'
         /\ \A u \in Threads : op'[u] = op[u] => OpOK(u)'
<1> USE DEF IInv
<1>0. /\ clock \in Nat
      /\ \A j \in Ids : server[j].rev \in Nat /\ server[j].rev <= clock
      /\ \A j \in Ids : server'[j].rev = IF j = id THEN clock + 1 ELSE server[j].rev
      /\ \A j \in Ids : j # id => server'[j] = server[j]
  BY RowType DEF TypeOK, ServerIsBehindClock, ServerRow
<1>1. \A j \in Ids : server[j].rev <= server'[j].rev
  BY <1>0
<1>2. ASSUME NEW j \in Ids
      PROVE  Fresh(j) \subseteq Fresh(j)'
  <2>1. ASSUME NEW v \in Fresh(j)
        PROVE  v \in Fresh(j)'
    BY <1>0, <1>1, <2>1 DEF Fresh, Value
  <2> QED
    BY <2>1
<1>3. ASSUME NEW j \in Ids, NEW rev \in Nat, NEW d \in BOOLEAN, Reached(j, rev, d)
      PROVE  Reached(j, rev, d)'
  BY <1>0, <1>3 DEF Reached
<1>4. RowsAreFresh'
  BY <1>2, SeqMonotone DEF RowsAreFresh
<1>5. LogIsBehindCounter'
  BY DEF LogIsBehindCounter
<1>6. ServerIsBehindClock'
  BY <1>0 DEF ServerIsBehindClock
<1>7. LandingsAreLogged'
  <2>1. ASSUME NEW j \in Ids, landed[j].rev # 0
        PROVE  Reached(j, landed[j].rev, landed[j].deleted)'
    <3>1. Reached(j, landed[j].rev, landed[j].deleted)
      BY <2>1 DEF LandingsAreLogged
    <3>2. landed[j].rev \in Nat /\ landed[j].deleted \in BOOLEAN /\ landed' = landed
      BY DEF TypeOK, Landing
    <3> QED
      BY <1>0, <3>1, <3>2 DEF Reached
  <2> QED
    BY <2>1 DEF LandingsAreLogged, Reflects
<1>8. ASSUME NEW u \in Threads, op'[u] = op[u]
      PROVE  OpOK(u)'
  <2>1. OpOK(u) /\ op[u].id \in Ids /\ op[u].copy.rev \in Nat /\ op[u].live \in BOOLEAN
    BY OpFacts
  <2>2. MarkOK(u)'
    BY <1>8, <2>1 DEF OpOK, MarkOK
  <2>3. FetchOK(u)'
    BY <1>2, <1>8, <2>1, SeqMonotone DEF OpOK, FetchOK, Reflects
  <2>4. CopyOK(u)'
    BY <1>0, <1>2, <1>8, <2>1 DEF OpOK, CopyOK, Reached, Removes
  <2> QED
    BY <2>2, <2>3, <2>4 DEF OpOK
<1> QED
  BY <1>2, <1>3, <1>4, <1>5, <1>6, <1>7, <1>8

(* A landing: the copies of one id change, with an entry in the log. *)
LEMMA LandStep ==
  ASSUME IInv, TypeOK', NEW t \in Threads, End(t), NEW id \in Ids, UNCHANGED <<server, clock>>,
         NEW copies \in Seq(Fresh(id)), NEW deleted \in BOOLEAN, NEW rev \in Nat,
         copies # <<>> \/ deleted, deleted => Reached(id, rev, TRUE),
         Land(id, copies, deleted, rev)
  PROVE  IInv'
<1> USE DEF IInv
<1>1. /\ writes' = writes + 1
      /\ pending' = [pending EXCEPT ![id] = [seq |-> writes + 1, deleted |-> deleted]]
      /\ items' = [items EXCEPT ![id] = copies]
      /\ era' = era
  BY DEF Land, Note
<1>2. /\ writes \in Nat
      /\ pending'[id].seq = writes + 1 /\ pending'[id].deleted = deleted /\ items'[id] = copies
      /\ \A j \in Ids : j # id => pending'[j] = pending[j] /\ items'[j] = items[j] /\ landed'[j] = landed[j]
  BY <1>1 DEF TypeOK, Land
<1>3. \A j \in Ids : Fresh(j)' = Fresh(j)
  BY <1>1 DEF Fresh
<1>4. RowsAreFresh'
  BY <1>2, <1>3 DEF RowsAreFresh
<1>5. LogIsBehindCounter'
  <2>1. \A j \in Ids : pending[j].seq \in Nat /\ pending[j].seq <= writes
    BY DEF TypeOK, PendingWrite, LogIsBehindCounter
  <2> QED
    BY <1>1, <1>2, <2>1 DEF LogIsBehindCounter
<1>6. ServerIsBehindClock'
  BY DEF ServerIsBehindClock
<1>7. LandingsAreLogged'
  <2>1. ASSUME NEW j \in Ids, j # id, landed'[j].rev # 0
        PROVE  /\ Reached(j, landed[j].rev, landed[j].deleted)'
               /\ pending'[j].seq > 0
               /\ pending'[j].deleted = landed'[j].deleted
               /\ Reflects(items'[j], landed'[j])
    BY <1>2, <2>1 DEF LandingsAreLogged, Reached
  <2>2. ASSUME landed'[id].rev # 0
        PROVE  /\ Reached(id, landed'[id].rev, landed'[id].deleted)
               /\ pending'[id].seq > 0
               /\ pending'[id].deleted = landed'[id].deleted
               /\ Reflects(items'[id], landed'[id])
    <3>1. CASE ~deleted
      <4>1. landed'[id] = [rev |-> Head(copies).rev, deleted |-> FALSE]
        BY <3>1 DEF Land, TypeOK
      <4>2. Head(copies) \in Fresh(id)
        BY <3>1, HeadTail
      <4>3. Head(copies).rev \in Nat /\ Head(copies).rev <= server[id].rev
        BY <4>2 DEF Fresh, Value
      <4>4. landed'[id].rev = Head(copies).rev /\ ~landed'[id].deleted
        BY <4>1
      <4>5. Reached(id, landed'[id].rev, landed'[id].deleted)
        BY <4>3, <4>4 DEF Reached
      <4>6. Reflects(items'[id], landed'[id])
        BY <1>2, <3>1, <4>3, <4>4 DEF Reflects
      <4>7. pending'[id].seq > 0
        BY <1>2
      <4>8. landed'[id].deleted = FALSE
        BY <4>1
      <4>9. pending'[id].deleted = landed'[id].deleted
        BY <1>2, <3>1, <4>8
      <4> QED
        BY <4>5, <4>6, <4>7, <4>9
    <3>2. CASE deleted /\ copies = <<>>
      <4>1. landed'[id] = [rev |-> rev, deleted |-> TRUE]
        BY <3>2 DEF Land, TypeOK
      <4> QED
        BY <1>2, <3>2, <4>1 DEF Reached, Reflects
    <3>3. CASE deleted /\ copies # <<>>
      <4>1. landed'[id] = NoLanding
        BY <3>3 DEF Land, TypeOK
      <4> QED
        BY <2>2, <4>1 DEF NoLanding
    <3> QED
      BY <3>1, <3>2, <3>3
  <2>3. ASSUME NEW j \in Ids, landed'[j].rev # 0
        PROVE  /\ Reached(j, landed'[j].rev, landed'[j].deleted)
               /\ pending'[j].seq > 0
               /\ pending'[j].deleted = landed'[j].deleted
               /\ Reflects(items'[j], landed'[j])
    BY <1>2, <2>1, <2>2, <2>3 DEF Reached
  <2>4. \A j \in Ids : server'[j] = server[j]
    OBVIOUS
  <2> QED
    BY <2>3, <2>4 DEF LandingsAreLogged, Reached
<1>8. ASSUME NEW u \in Threads
      PROVE  OpOK(u)'
  <2>1. CASE u = t
    BY <2>1, EndFacts, IdleIsOK
  <2>2. CASE u # t
    <3>1. op'[u] = op[u] /\ OpOK(u) /\ op[u].id \in Ids /\ op[u].mark \in Mark
      BY <2>2, EndFacts, OpFacts
    <3>2. MarkOK(u)'
      BY <1>1, <1>2, <3>1 DEF OpOK, MarkOK, Mark
    <3>3. FetchOK(u)'
      <4>1. op[u].mark.writes \in Nat /\ op[u].mark.writes <= writes
        BY <3>1 DEF OpOK, MarkOK, Mark
      <4>2. ~(pending'[id].seq <= op[u].mark.writes)
        BY <1>2, <4>1
      <4> QED
        BY <1>1, <1>2, <1>3, <3>1, <4>2 DEF OpOK, FetchOK, Reflects
    <3>4. CopyOK(u)'
      BY <1>1, <1>3, <3>1 DEF OpOK, CopyOK, Reached, Removes
    <3> QED
      BY <3>2, <3>3, <3>4 DEF OpOK
  <2> QED
    BY <2>1, <2>2
<1> QED
  BY <1>4, <1>5, <1>6, <1>7, <1>8

(* The one step that replaces the snapshot wholesale. *)
LEMMA WriteBackStep ==
  ASSUME IInv, TypeOK', NEW t \in Loaders, WriteBack(t)
  PROVE  IInv'
<1> USE DEF IInv
<1>0. /\ t \in Threads
      /\ op[t].pc = "writeBack" /\ op[t].mark.era = era
      /\ UNCHANGED <<server, clock, era, writes, pending>>
      /\ FetchOK(t)
  BY DEF WriteBack, Threads, OpOK
<1>1. \A id \in Ids : Fresh(id)' = Fresh(id)
  BY <1>0 DEF Fresh
<1> DEFINE f(id) == op[t].fetched[id]
           since == op[t].mark.writes
<1>2. \A id \in Ids : /\ items'[id] = Replayed(id, f(id), since)
                      /\ landed'[id] = IF items'[id] = <<>> /\ ~landed[id].deleted
                                       THEN NoLanding ELSE landed[id]
  BY DEF WriteBack
<1>3. \A id \in Ids : /\ f(id) \in Seq(Fresh(id))
                      /\ pending[id].seq <= since => f(id) = <<>> \/ Reflects(f(id), landed[id])
  BY <1>0 DEF FetchOK
<1>4. RowsAreFresh'
  <2>1. ASSUME NEW id \in Ids
        PROVE  items'[id] \in Seq(Fresh(id))
    <3>1. items[id] \in Seq(Fresh(id)) /\ f(id) \in Seq(Fresh(id))
      BY <1>3 DEF RowsAreFresh
    <3> HIDE DEF f, since
    <3>2. Replayed(id, f(id), since) \in Seq(Fresh(id))
      BY <3>1, ReplayedIn
    <3> QED
      BY <1>2, <3>2
  <2> QED
    BY <1>1, <2>1 DEF RowsAreFresh
<1>5. LogIsBehindCounter' /\ ServerIsBehindClock'
  BY <1>0 DEF LogIsBehindCounter, ServerIsBehindClock
<1>6. LandingsAreLogged'
  <2>1. ASSUME NEW id \in Ids, landed'[id].rev # 0
        PROVE  /\ Reached(id, landed'[id].rev, landed'[id].deleted)
               /\ pending[id].seq > 0
               /\ pending[id].deleted = landed'[id].deleted
               /\ Reflects(items'[id], landed'[id])
    <3>1. landed'[id] = landed[id] /\ (items'[id] # <<>> \/ landed[id].deleted)
      BY <1>2, <2>1 DEF NoLanding
    <3>2. /\ Reached(id, landed[id].rev, landed[id].deleted)
          /\ pending[id].seq > 0
          /\ pending[id].deleted = landed[id].deleted
          /\ Reflects(items[id], landed[id])
      BY <2>1, <3>1 DEF LandingsAreLogged
    <3>3. Reflects(items'[id], landed[id])
      <4>1. CASE pending[id].seq <= since
        <5>1. items'[id] = f(id)
          BY <1>2, <4>1 DEF Replayed
        <5>2. f(id) = <<>> \/ Reflects(f(id), landed[id])
          BY <1>3, <4>1
        <5> QED
          BY <3>1, <5>1, <5>2 DEF Reflects
      <4>2. CASE ~(pending[id].seq <= since) /\ pending[id].deleted
        <5>1. items'[id] = <<>>
          BY <1>2, <4>2 DEF Replayed
        <5> QED
          BY <3>2, <4>2, <5>1 DEF Reflects
      <4>3. CASE ~(pending[id].seq <= since) /\ ~pending[id].deleted
        <5>1. items[id] # <<>>
          BY <2>1, <3>1, <3>2, <4>3 DEF Reflects
        <5>2. items'[id] = PutFirst(f(id), Head(items[id]))
          BY <1>2, <4>3, <5>1 DEF Replayed
        <5>3. items[id] \in Seq(Fresh(id)) /\ f(id) \in Seq(Fresh(id))
          BY <1>3 DEF RowsAreFresh
        <5>4. Head(items[id]) \in Fresh(id)
          BY <5>1, <5>3, HeadTail
        <5> HIDE DEF f, since
        <5>5. PutFirst(f(id), Head(items[id])) # <<>> /\ Head(PutFirst(f(id), Head(items[id]))) = Head(items[id])
          BY <5>3, <5>4, PutFirstFacts
        <5> QED
          BY <3>2, <5>1, <5>2, <5>5 DEF Reflects
      <4> QED
        BY <4>1, <4>2, <4>3
    <3> QED
      BY <3>1, <3>2, <3>3
  <2> QED
    BY <1>0, <2>1 DEF LandingsAreLogged, Reached
<1>7. ASSUME NEW u \in Threads
      PROVE  OpOK(u)'
  <2>1. CASE u = t
    BY <1>0, <2>1, EndFacts, IdleIsOK DEF WriteBack
  <2>2. CASE u # t
    <3>1. op'[u] = op[u] /\ OpOK(u) /\ op[u].id \in Ids
      BY <1>0, <2>2, EndFacts, OpFacts DEF WriteBack
    <3>2. \A id \in Ids : landed'[id] = landed[id] \/ landed'[id].rev = 0
      BY <1>2 DEF NoLanding
    <3>3. MarkOK(u)'
      BY <1>0, <3>1 DEF OpOK, MarkOK
    <3>4. FetchOK(u)'
      BY <1>0, <1>1, <3>1, <3>2 DEF OpOK, FetchOK, Reflects
    <3>5. CopyOK(u)'
      BY <1>0, <1>1, <3>1 DEF OpOK, CopyOK, Reached, Removes
    <3> QED
      BY <3>3, <3>4, <3>5 DEF OpOK
  <2> QED
    BY <2>1, <2>2
<1> QED
  BY <1>4, <1>5, <1>6, <1>7

(* A clear starts an era no operation in flight belongs to. *)
LEMMA ClearStep ==
  ASSUME IInv, TypeOK', Clear
  PROVE  IInv'
<1> USE DEF IInv
<1>1. /\ era' = era + 1 /\ era \in Nat
      /\ UNCHANGED <<server, clock, writes, op>>
      /\ items' = Empty
      /\ pending' = [id \in Ids |-> NoWrite]
      /\ landed' = [id \in Ids |-> NoLanding]
      /\ op[Main].pc = "idle"
  BY DEF Clear, TypeOK
<1>2. RowsAreFresh'
  BY <1>1, EmptySeq DEF RowsAreFresh, Empty
<1>3. LogIsBehindCounter'
  BY <1>1 DEF LogIsBehindCounter, NoWrite, TypeOK
<1>4. ServerIsBehindClock'
  BY <1>1 DEF ServerIsBehindClock
<1>5. LandingsAreLogged'
  BY <1>1 DEF LandingsAreLogged, NoLanding
<1>6. ASSUME NEW u \in Threads
      PROVE  OpOK(u)'
  <2>1. OpOK(u) /\ op'[u] = op[u] /\ op[u].mark.era \in Nat
    BY <1>1, OpFacts DEF Mark
  <2>2. op[u].mark.era # era' /\ op[u].mark.era <= era'
    BY <1>1, <2>1 DEF OpOK, MarkOK
  <2>3. MarkOK(u)'
    BY <1>1, <2>1, <2>2 DEF OpOK, MarkOK
  <2>4. FetchOK(u)'
    BY <2>1, <2>2 DEF FetchOK
  <2>5. CopyOK(u)'
    BY <1>1, <2>1, <2>2 DEF OpOK, CopyOK, Reached, Removes
  <2> QED
    BY <2>3, <2>4, <2>5 DEF OpOK
<1> QED
  BY <1>2, <1>3, <1>4, <1>5, <1>6

LEMMA PopulatingStep ==
  ASSUME IInv, NEW t \in Loaders, Populating(t)
  PROVE  IInv'
<1> USE DEF IInv
<1>0. t \in Threads /\ OpOK(t) /\ op[t] \in Op
  BY OpFacts DEF Threads
<1>1. TypeOK'
  BY TypePopulating
<1>2. CASE BeginPopulate(t)
  <2> DEFINE o == [Idle EXCEPT !.kind = "populate", !.pc = "fetchItems", !.mark = Epoch]
  <2>1. o \in Op /\ o.pc = "fetchItems" /\ o.mark = Epoch
    BY IdleIsAnOp, RowType, IdsAssumption DEF Op, Steps, OpKinds, Idle
  <2>2. op'[t] = o /\ \A u \in Threads : u # t => op'[u] = op[u]
    BY <1>0, <1>2, <2>1, BecomesFacts DEF BeginPopulate
  <2> HIDE DEF o
  <2>3. UNCHANGED <<server, clock, items, era, writes, pending, landed>>
    BY <1>2 DEF BeginPopulate, cacheVars
  <2>4. era \in Nat /\ writes \in Nat
    BY DEF TypeOK
  <2>5. op'[t].mark.era = era' /\ op'[t].mark.writes = writes' /\ op'[t].pc = "fetchItems"
    BY <2>1, <2>2, <2>3 DEF Epoch
  <2>6. OpOK(t)'
    BY <2>3, <2>4, <2>5 DEF OpOK, MarkOK, FetchOK, CopyOK
  <2> QED
    BY <1>0, <1>1, <2>2, <2>3, <2>6, OnlyOp
<1>3. CASE FetchItems(t) \/ FetchFolders(t)
  <2> DEFINE pc == IF op[t].pc = "fetchItems" THEN "fetchFolders" ELSE "writeBack"
             f == IF op[t].pc = "fetchItems"
                    THEN [id \in Ids |-> IF id \in ItemIds THEN Listed(id) ELSE <<>>]
                    ELSE [id \in Ids |-> IF id \in FolderIds THEN Listed(id) ELSE op[t].fetched[id]]
             o == [op[t] EXCEPT !.pc = pc, !.fetched = f]
  <2>1. Becomes(t, o) /\ op[t].pc \in {"fetchItems", "fetchFolders"}
    BY <1>3 DEF FetchItems, FetchFolders
  <2>2. UNCHANGED <<server, clock, items, era, writes, pending, landed>>
    BY <1>3 DEF FetchItems, FetchFolders, cacheVars
  <2>3. f \in [Ids -> Seq(Value)] /\ pc \in {"fetchFolders", "writeBack"}
    BY <1>0, RowType, OpFacts, EmptySeq
  <2>4. /\ \A id \in Ids : f[id] = IF op[t].pc = "fetchItems"
                                   THEN IF id \in ItemIds THEN Listed(id) ELSE <<>>
                                   ELSE IF id \in FolderIds THEN Listed(id) ELSE op[t].fetched[id]
    OBVIOUS
  <2>5. pc = "writeBack" => op[t].pc = "fetchFolders"
    BY <2>1
  <2> HIDE DEF f, pc
  <2>6. /\ o \in Op
        /\ o.pc = pc /\ o.fetched = f /\ o.mark = op[t].mark /\ o.kind = op[t].kind
    BY <1>0, <2>3, OpFacts DEF Op, Steps
  <2> HIDE DEF o
  <2>7. op'[t] = o /\ \A u \in Threads : u # t => op'[u] = op[u]
    BY <1>0, <2>1, <2>6, BecomesFacts
  <2>8. MarkOK(t)' /\ CopyOK(t)'
    BY <1>0, <2>2, <2>3, <2>6, <2>7 DEF OpOK, MarkOK, CopyOK
  <2>9. FetchOK(t)'
    <3> SUFFICES ASSUME op[t].mark.era = era, NEW id \in Ids
                 PROVE  /\ f[id] \in Seq(Fresh(id))
                        /\ (pc = "writeBack" \/ id \in ItemIds) /\ pending[id].seq <= op[t].mark.writes
                             => f[id] = <<>> \/ Reflects(f[id], landed[id])
      BY <2>2, <2>6, <2>7 DEF FetchOK, Reflects, Fresh
    <3>1. /\ Listed(id) \in Seq(Fresh(id))
          /\ Listed(id) = <<>> \/ Reflects(Listed(id), landed[id])
      <4>1. Row(id) \in Value /\ server[id] \in ServerRow /\ Row(id).rev = server[id].rev /\ Row(id).born = era
        BY RowType DEF Row
      <4>2. Row(id) \in Fresh(id)
        BY <4>1 DEF Fresh, Value
      <4>3. Listed(id) \in Seq(Fresh(id))
        BY <4>2, EmptySeq DEF Listed
      <4>4. ASSUME server[id].state = "live", landed[id].rev # 0
            PROVE  Reflects(<<Row(id)>>, landed[id])
        <5>1. Reached(id, landed[id].rev, landed[id].deleted)
          BY <4>4 DEF LandingsAreLogged
        <5>2. Head(<<Row(id)>>) = Row(id) /\ <<Row(id)>> # <<>>
          OBVIOUS
        <5>3. landed[id].rev \in Nat /\ landed[id].deleted \in BOOLEAN /\ server[id].rev \in Nat
          BY <4>1 DEF TypeOK, Landing, ServerRow
        <5> QED
          BY <4>1, <4>4, <5>1, <5>2, <5>3 DEF Reached, Reflects
      <4> QED
        BY <4>3, <4>4 DEF Listed, Reflects
    <3>2. CASE op[t].pc = "fetchItems"
      BY <2>4, <2>5, <3>1, <3>2, EmptySeq
    <3>3. CASE op[t].pc = "fetchFolders"
      <4>1. /\ op[t].fetched[id] \in Seq(Fresh(id))
            /\ id \in ItemIds /\ pending[id].seq <= op[t].mark.writes
                 => op[t].fetched[id] = <<>> \/ Reflects(op[t].fetched[id], landed[id])
        BY <1>0, <3>3 DEF OpOK, FetchOK
      <4>2. id \in ItemIds \/ id \in FolderIds
        BY DEF Ids
      <4> QED
        BY <2>4, <3>1, <3>3, <4>1, <4>2
    <3> QED
      BY <2>1, <3>2, <3>3
  <2> QED
    BY <1>0, <1>1, <2>2, <2>7, <2>8, <2>9, OnlyOp DEF OpOK
<1>4. CASE FetchFails(t) \/ DiscardStale(t)
  <2>1. End(t) /\ UNCHANGED <<server, clock, items, era, writes, pending, landed>>
    BY <1>4 DEF FetchFails, DiscardStale, cacheVars
  <2>2. op'[t] = Idle /\ \A u \in Threads : u # t => op'[u] = op[u]
    BY <1>0, <2>1, EndFacts
  <2> QED
    BY <1>0, <1>1, <2>1, <2>2, IdleIsOK, OnlyOp
<1>5. CASE WriteBack(t)
  BY <1>1, <1>5, WriteBackStep
<1> QED
  BY <1>2, <1>3, <1>4, <1>5 DEF Populating

LEMMA AnnouncingStep ==
  ASSUME IInv, NEW t \in Loaders, Announcing(t)
  PROVE  IInv'
<1> USE DEF IInv
<1>0. /\ t \in Threads /\ t # Main /\ OpOK(t) /\ op[t] \in Op
      /\ op[t].id \in Ids /\ op[t].copy.rev \in Nat /\ op[t].live \in BOOLEAN
  BY OpFacts, ThreadsAssumption DEF Threads
<1>1. TypeOK'
  BY TypeAnnouncing
<1>2. ASSUME NEW o \in Op, Becomes(t, o), o.mark.era <= era, o.mark.writes <= writes,
             o.pc \in {"check", "get", "land"},
             o.pc = "land" => o.copy \in Fresh(o.id) /\ Reached(o.id, o.copy.rev, Removes(o)),
             o.pc = "check" /\ o.kind = "removed" => Reached(o.id, o.copy.rev, TRUE),
             UNCHANGED <<server, clock, cacheVars, shown, landed>>
      PROVE  IInv'
  <2>1. op'[t] = o /\ \A u \in Threads : u # t => op'[u] = op[u]
    BY <1>0, <1>2, BecomesFacts
  <2>2. UNCHANGED <<server, clock, items, era, writes, pending, landed>>
    BY <1>2 DEF cacheVars
  <2>3. MarkOK(t)' /\ FetchOK(t)'
    BY <1>2, <2>1, <2>2 DEF MarkOK, FetchOK
  <2>4. CopyOK(t)'
    BY <1>2, <2>1, <2>2 DEF CopyOK, Fresh, Reached, Removes
  <2> QED
    BY <1>0, <1>1, <2>1, <2>2, <2>3, <2>4, OnlyOp DEF OpOK
<1>3. ASSUME End(t), UNCHANGED <<server, clock, cacheVars, shown, landed>>
      PROVE  IInv'
  <2>1. op'[t] = Idle /\ \A u \in Threads : u # t => op'[u] = op[u]
    BY <1>0, <1>3, EndFacts
  <2>2. UNCHANGED <<server, clock, items, era, writes, pending, landed>>
    BY <1>3 DEF cacheVars
  <2> QED
    BY <1>0, <1>1, <2>1, <2>2, IdleIsOK, OnlyOp
<1>4. ASSUME NEW id \in Ids, AnnounceChanged(t, id) \/ AnnounceRemoved(t, id)
      PROVE  IInv'
  <2>1. PICK kind \in {"changed", "removed"}, rev \in {0, server[id].rev} :
           /\ Announced(t, id, kind, rev)
           /\ kind = "removed" => rev = server[id].rev /\ server[id].state # "live"
    BY <1>4 DEF AnnounceChanged, AnnounceRemoved
  <2> DEFINE o == [Idle EXCEPT !.kind = kind, !.pc = "check", !.id = id,
                               !.mark = [era |-> era, writes |-> 0, clock |-> 0],
                               !.copy = [body |-> 0, rev |-> rev, born |-> era]]
  <2>2. rev \in Nat /\ era \in Nat /\ writes \in Nat /\ server[id].rev \in Nat
    BY RowType DEF TypeOK, ServerRow
  <2>3. /\ o \in Op /\ o.kind = kind /\ o.pc = "check" /\ o.id = id
        /\ o.mark.era = era /\ o.mark.writes = 0 /\ o.copy.rev = rev
    BY <2>2, IdleIsAnOp DEF Op, Mark, Value, Steps, OpKinds, Idle
  <2>4. Becomes(t, o) /\ UNCHANGED <<server, clock, cacheVars, shown, landed>>
    BY <2>1 DEF Announced
  <2> HIDE DEF o
  <2>5. o.kind = "removed" => Reached(o.id, o.copy.rev, TRUE)
    BY <2>1, <2>2, <2>3 DEF Reached
  <2>6. o.mark.era <= era /\ o.mark.writes <= writes
    BY <2>2, <2>3
  <2>7. o.pc \in {"check", "get", "land"} /\ o.pc # "land"
    BY <2>3
  <2> QED
    BY <1>2, <2>3, <2>4, <2>5, <2>6, <2>7
<1>5. CASE AnnouncedTooLate(t) \/ SkipChanged(t)
  BY <1>3, <1>5 DEF AnnouncedTooLate, SkipChanged
<1>6. CASE ApplyRemoved(t)
  <2>1. <<>> \in Seq(Fresh(op[t].id))
    BY EmptySeq
  <2>2. Reached(op[t].id, op[t].copy.rev, TRUE)
    BY <1>0, <1>6 DEF ApplyRemoved, OpOK, CopyOK
  <2>3. /\ Land(op[t].id, <<>>, TRUE, op[t].copy.rev) /\ End(t)
        /\ UNCHANGED <<server, clock>>
    BY <1>6 DEF ApplyRemoved
  <2> QED
    BY <1>0, <1>1, <2>1, <2>2, <2>3, LandStep
<1>7. CASE CheckChanged(t)
  <2> DEFINE o == [op[t] EXCEPT !.pc = "get"]
  <2>1. o \in Op /\ o.pc = "get" /\ o.mark = op[t].mark
    BY <1>0 DEF Op, Steps
  <2>2. Becomes(t, o) /\ UNCHANGED <<server, clock, cacheVars, shown, landed>>
    BY <1>7 DEF CheckChanged
  <2>3. op[t].mark.era <= era /\ op[t].mark.writes <= writes
    BY <1>0 DEF OpOK, MarkOK
  <2> HIDE DEF o
  <2> QED
    BY <1>2, <2>1, <2>2, <2>3
<1>8. CASE GetChanged(t)
  <2> DEFINE o == [op[t] EXCEPT !.pc = "land", !.copy = Row(op[t].id),
                                !.live = (server[op[t].id].state = "live")]
  <2>1. /\ Row(op[t].id) \in Value /\ Row(op[t].id).rev = server[op[t].id].rev
        /\ Row(op[t].id).born = era /\ server[op[t].id].rev \in Nat
    BY <1>0, RowType DEF Row, ServerRow
  <2>2. Row(op[t].id) \in Fresh(op[t].id)
    BY <2>1 DEF Fresh
  <2>3. /\ o \in Op /\ o.pc = "land" /\ o.mark = op[t].mark /\ o.kind = op[t].kind
        /\ o.id = op[t].id /\ o.copy = Row(op[t].id) /\ o.live = (server[op[t].id].state = "live")
    BY <1>0, <2>1 DEF Op, Steps
  <2>4. /\ Becomes(t, o) /\ op[t].kind = "changed"
        /\ UNCHANGED <<server, clock, cacheVars, shown, landed>>
    BY <1>8 DEF GetChanged
  <2>5. op[t].mark.era <= era /\ op[t].mark.writes <= writes
    BY <1>0 DEF OpOK, MarkOK
  <2> HIDE DEF o
  <2>6. Reached(o.id, o.copy.rev, Removes(o))
    <3>1. o.live => server[o.id].state = "live"
      BY <2>3
    <3>2. ~o.live => server[o.id].state # "live"
      BY <2>3
    <3>3. o.copy.rev = server[o.id].rev /\ server[o.id].rev \in Nat
      BY <2>1, <2>3
    <3>4. o.kind # "remove"
      BY <2>3, <2>4
    <3>5. Removes(o) => ~o.live
      BY <3>4 DEF Removes
    <3> QED
      BY <3>1, <3>2, <3>3, <3>5 DEF Reached
  <2> QED
    BY <1>2, <2>2, <2>3, <2>4, <2>5, <2>6
<1>9. CASE LandChanged(t)
  <2> DEFINE id == op[t].id
             copy == op[t].copy
             live == op[t].live
             rest == IF items[id] = <<>> THEN <<>> ELSE Tail(items[id])
             copies == IF live THEN <<copy>> \o rest ELSE rest
  <2>1. copy \in Fresh(id) /\ (~live => Reached(id, copy.rev, TRUE))
    <3>1. op[t].pc = "land" /\ op[t].mark.era = era
      BY <1>9 DEF LandChanged, StillCurrent
    <3>2. CopyOK(t)
      BY <1>0 DEF OpOK
    <3>3. copy \in Fresh(id)
      BY <3>1, <3>2 DEF CopyOK
    <3>4. ASSUME ~live
          PROVE  Reached(id, copy.rev, TRUE)
      <4>1. Reached(id, copy.rev, Removes(op[t]))
        BY <3>1, <3>2 DEF CopyOK
      <4>2. Removes(op[t])
        BY <1>9, <3>4 DEF LandChanged, Removes
      <4> QED
        BY <4>1, <4>2 DEF Reached
    <3> QED
      BY <3>3, <3>4
  <2>2. items[id] \in Seq(Fresh(id))
    BY <1>0 DEF RowsAreFresh
  <2>3. Land(id, copies, ~live, copy.rev) /\ End(t) /\ UNCHANGED <<server, clock>>
    BY <1>9 DEF LandChanged
  <2>4. rest \in Seq(Fresh(id))
    BY <2>2, HeadTail, EmptySeq
  <2> HIDE DEF rest
  <2>5. <<copy>> \o rest \in Seq(Fresh(id)) /\ <<copy>> \o rest # <<>>
    BY <2>1, <2>4, Cons
  <2>6. copies \in Seq(Fresh(id)) /\ (copies # <<>> \/ ~live)
    BY <2>4, <2>5
  <2>7. id \in Ids /\ copy.rev \in Nat /\ (~live) \in BOOLEAN
    BY <1>0
  <2> HIDE DEF id, copy, live, copies
  <2> QED
    BY <1>0, <1>1, <2>1, <2>3, <2>6, <2>7, LandStep
<1> QED
  BY <1>4, <1>5, <1>6, <1>7, <1>8, <1>9 DEF Announcing

(* A write's call: the server changes and the main thread's operation      *)
(* carries what the call answered.                                         *)
LEMMA CallStep ==
  ASSUME IInv, TypeOK', NEW id \in Ids, NEW row \in ServerRow, row.rev = clock + 1,
         server' = [server EXCEPT ![id] = row], clock' = clock + 1,
         UNCHANGED <<items, era, writes, pending, landed>>,
         NEW o \in Op, Becomes(Main, o), o.id = id,
         o.mark.era <= era, o.mark.writes <= writes,
         o.pc \in {"readBack", "land"}, o.copy \in Value, o.copy.born = era,
         o.copy.rev <= row.rev,
         o.pc = "land" /\ Removes(o) => row.state # "live"
  PROVE  IInv'
<1>0. Main \in Threads /\ TypeOK
  BY DEF Threads, IInv
<1>1. op'[Main] = o /\ \A u \in Threads : u # Main => op'[u] = op[u]
  BY <1>0, BecomesFacts
<1>2. server'[id] = row
  BY <1>0 DEF TypeOK
<1>3. /\ RowsAreFresh' /\ LogIsBehindCounter' /\ ServerIsBehindClock' /\ LandingsAreLogged'
      /\ \A u \in Threads : op'[u] = op[u] => OpOK(u)'
  BY ServerStep
<1>4. o.copy \in Fresh(id)'
  BY <1>2 DEF Fresh
<1>5. MarkOK(Main)' /\ FetchOK(Main)'
  BY <1>1 DEF MarkOK, FetchOK
<1>6. CopyOK(Main)'
  <2>1. o.pc = "land" => Reached(id, o.copy.rev, Removes(o))'
    BY <1>2 DEF Reached
  <2> QED
    BY <1>1, <1>4, <2>1 DEF CopyOK, Reached, Removes
<1> QED
  BY <1>1, <1>3, <1>5, <1>6 DEF IInv, OpOK

LEMMA CallingStep ==
  ASSUME IInv, TypeOK', NEW id \in Ids,
         CallCreate(id) \/ CallUpdate(id) \/ CallRemove(id) \/ BeginRevive(id)
  PROVE  IInv'
<1>0. /\ TypeOK /\ era \in Nat /\ writes \in Nat /\ clock \in Nat /\ server[id] \in ServerRow
      /\ server[id].body \in Nat /\ server[id].rev \in Nat
      /\ Main \in Threads
  BY RowType DEF IInv, TypeOK, ServerRow, Threads
<1>1. ASSUME NEW kind \in OpKinds, NEW pc \in {"call", "land"}, NEW copy \in Value
      PROVE  LET o == [Idle EXCEPT !.kind = kind, !.pc = pc, !.id = id, !.copy = copy]
             IN /\ o \in Op /\ o.kind = kind /\ o.pc = pc /\ o.id = id /\ o.copy = copy
                /\ o.mark.era <= era /\ o.mark.writes <= writes
                /\ Removes(o) => kind = "remove" \/ kind = "changed"
  <2> DEFINE o == [Idle EXCEPT !.kind = kind, !.pc = pc, !.id = id, !.copy = copy]
  <2>1. o \in Op
    BY IdleIsAnOp DEF Op, Steps
  <2>2. o.kind = kind /\ o.pc = pc /\ o.id = id /\ o.copy = copy /\ o.mark = Idle.mark
    BY IdleIsAnOp DEF Op
  <2>3. Idle.mark.era = 0 /\ Idle.mark.writes = 0
    BY DEF Idle
  <2> HIDE DEF o
  <2>4. o.mark.era <= era /\ o.mark.writes <= writes
    BY <1>0, <2>2, <2>3
  <2>5. Removes(o) => kind = "remove" \/ kind = "changed"
    BY <2>2 DEF Removes
  <2> QED
    BY <2>1, <2>2, <2>4, <2>5 DEF o
<1>2. ASSUME NEW row \in ServerRow, row.rev = clock + 1,
             server' = [server EXCEPT ![id] = row], clock' = clock + 1,
             NEW kind \in {"create", "update", "remove"}, NEW copy \in Value,
             copy.rev = clock + 1, copy.born = era,
             kind = "remove" => row.state # "live",
             Call(kind, id, copy, "land"),
             UNCHANGED <<cacheVars, shown, landed>>
      PROVE  IInv'
  <2> DEFINE o == [Idle EXCEPT !.kind = kind, !.pc = "land", !.id = id, !.copy = copy]
  <2>1. kind \in OpKinds
    BY DEF OpKinds
  <2>2. /\ o \in Op /\ o.kind = kind /\ o.pc = "land" /\ o.id = id /\ o.copy = copy
        /\ o.mark.era <= era /\ o.mark.writes <= writes
        /\ Removes(o) => kind = "remove"
    BY <1>1, <2>1
  <2>3. Becomes(Main, o) /\ UNCHANGED <<items, era, writes, pending, landed>>
    BY <1>2 DEF Call, cacheVars
  <2> HIDE DEF o
  <2>4. o.copy.rev <= row.rev /\ o.copy.born = era /\ o.copy \in Value
    BY <1>0, <1>2, <2>2
  <2>5. o.pc = "land" /\ Removes(o) => row.state # "live"
    BY <1>2, <2>2
  <2>6. o.pc \in {"readBack", "land"}
    BY <2>2
  <2> QED
    BY <1>2, <2>2, <2>3, <2>4, <2>5, <2>6, CallStep
<1>3. CASE CallCreate(id) \/ CallUpdate(id)
  <2> DEFINE row == [state |-> "live", body |-> clock + 1, rev |-> clock + 1]
             copy == [body |-> clock + 1, rev |-> clock + 1, born |-> era]
  <2>1. row \in ServerRow /\ row.rev = clock + 1
    BY <1>0 DEF ServerRow
  <2>2. copy \in Value /\ copy.rev = clock + 1 /\ copy.born = era
    BY <1>0 DEF Value
  <2>3. PICK kind \in {"create", "update"} :
          /\ Call(kind, id, copy, "land")
          /\ server' = [server EXCEPT ![id] = row] /\ clock' = clock + 1
          /\ UNCHANGED <<cacheVars, shown, landed>>
    BY <1>3 DEF CallCreate, CallUpdate, Tick, Rewritten
  <2>4. kind \in {"create", "update", "remove"} /\ kind # "remove"
    OBVIOUS
  <2> HIDE DEF row, copy
  <2> QED
    BY <1>2, <2>1, <2>2, <2>3, <2>4
<1>4. CASE CallRemove(id)
  <2> DEFINE row == [state |-> Removal(id), body |-> server[id].body, rev |-> clock + 1]
             copy == [body |-> server[id].body, rev |-> clock + 1, born |-> era]
  <2>1. row \in ServerRow /\ row.rev = clock + 1 /\ row.state # "live"
    BY <1>0 DEF ServerRow, Removal
  <2>2. copy \in Value /\ copy.rev = clock + 1 /\ copy.born = era
    BY <1>0 DEF Value
  <2>3. /\ Call("remove", id, copy, "land")
        /\ server' = [server EXCEPT ![id] = row] /\ clock' = clock + 1
        /\ UNCHANGED <<cacheVars, shown, landed>>
    BY <1>4 DEF CallRemove, Tick, Restated
  <2> HIDE DEF row, copy
  <2> QED
    BY <1>2, <2>1, <2>2, <2>3
<1>5. CASE BeginRevive(id)
  <2> DEFINE o == [Idle EXCEPT !.kind = "revive", !.pc = "call", !.id = id, !.copy = Row(id)]
  <2>1. /\ o \in Op /\ o.pc = "call" /\ o.id = id /\ o.copy = Row(id)
        /\ o.mark.era <= era /\ o.mark.writes <= writes
    <3>1. Row(id) \in Value /\ "revive" \in OpKinds
      BY <1>0, RowType DEF OpKinds
    <3>2. ASSUME NEW copy \in Value
          PROVE  LET r == [Idle EXCEPT !.kind = "revive", !.pc = "call", !.id = id, !.copy = copy]
                 IN /\ r \in Op /\ r.pc = "call" /\ r.id = id /\ r.copy = copy
                    /\ r.mark.era <= era /\ r.mark.writes <= writes
      BY <1>1, <3>1
    <3> QED
      BY <3>1, <3>2
  <2>2. Becomes(Main, o) /\ UNCHANGED <<server, clock, items, era, writes, pending, landed>>
    BY <1>5 DEF BeginRevive, Call, cacheVars
  <2> HIDE DEF o
  <2>3. op'[Main] = o /\ \A u \in Threads : u # Main => op'[u] = op[u]
    BY <1>0, <2>1, <2>2, BecomesFacts
  <2>4. Row(id) \in Value /\ Row(id).born = era /\ Row(id).rev = server[id].rev
    BY <1>0, RowType DEF Row
  <2>5. Row(id) \in Fresh(id)
    BY <1>0, <2>4 DEF Fresh
  <2>6. Fresh(id)' = Fresh(id)
    BY <2>2 DEF Fresh
  <2>7. MarkOK(Main)'
    BY <2>1, <2>2, <2>3 DEF MarkOK
  <2>8. FetchOK(Main)'
    BY <2>1, <2>3 DEF FetchOK
  <2>9. CopyOK(Main)'
    BY <2>1, <2>3, <2>5, <2>6 DEF CopyOK
  <2> QED
    BY <1>0, <2>2, <2>3, <2>7, <2>8, <2>9, OnlyOp DEF OpOK
<1> QED
  BY <1>3, <1>4, <1>5

LEMMA WritingStep ==
  ASSUME IInv, Writing
  PROVE  IInv'
<1>0. /\ TypeOK /\ Main \in Threads /\ OpOK(Main) /\ op[Main] \in Op
      /\ op[Main].id \in Ids /\ op[Main].copy.rev \in Nat
      /\ items[op[Main].id] \in Seq(Fresh(op[Main].id))
  BY OpFacts DEF IInv, Threads, RowsAreFresh
<1>1. TypeOK'
  BY <1>0, TypeWriting
<1>2. ASSUME NEW id \in Ids, CallCreate(id) \/ CallUpdate(id) \/ CallRemove(id) \/ BeginRevive(id)
      PROVE  IInv'
  BY <1>1, <1>2, CallingStep
<1>3. CASE CallRevive
  <2> DEFINE id == op[Main].id
             row == [state |-> "live", body |-> server[id].body, rev |-> clock + 1]
             o == [op[Main] EXCEPT !.pc = "readBack"]
  <2>1. clock \in Nat /\ server[id].body \in Nat /\ server[id].rev \in Nat /\ server[id].rev <= clock
    BY <1>0, RowType DEF IInv, TypeOK, ServerRow, ServerIsBehindClock
  <2>2. row \in ServerRow /\ row.rev = clock + 1
    BY <2>1 DEF ServerRow
  <2>3. /\ o \in Op /\ o.id = id /\ o.pc = "readBack" /\ o.copy = op[Main].copy /\ o.mark = op[Main].mark
    BY <1>0 DEF Op, Steps
  <2>4. /\ server' = [server EXCEPT ![id] = row] /\ clock' = clock + 1
        /\ Becomes(Main, o)
        /\ UNCHANGED <<items, era, writes, pending, landed>>
    BY <1>3 DEF CallRevive, Tick, Restated, cacheVars
  <2>5. op[Main].copy \in Fresh(id)
    BY <1>0, <1>3 DEF CallRevive, OpOK, CopyOK
  <2>6. o.mark.era <= era /\ o.mark.writes <= writes
    BY <1>0, <2>3 DEF OpOK, MarkOK
  <2> HIDE DEF o
  <2>7. o.copy \in Value /\ o.copy.born = era /\ o.copy.rev <= row.rev
    BY <2>1, <2>2, <2>3, <2>5 DEF Fresh, Value
  <2>8. o.pc \in {"readBack", "land"} /\ o.pc # "land"
    BY <2>3
  <2>9. id \in Ids
    BY <1>0
  <2> HIDE DEF row, id
  <2> QED
    BY <1>1, <2>2, <2>3, <2>4, <2>6, <2>7, <2>8, <2>9, CallStep
<1>4. ASSUME End(Main), UNCHANGED <<server, clock, cacheVars, shown, landed>>
      PROVE  IInv'
  <2>1. op'[Main] = Idle /\ \A u \in Threads : u # Main => op'[u] = op[u]
    BY <1>0, <1>4, EndFacts
  <2>2. UNCHANGED <<server, clock, items, era, writes, pending, landed>>
    BY <1>4 DEF cacheVars
  <2> QED
    BY <1>0, <1>1, <2>1, <2>2, IdleIsOK, OnlyOp
<1>5. CASE ReviveFails \/ LandUnpopulated \/ MissUpdate
  BY <1>4, <1>5 DEF ReviveFails, LandUnpopulated, MissUpdate
<1>6. CASE ReadBack \/ ReadBackFails
  <2>1. ASSUME NEW id \in Ids, NEW o \in Op, o.id = id, o.pc = "land", o.mark = op[Main].mark,
               ~Removes(o), o.copy \in Fresh(id), Becomes(Main, o),
               UNCHANGED <<server, clock, items, era, writes, pending, landed>>
        PROVE  IInv'
    <3>1. op'[Main] = o /\ \A u \in Threads : u # Main => op'[u] = op[u]
      BY <1>0, <2>1, BecomesFacts
    <3>2. MarkOK(Main)' /\ FetchOK(Main)'
      BY <1>0, <2>1, <3>1 DEF OpOK, MarkOK, FetchOK
    <3>3. o.copy \in Fresh(id)' /\ Reached(id, o.copy.rev, FALSE)'
      BY <2>1 DEF Fresh, Reached
    <3>4. CopyOK(Main)'
      BY <2>1, <3>1, <3>3 DEF CopyOK, Reached, Removes
    <3> QED
      BY <1>0, <1>1, <2>1, <3>1, <3>2, <3>4, OnlyOp DEF OpOK
  <2> DEFINE id == op[Main].id
             copy == IF ReadBack THEN [body |-> op[Main].copy.body, rev |-> server[id].rev,
                                       born |-> op[Main].copy.born]
                     ELSE op[Main].copy
             o == [op[Main] EXCEPT !.pc = "land", !.copy = copy]
  <2>2. op[Main].pc = "readBack" /\ op[Main].kind = "revive" /\ op[Main].copy \in Fresh(id)
    BY <1>0, <1>6 DEF ReadBack, ReadBackFails, OpOK, CopyOK
  <2>3. server[id].rev \in Nat
    BY <1>0, RowType DEF ServerRow
  <2>4. copy \in Fresh(id) /\ copy \in Value
    BY <2>2, <2>3 DEF Fresh, Value
  <2>5. Becomes(Main, o) /\ UNCHANGED <<server, clock, items, era, writes, pending, landed>>
    <3>1. CASE ReadBack
      BY <3>1 DEF ReadBack, cacheVars
    <3>2. CASE ~ReadBack
      <4>1. ReadBackFails /\ o = [op[Main] EXCEPT !.pc = "land", !.copy = op[Main].copy]
        BY <1>6, <3>2
      <4>2. o = [op[Main] EXCEPT !.pc = "land"]
        BY <1>0, <4>1 DEF Op
      <4> QED
        BY <4>1, <4>2 DEF ReadBackFails, cacheVars
    <3> QED
      BY <3>1, <3>2
  <2> HIDE DEF copy
  <2>6. /\ o \in Op /\ o.id = id /\ o.pc = "land" /\ o.copy = copy
        /\ o.mark = op[Main].mark /\ o.kind = op[Main].kind
    BY <1>0, <2>4 DEF Op, Steps
  <2> HIDE DEF o
  <2>7. ~Removes(o)
    BY <2>2, <2>6 DEF Removes
  <2>8. o.copy \in Fresh(id) /\ id \in Ids
    BY <1>0, <2>4, <2>6
  <2> QED
    BY <2>1, <2>5, <2>6, <2>7, <2>8
<1>7. ASSUME NEW copies \in Seq(Fresh(op[Main].id)), NEW deleted \in BOOLEAN, copies # <<>> \/ deleted,
             deleted => Reached(op[Main].id, op[Main].copy.rev, TRUE),
             Land(op[Main].id, copies, deleted, op[Main].copy.rev), End(Main),
             UNCHANGED <<server, clock>>
      PROVE  IInv'
  BY <1>0, <1>1, <1>7, LandStep
<1>8. op[Main].pc = "land" => op[Main].copy \in Fresh(op[Main].id)
  BY <1>0 DEF OpOK, CopyOK
<1>9. CASE LandCreate
  <2>1. op[Main].copy \in Fresh(op[Main].id)
    BY <1>8, <1>9 DEF LandCreate, WriterLanding
  <2>2. /\ Append(items[op[Main].id], op[Main].copy) \in Seq(Fresh(op[Main].id))
        /\ Append(items[op[Main].id], op[Main].copy) # <<>>
    BY <1>0, <2>1, AppendFacts
  <2> QED
    BY <1>7, <1>9, <2>2 DEF LandCreate
<1>10. CASE LandUpdate \/ LandRevive
  <2>1. op[Main].copy \in Fresh(op[Main].id)
    BY <1>8, <1>10 DEF LandUpdate, LandRevive, WriterLanding
  <2>2. /\ PutFirst(items[op[Main].id], op[Main].copy) \in Seq(Fresh(op[Main].id))
        /\ PutFirst(items[op[Main].id], op[Main].copy) # <<>>
    BY <1>0, <2>1, PutFirstFacts
  <2> QED
    BY <1>7, <1>10, <2>2 DEF LandUpdate, LandRevive
<1>11. CASE LandRemove
  <2>1. Reached(op[Main].id, op[Main].copy.rev, TRUE)
    BY <1>0, <1>11 DEF LandRemove, WriterLanding, OpOK, CopyOK, Removes
  <2>2. <<>> \in Seq(Fresh(op[Main].id))
    BY EmptySeq
  <2> QED
    BY <1>7, <1>11, <2>1, <2>2 DEF LandRemove
<1> QED
  BY <1>2, <1>3, <1>5, <1>6, <1>9, <1>10, <1>11 DEF Writing

LEMMA RemoteStep ==
  ASSUME IInv, NEW id \in Ids, Remote(id)
  PROVE  IInv'
<1>0. /\ TypeOK /\ clock \in Nat /\ server[id].body \in Nat
      /\ UNCHANGED <<items, era, writes, pending, landed, op>> /\ clock' = clock + 1
  BY RowType DEF IInv, TypeOK, ServerRow, Remote, Tick, cacheVars
<1>1. TypeOK'
  BY <1>0, TypeRemote
<1>2. PICK row \in ServerRow : row.rev = clock + 1 /\ server' = [server EXCEPT ![id] = row]
  <2>1. [state |-> "live", body |-> clock + 1, rev |-> clock + 1] \in ServerRow
    BY <1>0 DEF ServerRow
  <2>2. ASSUME NEW s \in {"none", "live", "gone"}
        PROVE  [state |-> s, body |-> server[id].body, rev |-> clock + 1] \in ServerRow
    BY <1>0 DEF ServerRow
  <2>3. Removal(id) \in {"none", "live", "gone"}
    BY DEF Removal
  <2> QED
    BY <2>1, <2>2, <2>3 DEF Remote, Rewritten, Restated
<1>3. /\ RowsAreFresh' /\ LogIsBehindCounter' /\ ServerIsBehindClock' /\ LandingsAreLogged'
      /\ \A u \in Threads : op'[u] = op[u] => OpOK(u)'
  BY <1>0, <1>1, <1>2, ServerStep
<1> QED
  BY <1>0, <1>1, <1>3 DEF IInv

LEMMA IInvStep == IInv /\ [Next]_vars => IInv'
<1>1. ASSUME IInv, UNCHANGED vars
      PROVE  IInv'
  <2>1. TypeOK'
    BY <1>1, TypeStep DEF IInv
  <2>2. op' = op /\ UNCHANGED <<server, clock, items, era, writes, pending, landed>> /\ Main \in Threads
    BY <1>1 DEF vars, Threads
  <2>3. OpOK(Main)'
    <3>1. OpOK(Main)
      BY <1>1, <2>2 DEF IInv
    <3>2. MarkOK(Main)' /\ FetchOK(Main)'
      BY <2>2, <3>1 DEF OpOK, MarkOK, FetchOK, Fresh, Reflects
    <3>3. CopyOK(Main)'
      BY <2>2, <3>1 DEF OpOK, CopyOK, Fresh, Reached, Removes
    <3> QED
      BY <3>2, <3>3 DEF OpOK
  <2> QED
    BY <1>1, <2>1, <2>2, <2>3, OnlyOp
<1>2. ASSUME IInv, Next
      PROVE  IInv'
  <2>1. TypeOK'
    BY <1>2, TypeStep DEF IInv
  <2> QED
    BY <1>2, <2>1, PopulatingStep, AnnouncingStep, WritingStep, ClearStep, RemoteStep DEF Next
<1> QED
  BY <1>1, <1>2

(* IInv is inductive: every fetch in flight either will replay a landing   *)
(* or has already seen it, and everything about to land is of its era.     *)
THEOREM Inductive == Spec => []IInv
  BY InitIInv, IInvStep, PTL DEF Spec

(* A fetch that lands after a local write or an announced change never     *)
(* takes the snapshot behind it: replay_writes is enough, for any number   *)
(* of ids, loaders, overlapping fetches and writes.                        *)
THEOREM WritesAreNotUndone == Spec => []LandedWritesHold
<1>1. IInv => LandedWritesHold
  BY DEF IInv, LandingsAreLogged, LandedWritesHold, Reflects
<1> QED
  BY <1>1, Inductive, PTL

(* No row of the session that a clear ended is in the snapshot after it,   *)
(* whatever was in flight when the clear ran: the era guard is enough.     *)
THEOREM NoRowOutlivesItsSession == Spec => []RowsOfThisSession
<1>1. ASSUME IInv
      PROVE  RowsOfThisSession
  <2>1. ASSUME NEW id \in Ids, NEW i \in 1..Len(items[id])
        PROVE  items[id][i].born = era
    <3>1. items[id] \in Seq(Fresh(id))
      BY <1>1 DEF IInv, RowsAreFresh
    <3>2. items[id][i] \in Fresh(id)
      BY <2>1, <3>1
    <3> QED
      BY <3>2 DEF Fresh
  <2> QED
    BY <2>1 DEF RowsOfThisSession
<1> QED
  BY <1>1, Inductive, PTL
=============================================================================
