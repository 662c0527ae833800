------------------------ MODULE VaultAgreementProofs ------------------------
(***************************************************************************)
(* Proofs about VaultCache: that a fetch which nothing overlapped leaves   *)
(* the server's rows, and that with no other client the snapshot is the    *)
(* server whenever nothing is in flight -- for any number of ids, loaders  *)
(* and overlapping fetches.                                                *)
(***************************************************************************)
EXTENDS VaultCacheProofs

(* What a thread is given to do is what it is doing next. *)
LEMMA TakesUp ==
  ASSUME TypeOK, NEW t \in Threads, NEW o, Becomes(t, o)
  PROVE  op'[t] = o /\ \A u \in Threads : u # t => op'[u] = op[u]
BY DEF TypeOK, Becomes

LEMMA GoesIdle ==
  ASSUME TypeOK, NEW t \in Threads, End(t)
  PROVE  /\ op'[t].pc = "idle" /\ op'[t].mark.clock = 0 /\ op'[t].mark.era = 0
         /\ \A u \in Threads : u # t => op'[u] = op[u]
BY TakesUp DEF End, Idle

-----------------------------------------------------------------------------
(* The clock tells whether what a fetch has read is still on the server.   *)

Covers(t, id) == op[t].pc = "writeBack" \/ (op[t].pc = "fetchFolders" /\ id \in ItemIds)

MarkIsBehind(t) == op[t].mark.clock <= clock

FetchIsTheServer(t) ==
    op[t].mark.clock = clock /\ op[t].mark.era = era =>
        \A id \in Ids : Covers(t, id) => op[t].fetched[id] = Listed(id)

FetchesAreDated == \A t \in Loaders : MarkIsBehind(t) /\ FetchIsTheServer(t)

LEMMA DatedInit == Init => FetchesAreDated
<1> SUFFICES ASSUME Init, NEW t \in Loaders PROVE MarkIsBehind(t) /\ FetchIsTheServer(t)
  BY DEF FetchesAreDated
<1>1. op[t].mark.clock = 0 /\ op[t].pc = "idle" /\ clock = 1
  BY DEF Init, Idle, Threads
<1>2. QED
  BY <1>1 DEF MarkIsBehind, FetchIsTheServer, Covers

(* A fetch keeps its date through every step of the others. *)
LEMMA DateIsKept ==
  ASSUME IInv, NEW u \in Loaders, MarkIsBehind(u), FetchIsTheServer(u), op'[u] = op[u],
         \/ UNCHANGED <<server, clock, era>>
         \/ clock' = clock + 1
         \/ clock' = clock /\ era' = era + 1
  PROVE  MarkIsBehind(u)' /\ FetchIsTheServer(u)'
<1>1. u \in Threads /\ clock \in Nat /\ era \in Nat
  BY DEF Threads, IInv, TypeOK
<1>2. op[u].mark.clock \in Nat /\ op[u].mark.era \in Nat /\ op[u].mark.era <= era
  BY <1>1, OpFacts DEF IInv, OpOK, MarkOK, Mark
<1>3. CASE UNCHANGED <<server, clock, era>>
  BY <1>3 DEF MarkIsBehind, FetchIsTheServer, Covers, Listed, Row
<1>4. CASE clock' = clock + 1
  BY <1>1, <1>2, <1>4 DEF MarkIsBehind, FetchIsTheServer
<1>5. CASE clock' = clock /\ era' = era + 1
  BY <1>1, <1>2, <1>5 DEF MarkIsBehind, FetchIsTheServer
<1>6. QED
  BY <1>3, <1>4, <1>5

(* A step of one loader that leaves the server and the era alone. *)
LEMMA DatedOp ==
  ASSUME IInv, FetchesAreDated, NEW t \in Loaders, UNCHANGED <<server, clock, era>>,
         \A u \in Threads : u # t => op'[u] = op[u],
         MarkIsBehind(t)', FetchIsTheServer(t)'
  PROVE  FetchesAreDated'
<1>1. ASSUME NEW u \in Loaders, u # t
      PROVE  MarkIsBehind(u)' /\ FetchIsTheServer(u)'
  BY <1>1, DateIsKept DEF FetchesAreDated, Threads
<1>2. QED
  BY <1>1 DEF FetchesAreDated

LEMMA DatedPopulating ==
  ASSUME IInv, FetchesAreDated, NEW t \in Loaders, Populating(t)
  PROVE  FetchesAreDated'
<1>1. t \in Threads /\ TypeOK /\ clock \in Nat
  BY DEF Threads, IInv, TypeOK
<1>2. op[t] \in Op /\ MarkIsBehind(t) /\ FetchIsTheServer(t)
  BY <1>1, OpFacts DEF FetchesAreDated
<1>3. CASE BeginPopulate(t)
  <2>1. op'[t] = [Idle EXCEPT !.kind = "populate", !.pc = "fetchItems", !.mark = Epoch]
        /\ \A u \in Threads : u # t => op'[u] = op[u]
    BY <1>1, <1>3, TakesUp DEF BeginPopulate
  <2>2. op'[t].pc = "fetchItems" /\ op'[t].mark.clock = clock
    BY <2>1 DEF Idle, Epoch
  <2>3. MarkIsBehind(t)' /\ FetchIsTheServer(t)'
    BY <1>1, <1>3, <2>2 DEF BeginPopulate, MarkIsBehind, FetchIsTheServer, Covers
  <2>4. QED
    BY <1>3, <2>1, <2>3, DatedOp DEF BeginPopulate, cacheVars
<1>4. CASE FetchItems(t)
  <2> DEFINE read == [id \in Ids |-> IF id \in ItemIds THEN Listed(id) ELSE <<>>]
  <2>1. op'[t] = [op[t] EXCEPT !.pc = "fetchFolders", !.fetched = read]
        /\ \A u \in Threads : u # t => op'[u] = op[u]
    BY <1>1, <1>4, TakesUp DEF FetchItems
  <2>2. op'[t].pc = "fetchFolders" /\ op'[t].mark = op[t].mark /\ op'[t].fetched = read
    BY <1>2, <2>1 DEF Op
  <2>3. UNCHANGED <<server, clock, era>>
    BY <1>4 DEF FetchItems, cacheVars
  <2>4. \A id \in ItemIds : read[id] = Listed(id)'
    BY <2>3 DEF Ids, Listed, Row
  <2>5. MarkIsBehind(t)' /\ FetchIsTheServer(t)'
    BY <1>2, <2>2, <2>3, <2>4 DEF MarkIsBehind, FetchIsTheServer, Covers
  <2>6. QED
    BY <2>1, <2>3, <2>5, DatedOp
<1>5. CASE FetchFolders(t)
  <2> DEFINE read == [id \in Ids |-> IF id \in FolderIds THEN Listed(id) ELSE op[t].fetched[id]]
  <2>1. op'[t] = [op[t] EXCEPT !.pc = "writeBack", !.fetched = read]
        /\ \A u \in Threads : u # t => op'[u] = op[u]
    BY <1>1, <1>5, TakesUp DEF FetchFolders
  <2>2. op'[t].pc = "writeBack" /\ op'[t].mark = op[t].mark /\ op'[t].fetched = read
    BY <1>2, <2>1 DEF Op
  <2>3. UNCHANGED <<server, clock, era>> /\ op[t].pc = "fetchFolders"
    BY <1>5 DEF FetchFolders, cacheVars
  <2>4. ASSUME op[t].mark.clock = clock, op[t].mark.era = era, NEW id \in Ids
        PROVE  read[id] = Listed(id)'
    BY <1>2, <2>3, <2>4 DEF FetchIsTheServer, Covers, Ids, Listed, Row
  <2>5. MarkIsBehind(t)' /\ FetchIsTheServer(t)'
    <3> HIDE DEF read
    <3> QED
      BY <1>2, <2>2, <2>3, <2>4 DEF MarkIsBehind, FetchIsTheServer
  <2>6. QED
    BY <2>1, <2>3, <2>5, DatedOp
<1>6. CASE FetchFails(t) \/ DiscardStale(t) \/ WriteBack(t)
  <2>1. End(t) /\ UNCHANGED <<server, clock, era>>
    BY <1>6 DEF FetchFails, DiscardStale, WriteBack, cacheVars
  <2>2. MarkIsBehind(t)' /\ FetchIsTheServer(t)'
    BY <1>1, <2>1, GoesIdle DEF MarkIsBehind, FetchIsTheServer, Covers
  <2>3. QED
    BY <1>1, <2>1, <2>2, GoesIdle, DatedOp
<1>7. QED
  BY <1>3, <1>4, <1>5, <1>6 DEF Populating

LEMMA DatedAnnouncing ==
  ASSUME IInv, FetchesAreDated, NEW t \in Loaders, Announcing(t)
  PROVE  FetchesAreDated'
<1>1. t \in Threads /\ TypeOK /\ clock \in Nat /\ op[t] \in Op
  BY OpFacts DEF Threads, IInv, TypeOK
<1>2. MarkIsBehind(t)
  BY DEF FetchesAreDated
<1>3. ASSUME NEW id, NEW kind, NEW rev, Announced(t, id, kind, rev)
      PROVE  FetchesAreDated'
  <2>1. /\ op'[t] = [Idle EXCEPT !.kind = kind, !.pc = "check", !.id = id,
                                 !.mark = [era |-> era, writes |-> 0, clock |-> 0],
                                 !.copy = [body |-> 0, rev |-> rev, born |-> era]]
        /\ \A u \in Threads : u # t => op'[u] = op[u]
    BY <1>1, <1>3, TakesUp DEF Announced
  <2>2. op'[t].pc = "check" /\ op'[t].mark.clock = 0
    BY <2>1 DEF Idle
  <2>3. UNCHANGED <<server, clock, era>>
    BY <1>3 DEF Announced, cacheVars
  <2>4. MarkIsBehind(t)' /\ FetchIsTheServer(t)'
    BY <1>1, <2>2, <2>3 DEF MarkIsBehind, FetchIsTheServer, Covers
  <2>5. QED
    BY <2>1, <2>3, <2>4, DatedOp
<1>4. CASE \E id \in Ids : AnnounceChanged(t, id) \/ AnnounceRemoved(t, id)
  BY <1>3, <1>4 DEF AnnounceChanged, AnnounceRemoved
<1>5. CASE AnnouncedTooLate(t) \/ ApplyRemoved(t) \/ SkipChanged(t) \/ LandChanged(t)
  <2>1. End(t) /\ UNCHANGED <<server, clock, era>>
    BY <1>5 DEF AnnouncedTooLate, ApplyRemoved, SkipChanged, LandChanged, Land, cacheVars
  <2>2. MarkIsBehind(t)' /\ FetchIsTheServer(t)'
    BY <1>1, <2>1, GoesIdle DEF MarkIsBehind, FetchIsTheServer, Covers
  <2>3. QED
    BY <1>1, <2>1, <2>2, GoesIdle, DatedOp
<1>6. CASE CheckChanged(t)
  <2>1. op'[t] = [op[t] EXCEPT !.pc = "get"] /\ \A u \in Threads : u # t => op'[u] = op[u]
    BY <1>1, <1>6, TakesUp DEF CheckChanged
  <2>2. op'[t].pc = "get" /\ op'[t].mark = op[t].mark
    BY <1>1, <2>1 DEF Op
  <2>3. UNCHANGED <<server, clock, era>>
    BY <1>6 DEF CheckChanged, cacheVars
  <2>4. MarkIsBehind(t)' /\ FetchIsTheServer(t)'
    BY <1>2, <2>2, <2>3 DEF MarkIsBehind, FetchIsTheServer, Covers
  <2>5. QED
    BY <2>1, <2>3, <2>4, DatedOp
<1>7. CASE GetChanged(t)
  <2>1. /\ op'[t] = [op[t] EXCEPT !.pc = "land", !.copy = Row(op[t].id),
                                  !.live = (server[op[t].id].state = "live")]
        /\ \A u \in Threads : u # t => op'[u] = op[u]
    BY <1>1, <1>7, TakesUp DEF GetChanged
  <2>2. op'[t].pc = "land" /\ op'[t].mark = op[t].mark
    BY <1>1, <2>1 DEF Op
  <2>3. UNCHANGED <<server, clock, era>>
    BY <1>7 DEF GetChanged, cacheVars
  <2>4. MarkIsBehind(t)' /\ FetchIsTheServer(t)'
    BY <1>2, <2>2, <2>3 DEF MarkIsBehind, FetchIsTheServer, Covers
  <2>5. QED
    BY <2>1, <2>3, <2>4, DatedOp
<1>8. QED
  BY <1>4, <1>5, <1>6, <1>7 DEF Announcing

(* No writer touches a loader, and each one that changes the server ticks  *)
(* the clock.                                                              *)
LEMMA DatedWriting == IInv /\ FetchesAreDated /\ Writing => FetchesAreDated'
<1> SUFFICES ASSUME IInv, FetchesAreDated, Writing PROVE FetchesAreDated'
  OBVIOUS
<1>1. TypeOK /\ Main \in Threads /\ Main \notin Loaders /\ Loaders \subseteq Threads
  BY ThreadsAssumption DEF IInv, Threads
<1>2. \E o : Becomes(Main, o)
  BY DEF Writing, CallCreate, CallUpdate, CallRemove, BeginRevive, CallRevive, ReviveFails,
         ReadBack, ReadBackFails, LandUnpopulated, LandCreate, LandUpdate, MissUpdate, LandRemove,
         LandRevive, Call, End
<1>3. \A u \in Loaders : op'[u] = op[u]
  BY <1>1, <1>2, TakesUp
<1>4. UNCHANGED <<server, clock, era>> \/ clock' = clock + 1
  BY DEF Writing, CallCreate, CallUpdate, CallRemove, BeginRevive, CallRevive, ReviveFails,
         ReadBack, ReadBackFails, LandUnpopulated, LandCreate, LandUpdate, MissUpdate, LandRemove,
         LandRevive, Land, Tick, cacheVars
<1>5. QED
  BY <1>3, <1>4, DateIsKept DEF FetchesAreDated

LEMMA DatedStep == IInv /\ FetchesAreDated /\ [Next]_vars => FetchesAreDated'
<1> SUFFICES ASSUME IInv, FetchesAreDated, [Next]_vars PROVE FetchesAreDated'
  OBVIOUS
<1>1. CASE \E t \in Loaders : Populating(t) \/ Announcing(t)
  BY <1>1, DatedPopulating, DatedAnnouncing
<1>2. CASE Writing
  BY <1>2, DatedWriting
<1>3. CASE Clear
  BY <1>3, DateIsKept DEF Clear, FetchesAreDated
<1>4. CASE \E id \in Ids : Remote(id)
  BY <1>4, DateIsKept DEF Remote, Tick, FetchesAreDated
<1>5. CASE UNCHANGED vars
  BY <1>5, DateIsKept DEF vars, cacheVars, FetchesAreDated
<1>6. QED
  BY <1>1, <1>2, <1>3, <1>4, <1>5 DEF Next

LEMMA InductiveDated == Spec => [](IInv /\ FetchesAreDated)
BY InitIInv, IInvStep, DatedInit, DatedStep, PTL DEF Spec

(* A fetch that nothing overlapped leaves exactly the server's live rows:  *)
(* entries of the log that older fetches still need do not touch it        *)
(* (write_back_at_epoch, replay_writes).                                   *)
THEOREM FreshPopulateAlwaysIsTheServer == Spec => FreshPopulateIsTheServer
<1> DEFINE Fresher == \A t \in Loaders :
             WriteBack(t) /\ op[t].mark = Epoch => items' = [id \in Ids |-> Listed(id)]
<1>1. IInv /\ FetchesAreDated => Fresher
  <2> SUFFICES ASSUME IInv, FetchesAreDated, NEW t \in Loaders, WriteBack(t), op[t].mark = Epoch
               PROVE  items' = [id \in Ids |-> Listed(id)]
    OBVIOUS
  <2>1. op[t].mark.clock = clock /\ op[t].mark.era = era /\ op[t].mark.writes = writes
    BY DEF Epoch
  <2>2. ASSUME NEW id \in Ids
        PROVE  Replayed(id, op[t].fetched[id], op[t].mark.writes) = op[t].fetched[id]
    BY <2>1 DEF Replayed, IInv, LogIsBehindCounter
  <2>3. ASSUME NEW id \in Ids
        PROVE  op[t].fetched[id] = Listed(id)
    BY <2>1 DEF FetchesAreDated, FetchIsTheServer, Covers, WriteBack
  <2>4. QED
    BY <2>2, <2>3 DEF WriteBack
<1>2. QED
  BY <1>1, InductiveDated, PTL DEF FreshPopulateIsTheServer
-----------------------------------------------------------------------------
(* With no other client: edits and removals of this one, fetches that      *)
(* overlap them and each other, and clears.                                *)

LocalKindsOnly == Kinds \subseteq {"populate", "update", "remove", "clear"}

OnlyLocal ==
    /\ op[Main].pc \in {"idle", "land"}
    /\ op[Main].pc = "land" => op[Main].kind \in {"update", "remove"}
    /\ \A t \in Loaders : op[t].pc \in {"idle", "fetchItems", "fetchFolders", "writeBack"}

(* An edit or a removal that the server has made, still to land.           *)
InFlight(id) == populated /\ op[Main].pc = "land" /\ op[Main].id = id

WriterIsRight ==
    op[Main].pc = "land" =>
        IF op[Main].kind = "update"
        THEN /\ populated
             /\ server[op[Main].id].state = "live" /\ op[Main].copy = Row(op[Main].id)
        ELSE server[op[Main].id].state # "live"

(* Nothing becomes live, so what is live has a copy in every fetch; and    *)
(* where nothing is in flight that copy is the server's row.               *)
AtMostTheRow(copies, id) == Len(copies) <= 1 /\ (server[id].state = "live" => copies # <<>>)

RowsAgree ==
    populated => \A id \in Ids :
        AtMostTheRow(items[id], id) /\ (~InFlight(id) => items[id] = Listed(id))

(* A write that landed since the fetch began will be replayed over it.     *)
FetchAgrees(t) ==
    op[t].mark.era = era => \A id \in Ids : Covers(t, id) =>
        /\ AtMostTheRow(op[t].fetched[id], id)
        /\ pending[id].seq <= op[t].mark.writes /\ ~InFlight(id) => op[t].fetched[id] = Listed(id)

(* The last write of an id is a removal just when the server lacks it.     *)
LogAgrees ==
    \A id \in Ids : pending[id].seq > 0 =>
        /\ populated
        /\ server[id].state = "live" => ~pending[id].deleted
        /\ server[id].state # "live" /\ ~InFlight(id) => pending[id].deleted

Agreement ==
    /\ shown # {} => populated
    /\ OnlyLocal
    /\ WriterIsRight
    /\ RowsAgree
    /\ \A t \in Loaders : FetchAgrees(t)
    /\ LogAgrees

LEMMA AgreementInit == Init => Agreement
<1> SUFFICES ASSUME Init PROVE Agreement
  OBVIOUS
<1>1. ~populated /\ shown = {} /\ \A id \in Ids : pending[id].seq = 0
  BY DEF Init, NoWrite
<1>2. \A t \in Threads : op[t].pc = "idle"
  BY DEF Init, Idle
<1>3. QED
  BY <1>1, <1>2 DEF Agreement, OnlyLocal, WriterIsRight, RowsAgree, FetchAgrees, Covers, LogAgrees,
                    Threads

LEMMA ListedFacts ==
  ASSUME TypeOK, NEW id \in Ids
  PROVE  /\ AtMostTheRow(Listed(id), id)
         /\ server[id].state # "live" => Listed(id) = <<>>
         /\ server[id].state = "live" => Listed(id) = <<Row(id)>>
<1>1. Len(<<Row(id)>>) = 1 /\ <<Row(id)>> # <<>> /\ Len(<<>>) = 0
  OBVIOUS
<1>2. QED
  BY <1>1 DEF Listed, AtMostTheRow

LEMMA NotEmpty ==
  ASSUME NEW S, NEW s \in Seq(S), s # <<>>
  PROVE  Len(s) \in Nat /\ Len(s) >= 1
OBVIOUS

LEMMA TailOfOne ==
  ASSUME NEW S, NEW s \in Seq(S), Len(s) = 1
  PROVE  Tail(s) = <<>>
<1> DEFINE r == Tail(s)
<1>1. r \in Seq(S) /\ Len(r) = 0
  OBVIOUS
<1> HIDE DEF r
<1>2. r = <<>>
  BY <1>1, NotEmpty
<1>3. QED
  BY <1>2 DEF r

(* Over at most one copy, the first one replaced is the only one.          *)
LEMMA PutAlone ==
  ASSUME NEW S, NEW s \in Seq(S), NEW v \in S, Len(s) <= 1
  PROVE  PutFirst(s, v) = <<v>>
<1>1. s = <<>> \/ Tail(s) = <<>>
  BY NotEmpty, TailOfOne
<1>2. <<v>> \o <<>> = <<v>>
  OBVIOUS
<1>3. QED
  BY <1>1, <1>2 DEF PutFirst

(* What a fetch of this era lands: the replay makes it whole again.        *)
LEMMA ReplayAgrees ==
  ASSUME IInv, Agreement, NEW t \in Loaders, op[t].pc = "writeBack", op[t].mark.era = era,
         NEW id \in Ids
  PROVE  LET r == Replayed(id, op[t].fetched[id], op[t].mark.writes)
         IN AtMostTheRow(r, id) /\ (~InFlight(id) => r = Listed(id))
<1> DEFINE f == op[t].fetched[id]
           since == op[t].mark.writes
<1>1. t \in Threads /\ TypeOK
  BY DEF Threads, IInv
<1>2. f \in Seq(Value) /\ since \in Nat /\ items[id] \in Seq(Value) /\ pending[id].seq \in Nat
  BY <1>1, OpFacts DEF Mark, TypeOK, PendingWrite
<1>3. /\ AtMostTheRow(f, id)
      /\ pending[id].seq <= since /\ ~InFlight(id) => f = Listed(id)
  BY DEF Agreement, FetchAgrees, Covers
<1>4. pending[id].seq > 0 =>
        /\ populated
        /\ server[id].state = "live" => ~pending[id].deleted
        /\ server[id].state # "live" /\ ~InFlight(id) => pending[id].deleted
  BY DEF Agreement, LogAgrees
<1>5. populated => AtMostTheRow(items[id], id) /\ (~InFlight(id) => items[id] = Listed(id))
  BY DEF Agreement, RowsAgree
<1> HIDE DEF f, since
<1>6. CASE pending[id].seq <= since
  BY <1>3, <1>6 DEF Replayed, f, since
<1>7. CASE pending[id].seq > since /\ pending[id].deleted
  <2>1. Replayed(id, f, since) = <<>>
    BY <1>2, <1>7 DEF Replayed
  <2>2. server[id].state # "live"
    BY <1>2, <1>4, <1>7
  <2>3. QED
    BY <1>1, <2>1, <2>2, ListedFacts DEF f, since, AtMostTheRow
<1>8. CASE pending[id].seq > since /\ ~pending[id].deleted
  <2>1. populated /\ pending[id].seq > 0
    BY <1>2, <1>4, <1>8
  <2>2. CASE items[id] = <<>>
    <3>1. server[id].state # "live"
      BY <1>5, <2>1, <2>2 DEF AtMostTheRow
    <3>2. InFlight(id)
      BY <1>4, <1>8, <2>1, <3>1
    <3>3. Replayed(id, f, since) = f
      BY <1>2, <1>8, <2>2 DEF Replayed
    <3>4. QED
      BY <1>3, <3>2, <3>3 DEF f, since
  <2>3. CASE items[id] # <<>>
    <3>1. Head(items[id]) \in Value
      BY <1>2, <2>3, HeadTail
    <3>2. Replayed(id, f, since) = <<Head(items[id])>>
      BY <1>2, <1>3, <1>8, <2>3, <3>1, PutAlone DEF Replayed, AtMostTheRow
    <3>3. AtMostTheRow(<<Head(items[id])>>, id)
      BY DEF AtMostTheRow
    <3>4. ~InFlight(id) => <<Head(items[id])>> = Listed(id)
      <4>1. ~InFlight(id) => items[id] = <<Row(id)>>
        BY <1>1, <1>5, <2>1, <2>3, ListedFacts
      <4>2. Head(<<Row(id)>>) = Row(id)
        OBVIOUS
      <4>3. QED
        BY <1>1, <2>3, <4>1, <4>2, <1>5, <2>1, ListedFacts
    <3>5. QED
      BY <3>2, <3>3, <3>4 DEF f, since
  <2>4. QED
    BY <2>2, <2>3
<1>9. QED
  BY <1>2, <1>6, <1>7, <1>8

(* A step of one loader that leaves the snapshot and the server alone.     *)
LEMMA LoaderAgrees ==
  ASSUME IInv, Agreement, NEW t \in Loaders, \A u \in Threads : u # t => op'[u] = op[u],
         UNCHANGED <<server, clock, cacheVars, shown>>,
         op'[t].pc \in {"idle", "fetchItems", "fetchFolders", "writeBack"}, FetchAgrees(t)'
  PROVE  Agreement'
<1>1. op'[Main] = op[Main] /\ \A u \in Loaders : u # t => op'[u] = op[u]
  BY ThreadsAssumption DEF Threads
<1>2. \A id \in Ids : InFlight(id)' = InFlight(id) /\ Listed(id)' = Listed(id) /\ Row(id)' = Row(id)
  BY <1>1 DEF InFlight, Listed, Row, cacheVars
<1>3. op[Main].id \in Ids
  BY OpFacts DEF Threads, IInv
<1>4. OnlyLocal' /\ WriterIsRight'
  BY <1>1, <1>2, <1>3 DEF Agreement, OnlyLocal, WriterIsRight, cacheVars
<1>5. RowsAgree' /\ LogAgrees'
  BY <1>2 DEF Agreement, RowsAgree, LogAgrees, AtMostTheRow, cacheVars
<1>6. ASSUME NEW u \in Loaders
      PROVE  FetchAgrees(u)'
  <2>1. CASE u = t
    BY <2>1
  <2>2. CASE u # t
    BY <1>1, <1>2, <2>2 DEF Agreement, FetchAgrees, AtMostTheRow, Covers, cacheVars
  <2>3. QED
    BY <2>1, <2>2
<1>7. QED
  BY <1>4, <1>5, <1>6 DEF Agreement, cacheVars

LEMMA WriteBackAgrees ==
  ASSUME IInv, Agreement, NEW t \in Loaders, WriteBack(t)
  PROVE  Agreement'
<1>1. TypeOK /\ t \in Threads /\ Main \in Threads /\ t # Main
  BY ThreadsAssumption DEF IInv, Threads
<1>2. op'[t].pc = "idle" /\ \A u \in Threads : u # t => op'[u] = op[u]
  BY <1>1, GoesIdle DEF WriteBack
<1>3. op'[Main] = op[Main] /\ op[Main].id \in Ids /\ \A u \in Loaders : u # t => op'[u] = op[u]
  BY <1>1, <1>2, OpFacts DEF Threads
<1>4. /\ op[t].pc = "writeBack" /\ op[t].mark.era = era /\ populated'
      /\ UNCHANGED <<server, clock, era, writes, pending>>
      /\ items' = [id \in Ids |-> Replayed(id, op[t].fetched[id], op[t].mark.writes)]
  BY DEF WriteBack
<1>5. \A id \in Ids : /\ InFlight(id) => InFlight(id)'
                      /\ Listed(id)' = Listed(id) /\ Row(id)' = Row(id)
  BY <1>3, <1>4 DEF InFlight, Listed, Row
<1>6. RowsAgree'
  <2>1. ASSUME NEW id \in Ids
        PROVE  AtMostTheRow(items[id], id)' /\ (~InFlight(id)' => items'[id] = Listed(id)')
    <3> DEFINE r == Replayed(id, op[t].fetched[id], op[t].mark.writes)
    <3>1. AtMostTheRow(r, id) /\ (~InFlight(id) => r = Listed(id))
      BY <1>4, ReplayAgrees
    <3>2. items'[id] = r
      BY <1>4
    <3> HIDE DEF r
    <3>3. QED
      BY <1>4, <1>5, <3>1, <3>2 DEF AtMostTheRow
  <2>2. QED
    BY <2>1 DEF RowsAgree
<1>7. OnlyLocal' /\ WriterIsRight'
  BY <1>2, <1>3, <1>4, <1>5 DEF Agreement, OnlyLocal, WriterIsRight
<1>8. LogAgrees'
  BY <1>4, <1>5 DEF Agreement, LogAgrees
<1>9. ASSUME NEW u \in Loaders
      PROVE  FetchAgrees(u)'
  <2>1. CASE u = t
    BY <1>2, <2>1 DEF FetchAgrees, Covers
  <2>2. CASE u # t
    BY <1>3, <1>4, <1>5, <2>2 DEF Agreement, FetchAgrees, AtMostTheRow, Covers
  <2>3. QED
    BY <2>1, <2>2
<1>10. QED
  BY <1>4, <1>6, <1>7, <1>8, <1>9 DEF Agreement

LEMMA AgreementPopulating ==
  ASSUME IInv, Agreement, NEW t \in Loaders, Populating(t)
  PROVE  Agreement'
<1>1. t \in Threads /\ TypeOK /\ op[t] \in Op /\ FetchAgrees(t)
  BY OpFacts DEF Threads, IInv, Agreement
<1>2. CASE BeginPopulate(t)
  <2>1. op'[t] = [Idle EXCEPT !.kind = "populate", !.pc = "fetchItems", !.mark = Epoch]
        /\ \A u \in Threads : u # t => op'[u] = op[u]
    BY <1>1, <1>2, TakesUp DEF BeginPopulate
  <2>2. op'[t].pc = "fetchItems"
    BY <2>1 DEF Idle
  <2>3. FetchAgrees(t)'
    BY <2>2 DEF FetchAgrees, Covers
  <2>4. QED
    BY <1>2, <2>1, <2>2, <2>3, LoaderAgrees DEF BeginPopulate
<1>3. CASE FetchItems(t)
  <2> DEFINE read == [id \in Ids |-> IF id \in ItemIds THEN Listed(id) ELSE <<>>]
  <2>1. op'[t] = [op[t] EXCEPT !.pc = "fetchFolders", !.fetched = read]
        /\ \A u \in Threads : u # t => op'[u] = op[u]
    BY <1>1, <1>3, TakesUp DEF FetchItems
  <2>2. op'[t].pc = "fetchFolders" /\ op'[t].fetched = read
    BY <1>1, <2>1 DEF Op
  <2>3. UNCHANGED <<server, clock, cacheVars, shown>>
    BY <1>3 DEF FetchItems
  <2>4. \A id \in Ids : Listed(id)' = Listed(id) /\ AtMostTheRow(Listed(id), id)
    BY <1>1, <2>3, ListedFacts DEF Listed, Row, cacheVars
  <2>5. \A id \in ItemIds : read[id] = Listed(id)
    BY DEF Ids
  <2>6. FetchAgrees(t)'
    <3> HIDE DEF read
    <3> QED
      BY <2>2, <2>3, <2>4, <2>5 DEF FetchAgrees, Covers, AtMostTheRow
  <2>7. QED
    BY <2>1, <2>2, <2>3, <2>6, LoaderAgrees
<1>4. CASE FetchFolders(t)
  <2> DEFINE read == [id \in Ids |-> IF id \in FolderIds THEN Listed(id) ELSE op[t].fetched[id]]
  <2>1. op'[t] = [op[t] EXCEPT !.pc = "writeBack", !.fetched = read]
        /\ \A u \in Threads : u # t => op'[u] = op[u]
    BY <1>1, <1>4, TakesUp DEF FetchFolders
  <2>2. op'[t].pc = "writeBack" /\ op'[t].fetched = read /\ op'[t].mark = op[t].mark
    BY <1>1, <2>1 DEF Op
  <2>3. UNCHANGED <<server, clock, cacheVars, shown>> /\ op[t].pc = "fetchFolders"
    BY <1>4 DEF FetchFolders
  <2>4. /\ op'[Main] = op[Main]
        /\ \A id \in Ids : InFlight(id)' = InFlight(id) /\ Listed(id)' = Listed(id)
    BY <2>1, <2>3, ThreadsAssumption DEF Threads, InFlight, Listed, Row, cacheVars
  <2>5. ASSUME op[t].mark.era = era, NEW id \in Ids
        PROVE  /\ AtMostTheRow(read[id], id)
               /\ pending[id].seq <= op[t].mark.writes /\ ~InFlight(id) => read[id] = Listed(id)
    <3>1. CASE id \in FolderIds
      BY <1>1, <3>1, ListedFacts
    <3>2. CASE id \in ItemIds /\ id \notin FolderIds
      BY <1>1, <2>3, <2>5, <3>2 DEF FetchAgrees, Covers
    <3>3. QED
      BY <3>1, <3>2 DEF Ids
  <2>6. FetchAgrees(t)'
    <3> HIDE DEF read
    <3> QED
      BY <2>2, <2>3, <2>4, <2>5 DEF FetchAgrees, AtMostTheRow, cacheVars
  <2>7. QED
    BY <2>1, <2>2, <2>3, <2>6, LoaderAgrees
<1>5. CASE FetchFails(t) \/ DiscardStale(t)
  <2>1. End(t) /\ UNCHANGED <<server, clock, cacheVars, shown>>
    BY <1>5 DEF FetchFails, DiscardStale
  <2>2. op'[t].pc = "idle" /\ \A u \in Threads : u # t => op'[u] = op[u]
    BY <1>1, <2>1, GoesIdle
  <2>3. FetchAgrees(t)'
    BY <2>2 DEF FetchAgrees, Covers
  <2>4. QED
    BY <2>1, <2>2, <2>3, LoaderAgrees
<1>6. CASE WriteBack(t)
  BY <1>6, WriteBackAgrees
<1>7. QED
  BY <1>2, <1>3, <1>4, <1>5, <1>6 DEF Populating
(* The server makes an edit or a removal: it is in flight.                 *)
LEMMA CallAgrees ==
  ASSUME IInv, Agreement, NEW id \in Ids, op[Main].pc = "idle",
         op'[Main].pc = "land", op'[Main].id = id, op'[Main].kind \in {"update", "remove"},
         \A u \in Threads : u # Main => op'[u] = op[u],
         \A j \in Ids : j # id => server'[j] = server[j],
         server'[id].state = "live" => server[id].state = "live",
         populated \/ server[id].state # "live",
         WriterIsRight', UNCHANGED <<cacheVars, shown>>
  PROVE  Agreement'
<1>1. \A u \in Loaders : op'[u] = op[u]
  BY ThreadsAssumption DEF Threads
<1>2. UNCHANGED <<items, populated, era, writes, pending, shown>>
  BY DEF cacheVars
<1>3. \A j \in Ids : ~InFlight(j) /\ (j # id => Listed(j)' = Listed(j))
  BY <1>2 DEF InFlight, Listed, Row
<1>4. populated => InFlight(id)'
  BY <1>2 DEF InFlight
<1>5. ~populated => Listed(id) = <<>> /\ Listed(id)' = <<>>
  BY DEF Listed
<1>6. \A j \in Ids : server'[j].state = "live" => server[j].state = "live"
  OBVIOUS
<1>7. OnlyLocal'
  BY <1>1 DEF Agreement, OnlyLocal
<1>8. RowsAgree'
  BY <1>2, <1>3, <1>4, <1>6 DEF Agreement, RowsAgree, AtMostTheRow
<1>9. ASSUME NEW t \in Loaders
      PROVE  FetchAgrees(t)'
  <2>1. SUFFICES ASSUME op[t].mark.era = era, NEW j \in Ids, Covers(t, j)
                 PROVE  /\ AtMostTheRow(op[t].fetched[j], j)'
                        /\ pending[j].seq <= op[t].mark.writes /\ ~InFlight(j)'
                             => op[t].fetched[j] = Listed(j)'
    BY <1>1, <1>2 DEF FetchAgrees, Covers
  <2>2. /\ AtMostTheRow(op[t].fetched[j], j)
        /\ pending[j].seq <= op[t].mark.writes => op[t].fetched[j] = Listed(j)
    BY <1>3, <2>1 DEF Agreement, FetchAgrees
  <2>3. AtMostTheRow(op[t].fetched[j], j)'
    BY <1>1, <1>6, <2>2 DEF AtMostTheRow
  <2>4. ~InFlight(j)' => Listed(j)' = Listed(j)
    BY <1>3, <1>4, <1>5
  <2>5. QED
    BY <2>2, <2>3, <2>4
<1>10. LogAgrees'
  BY <1>2, <1>3, <1>4, <1>6 DEF Agreement, LogAgrees
<1>11. QED
  BY <1>2, <1>7, <1>8, <1>9, <1>10 DEF Agreement

(* It lands: the snapshot has the server's row, or none.                   *)
LEMMA LandAgrees ==
  ASSUME IInv, Agreement, NEW id \in Ids, NEW copies, NEW deleted \in BOOLEAN, NEW rev,
         InFlight(id), Land(id, copies, deleted, rev), copies = Listed(id),
         deleted <=> server[id].state # "live", End(Main), UNCHANGED <<server, clock>>
  PROVE  Agreement'
<1>1. TypeOK /\ Main \in Threads
  BY DEF IInv, Threads
<1>2. op'[Main].pc = "idle" /\ \A u \in Loaders : op'[u] = op[u]
  BY <1>1, GoesIdle, ThreadsAssumption DEF Threads
<1>3. /\ populated /\ populated' = populated /\ era' = era
      /\ items' = [items EXCEPT ![id] = copies]
      /\ pending' = [pending EXCEPT ![id] = [seq |-> writes + 1, deleted |-> deleted]]
  BY DEF Land, Note, InFlight
<1>4. /\ items'[id] = copies /\ \A j \in Ids : j # id => items'[j] = items[j]
      /\ pending'[id].seq = writes + 1 /\ pending'[id].deleted = deleted
      /\ \A j \in Ids : j # id => pending'[j] = pending[j]
  BY <1>1, <1>3 DEF TypeOK
<1>5. \A j \in Ids : /\ Listed(j)' = Listed(j) /\ server'[j] = server[j] /\ ~InFlight(j)'
                     /\ j # id => ~InFlight(j)
  BY <1>2, <1>3 DEF InFlight, Listed, Row
<1>6. OnlyLocal' /\ WriterIsRight'
  BY <1>2 DEF Agreement, OnlyLocal, WriterIsRight
<1>7. RowsAgree'
  <2>1. ASSUME NEW j \in Ids
        PROVE  AtMostTheRow(items[j], j)' /\ items'[j] = Listed(j)'
    <3>1. CASE j = id
      BY <1>1, <1>4, <1>5, <3>1, ListedFacts DEF AtMostTheRow
    <3>2. CASE j # id
      BY <1>3, <1>4, <1>5, <3>2 DEF Agreement, RowsAgree, AtMostTheRow
    <3>3. QED
      BY <3>1, <3>2
  <2>2. QED
    BY <2>1 DEF RowsAgree
<1>8. ASSUME NEW t \in Loaders
      PROVE  FetchAgrees(t)'
  <2>1. SUFFICES ASSUME op[t].mark.era = era, NEW j \in Ids, Covers(t, j)
                 PROVE  /\ AtMostTheRow(op[t].fetched[j], j)
                        /\ pending'[j].seq <= op[t].mark.writes
                             => op[t].fetched[j] = Listed(j)
    BY <1>2, <1>3, <1>5 DEF FetchAgrees, Covers, AtMostTheRow
  <2>2. /\ AtMostTheRow(op[t].fetched[j], j)
        /\ pending[j].seq <= op[t].mark.writes /\ ~InFlight(j) => op[t].fetched[j] = Listed(j)
    BY <2>1 DEF Agreement, FetchAgrees
  <2>3. op[t].mark.writes <= writes /\ op[t].mark.writes \in Nat /\ writes \in Nat
    BY <1>1, OpFacts DEF Threads, IInv, OpOK, MarkOK, Mark, TypeOK
  <2>4. QED
    BY <1>4, <1>5, <2>2, <2>3
<1>9. LogAgrees'
  BY <1>3, <1>4, <1>5 DEF Agreement, LogAgrees
<1>10. QED
  BY <1>3, <1>6, <1>7, <1>8, <1>9 DEF Agreement

(* Nothing was populated: there is nothing to write it to.                 *)
LEMMA NothingToLandOn ==
  ASSUME IInv, Agreement, LandUnpopulated
  PROVE  Agreement'
<1>1. TypeOK /\ Main \in Threads /\ UNCHANGED <<server, items, populated, era, writes, pending, shown>>
  BY DEF IInv, Threads, LandUnpopulated, cacheVars
<1>2. op'[Main].pc = "idle" /\ \A u \in Loaders : op'[u] = op[u]
  BY <1>1, GoesIdle, ThreadsAssumption DEF Threads, LandUnpopulated
<1>3. \A j \in Ids : ~InFlight(j) /\ ~InFlight(j)' /\ Listed(j)' = Listed(j)
  BY <1>1 DEF InFlight, LandUnpopulated, Listed, Row
<1>4. OnlyLocal' /\ WriterIsRight' /\ RowsAgree' /\ LogAgrees'
  BY <1>1, <1>2, <1>3 DEF Agreement, OnlyLocal, WriterIsRight, RowsAgree, LogAgrees, LandUnpopulated
<1>5. ASSUME NEW t \in Loaders
      PROVE  FetchAgrees(t)'
  BY <1>1, <1>2, <1>3 DEF Agreement, FetchAgrees, Covers, AtMostTheRow
<1>6. QED
  BY <1>1, <1>4, <1>5 DEF Agreement

LEMMA AgreementWriting == LocalKindsOnly /\ IInv /\ Agreement /\ Writing => Agreement'
<1> SUFFICES ASSUME LocalKindsOnly, IInv, Agreement, Writing PROVE Agreement'
  OBVIOUS
<1>1. TypeOK /\ Main \in Threads /\ op[Main] \in Op /\ op[Main].id \in Ids
  BY OpFacts DEF IInv, Threads
<1>2. op[Main].pc \in {"idle", "land"} /\ (op[Main].pc = "land" => op[Main].kind \in {"update", "remove"})
  BY DEF Agreement, OnlyLocal
<1>3. ASSUME NEW id \in Ids, CallUpdate(id)
      PROVE  Agreement'
  <2> DEFINE new == [body |-> clock + 1, rev |-> clock + 1, born |-> era]
             o == [Idle EXCEPT !.kind = "update", !.pc = "land", !.id = id, !.copy = new]
  <2>1. op'[Main] = o /\ \A u \in Threads : u # Main => op'[u] = op[u]
    BY <1>1, <1>3, TakesUp DEF CallUpdate, Call
  <2>2. o.kind = "update" /\ o.pc = "land" /\ o.id = id /\ o.copy = new
    BY DEF Idle
  <2> HIDE DEF o
  <2>3. /\ op[Main].pc = "idle" /\ populated /\ server[id].state = "live"
        /\ server' = Rewritten(id) /\ UNCHANGED <<cacheVars, shown>>
    BY <1>3 DEF CallUpdate, CanBegin, Agreement
  <2>4. /\ server'[id] = [state |-> "live", body |-> clock + 1, rev |-> clock + 1]
        /\ \A j \in Ids : j # id => server'[j] = server[j]
    BY <1>1, <2>3 DEF TypeOK, Rewritten
  <2>5. Row(id)' = new
    BY <2>3, <2>4 DEF Row, cacheVars
  <2>6. WriterIsRight'
    BY <2>1, <2>2, <2>3, <2>4, <2>5 DEF WriterIsRight, cacheVars
  <2>7. QED
    BY <2>1, <2>2, <2>3, <2>4, <2>6, CallAgrees
<1>4. ASSUME NEW id \in Ids, CallRemove(id)
      PROVE  Agreement'
  <2> DEFINE old == [body |-> server[id].body, rev |-> clock + 1, born |-> era]
             o == [Idle EXCEPT !.kind = "remove", !.pc = "land", !.id = id, !.copy = old]
  <2>1. op'[Main] = o /\ \A u \in Threads : u # Main => op'[u] = op[u]
    BY <1>1, <1>4, TakesUp DEF CallRemove, Call
  <2>2. o.kind = "remove" /\ o.pc = "land" /\ o.id = id
    BY DEF Idle
  <2> HIDE DEF o
  <2>3. /\ op[Main].pc = "idle" /\ (populated \/ server[id].state # "live")
        /\ server' = Restated(id, Removal(id)) /\ UNCHANGED <<cacheVars, shown>>
    BY <1>4 DEF CallRemove, CanBegin, Agreement
  <2>4. server'[id].state # "live" /\ \A j \in Ids : j # id => server'[j] = server[j]
    BY <1>1, <2>3 DEF TypeOK, Restated, Removal
  <2>5. WriterIsRight'
    BY <2>1, <2>2, <2>4 DEF WriterIsRight
  <2>6. QED
    BY <2>1, <2>2, <2>3, <2>4, <2>5, CallAgrees
<1>5. CASE LandUpdate
  <2> DEFINE id == op[Main].id
  <2>1. /\ populated /\ op[Main].pc = "land" /\ op[Main].kind = "update"
        /\ Land(id, PutFirst(items[id], op[Main].copy), FALSE, op[Main].copy.rev)
        /\ End(Main) /\ UNCHANGED <<server, clock>>
    BY <1>5 DEF LandUpdate, WriterLanding
  <2>2. server[id].state = "live" /\ op[Main].copy = Row(id)
    BY <2>1 DEF Agreement, WriterIsRight
  <2>3. items[id] \in Seq(Value) /\ Len(items[id]) <= 1 /\ Row(id) \in Value
    BY <1>1, <2>1, RowType DEF TypeOK, Agreement, RowsAgree, AtMostTheRow
  <2>4. PutFirst(items[id], op[Main].copy) = Listed(id)
    BY <1>1, <2>2, <2>3, PutAlone, ListedFacts
  <2>5. InFlight(id)
    BY <2>1 DEF InFlight
  <2> HIDE DEF id
  <2>6. QED
    BY <1>1, <2>1, <2>2, <2>4, <2>5, LandAgrees DEF id
<1>6. CASE LandRemove
  <2>1. /\ populated /\ op[Main].pc = "land" /\ op[Main].kind = "remove"
        /\ Land(op[Main].id, <<>>, TRUE, op[Main].copy.rev)
        /\ End(Main) /\ UNCHANGED <<server, clock>>
    BY <1>6 DEF LandRemove, WriterLanding
  <2>2. server[op[Main].id].state # "live"
    BY <2>1 DEF Agreement, WriterIsRight
  <2>3. Listed(op[Main].id) = <<>> /\ InFlight(op[Main].id)
    BY <2>1, <2>2 DEF Listed, InFlight
  <2>4. QED
    BY <1>1, <2>1, <2>2, <2>3, LandAgrees
<1>7. ~MissUpdate
  BY <1>1 DEF MissUpdate, WriterLanding, Agreement, WriterIsRight, RowsAgree, AtMostTheRow
<1>8. /\ \A id \in Ids : ~CallCreate(id) /\ ~BeginRevive(id)
      /\ ~CallRevive /\ ~ReviveFails /\ ~ReadBack /\ ~ReadBackFails /\ ~LandCreate /\ ~LandRevive
  BY <1>2 DEF CallCreate, BeginRevive, CanBegin, LocalKindsOnly, CallRevive, ReviveFails, ReadBack,
              ReadBackFails, LandCreate, LandRevive, WriterLanding
<1>9. CASE LandUnpopulated
  BY <1>9, NothingToLandOn
<1>10. QED
  BY <1>3, <1>4, <1>5, <1>6, <1>7, <1>8, <1>9 DEF Writing

(* A clear: no entry of the log, no row, and every fetch is of an older era. *)
LEMMA AgreementClear == IInv /\ Agreement /\ Clear => Agreement'
<1> SUFFICES ASSUME IInv, Agreement, Clear PROVE Agreement'
  OBVIOUS
<1>1. op' = op /\ ~populated' /\ shown' = {} /\ era' = era + 1 /\ op[Main].pc = "idle" /\ era \in Nat
  BY DEF Clear, IInv, TypeOK
<1>2. \A id \in Ids : pending'[id].seq = 0
  BY DEF Clear, NoWrite
<1>3. ASSUME NEW t \in Loaders
      PROVE  FetchAgrees(t)'
  <2>1. op[t].mark.era <= era /\ op[t].mark.era \in Nat
    BY OpFacts DEF Threads, IInv, OpOK, MarkOK, Mark
  <2>2. QED
    BY <1>1, <2>1 DEF FetchAgrees
<1>4. OnlyLocal' /\ WriterIsRight' /\ RowsAgree' /\ LogAgrees'
  BY <1>1, <1>2 DEF Agreement, OnlyLocal, WriterIsRight, RowsAgree, LogAgrees
<1>5. QED
  BY <1>1, <1>3, <1>4 DEF Agreement

LEMMA AgreementStep == LocalKindsOnly /\ IInv /\ Agreement /\ [Next]_vars => Agreement'
<1> SUFFICES ASSUME LocalKindsOnly, IInv, Agreement, [Next]_vars PROVE Agreement'
  OBVIOUS
<1>1. CASE \E t \in Loaders : Populating(t)
  BY <1>1, AgreementPopulating
<1>2. ASSUME NEW t \in Loaders
      PROVE  ~Announcing(t)
  <2>1. op[t].pc \in {"idle", "fetchItems", "fetchFolders", "writeBack"}
    BY DEF Agreement, OnlyLocal
  <2>2. QED
    BY <2>1 DEF Announcing, AnnounceChanged, AnnounceRemoved, CanBegin, LocalKindsOnly,
                AnnouncedTooLate, ApplyRemoved, SkipChanged, CheckChanged, GetChanged, LandChanged
<1>3. CASE Writing
  BY <1>3, AgreementWriting
<1>4. CASE Clear
  BY <1>4, AgreementClear
<1>5. \A id \in Ids : ~Remote(id)
  BY DEF Remote, LocalKindsOnly
<1>6. CASE UNCHANGED vars
  BY <1>6 DEF vars, cacheVars, Agreement, OnlyLocal, WriterIsRight, RowsAgree, AtMostTheRow,
              FetchAgrees, Covers, LogAgrees, InFlight, Listed, Row
<1>7. QED
  BY <1>1, <1>2, <1>3, <1>4, <1>5, <1>6 DEF Next

(* With no other client, the snapshot is exactly the server whenever       *)
(* nothing is in flight: edits, removals, clears and any number of         *)
(* overlapping, reordered fetches always come out even                     *)
(* (write_back_at_epoch, replay_writes, update_item, delete_item, clear).  *)
THEOREM LocallyAlwaysTheServer ==
  ASSUME LocalKindsOnly
  PROVE  Spec => []QuiescentAgreement
<1>1. Init => Agreement
  BY AgreementInit
<1>2. IInv /\ Agreement /\ [Next]_vars => Agreement'
  BY AgreementStep
<1>3. IInv /\ Agreement => QuiescentAgreement
  <2> SUFFICES ASSUME IInv, Agreement, populated, \A t \in Threads : op[t].pc = "idle",
                      NEW id \in Ids
               PROVE  IF server[id].state = "live" THEN items[id] = <<Row(id)>>
                                                   ELSE items[id] = <<>>
    BY DEF QuiescentAgreement
  <2>1. ~InFlight(id)
    BY DEF InFlight, Threads
  <2>2. QED
    BY <2>1, ListedFacts DEF Agreement, RowsAgree, IInv
<1>4. QED
  BY <1>1, <1>2, <1>3, InitIInv, IInvStep, PTL DEF Spec
=============================================================================
