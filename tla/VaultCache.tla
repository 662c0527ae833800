----------------------------- MODULE VaultCache -----------------------------
(***************************************************************************)
(* The in-memory snapshot of the vault (vault_cache.rs): one mutex-guarded *)
(* Snapshot filled by whole-vault fetches, written through by local edits  *)
(* and by announced changes, and dropped by `clear`.                       *)
(*                                                                         *)
(* Every backend call is made with no lock held, so each operation is a    *)
(* request step, which reads or changes the server, and a landing step,    *)
(* which is one critical section of the snapshot's mutex.  The main thread *)
(* runs the writers and `clear`; loader threads run fetches and announced  *)
(* changes, and outlive a clear.  The cache is the one VaultCache::new     *)
(* builds, without a disk copy: DiskCopy models that.                      *)
(***************************************************************************)
EXTENDS Naturals, Sequences

CONSTANTS
    ItemIds,      \* the ids of vault items
    FolderIds,    \* the ids of folders
    Loaders,      \* background threads: populates and announced changes
    Main,         \* the thread of the window, the writers and the clears
    Kinds,        \* the kinds of operation this instance performs
    MaxClock,     \* bound: changes of the server
    MaxWrites,    \* bound: entries ever written to the pending log
    MaxEra        \* bound: clears

ASSUME IdsAssumption == ItemIds \cap FolderIds = {} /\ ItemIds \cup FolderIds # {}
ASSUME ThreadsAssumption == Main \notin Loaders
ASSUME BoundsAssumption == MaxClock \in Nat /\ MaxWrites \in Nat /\ MaxEra \in Nat

Ids == ItemIds \cup FolderIds
Threads == Loaders \cup {Main}

VARIABLES
    server,     \* the vault itself: [Ids -> [state, body, rev]]
    clock,      \* how many changes the server has made
    items,      \* Snapshot.items and .folders: the copies of an id, in order
    populated,  \* Snapshot.populated
    era,        \* Snapshot.era
    writes,     \* Snapshot.writes
    pending,    \* Snapshot.pending_items and .pending_folders, by id
    shown,      \* the ids the open window's own list has ever shown
    op,         \* what each thread is in the middle of
    landed      \* history: the last write-through of an id in this era

cacheVars == <<items, populated, era, writes, pending>>
vars == <<server, clock, items, populated, era, writes, pending, shown, op, landed>>

-----------------------------------------------------------------------------
(* A vault row.  `rev` stands for revisionDate, the token a save claims;   *)
(* `body` for the content, named by the revision that last changed it;     *)
(* `born` is history: the era in which the backend answered with the row.  *)
Value == [body : Nat, rev : Nat, born : Nat]
NoValue == [body |-> 0, rev |-> 0, born |-> 0]

(* VaultEpoch: the era and the write position; `clock` is history. *)
Mark == [era : Nat, writes : Nat, clock : Nat]
Epoch == [era |-> era, writes |-> writes, clock |-> clock]

(* PendingWrite: the last write of an id; a `seq` of 0 is no entry. *)
PendingWrite == [seq : Nat, deleted : BOOLEAN]
NoWrite == [seq |-> 0, deleted |-> FALSE]

Landing == [rev : Nat, deleted : BOOLEAN]
NoLanding == [rev |-> 0, deleted |-> FALSE]

Empty == [id \in Ids |-> <<>>]

Idle == [kind |-> "none", pc |-> "idle", id |-> CHOOSE id \in Ids : TRUE,
         mark |-> [era |-> 0, writes |-> 0, clock |-> 0],
         copy |-> NoValue, live |-> TRUE, fetched |-> Empty]

Steps == {"idle", "fetchItems", "fetchFolders", "writeBack",
          "check", "get", "call", "readBack", "land"}
OpKinds == {"none", "populate", "create", "update", "remove", "revive",
            "changed", "removed"}

Op == [kind : OpKinds, pc : Steps, id : Ids, mark : Mark, copy : Value,
       live : BOOLEAN, fetched : [Ids -> Seq(Value)]]

TypeOK ==
    /\ server \in [Ids -> [state : {"none", "live", "gone"}, body : Nat, rev : Nat]]
    /\ clock \in Nat
    /\ items \in [Ids -> Seq(Value)]
    /\ populated \in BOOLEAN
    /\ era \in Nat
    /\ writes \in Nat
    /\ pending \in [Ids -> PendingWrite]
    /\ shown \subseteq Ids
    /\ op \in [Threads -> Op]
    /\ landed \in [Ids -> Landing]

Init ==
    /\ server \in [Ids -> {[state |-> "live", body |-> 1, rev |-> 1],
                           [state |-> "none", body |-> 0, rev |-> 0]}]
    /\ clock = 1
    /\ items = Empty
    /\ populated = FALSE
    /\ era = 0
    /\ writes = 0
    /\ pending = [id \in Ids |-> NoWrite]
    /\ shown = {}
    /\ op = [t \in Threads |-> Idle]
    /\ landed = [id \in Ids |-> NoLanding]

-----------------------------------------------------------------------------
(* The server, as the backend calls see it. *)

Row(id) == [body |-> server[id].body, rev |-> server[id].rev, born |-> era]

(* What the list calls answer for an id: a trashed, archived or absent     *)
(* item is not in GET /list/object/items.                                  *)
Listed(id) == IF server[id].state = "live" THEN <<Row(id)>> ELSE <<>>

Rewritten(id) == [server EXCEPT ![id] = [state |-> "live", body |-> clock + 1, rev |-> clock + 1]]
Restated(id, state) == [server EXCEPT ![id] = [state |-> state, body |-> server[id].body, rev |-> clock + 1]]

Tick == clock < MaxClock /\ clock' = clock + 1

(* Deleting or archiving an item hides it; purging it, and deleting a      *)
(* folder, ends it.                                                        *)
Removal(id) ==
    IF id \in ItemIds /\ server[id].state = "live" THEN "gone" ELSE "none"

-----------------------------------------------------------------------------
(* Helpers of the landing steps. *)

(* The first copy replaced, or one pushed where there is none. *)
PutFirst(copies, value) ==
    <<value>> \o (IF copies = <<>> THEN <<>> ELSE Tail(copies))

(* Mutants of Replayed: a mark taken one write too late, a log consulted   *)
(* whatever the mark, and deletes left out of the replay.                  *)
ReplayedOffByOne(id, fetched, since) ==
    IF pending[id].seq <= since + 1 THEN fetched
    ELSE IF pending[id].deleted THEN <<>>
    ELSE IF items[id] = <<>> THEN fetched
    ELSE PutFirst(fetched, Head(items[id]))

ReplayedAlways(id, fetched, since) ==
    IF pending[id].seq = 0 THEN fetched
    ELSE IF pending[id].deleted THEN <<>>
    ELSE IF items[id] = <<>> THEN fetched
    ELSE PutFirst(fetched, Head(items[id]))

ReplayedWithoutDeletes(id, fetched, since) ==
    IF pending[id].seq <= since \/ items[id] = <<>> THEN fetched
    ELSE PutFirst(fetched, Head(items[id]))

(* replay_writes, for one id: a write newer than the mark is laid over the *)
(* fetch, taking its value from the snapshot as it stands.                 *)
Replayed(id, fetched, since) ==
    IF pending[id].seq <= since THEN fetched
    ELSE IF pending[id].deleted THEN <<>>
    ELSE IF items[id] = <<>> THEN fetched
    ELSE PutFirst(fetched, Head(items[id]))

(* Mutant of Note: the entry forgets which kind of write it records. *)
NoteWithoutKind(id, deleted) ==
    /\ writes' = writes + 1
    /\ pending' = [pending EXCEPT ![id] = [seq |-> writes + 1]]

(* note_item_write and note_folder_write: last write wins per id. *)
Note(id, deleted) ==
    /\ writes' = writes + 1
    /\ pending' = [pending EXCEPT ![id] = [seq |-> writes + 1, deleted |-> deleted]]

(* A write lands: the copies of the id as it leaves them, and its entry in *)
(* the log.  `landed` remembers the row then shown, or the removal.        *)
Land(id, copies, deleted, rev) ==
    /\ items' = [items EXCEPT ![id] = copies]
    /\ shown' = IF copies = <<>> THEN shown ELSE shown \cup {id}
    /\ Note(id, deleted)
    /\ landed' = [landed EXCEPT ![id] =
                    IF ~deleted THEN [rev |-> Head(copies).rev, deleted |-> FALSE]
                    ELSE IF copies = <<>> THEN [rev |-> rev, deleted |-> TRUE]
                    ELSE NoLanding]
    /\ UNCHANGED <<populated, era>>

Becomes(t, o) == op' = [op EXCEPT ![t] = o]
End(t) == Becomes(t, Idle)

CanBegin(t, kind) ==
    /\ kind \in Kinds
    /\ op[t].pc = "idle"
    /\ kind = "populate" \/ writes < MaxWrites

-----------------------------------------------------------------------------
(* populate: the epoch is taken before either half is fetched. *)

BeginPopulate(t) ==
    /\ CanBegin(t, "populate")
    /\ Becomes(t, [Idle EXCEPT !.kind = "populate", !.pc = "fetchItems", !.mark = Epoch])
    /\ UNCHANGED <<server, clock, cacheVars, shown, landed>>

FetchItems(t) ==
    /\ op[t].pc = "fetchItems"
    /\ Becomes(t, [op[t] EXCEPT
                      !.pc = "fetchFolders",
                      !.fetched = [id \in Ids |-> IF id \in ItemIds THEN Listed(id) ELSE <<>>]])
    /\ UNCHANGED <<server, clock, cacheVars, shown, landed>>

FetchFolders(t) ==
    /\ op[t].pc = "fetchFolders"
    /\ Becomes(t, [op[t] EXCEPT
                      !.pc = "writeBack",
                      !.fetched = [id \in Ids |-> IF id \in FolderIds THEN Listed(id)
                                                  ELSE op[t].fetched[id]]])
    /\ UNCHANGED <<server, clock, cacheVars, shown, landed>>

(* A backend call of a loader that answers with an error ends it. *)
FetchFails(t) ==
    /\ op[t].pc \in {"fetchItems", "fetchFolders", "get"}
    /\ End(t)
    /\ UNCHANGED <<server, clock, cacheVars, shown, landed>>

(* write_back_at_epoch, PopulateOutcome::DiscardedStale *)
DiscardStale(t) ==
    /\ op[t].pc = "writeBack"
    /\ op[t].mark.era # era
    /\ End(t)
    /\ UNCHANGED <<server, clock, cacheVars, shown, landed>>

(* Mutant of WriteBack: the era guard is gone. *)
WriteBackAnyEra(t) ==
    /\ op[t].pc = "writeBack"
    /\ items' = [id \in Ids |-> Replayed(id, op[t].fetched[id], op[t].mark.writes)]
    /\ populated' = TRUE
    /\ shown' = shown \cup {id \in Ids : items'[id] # <<>>}
    /\ landed' = [id \in Ids |-> IF items'[id] = <<>> /\ ~landed[id].deleted
                                 THEN NoLanding ELSE landed[id]]
    /\ End(t)
    /\ UNCHANGED <<server, clock, era, writes, pending>>

(* write_back_at_epoch, PopulateOutcome::Populated.  No entry of the       *)
(* pending log is dropped: another fetch in flight may still need it.      *)
WriteBack(t) ==
    /\ op[t].pc = "writeBack"
    /\ op[t].mark.era = era
    /\ items' = [id \in Ids |-> Replayed(id, op[t].fetched[id], op[t].mark.writes)]
    /\ populated' = TRUE
    /\ shown' = shown \cup {id \in Ids : items'[id] # <<>>}
    /\ landed' = [id \in Ids |-> IF items'[id] = <<>> /\ ~landed[id].deleted
                                 THEN NoLanding ELSE landed[id]]
    /\ End(t)
    /\ UNCHANGED <<server, clock, era, writes, pending>>

-----------------------------------------------------------------------------
(* The writers: the backend call first, then the snapshot under its lock.  *)
(* Only the main thread runs them.                                         *)

Call(kind, id, copy, pc) ==
    Becomes(Main, [Idle EXCEPT !.kind = kind, !.pc = pc, !.id = id, !.copy = copy])

(* create_item, create_folder: the server mints an id nobody has used. *)
CallCreate(id) ==
    /\ CanBegin(Main, "create")
    /\ server[id].rev = 0
    /\ Tick
    /\ server' = Rewritten(id)
    /\ Call("create", id, [body |-> clock + 1, rev |-> clock + 1, born |-> era], "land")
    /\ UNCHANGED <<cacheVars, shown, landed>>

(* update_item, set_app_match, move_item_to_folder, set_favorite and       *)
(* update_folder: an edit of a row the window shows, answered with the     *)
(* row as the server now has it.                                           *)
CallUpdate(id) ==
    /\ CanBegin(Main, "update")
    /\ id \in shown
    /\ server[id].state = "live"
    /\ Tick
    /\ server' = Rewritten(id)
    /\ Call("update", id, [body |-> clock + 1, rev |-> clock + 1, born |-> era], "land")
    /\ UNCHANGED <<cacheVars, shown, landed>>

(* delete_item, archive_item, purge_item and delete_folder *)
CallRemove(id) ==
    /\ CanBegin(Main, "remove")
    /\ \/ id \in shown /\ server[id].state = "live"
       \/ id \in ItemIds /\ server[id].state = "gone"
    /\ Tick
    /\ server' = Restated(id, Removal(id))
    /\ Call("remove", id, [body |-> server[id].body, rev |-> clock + 1, born |-> era], "land")
    /\ UNCHANGED <<cacheVars, shown, landed>>

(* restore_item, unarchive_item: the caller holds the row as the trash or  *)
(* the archive listed it ...                                               *)
BeginRevive(id) ==
    /\ CanBegin(Main, "revive")
    /\ id \in ItemIds
    /\ server[id].state = "gone"
    /\ Call("revive", id, Row(id), "call")
    /\ UNCHANGED <<server, clock, cacheVars, shown, landed>>

CallRevive ==
    /\ op[Main].pc = "call"
    /\ server[op[Main].id].state = "gone"
    /\ Tick
    /\ server' = Restated(op[Main].id, "live")
    /\ Becomes(Main, [op[Main] EXCEPT !.pc = "readBack"])
    /\ UNCHANGED <<cacheVars, shown, landed>>

ReviveFails ==
    /\ op[Main].pc = "call"
    /\ End(Main)
    /\ UNCHANGED <<server, clock, cacheVars, shown, landed>>

(* ... and current_revision_of puts the token the server reports now onto  *)
(* that copy, or keeps the old token when the read fails.                  *)
ReadBack ==
    /\ op[Main].pc = "readBack"
    /\ op[Main].kind = "revive"
    /\ server[op[Main].id].state # "none"
    /\ Becomes(Main, [op[Main] EXCEPT
                         !.pc = "land",
                         !.copy = [body |-> op[Main].copy.body,
                                   rev |-> server[op[Main].id].rev,
                                   born |-> op[Main].copy.born]])
    /\ UNCHANGED <<server, clock, cacheVars, shown, landed>>

ReadBackFails ==
    /\ op[Main].pc = "readBack"
    /\ op[Main].kind = "revive"
    /\ Becomes(Main, [op[Main] EXCEPT !.pc = "land"])
    /\ UNCHANGED <<server, clock, cacheVars, shown, landed>>

WriterLanding(kind) == op[Main].pc = "land" /\ op[Main].kind = kind

(* The write-through every writer skips while nothing is populated *)
LandUnpopulated ==
    /\ op[Main].pc = "land"
    /\ ~populated
    /\ End(Main)
    /\ UNCHANGED <<server, clock, cacheVars, shown, landed>>

LandCreate ==
    /\ WriterLanding("create")
    /\ populated
    /\ LET o == op[Main] IN Land(o.id, Append(items[o.id], o.copy), FALSE, o.copy.rev)
    /\ End(Main)
    /\ UNCHANGED <<server, clock>>

LandUpdate ==
    /\ WriterLanding("update")
    /\ populated
    /\ items[op[Main].id] # <<>>
    /\ LET o == op[Main] IN Land(o.id, PutFirst(items[o.id], o.copy), FALSE, o.copy.rev)
    /\ End(Main)
    /\ UNCHANGED <<server, clock>>

(* The snapshot lost the row meanwhile: nothing is written or recorded. *)
MissUpdate ==
    /\ WriterLanding("update")
    /\ populated
    /\ items[op[Main].id] = <<>>
    /\ End(Main)
    /\ UNCHANGED <<server, clock, cacheVars, shown, landed>>

LandRemove ==
    /\ WriterLanding("remove")
    /\ populated
    /\ LET o == op[Main] IN Land(o.id, <<>>, TRUE, o.copy.rev)
    /\ End(Main)
    /\ UNCHANGED <<server, clock>>

LandRevive ==
    /\ WriterLanding("revive")
    /\ populated
    /\ LET o == op[Main] IN Land(o.id, PutFirst(items[o.id], o.copy), FALSE, o.copy.rev)
    /\ End(Main)
    /\ UNCHANGED <<server, clock>>

-----------------------------------------------------------------------------
(* apply_announced, for one change: the hub says an item was changed, with *)
(* the revision it got or none, or that it is gone.                        *)

Announced(t, id, kind, rev) ==
    /\ Becomes(t, [Idle EXCEPT !.kind = kind, !.pc = "check", !.id = id,
                               !.mark = [era |-> era, writes |-> 0, clock |-> 0],
                               !.copy = [body |-> 0, rev |-> rev, born |-> era]])
    /\ UNCHANGED <<server, clock, cacheVars, shown, landed>>

AnnounceChanged(t, id) ==
    /\ CanBegin(t, "changed")
    /\ id \in ItemIds
    /\ server[id].state # "none"
    /\ \E rev \in {0, server[id].rev} : Announced(t, id, "changed", rev)

AnnounceRemoved(t, id) ==
    /\ CanBegin(t, "removed")
    /\ id \in ItemIds
    /\ server[id].rev # 0
    /\ server[id].state # "live"
    /\ Announced(t, id, "removed", server[id].rev)

StillCurrent(t) == op[t].mark.era = era /\ populated

(* "the vault session moved on": the caller populates instead *)
AnnouncedTooLate(t) ==
    /\ op[t].pc \in {"check", "land"}
    /\ t \in Loaders
    /\ ~StillCurrent(t)
    /\ End(t)
    /\ UNCHANGED <<server, clock, cacheVars, shown, landed>>

ApplyRemoved(t) ==
    /\ op[t].pc = "check"
    /\ op[t].kind = "removed"
    /\ StillCurrent(t)
    /\ Land(op[t].id, <<>>, TRUE, op[t].copy.rev)
    /\ End(t)
    /\ UNCHANGED <<server, clock>>

AlreadyHeld(t) ==
    /\ items[op[t].id] # <<>>
    /\ op[t].copy.rev = Head(items[op[t].id]).rev

(* The announced revision is the one the snapshot holds. *)
SkipChanged(t) ==
    /\ op[t].pc = "check"
    /\ op[t].kind = "changed"
    /\ StillCurrent(t)
    /\ AlreadyHeld(t)
    /\ End(t)
    /\ UNCHANGED <<server, clock, cacheVars, shown, landed>>

CheckChanged(t) ==
    /\ op[t].pc = "check"
    /\ op[t].kind = "changed"
    /\ StillCurrent(t)
    /\ ~AlreadyHeld(t)
    /\ Becomes(t, [op[t] EXCEPT !.pc = "get"])
    /\ UNCHANGED <<server, clock, cacheVars, shown, landed>>

GetChanged(t) ==
    /\ op[t].pc = "get"
    /\ op[t].kind = "changed"
    /\ server[op[t].id].state # "none"
    /\ Becomes(t, [op[t] EXCEPT !.pc = "land",
                                !.copy = Row(op[t].id),
                                !.live = (server[op[t].id].state = "live")])
    /\ UNCHANGED <<server, clock, cacheVars, shown, landed>>

(* The first copy leaves; a live record comes in at the front. *)
LandChanged(t) ==
    /\ op[t].pc = "land"
    /\ op[t].kind = "changed"
    /\ StillCurrent(t)
    /\ LET o == op[t]
           rest == IF items[o.id] = <<>> THEN <<>> ELSE Tail(items[o.id])
       IN Land(o.id, IF o.live THEN <<o.copy>> \o rest ELSE rest, ~o.live, o.copy.rev)
    /\ End(t)
    /\ UNCHANGED <<server, clock>>

-----------------------------------------------------------------------------
(* `clear`: lock, re-authentication and account switch, on the main thread *)
(* and so never in the middle of a writer.  The write counter goes on.     *)
Clear ==
    /\ "clear" \in Kinds
    /\ op[Main].pc = "idle"
    /\ era < MaxEra
    /\ items' = Empty
    /\ pending' = [id \in Ids |-> NoWrite]
    /\ populated' = FALSE
    /\ era' = era + 1
    /\ shown' = {}
    /\ landed' = [id \in Ids |-> NoLanding]
    /\ UNCHANGED <<server, clock, writes, op>>

(* Another client of the same account: creates, edits, trashes, restores,  *)
(* purges.                                                                 *)
Remote(id) ==
    /\ "remote" \in Kinds
    /\ Tick
    /\ \/ server[id].rev = 0 /\ server' = Rewritten(id)
       \/ server[id].state = "live" /\ server' \in {Rewritten(id), Restated(id, Removal(id))}
       \/ server[id].state = "gone" /\ server' \in {Restated(id, "live"), Restated(id, "none")}
    /\ UNCHANGED <<cacheVars, shown, op, landed>>

Populating(t) ==
    BeginPopulate(t) \/ FetchItems(t) \/ FetchFolders(t) \/ FetchFails(t) \/ DiscardStale(t) \/ WriteBack(t)

Announcing(t) ==
    \/ \E id \in Ids : AnnounceChanged(t, id) \/ AnnounceRemoved(t, id)
    \/ AnnouncedTooLate(t) \/ ApplyRemoved(t) \/ SkipChanged(t) \/ CheckChanged(t)
    \/ GetChanged(t) \/ LandChanged(t)

Writing ==
    \/ \E id \in Ids : CallCreate(id) \/ CallUpdate(id) \/ CallRemove(id) \/ BeginRevive(id)
    \/ CallRevive \/ ReviveFails \/ ReadBack \/ ReadBackFails
    \/ LandUnpopulated \/ LandCreate \/ LandUpdate \/ MissUpdate \/ LandRemove \/ LandRevive

Next ==
    \/ \E t \in Loaders : Populating(t) \/ Announcing(t)
    \/ Writing
    \/ Clear
    \/ \E id \in Ids : Remote(id)

Spec == Init /\ [][Next]_vars

-----------------------------------------------------------------------------
(* Properties *)

(* A row of the snapshot, as find and position see it, is at or past a     *)
(* landing: the same revision or a later one, or gone when it was removed. *)
Reflects(copies, landing) ==
    \/ landing.rev = 0
    \/ copies = <<>> /\ landing.deleted
    \/ copies # <<>> /\ landing.deleted /\ Head(copies).rev > landing.rev
    \/ copies # <<>> /\ ~landing.deleted /\ Head(copies).rev >= landing.rev

(* Whatever was last written through for an id -- an edit, a removal, a    *)
(* restore, an announced change -- no fetch that lands later takes the     *)
(* snapshot behind it, however the fetches and the writes interleave.  The *)
(* module header: "a populate whose fetch predates a write can no longer   *)
(* undo it".  A fetch that legitimately lacks the row may still drop it.   *)
LandedWritesHold == populated => \A id \in Ids : Reflects(items[id], landed[id])

(* VaultEra: "the snapshot ... still belongs to the same vault session".   *)
(* No row the backend answered with before a clear is in the snapshot      *)
(* after it, though loads and announced changes outlive the clear.         *)
RowsOfThisSession ==
    \A id \in Ids : \A i \in 1..Len(items[id]) : items[id][i].born = era

(* A fetch that nothing overlapped leaves exactly the server's live rows:  *)
(* log entries that older fetches still needed must not touch it.  This is *)
(* the promise that a stale row "heals itself" at the next populate.       *)
FreshPopulateIsTheServer ==
    [][\A t \in Loaders :
         (WriteBack(t) /\ op[t].mark = Epoch) => items' = [id \in Ids |-> Listed(id)]]_vars

(* With no other client, and no write made into an unpopulated cache, the  *)
(* snapshot is exactly the server whenever nothing is in flight: local     *)
(* writes and overlapping, reordered fetches always come out even.         *)
QuiescentAgreement ==
    (populated /\ \A t \in Threads : op[t].pc = "idle") =>
        \A id \in Ids : IF server[id].state = "live"
                        THEN items[id] = <<Row(id)>>
                        ELSE items[id] = <<>>

(* Background loads keep being started and eventually get an answer.       *)
FairSpec ==
    /\ Spec
    /\ \A t \in Loaders : /\ WF_vars(BeginPopulate(t))
                          /\ SF_vars(FetchItems(t))
                          /\ SF_vars(FetchFolders(t))
                          /\ WF_vars(WriteBack(t) \/ DiscardStale(t))

(* replay_writes and restore_item: an outdated or resurrected row is       *)
(* transient.  While syncs go on, once the server stops changing, the      *)
(* snapshot ends up equal to it and stays so.                              *)
EventuallyTheServer ==
    <>[](populated /\ \A id \in Ids : items[id] = Listed(id))

-----------------------------------------------------------------------------
(* The inductive invariant behind LandedWritesHold and RowsOfThisSession. *)

(* Rows of id the backend can have answered with in this era. *)
Fresh(id) == {v \in Value : v.born = era /\ v.rev <= server[id].rev}

(* The server has gone through revision `rev` of id -- and, for a removal, *)
(* is live only at a later one.                                            *)
Reached(id, rev, deleted) ==
    /\ rev <= server[id].rev
    /\ deleted /\ server[id].state = "live" => rev < server[id].rev

RowsAreFresh == \A id \in Ids : items[id] \in Seq(Fresh(id))

LogIsBehindCounter == \A id \in Ids : pending[id].seq <= writes

ServerIsBehindClock == \A id \in Ids : server[id].rev <= clock

(* A landing is in the log until a clear, so a fetch that began before it  *)
(* replays it, and the snapshot reflects it.                               *)
LandingsAreLogged ==
    \A id \in Ids : landed[id].rev # 0 =>
        /\ Reached(id, landed[id].rev, landed[id].deleted)
        /\ pending[id].seq > 0
        /\ pending[id].deleted = landed[id].deleted
        /\ Reflects(items[id], landed[id])

MarkOK(t) == op[t].mark.era <= era /\ op[t].mark.writes <= writes

(* A fetch of this era that will not replay an id has seen its landing.    *)
FetchOK(t) ==
    op[t].pc \in {"fetchFolders", "writeBack"} /\ op[t].mark.era = era =>
        \A id \in Ids :
            /\ op[t].fetched[id] \in Seq(Fresh(id))
            /\ (op[t].pc = "writeBack" \/ id \in ItemIds) /\ pending[id].seq <= op[t].mark.writes
                 => op[t].fetched[id] = <<>> \/ Reflects(op[t].fetched[id], landed[id])

Removes(o) == o.kind = "remove" \/ (o.kind = "changed" /\ ~o.live)

(* What a writer or an announced change is about to land is of this era,   *)
(* unless the landing is going to be refused.                              *)
CopyOK(t) ==
    /\ op[t].pc \in {"call", "readBack", "land"} /\ (t = Main \/ op[t].mark.era = era)
         => op[t].copy \in Fresh(op[t].id)
    /\ op[t].pc = "land" => Reached(op[t].id, op[t].copy.rev, Removes(op[t]))
    /\ op[t].pc = "check" /\ op[t].kind = "removed"
         => Reached(op[t].id, op[t].copy.rev, TRUE)

OpOK(t) == MarkOK(t) /\ FetchOK(t) /\ CopyOK(t)

IInv ==
    /\ TypeOK
    /\ RowsAreFresh
    /\ LogIsBehindCounter
    /\ ServerIsBehindClock
    /\ LandingsAreLogged
    /\ \A t \in Threads : OpOK(t)
=============================================================================
