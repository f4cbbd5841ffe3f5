--------------------------- MODULE DocumentStores ---------------------------
(* The document stores: in memory, and synchronised over Iroh; two state machines. *)
EXTENDS Naturals, Sequences, FiniteSetsExt

(***************************************************************************)
(* The in-memory document store, AutomergeBackend in                       *)
(* peat-protocol/src/sync/automerge.rs, with several callers.  Documents,  *)
(* tombstones, pending tombstones and observers are behind locks of their  *)
(* own, and a call takes and releases them one after the other: a write    *)
(* releases the documents before it takes the observers, an observer takes *)
(* its snapshot before it registers, a soft delete reads and then writes.  *)
(*                                                                         *)
(* Documents share nothing but those locks, so the module follows one      *)
(* document of a collection whose deletion policy is chosen at the start.  *)
(* Its content is the number of the write that made it.                    *)
(***************************************************************************)

CONSTANTS Caller, MaxCalls

Absent == [write |-> 0, deleted |-> FALSE]
NoStone == {}
Remote == {"remote"}
Policy == {"Immutable", "ImplicitTTL", "Tombstone", "SoftDelete"}
Free == [pc |-> "free"]

VARIABLES
    policy,      \* deletion_policy(collection)
    doc,         \* Absent or [write, deleted]
    stone,       \* the stored tombstone: {its Lamport time}, Remote or NoStone
    lamport,     \* lamport_counter
    unsent,      \* pending_tombstones
    sent,        \* tombstones drained for the peers
    call,        \* per caller: the call in progress
    observing,   \* the observer is registered
    view,        \* what the observer was last told
    calls,       \* calls made so far
    raced        \* two calls overlapped, or the store changed silently

memoryVars == <<policy, doc, stone, lamport, unsent, sent, call, observing, view,
                calls, raced>>

MemoryInit ==
    /\ policy \in Policy
    /\ doc = Absent /\ stone = NoStone /\ lamport = 0
    /\ unsent = <<>> /\ sent = <<>>
    /\ call = [c \in Caller |-> Free]
    /\ observing = FALSE /\ view = Absent
    /\ calls = 0 /\ raced = FALSE

-----------------------------------------------------------------------------
Begins(c) ==
    /\ call[c] = Free /\ calls < MaxCalls
    /\ calls' = calls + 1
    /\ raced' = (raced \/ \E o \in Caller : call[o] # Free)

Goes(c, next) == call' = [call EXCEPT ![c] = next]

(* The documents lock: store the content, then notify without the lock. *)
Store(c, content) ==
    /\ doc' = content
    /\ Goes(c, [pc |-> "notify", event |-> content])

UpsertWithOrigin(c) ==
    /\ Begins(c)
    /\ Store(c, [write |-> calls', deleted |-> FALSE])
    /\ UNCHANGED <<policy, stone, lamport, unsent, sent, observing, view>>

(* Variant: removing a document tells nobody. *)
DropDocumentSilently(c) ==
    /\ doc' = Absent
    /\ Goes(c, Free)

DropDocument(c) ==
    IF doc = Absent THEN UNCHANGED doc /\ Goes(c, Free) ELSE Store(c, Absent)

(* Removing what is not there is an error. *)
RemoveCall(c) ==
    /\ Begins(c)
    /\ DropDocument(c)
    /\ UNCHANGED <<policy, stone, lamport, unsent, sent, observing, view>>

(* The observers lock: every registered observer gets the event. *)
Notify(c) ==
    /\ call[c].pc = "notify"
    /\ view' = IF observing THEN call[c].event ELSE view
    /\ Goes(c, Free)
    /\ UNCHANGED <<policy, doc, stone, lamport, unsent, sent, observing, calls,
                   raced>>

(* Observing: the snapshot is sent, and later the observer is registered. *)
Observe(c) ==
    /\ ~observing /\ \A o \in Caller : call[o].pc # "register"
    /\ Begins(c)
    /\ view' = doc
    /\ Goes(c, [pc |-> "register"])
    /\ UNCHANGED <<policy, doc, stone, lamport, unsent, sent, observing>>

Register(c) ==
    /\ call[c].pc = "register"
    /\ observing' = TRUE
    /\ Goes(c, Free)
    /\ UNCHANGED <<policy, doc, stone, lamport, unsent, sent, view, calls, raced>>

(* Deleting follows the policy: nothing, a tombstone with the next Lamport
   time, or a rewrite of the document that was read. *)
Delete(c) ==
    /\ Begins(c)
    /\ IF policy = "Tombstone"
       THEN /\ lamport' = lamport + 1
            /\ Goes(c, [pc |-> "bury", stone |-> lamport])
       ELSE /\ UNCHANGED lamport
            /\ IF policy = "SoftDelete" /\ doc # Absent
               THEN Goes(c, [pc |-> "rewrite", content |-> [doc EXCEPT !.deleted = TRUE]])
               ELSE UNCHANGED call
    /\ UNCHANGED <<policy, doc, stone, unsent, sent, observing, view>>

Bury(c) ==
    /\ call[c].pc = "bury"
    /\ stone' = {call[c].stone}
    /\ Goes(c, [pc |-> "enqueue", stone |-> call[c].stone])
    /\ UNCHANGED <<policy, doc, lamport, unsent, sent, observing, view, calls, raced>>

Enqueue(c) ==
    /\ call[c].pc = "enqueue"
    /\ unsent' = Append(unsent, call[c].stone)
    /\ Goes(c, [pc |-> "drop"])
    /\ UNCHANGED <<policy, doc, stone, lamport, sent, observing, view, calls, raced>>

Drop(c) ==
    /\ call[c].pc = "drop"
    /\ DropDocument(c)
    /\ UNCHANGED <<policy, stone, lamport, unsent, sent, observing, view, calls,
                   raced>>

Rewrite(c) ==
    /\ call[c].pc = "rewrite"
    /\ Store(c, call[c].content)
    /\ UNCHANGED <<policy, stone, lamport, unsent, sent, observing, view, calls,
                   raced>>

(* A peer's tombstone replaces whatever tombstone is stored. *)
ApplyTombstone(c) ==
    /\ Begins(c)
    /\ stone' = Remote
    /\ Goes(c, [pc |-> "drop"])
    /\ UNCHANGED <<policy, doc, lamport, unsent, sent, observing, view>>

-----------------------------------------------------------------------------
(* What changes the store without a notification: a sync message applied to
   a document that is there, the collector's hard delete, a shutdown. *)
Silently(content) ==
    /\ calls < MaxCalls
    /\ calls' = calls + 1
    /\ doc' = content
    /\ raced' = TRUE
    /\ UNCHANGED <<policy, stone, lamport, unsent, sent, call, observing, view>>

ReceiveSyncMessage == doc # Absent /\ Silently([write |-> calls', deleted |-> FALSE])
HardDelete == Silently(Absent)
Shutdown == Silently(Absent)

(* The collector takes an expired tombstone away. *)
RemoveTombstone ==
    /\ stone # NoStone
    /\ stone' = NoStone
    /\ UNCHANGED <<policy, doc, lamport, unsent, sent, call, observing, view, calls,
                   raced>>

(* Variant: the tombstones are copied out and stay. *)
DrainKeepsTombstones ==
    /\ unsent # <<>> /\ Len(sent) < MaxCalls
    /\ sent' = sent \o unsent
    /\ UNCHANGED <<policy, doc, stone, lamport, unsent, call, observing, view, calls,
                   raced>>

DrainPendingTombstones ==
    /\ unsent # <<>>
    /\ sent' = sent \o unsent
    /\ unsent' = <<>>
    /\ UNCHANGED <<policy, doc, stone, lamport, call, observing, view, calls, raced>>

MemoryNext ==
    \/ \E c \in Caller :
         \/ UpsertWithOrigin(c) \/ RemoveCall(c) \/ Notify(c)
         \/ Observe(c) \/ Register(c)
         \/ Delete(c) \/ Bury(c) \/ Enqueue(c) \/ Drop(c) \/ Rewrite(c)
         \/ ApplyTombstone(c)
    \/ ReceiveSyncMessage \/ HardDelete \/ Shutdown
    \/ RemoveTombstone \/ DrainPendingTombstones

MemorySpec == MemoryInit /\ [][MemoryNext]_memoryVars

-----------------------------------------------------------------------------
Quiet == \A c \in Caller : call[c] = Free

(* With no call in progress an observer was last told what the store holds,
   unless calls overlapped or the store changed without a notification. *)
ObserversAgree == Quiet /\ observing /\ ~raced => view = doc

(* Whatever overlaps, every local tombstone is handed to the peers once, and
   with no call in progress none is missing. *)
TombstonesHandedOnce ==
    LET handed == sent \o unsent
    IN /\ IsInjective(handed)
       /\ Quiet => Range(handed) = 0..(lamport - 1)

-----------------------------------------------------------------------------
(***************************************************************************)
(* IrohDocumentStore in peat-protocol/src/sync/automerge.rs and the origins*)
(* it keeps in sync/pending_origins.rs.                                    *)
(*                                                                         *)
(* A write stashes its origin under the document's key and then writes; the*)
(* store (external) broadcasts the key; the task of each observer reads the*)
(* document, pops an origin for it and reports both.  Remote changes are   *)
(* broadcast too.  An observer that lagged reports every document again.   *)
(*                                                                         *)
(* A document written by upsert keeps its payload under one field of the   *)
(* Automerge document (layout "data"), a typed write has its fields at the *)
(* root, and so has the mark of a soft delete.  Content is the number of   *)
(* the write that made it.                                                 *)
(***************************************************************************)

CONSTANTS
    Doc,
    Observer,
    MaxWrites,
    ChannelCap,    \* capacity of the observers' broadcast channel
    MaxEntries     \* MAX_ENTRIES: stashed origins over all keys

CapacityAssumption == ChannelCap \in Nat \ {0}

NoDocument == [write |-> 0, layout |-> "data", deleted |-> FALSE]
NoCall == [pc |-> "none"]
Unseen == [write |-> 0, raw |-> FALSE]

VARIABLES
    docs,        \* per document: [write, layout, deleted]
    stash,       \* sequence of [doc, write, labelled, expired], oldest first
    writer,      \* the upsert_with_origin in progress
    eraser,      \* the soft delete in progress
    writes,
    listener,    \* per observer: [state, queue, lagged]
    seen,        \* per observer and document: the [write, raw] last reported
    missed,      \* documents changed between an observer's snapshot and start
    reported     \* sequence of [doc, write] of the labelled origins reported

irohVars == <<docs, stash, writer, eraser, writes, listener, seen, missed,
              reported>>

IrohInit ==
    /\ docs = [d \in Doc |-> NoDocument]
    /\ stash = <<>> /\ writer = NoCall /\ eraser = NoCall /\ writes = 0
    /\ listener = [o \in Observer |-> [state |-> "none", queue |-> <<>>, lagged |-> FALSE]]
    /\ seen = [o \in Observer |-> [d \in Doc |-> Unseen]]
    /\ missed = [o \in Observer |-> {}]
    /\ reported = <<>>

-----------------------------------------------------------------------------

(* PendingOrigins::pop takes the oldest entry of the key. *)
Without(d, s) ==
    LET mine == {i \in DOMAIN s : s[i].doc = d}
    IN IF mine = {} THEN s
       ELSE SubSeq(s, 1, Min(mine) - 1) \o SubSeq(s, Min(mine) + 1, Len(s))
Pop(d) == Without(d, stash)

(* The origin an event of document d reports, as a sequence of at most one:
   an expired or unlabelled entry reports none. *)
Popped(d) ==
    LET mine == SelectSeq(stash, LAMBDA e : e.doc = d)
    IN IF mine # <<>> /\ Head(mine).labelled /\ ~Head(mine).expired
       THEN <<[doc |-> d, write |-> Head(mine).write]>> ELSE <<>>

(* PendingOrigins::insert: sweep, append, evict the oldest beyond the cap. *)
Stashed(e) ==
    LET swept == Append(SelectSeq(stash, LAMBDA x : ~x.expired), e)
    IN IF Len(swept) > MaxEntries THEN Tail(swept) ELSE swept

Expire ==
    /\ \E i \in DOMAIN stash :
          /\ ~stash[i].expired
          /\ stash' = [j \in DOMAIN stash |->
                         IF j <= i THEN [stash[j] EXCEPT !.expired = TRUE] ELSE stash[j]]
    /\ UNCHANGED <<docs, writer, eraser, writes, listener, seen, missed,
                   reported>>

(* The store puts a document and broadcasts its key; an observer between
   snapshot and subscription misses it. *)
Put(d, content) ==
    /\ docs' = [docs EXCEPT ![d] = content]
    /\ listener' = [o \in Observer |->
          IF listener[o].state # "on" THEN listener[o]
          ELSE IF Len(listener[o].queue) < ChannelCap
          THEN [listener[o] EXCEPT !.queue = Append(@, d)]
          ELSE [listener[o] EXCEPT !.queue = Append(Tail(@), d), !.lagged = TRUE]]
    /\ missed' = [o \in Observer |->
          IF listener[o].state = "snapshot" THEN missed[o] \cup {d} ELSE missed[o]]

UpsertStash(d, labelled) ==
    /\ writer = NoCall /\ writes < MaxWrites
    /\ writes' = writes + 1
    /\ stash' = Stashed([doc |-> d, write |-> writes', labelled |-> labelled,
                         expired |-> FALSE])
    /\ writer' = [pc |-> "put", doc |-> d, write |-> writes']
    /\ UNCHANGED <<docs, eraser, listener, seen, missed, reported>>

(* The collection's upsert; the root may keep an earlier mark.  When it fails
   the origin stays behind. *)
UpsertPut ==
    /\ writer # NoCall
    /\ writer' = NoCall
    /\ \/ UNCHANGED <<docs, listener, missed>>
       \/ \E mark \in {docs[writer.doc].deleted, FALSE} :
             Put(writer.doc, [write |-> writer.write, layout |-> "data", deleted |-> mark])
    /\ UNCHANGED <<stash, eraser, writes, seen, reported>>

(* A typed write, or a peer's change that arrives in either layout. *)
OtherWrite(d, layout) ==
    /\ writes < MaxWrites
    /\ writes' = writes + 1
    /\ Put(d, [write |-> writes', layout |-> layout, deleted |-> FALSE])
    /\ UNCHANGED <<stash, writer, eraser, seen, reported>>

(* remove, and after storing a tombstone delete and apply_tombstone.  The
   store may broadcast the key: a task that finds no document reports none. *)
RemoveDoc(d) ==
    /\ docs[d] # NoDocument
    /\ \/ Put(d, NoDocument)
       \/ docs' = [docs EXCEPT ![d] = NoDocument] /\ UNCHANGED <<listener, missed>>
    /\ UNCHANGED <<stash, writer, eraser, writes, seen, reported>>

(* A soft delete reads the document and puts it back with a mark at the root. *)
SoftDelete(d) ==
    /\ eraser = NoCall /\ docs[d] # NoDocument
    /\ eraser' = [pc |-> "put", doc |-> d, content |-> [docs[d] EXCEPT !.deleted = TRUE]]
    /\ UNCHANGED <<docs, stash, writer, writes, listener, seen, missed,
                   reported>>

SoftDeletePut ==
    /\ eraser # NoCall
    /\ eraser' = NoCall
    /\ Put(eraser.doc, eraser.content)
    /\ UNCHANGED <<stash, writer, writes, seen, reported>>

-----------------------------------------------------------------------------
(* A scan of the store converts the root of every document, which for the
   "data" layout is the serialised payload; a single read looks into it. *)
Scanned(d) == [write |-> docs[d].write, raw |-> docs[d].layout = "data"]
Fetched(d) == [write |-> docs[d].write, raw |-> FALSE]

(* observe: the snapshot is taken and sent, then the task subscribes. *)
ObserveSnapshot(o) ==
    /\ listener[o].state = "none"
    /\ listener' = [listener EXCEPT ![o].state = "snapshot"]
    /\ seen' = [seen EXCEPT ![o] = [d \in Doc |-> IF docs[d] = NoDocument THEN Unseen ELSE Scanned(d)]]
    /\ UNCHANGED <<docs, stash, writer, eraser, writes, missed, reported>>

ObserveSubscribe(o) ==
    /\ listener[o].state = "snapshot"
    /\ listener' = [listener EXCEPT ![o].state = "on"]
    /\ UNCHANGED <<docs, stash, writer, eraser, writes, seen, missed, reported>>

(* The observer's task takes a key: the document as it is now is reported
   with the origin popped for it. *)
Report(o) ==
    /\ listener[o].queue # <<>> /\ ~listener[o].lagged
    /\ LET d == Head(listener[o].queue) IN
       /\ listener' = [listener EXCEPT ![o].queue = Tail(@)]
       /\ IF docs[d] = NoDocument THEN UNCHANGED <<stash, seen, reported, missed>>
          ELSE /\ seen' = [seen EXCEPT ![o][d] = Fetched(d)]
               /\ missed' = [missed EXCEPT ![o] = @ \ {d}]
               /\ reported' = reported \o Popped(d)
               /\ stash' = Pop(d)
    /\ UNCHANGED <<docs, writer, eraser, writes>>

(* Variant: having lagged, the task goes on with the next key. *)
ReportAllSkips(o) ==
    /\ listener[o].lagged
    /\ listener' = [listener EXCEPT ![o].lagged = FALSE]
    /\ UNCHANGED <<docs, writer, eraser, writes, stash, seen, missed, reported>>

(* Lagged: every document is reported again, one after the other. *)
ReportAll(o) ==
    /\ listener[o].lagged
    /\ listener' = [listener EXCEPT ![o].lagged = FALSE]
    /\ LET here == {d \in Doc : docs[d] # NoDocument}
           report(d, told) == Popped(d) \o told
       IN /\ seen' = [seen EXCEPT ![o] =
                        [d \in Doc |-> IF d \in here THEN Scanned(d) ELSE @[d]]]
          /\ missed' = [missed EXCEPT ![o] = @ \ here]
          /\ reported' = reported \o FoldSet(report, <<>>, here)
          /\ stash' = FoldSet(Without, stash, here)
    /\ UNCHANGED <<docs, writer, eraser, writes>>

IrohNext ==
    \/ \E d \in Doc, labelled \in BOOLEAN : UpsertStash(d, labelled)
    \/ UpsertPut \/ SoftDeletePut \/ Expire
    \/ \E d \in Doc, layout \in {"data", "root"} : OtherWrite(d, layout)
    \/ \E d \in Doc : SoftDelete(d) \/ RemoveDoc(d)
    \/ \E o \in Observer :
         ObserveSnapshot(o) \/ ObserveSubscribe(o) \/ Report(o) \/ ReportAll(o)

IrohSpec == IrohInit /\ [][IrohNext]_irohVars

-----------------------------------------------------------------------------
(* An observer with nothing left to handle was told the content of every
   stored document, though notifications were lost to lag: only a change
   between its snapshot and its subscription is missed. *)
ObserverCatchesUp ==
    \A o \in Observer :
        listener[o].state = "on" /\ listener[o].queue = <<>> /\ ~listener[o].lagged
            => \A d \in Doc \ missed[o] :
                  docs[d] # NoDocument => seen[o][d].write = docs[d].write

(* Whatever was evicted, expired, overrun or mixed with remote changes, the
   origin of a write is reported at most once, over all observers. *)
OriginsReportedOnce == IsInjective(reported)

=============================================================================
