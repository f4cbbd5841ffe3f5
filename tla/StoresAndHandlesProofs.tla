----------------------- MODULE StoresAndHandlesProofs -----------------------
(***************************************************************************)
(* What an embedding application relies on, for any number of callers,     *)
(* documents, observers, nodes and threads: that observers of either       *)
(* document store are told what it holds (sync/automerge.rs), that every   *)
(* tombstone is handed to the peers once, and that a node reached through  *)
(* its handle or the global slot is alive and has its BLE translators      *)
(* registered while a consumer holds them (peat-ffi/src/lib.rs).           *)
(***************************************************************************)
EXTENDS DocumentStores, TLAPS

(***************************************************************************)
(* The in-memory store.  As long as no two calls overlapped and nothing    *)
(* changed silently there is one call at a time, the event it carries to   *)
(* the observers is the document, and an observer that has its snapshot,   *)
(* registered or not, is behind only while such an event is on its way.    *)
(***************************************************************************)
Busy == {c \in Caller : call[c] # Free}

Watching == observing \/ \E c \in Caller : call[c].pc = "register"

Alone ==
    /\ \A c, o \in Busy : c = o
    /\ \A c \in Caller : call[c].pc = "notify" => call[c].event = doc
    /\ Watching /\ (\A c \in Caller : call[c].pc # "notify") => view = doc

ObserverInv ==
    /\ call = [c \in Caller |-> call[c]]
    /\ raced \in BOOLEAN
    /\ ~raced => Alone

-----------------------------------------------------------------------------
(* Goes: the caller moves on and the others stay where they are. *)
LEMMA CallerGoes ==
    ASSUME call = [c \in Caller |-> call[c]], NEW c \in Caller, NEW next, Goes(c, next)
    PROVE  /\ call' = [o \in Caller |-> call'[o]]
           /\ call'[c] = next
           /\ \A o \in Caller : o # c => call'[o] = call[o]
  BY Zenon DEF Goes

(* A call that begins alone finds the store at rest. *)
LEMMA BeginsAlone ==
    ASSUME ObserverInv, NEW c \in Caller, Begins(c), ~raced'
    PROVE  ~raced /\ Alone /\ \A o \in Caller : call[o] = Free
  BY Zenon DEF Begins, ObserverInv

(* The calls that begin. *)
LEMMA BeginningTells ==
    ASSUME ObserverInv, NEW c \in Caller,
           \/ UpsertWithOrigin(c) \/ RemoveCall(c) \/ Observe(c)
           \/ Delete(c) \/ ApplyTombstone(c)
    PROVE  ObserverInv'
<1>1. Begins(c) /\ raced' \in BOOLEAN
  BY Zenon DEF UpsertWithOrigin, RemoveCall, Observe, Delete, ApplyTombstone, Begins, ObserverInv
<1>2. PICK next : Goes(c, next) /\
          \/ /\ next = [pc |-> "notify", event |-> doc']
             /\ UNCHANGED <<view, observing>>
          \/ /\ next = Free \/ next.pc \in {"bury", "rewrite", "drop"}
             /\ UNCHANGED <<view, observing, doc>>
          \/ /\ next = [pc |-> "register"] /\ view' = doc
             /\ UNCHANGED <<observing, doc>>
  <2>1. CASE UpsertWithOrigin(c)
    BY <2>1, Zenon DEF UpsertWithOrigin, Store
  <2>2. CASE RemoveCall(c)
    BY <2>2, Zenon DEF RemoveCall, DropDocument, Store
  <2>3. CASE Observe(c)
    BY <2>3, Zenon DEF Observe
  <2>4. CASE Delete(c)
    <3>1. CASE policy = "Tombstone" \/ (policy = "SoftDelete" /\ doc # Absent)
      BY <2>4, <3>1 DEF Delete
    <3>2. CASE ~(policy = "Tombstone" \/ (policy = "SoftDelete" /\ doc # Absent))
      <4>1. call' = call /\ call[c] = Free /\ UNCHANGED <<view, observing, doc>>
        BY <2>4, <3>2, Zenon DEF Delete, Begins
      <4>2. Goes(c, Free)
        BY <4>1, Zenon DEF Goes, ObserverInv
      <4>3. QED
        BY <4>1, <4>2, Zenon
    <3>3. QED
      BY <3>1, <3>2, Zenon
  <2>5. CASE ApplyTombstone(c)
    BY <2>5 DEF ApplyTombstone
  <2>6. QED
    BY <2>1, <2>2, <2>3, <2>4, <2>5, Zenon
<1>3. /\ call' = [o \in Caller |-> call'[o]]
      /\ call'[c] = next
      /\ \A o \in Caller : o # c => call'[o] = call[o]
  BY <1>2, CallerGoes, Zenon DEF ObserverInv
<1>4. ASSUME ~raced' PROVE Alone'
  <2>1. ~raced /\ Alone /\ \A o \in Caller : call[o] = Free
    BY <1>1, <1>4, BeginsAlone, Zenon
  <2>2. /\ \A o \in Caller : o # c => call'[o] = Free /\ call'[o].pc = "free"
        /\ Free.pc = "free"
    BY <1>3, <2>1 DEF Free
  <2>3. \A o, q \in Busy' : o = q
    BY <2>2, Zenon DEF Busy
  <2>4. observing => view = doc
    BY <2>1, <2>2, Zenon DEF Alone, Watching, Free
  <2>5. QED
    BY <1>2, <1>3, <2>2, <2>3, <2>4 DEF Alone, Watching
<1>5. QED
  BY <1>1, <1>3, <1>4, Zenon DEF ObserverInv

(* The calls that go on. *)
LEMMA GoingOnTells ==
    ASSUME ObserverInv, NEW c \in Caller,
           \/ Notify(c) \/ Register(c) \/ Bury(c) \/ Enqueue(c) \/ Drop(c) \/ Rewrite(c)
    PROVE  ObserverInv'
<1>1. /\ call[c].pc \in {"notify", "register", "bury", "enqueue", "drop", "rewrite"}
      /\ raced' = raced
  BY Zenon DEF Notify, Register, Bury, Enqueue, Drop, Rewrite
<1>2. PICK next : Goes(c, next) /\
          \/ /\ next = [pc |-> "notify", event |-> doc']
             /\ UNCHANGED <<view, observing>>
          \/ /\ next = Free \/ next.pc \in {"enqueue", "drop"}
             /\ UNCHANGED doc
             /\ \/ /\ call[c].pc = "notify" /\ UNCHANGED observing
                   /\ view' = IF observing THEN call[c].event ELSE view
                \/ call[c].pc = "register" /\ UNCHANGED view
                \/ call[c].pc \notin {"notify", "register"} /\ UNCHANGED <<view, observing>>
  <2>1. CASE Notify(c)
    BY <2>1, Zenon DEF Notify
  <2>2. CASE Register(c)
    BY <2>2, Zenon DEF Register
  <2>3. CASE Bury(c) \/ Enqueue(c)
    BY <2>3 DEF Bury, Enqueue
  <2>4. CASE Drop(c)
    BY <2>4, Zenon DEF Drop, DropDocument, Store
  <2>5. CASE Rewrite(c)
    BY <2>5, Zenon DEF Rewrite, Store
  <2>6. QED
    BY <2>1, <2>2, <2>3, <2>4, <2>5, Zenon
<1>3. /\ call' = [o \in Caller |-> call'[o]]
      /\ call'[c] = next
      /\ \A o \in Caller : o # c => call'[o] = call[o]
  BY <1>2, CallerGoes, Zenon DEF ObserverInv
<1>4. ASSUME ~raced' PROVE Alone'
  <2>1. ~raced /\ Alone
    BY <1>1, <1>4, Zenon DEF ObserverInv
  <2>2. \A o \in Caller : o # c => call[o] = Free
    <3>1. c \in Busy
      BY <1>1 DEF Busy, Free
    <3>2. QED
      BY <2>1, <3>1, Zenon DEF Alone, Busy
  <2>3. /\ \A o \in Caller : o # c => call'[o] = Free /\ call[o].pc = "free"
        /\ \A o \in Caller : o # c => call'[o].pc = "free"
        /\ Free.pc = "free"
    BY <1>3, <2>2 DEF Free
  <2>4. \A o, q \in Busy' : o = q
    BY <2>3, Zenon DEF Busy
  <2>5. /\ call[c].pc = "notify" => call[c].event = doc
        /\ Watching /\ call[c].pc # "notify" => view = doc
        /\ call[c].pc = "register" => Watching
        /\ Watching <=> observing \/ call[c].pc = "register"
    BY <2>1, <2>3, Zenon DEF Alone, Watching
  <2>6. QED
    BY <1>2, <1>3, <2>3, <2>4, <2>5 DEF Alone, Watching
<1>5. QED
  BY <1>1, <1>3, <1>4, Zenon DEF ObserverInv

(***************************************************************************)
(* AutomergeBackend's observe: with no call in progress an observer was    *)
(* last told what the store holds, for any number of callers and calls,    *)
(* unless calls overlapped or the store changed without a notification.    *)
(***************************************************************************)
THEOREM ObserversAgreeHolds == MemorySpec => []ObserversAgree
<1>1. MemoryInit => ObserverInv
  <2> SUFFICES ASSUME MemoryInit PROVE ObserverInv
    OBVIOUS
  <2>1. call = [c \in Caller |-> Free] /\ raced = FALSE /\ observing = FALSE
    BY Zenon DEF MemoryInit
  <2>2. \A c \in Caller : call[c] = Free /\ call[c].pc = "free"
    BY <2>1, Zenon DEF Free
  <2>3. Alone
    BY <2>1, <2>2, Zenon DEF Alone, Watching, Busy
  <2>4. QED
    BY <2>1, <2>3, Zenon DEF ObserverInv
<1>2. ObserverInv /\ [MemoryNext]_memoryVars => ObserverInv'
  <2> SUFFICES ASSUME ObserverInv, [MemoryNext]_memoryVars PROVE ObserverInv'
    OBVIOUS
  <2>1. CASE ReceiveSyncMessage \/ HardDelete \/ Shutdown
    <3>1. raced' = TRUE /\ UNCHANGED call
      BY <2>1, Zenon DEF ReceiveSyncMessage, HardDelete, Shutdown, Silently
    <3>2. QED
      BY <3>1, Zenon DEF ObserverInv
  <2>2. CASE RemoveTombstone \/ DrainPendingTombstones \/ UNCHANGED memoryVars
    <3>1. UNCHANGED <<call, raced, doc, view, observing>>
      BY <2>2, Zenon DEF RemoveTombstone, DrainPendingTombstones, memoryVars
    <3>2. QED
      BY <3>1, Zenon DEF ObserverInv, Alone, Watching, Busy
  <2>3. QED
    BY <2>1, <2>2, BeginningTells, GoingOnTells, Zenon DEF MemoryNext
<1>3. ObserverInv => ObserversAgree
  BY DEF ObserverInv, Alone, Watching, ObserversAgree, Quiet, Free
<1>4. QED
  BY <1>1, <1>2, <1>3, PTL DEF MemorySpec

-----------------------------------------------------------------------------
(***************************************************************************)
(* The Lamport times given out so far are those of the tombstones handed   *)
(* on or queued and of those a delete still carries, each in one place.    *)
(***************************************************************************)
Handed == sent \o unsent

Carries(c) == call[c].pc \in {"bury", "enqueue"}

TombstoneInv ==
    /\ call = [c \in Caller |-> call[c]]
    /\ lamport \in Nat /\ sent \in Seq(Nat) /\ unsent \in Seq(Nat)
    /\ IsInjective(Handed)
    /\ \A c \in Caller : Carries(c) => call[c].stone \notin Range(Handed)
    /\ \A c, o \in Caller :
          Carries(c) /\ Carries(o) /\ call[c].stone = call[o].stone => c = o
    /\ 0..(lamport - 1) =
          Range(Handed) \cup {call[c].stone : c \in {o \in Caller : Carries(o)}}

-----------------------------------------------------------------------------
(* A new element at the end of a sequence without repetitions. *)
LEMMA AppendedOnce ==
    ASSUME NEW s \in Seq(Nat), NEW x \in Nat
    PROVE  /\ Append(s, x) \in Seq(Nat)
           /\ Range(Append(s, x)) = Range(s) \cup {x}
           /\ IsInjective(s) /\ x \notin Range(s) => IsInjective(Append(s, x))
<1>1. /\ Append(s, x) \in Seq(Nat)
      /\ DOMAIN s = 1..Len(s) /\ Len(s) \in Nat
      /\ DOMAIN Append(s, x) = 1..(Len(s) + 1)
      /\ \A i \in 1..Len(s) : Append(s, x)[i] = s[i]
      /\ Append(s, x)[Len(s) + 1] = x
  OBVIOUS
<1>2. Range(Append(s, x)) = Range(s) \cup {x}
  <2>1. \A i \in 1..(Len(s) + 1) : i \in 1..Len(s) \/ i = Len(s) + 1
    BY <1>1
  <2>2. /\ \A i \in 1..Len(s) : i \in 1..(Len(s) + 1)
        /\ Len(s) + 1 \in 1..(Len(s) + 1)
    BY <1>1
  <2>3. QED
    BY <1>1, <2>1, <2>2, Zenon DEF Range
<1>3. ASSUME IsInjective(s), x \notin Range(s) PROVE IsInjective(Append(s, x))
  <2>1. \A i \in 1..Len(s) : s[i] # x
    BY <1>1, <1>3, Zenon DEF Range
  <2>2. QED
    BY <1>1, <1>3, <2>1 DEF IsInjective
<1>4. QED
  BY <1>1, <1>2, <1>3, Zenon

(* drain_pending_tombstones moves the queue, and a tombstone that is queued
   comes last. *)
LEMMA HandedGrows ==
    ASSUME TombstoneInv
    PROVE  /\ Handed \in Seq(Nat)
           /\ Handed \o <<>> = Handed
           /\ \A x \in Nat : sent \o Append(unsent, x) = Append(Handed, x)
<1>1. sent \in Seq(Nat) /\ unsent \in Seq(Nat) /\ Handed \in Seq(Nat)
  BY DEF TombstoneInv, Handed
<1>2. Handed \o <<>> = Handed
  BY <1>1
<1>3. ASSUME NEW x \in Nat PROVE sent \o Append(unsent, x) = Append(Handed, x)
  <2>1. <<x>> \in Seq(Nat)
    OBVIOUS
  <2>2. Append(unsent, x) = unsent \o <<x>> /\ Append(Handed, x) = Handed \o <<x>>
    <3>1. \A q \in Seq(Nat) : Append(q, x) = q \o <<x>>
      OBVIOUS
    <3>2. QED
      BY <1>1, <3>1, Zenon
  <2>3. QED
    BY <1>1, <2>1, <2>2 DEF Handed
<1>4. QED
  BY <1>1, <1>2, <1>3, Zenon

(* A step that neither gives out, carries nor hands on a Lamport time. *)
LEMMA OthersKeepTombstones ==
    ASSUME TombstoneInv, UNCHANGED <<lamport, sent, unsent>>,
           call' = [c \in Caller |-> call'[c]],
           \A c \in Caller : call'[c] # call[c] =>
              /\ call'[c].pc \in {"bury", "enqueue"} <=> Carries(c)
              /\ Carries(c) => call'[c].stone = call[c].stone
    PROVE  TombstoneInv'
<1>1. /\ \A c \in Caller : Carries(c)' <=> Carries(c)
      /\ \A c \in Caller : Carries(c) => call'[c].stone = call[c].stone
      /\ Handed' = Handed
  BY Zenon DEF Carries, Handed
<1>2. {call'[c].stone : c \in {o \in Caller : Carries(o)'}}
        = {call[c].stone : c \in {o \in Caller : Carries(o)}}
  BY <1>1, Zenon
<1>3. QED
  BY <1>1, <1>2, Zenon DEF TombstoneInv

(* delete gives out the next Lamport time. *)
LEMMA GivenOut ==
    ASSUME TombstoneInv, NEW c \in Caller, call[c] = Free, lamport' = lamport + 1,
           Goes(c, [pc |-> "bury", stone |-> lamport]), UNCHANGED <<sent, unsent>>
    PROVE  TombstoneInv'
<1>1. /\ call' = [o \in Caller |-> call'[o]]
      /\ call'[c] = [pc |-> "bury", stone |-> lamport]
      /\ \A o \in Caller : o # c => call'[o] = call[o]
  BY CallerGoes, Zenon DEF TombstoneInv
<1>2. /\ Carries(c)' /\ ~Carries(c) /\ call'[c].stone = lamport
      /\ \A o \in Caller : o # c => /\ Carries(o)' <=> Carries(o)
                                    /\ call'[o].stone = call[o].stone
  BY <1>1 DEF Carries, Free
<1>3. Handed' = Handed /\ lamport' \in Nat
  BY DEF Handed, TombstoneInv
<1>4. /\ 0..(lamport' - 1) = (0..(lamport - 1)) \cup {lamport}
      /\ lamport \notin 0..(lamport - 1)
  BY DEF TombstoneInv
<1>5. {call'[o].stone : o \in {q \in Caller : Carries(q)'}}
        = {call[o].stone : o \in {q \in Caller : Carries(q)}} \cup {lamport}
  BY <1>2, Zenon
<1>6. /\ lamport \notin Range(Handed)
      /\ \A o \in Caller : Carries(o) => call[o].stone # lamport
  BY <1>4, Zenon DEF TombstoneInv
<1>7. 0..(lamport' - 1) =
        Range(Handed') \cup {call'[o].stone : o \in {q \in Caller : Carries(q)'}}
  BY <1>3, <1>4, <1>5, Zenon DEF TombstoneInv
<1>8. /\ \A o \in Caller : Carries(o)' => call'[o].stone \notin Range(Handed')
      /\ \A o, q \in Caller :
           Carries(o)' /\ Carries(q)' /\ call'[o].stone = call'[q].stone => o = q
  BY <1>2, <1>3, <1>6, Zenon DEF TombstoneInv
<1>9. QED
  BY <1>1, <1>3, <1>7, <1>8, Zenon DEF TombstoneInv

(* It ends at the end of pending_tombstones. *)
LEMMA Queued ==
    ASSUME TombstoneInv, NEW c \in Caller, Enqueue(c)
    PROVE  TombstoneInv'
<1> DEFINE x == call[c].stone
<1>1. /\ call' = [o \in Caller |-> call'[o]]
      /\ call'[c] = [pc |-> "drop"]
      /\ \A o \in Caller : o # c => call'[o] = call[o]
  BY CallerGoes, Zenon DEF TombstoneInv, Enqueue
<1>2. /\ ~Carries(c)' /\ Carries(c)
      /\ \A o \in Caller : o # c => /\ Carries(o)' <=> Carries(o)
                                    /\ call'[o].stone = call[o].stone
  BY <1>1 DEF Carries, Enqueue
<1>3. x \in 0..(lamport - 1) /\ x \notin Range(Handed) /\ x \in Nat /\ lamport \in Nat
  BY <1>2 DEF TombstoneInv
<1>4. /\ lamport' = lamport /\ sent' = sent /\ unsent' = Append(unsent, x)
      /\ unsent' \in Seq(Nat)
  BY <1>3 DEF Enqueue, TombstoneInv
<1>5. Handed' = Append(Handed, x) /\ Handed \in Seq(Nat)
  BY <1>3, <1>4, HandedGrows, Zenon DEF Handed
<1>6. Range(Handed') = Range(Handed) \cup {x} /\ IsInjective(Handed')
  BY <1>3, <1>5, AppendedOnce, Zenon DEF TombstoneInv
<1>7. {call'[o].stone : o \in {q \in Caller : Carries(q)'}} \cup {x}
        = {call[o].stone : o \in {q \in Caller : Carries(q)}}
  BY <1>2, Zenon
<1>8. 0..(lamport' - 1) =
        Range(Handed') \cup {call'[o].stone : o \in {q \in Caller : Carries(q)'}}
  BY <1>4, <1>6, <1>7, Zenon DEF TombstoneInv
<1>9. /\ \A o \in Caller : Carries(o)' => call'[o].stone \notin Range(Handed')
      /\ \A o, q \in Caller :
           Carries(o)' /\ Carries(q)' /\ call'[o].stone = call'[q].stone => o = q
  BY <1>2, <1>6, Zenon DEF TombstoneInv
<1>10. QED
  BY <1>1, <1>4, <1>6, <1>8, <1>9, Zenon DEF TombstoneInv

(* The steps of one caller. *)
LEMMA CallersKeepTombstones ==
    ASSUME TombstoneInv, NEW c \in Caller,
           \/ UpsertWithOrigin(c) \/ RemoveCall(c) \/ Notify(c) \/ Observe(c) \/ Register(c)
           \/ Delete(c) \/ Bury(c) \/ Enqueue(c) \/ Drop(c) \/ Rewrite(c) \/ ApplyTombstone(c)
    PROVE  TombstoneInv'
<1>1. CASE Enqueue(c)
  BY <1>1, Queued, Zenon
<1>2. CASE Delete(c) /\ policy = "Tombstone"
  <2>1. /\ call[c] = Free /\ lamport' = lamport + 1 /\ UNCHANGED <<sent, unsent>>
        /\ Goes(c, [pc |-> "bury", stone |-> lamport])
    BY <1>2, Zenon DEF Delete, Begins
  <2>2. QED
    BY <2>1, GivenOut, Zenon
<1>3. CASE Delete(c) /\ policy # "Tombstone" /\ UNCHANGED call
  BY <1>3, OthersKeepTombstones, Zenon DEF Delete, TombstoneInv
<1>4. CASE Bury(c)
  <2>1. /\ call' = [o \in Caller |-> call'[o]]
        /\ call'[c] = [pc |-> "enqueue", stone |-> call[c].stone]
        /\ \A o \in Caller : o # c => call'[o] = call[o]
        /\ Carries(c) /\ UNCHANGED <<lamport, sent, unsent>>
    BY <1>4, CallerGoes, Zenon DEF Bury, TombstoneInv, Carries
  <2>2. QED
    BY <2>1, OthersKeepTombstones
<1>5. CASE /\ ~Enqueue(c) /\ ~Bury(c)
           /\ ~(Delete(c) /\ policy = "Tombstone")
           /\ ~(Delete(c) /\ policy # "Tombstone" /\ UNCHANGED call)
  <2>1. /\ UNCHANGED <<lamport, sent, unsent>>
        /\ call[c] = Free \/ call[c].pc \in {"notify", "register", "drop", "rewrite"}
    BY <1>5, Zenon DEF UpsertWithOrigin, RemoveCall, Notify, Observe, Register, Delete, Drop,
                Rewrite, ApplyTombstone, Begins
  <2>2. PICK next : /\ Goes(c, next)
                    /\ next = Free \/ next.pc \in {"notify", "register", "drop", "rewrite"}
    BY <1>5 DEF UpsertWithOrigin, RemoveCall, Notify, Observe, Register, Delete, Drop,
                Rewrite, ApplyTombstone, DropDocument, Store
  <2>3. /\ call' = [o \in Caller |-> call'[o]]
        /\ call'[c] = next
        /\ \A o \in Caller : o # c => call'[o] = call[o]
    BY <2>2, CallerGoes, Zenon DEF TombstoneInv
  <2>4. ~Carries(c) /\ call'[c].pc \notin {"bury", "enqueue"}
    BY <2>1, <2>2, <2>3 DEF Carries, Free
  <2>5. QED
    BY <2>1, <2>3, <2>4, OthersKeepTombstones, Zenon
<1>6. QED
  BY <1>1, <1>2, <1>3, <1>4, <1>5, Zenon

(***************************************************************************)
(* delete and drain_pending_tombstones: whatever calls overlap, and however*)
(* often the queue is drained between them, every local tombstone is handed*)
(* to the peers at most once, and with no call in progress none is missing.*)
(***************************************************************************)
THEOREM TombstonesHandedOnceHolds == MemorySpec => []TombstonesHandedOnce
<1>1. MemoryInit => TombstoneInv
  <2> SUFFICES ASSUME MemoryInit PROVE TombstoneInv
    OBVIOUS
  <2>1. /\ call = [c \in Caller |-> Free] /\ lamport = 0 /\ sent = <<>> /\ unsent = <<>>
        /\ <<>> \in Seq(Nat) /\ 0 \in Nat
    BY DEF MemoryInit
  <2>2. \A c \in Caller : ~Carries(c)
    BY <2>1, Zenon DEF Carries, Free
  <2>3. Handed = <<>>
    BY <2>1 DEF Handed
  <2>4. IsInjective(Handed) /\ Range(Handed) = {}
    BY <2>3 DEF IsInjective, Range
  <2>5. 0..(lamport - 1) = {}
    BY <2>1
  <2>6. QED
    BY <2>1, <2>2, <2>4, <2>5, Zenon DEF TombstoneInv
<1>2. TombstoneInv /\ [MemoryNext]_memoryVars => TombstoneInv'
  <2> SUFFICES ASSUME TombstoneInv, [MemoryNext]_memoryVars PROVE TombstoneInv'
    OBVIOUS
  <2>1. CASE ReceiveSyncMessage \/ HardDelete \/ Shutdown \/ RemoveTombstone
             \/ UNCHANGED memoryVars
    <3>1. UNCHANGED <<call, lamport, sent, unsent>>
      BY <2>1, Zenon DEF ReceiveSyncMessage, HardDelete, Shutdown, Silently, RemoveTombstone,
                  memoryVars
    <3>2. QED
      BY <3>1, OthersKeepTombstones, Zenon DEF TombstoneInv
  <2>2. CASE DrainPendingTombstones
    <3>1. sent' = Handed /\ unsent' = <<>> /\ UNCHANGED <<call, lamport>>
      BY <2>2, Zenon DEF DrainPendingTombstones, Handed
    <3>2. Handed' = Handed /\ sent' \in Seq(Nat) /\ unsent' \in Seq(Nat)
      BY <3>1, HandedGrows DEF Handed
    <3>3. QED
      BY <3>1, <3>2, Zenon DEF TombstoneInv, Carries
  <2>3. QED
    BY <2>1, <2>2, CallersKeepTombstones, Zenon DEF MemoryNext
<1>3. TombstoneInv => TombstonesHandedOnce
  <2> SUFFICES ASSUME TombstoneInv PROVE TombstonesHandedOnce
    OBVIOUS
  <2>1. IsInjective(sent \o unsent)
    BY Zenon DEF TombstoneInv, Handed
  <2>2. ASSUME Quiet PROVE Range(sent \o unsent) = 0..(lamport - 1)
    <3>1. \A c \in Caller : ~Carries(c)
      BY <2>2 DEF Quiet, Carries, Free
    <3>2. QED
      BY <3>1, Zenon DEF TombstoneInv, Handed
  <2>3. QED
    BY <2>1, <2>2, Zenon DEF TombstonesHandedOnce
<1>4. QED
  BY <1>1, <1>2, <1>3, PTL DEF MemorySpec

-----------------------------------------------------------------------------
(***************************************************************************)
(* The Iroh store.  What an observer has not been told of a document is on *)
(* its queue, unless the queue overran, and then a report of every document*)
(* is due; what changed before it subscribed counts as missed.             *)
(***************************************************************************)
Content == [write : Nat, layout : {"data", "root"}, deleted : BOOLEAN]

IrohTypeOK ==
    /\ docs \in [Doc -> Content]
    /\ writes \in Nat
    /\ writer # NoCall => writer.doc \in Doc /\ writer.write \in Nat
    /\ eraser # NoCall => eraser.doc \in Doc /\ eraser.content \in Content
    /\ listener \in [Observer -> [state : {"none", "snapshot", "on"}, queue : Seq(Doc),
                                  lagged : BOOLEAN]]
    /\ seen \in [Observer -> [Doc -> [write : Nat, raw : BOOLEAN]]]
    /\ missed \in [Observer -> SUBSET Doc]

Told(o, d) == docs[d] = NoDocument \/ seen[o][d].write = docs[d].write

OnQueue(o, d) == \E i \in DOMAIN listener[o].queue : listener[o].queue[i] = d

CatchUpInv ==
    /\ IrohTypeOK
    /\ \A o \in Observer : \A d \in Doc \ missed[o] :
          /\ listener[o].state = "snapshot" => Told(o, d)
          /\ listener[o].state = "on" /\ ~listener[o].lagged => Told(o, d) \/ OnQueue(o, d)

-----------------------------------------------------------------------------
(* A key put on a queue, and the oldest one taken off. *)
LEMMA QueueSteps ==
    ASSUME NEW q \in Seq(Doc), NEW d \in Doc
    PROVE  /\ Append(q, d) \in Seq(Doc)
           /\ \E i \in DOMAIN Append(q, d) : Append(q, d)[i] = d
           /\ \A x : (\E i \in DOMAIN q : q[i] = x)
                        => \E i \in DOMAIN Append(q, d) : Append(q, d)[i] = x
           /\ q # <<>> =>
                /\ Head(q) \in Doc /\ Tail(q) \in Seq(Doc)
                /\ \A x : (\E i \in DOMAIN q : q[i] = x) =>
                            x = Head(q) \/ \E i \in DOMAIN Tail(q) : Tail(q)[i] = x
<1>1. /\ Append(q, d) \in Seq(Doc)
      /\ DOMAIN q = 1..Len(q) /\ Len(q) \in Nat
      /\ DOMAIN Append(q, d) = 1..(Len(q) + 1)
      /\ \A i \in 1..Len(q) : Append(q, d)[i] = q[i]
      /\ Append(q, d)[Len(q) + 1] = d
  OBVIOUS
<1>2. /\ \A i \in 1..Len(q) : i \in 1..(Len(q) + 1)
      /\ Len(q) + 1 \in 1..(Len(q) + 1)
  BY <1>1
<1>3. ASSUME q # <<>>
      PROVE  /\ Head(q) \in Doc /\ Tail(q) \in Seq(Doc)
             /\ \A x : (\E i \in DOMAIN q : q[i] = x) =>
                         x = Head(q) \/ \E i \in DOMAIN Tail(q) : Tail(q)[i] = x
  <2>1. /\ Head(q) \in Doc /\ Tail(q) \in Seq(Doc) /\ Len(Tail(q)) = Len(q) - 1
        /\ \A i \in 1..Len(Tail(q)) : Tail(q)[i] = q[i + 1]
        /\ DOMAIN Tail(q) = 1..Len(Tail(q)) /\ Head(q) = q[1]
    BY <1>3
  <2>2. ASSUME NEW i \in 1..Len(q), i # 1
        PROVE  i - 1 \in DOMAIN Tail(q) /\ Tail(q)[i - 1] = q[i]
    BY <1>1, <2>1, <2>2
  <2>3. QED
    BY <1>1, <2>1, <2>2, Zenon
<1>4. QED
  BY <1>1, <1>2, <1>3, Zenon

(* The store's put reaches every observer: on the queue, as a lag, or missed. *)
LEMMA PutReaches ==
    ASSUME CapacityAssumption, CatchUpInv, NEW d \in Doc, NEW content \in Content,
           Put(d, content), UNCHANGED seen
    PROVE  /\ docs' \in [Doc -> Content]
           /\ listener' \in [Observer -> [state : {"none", "snapshot", "on"},
                                          queue : Seq(Doc), lagged : BOOLEAN]]
           /\ missed' \in [Observer -> SUBSET Doc]
           /\ \A o \in Observer : \A x \in Doc \ missed'[o] :
                /\ listener'[o].state = "snapshot" => Told(o, x)'
                /\ listener'[o].state = "on" /\ ~listener'[o].lagged
                      => Told(o, x)' \/ OnQueue(o, x)'
<1>1. /\ docs' = [docs EXCEPT ![d] = content] /\ docs' \in [Doc -> Content]
      /\ \A x \in Doc : x # d => docs'[x] = docs[x]
  BY Zenon DEF Put, CatchUpInv, IrohTypeOK
<1>2. missed' \in [Observer -> SUBSET Doc]
  BY Zenon DEF Put, CatchUpInv, IrohTypeOK
<1>3. ASSUME NEW o \in Observer
      PROVE  /\ listener'[o] \in [state : {"none", "snapshot", "on"}, queue : Seq(Doc),
                                  lagged : BOOLEAN]
             /\ \A x \in Doc \ missed'[o] :
                  /\ listener'[o].state = "snapshot" => Told(o, x)'
                  /\ listener'[o].state = "on" /\ ~listener'[o].lagged
                        => Told(o, x)' \/ OnQueue(o, x)'
  <2> DEFINE l == listener[o]
  <2>1. /\ l \in [state : {"none", "snapshot", "on"}, queue : Seq(Doc), lagged : BOOLEAN]
        /\ l.queue \in Seq(Doc)
    BY Zenon DEF CatchUpInv, IrohTypeOK
  <2>2. \A x \in Doc : x # d /\ Told(o, x) => Told(o, x)'
    BY <1>1, Zenon DEF Told
  <2>3. CASE l.state # "on"
    <3>1. listener'[o] = l
      BY <2>3, Zenon DEF Put
    <3>2. missed'[o] = IF l.state = "snapshot" THEN missed[o] \cup {d} ELSE missed[o]
      BY Zenon DEF Put
    <3>3. QED
      BY <2>1, <2>2, <2>3, <3>1, <3>2, Zenon DEF CatchUpInv
  <2>4. CASE l.state = "on" /\ Len(l.queue) < ChannelCap
    <3>1. listener'[o] = [l EXCEPT !.queue = Append(l.queue, d)] /\ missed'[o] = missed[o]
      BY <2>4, Zenon DEF Put
    <3>2. /\ listener'[o].queue = Append(l.queue, d) /\ listener'[o].state = "on"
          /\ listener'[o].lagged = l.lagged
      BY <2>1, <2>4, <3>1, Zenon
    <3>3. Append(l.queue, d) \in Seq(Doc) /\ OnQueue(o, d)'
          /\ \A x : OnQueue(o, x) => OnQueue(o, x)'
      <4> HIDE DEF l
      <4>1. /\ Append(l.queue, d) \in Seq(Doc)
            /\ \E i \in DOMAIN Append(l.queue, d) : Append(l.queue, d)[i] = d
            /\ \A x : (\E i \in DOMAIN l.queue : l.queue[i] = x)
                  => \E i \in DOMAIN Append(l.queue, d) : Append(l.queue, d)[i] = x
        BY <2>1, QueueSteps, Zenon
      <4>2. QED
        BY <3>2, <4>1, Zenon DEF OnQueue, l
    <3>4. listener'[o] \in [state : {"none", "snapshot", "on"}, queue : Seq(Doc),
                            lagged : BOOLEAN]
      BY <2>1, <3>1, <3>3, Zenon
    <3>5. QED
      BY <2>2, <2>4, <3>1, <3>2, <3>3, <3>4, Zenon DEF CatchUpInv
  <2>5. CASE l.state = "on" /\ ~(Len(l.queue) < ChannelCap)
    <3>1. listener'[o] = [l EXCEPT !.queue = Append(Tail(l.queue), d), !.lagged = TRUE]
      BY <2>5, Zenon DEF Put
    <3>2. l.queue # <<>>
      <4>1. Len(<<>>) = 0
        OBVIOUS
      <4>2. QED
        BY <2>5, <4>1 DEF CapacityAssumption
    <3>3. Append(Tail(l.queue), d) \in Seq(Doc)
      <4>1. Tail(l.queue) \in Seq(Doc)
        BY <2>1, <3>2
      <4>2. QED
        BY <4>1
    <3>4. /\ listener'[o] \in [state : {"none", "snapshot", "on"}, queue : Seq(Doc),
                               lagged : BOOLEAN]
          /\ listener'[o].lagged = TRUE /\ listener'[o].state = "on"
      BY <2>1, <2>5, <3>1, <3>3, Zenon
    <3>5. QED
      BY <3>4, Zenon
  <2>6. QED
    BY <2>3, <2>4, <2>5, Zenon
<1>4. listener' \in [Observer -> [state : {"none", "snapshot", "on"}, queue : Seq(Doc),
                                  lagged : BOOLEAN]]
  <2>1. listener' = [o \in Observer |-> listener'[o]]
    BY Zenon DEF Put
  <2>2. QED
    BY <1>3, <2>1, Zenon
<1>5. QED
  BY <1>1, <1>2, <1>3, <1>4, Zenon

(* The writers: upsert_with_origin, typed and remote writes, removals and soft
   deletes. *)
LEMMA WritersKeepCatchUp ==
    ASSUME CapacityAssumption, CatchUpInv, NEW d \in Doc,
           NEW layout \in {"data", "root"}, NEW labelled \in BOOLEAN,
           \/ UpsertStash(d, labelled) \/ UpsertPut \/ OtherWrite(d, layout)
           \/ RemoveDoc(d) \/ SoftDelete(d) \/ SoftDeletePut
    PROVE  CatchUpInv'
<1>1. NoDocument \in Content /\ seen' = seen
  BY Zenon DEF NoDocument, Content, UpsertStash, UpsertPut, OtherWrite, RemoveDoc, SoftDelete,
         SoftDeletePut
<1>2. /\ writes' \in Nat
      /\ writer' # NoCall => writer'.doc \in Doc /\ writer'.write \in Nat
      /\ eraser' # NoCall => eraser'.doc \in Doc /\ eraser'.content \in Content
  <2>1. CASE UpsertStash(d, labelled)
    <3>1. /\ writes' = writes + 1 /\ eraser' = eraser
          /\ writer' = [pc |-> "put", doc |-> d, write |-> writes']
      BY <2>1, Zenon DEF UpsertStash
    <3>2. QED
      BY <3>1 DEF CatchUpInv, IrohTypeOK
  <2>2. CASE SoftDelete(d)
    <3>1. /\ UNCHANGED <<writes, writer>>
          /\ eraser' = [pc |-> "put", doc |-> d, content |-> [docs[d] EXCEPT !.deleted = TRUE]]
      BY <2>2, Zenon DEF SoftDelete
    <3>2. [docs[d] EXCEPT !.deleted = TRUE] \in Content
      <4>1. docs[d] \in Content
        BY Zenon DEF CatchUpInv, IrohTypeOK
      <4>2. QED
        BY <4>1, Zenon DEF Content
    <3>3. QED
      BY <3>1, <3>2, Zenon DEF CatchUpInv, IrohTypeOK
  <2>3. CASE UpsertPut \/ OtherWrite(d, layout) \/ RemoveDoc(d) \/ SoftDeletePut
    <3>1. /\ writes' = writes \/ writes' = writes + 1
          /\ writer' = writer \/ writer' = NoCall
          /\ eraser' = eraser \/ eraser' = NoCall
      BY <2>3, Zenon DEF UpsertPut, OtherWrite, RemoveDoc, SoftDeletePut
    <3>2. QED
      BY <3>1 DEF CatchUpInv, IrohTypeOK
  <2>4. QED
    BY <2>1, <2>2, <2>3, Zenon
<1>3. \/ UNCHANGED <<docs, listener, missed>>
      \/ docs' = [docs EXCEPT ![d] = NoDocument] /\ UNCHANGED <<listener, missed>>
      \/ \E x \in Doc, content \in Content : Put(x, content)
  <2>1. CASE UpsertPut
    <3>1. ASSUME NEW mark \in {docs[writer.doc].deleted, FALSE}
          PROVE  [write |-> writer.write, layout |-> "data", deleted |-> mark] \in Content
                 /\ writer.doc \in Doc
      BY <2>1, <3>1, Zenon DEF UpsertPut, CatchUpInv, IrohTypeOK, Content
    <3>2. QED
      BY <2>1, <3>1, Zenon DEF UpsertPut
  <2>2. CASE OtherWrite(d, layout)
    <3>1. [write |-> writes', layout |-> layout, deleted |-> FALSE] \in Content
      BY <1>2, Zenon DEF Content
    <3>2. QED
      BY <2>2, <3>1, Zenon DEF OtherWrite
  <2>3. CASE RemoveDoc(d)
    BY <1>1, <2>3, Zenon DEF RemoveDoc
  <2>4. CASE SoftDeletePut
    BY <2>4, Zenon DEF SoftDeletePut, CatchUpInv, IrohTypeOK
  <2>5. CASE UpsertStash(d, labelled) \/ SoftDelete(d)
    BY <2>5, Zenon DEF UpsertStash, SoftDelete
  <2>6. QED
    BY <2>1, <2>2, <2>3, <2>4, <2>5, Zenon
<1>4. CASE UNCHANGED <<docs, listener, missed>>
  <2>1. IrohTypeOK'
    BY <1>1, <1>2, <1>4, Zenon DEF CatchUpInv, IrohTypeOK
  <2>2. QED
    BY <1>1, <1>4, <2>1, Zenon DEF CatchUpInv, Told, OnQueue
<1>5. CASE docs' = [docs EXCEPT ![d] = NoDocument] /\ UNCHANGED <<listener, missed>>
  <2>1. docs' \in [Doc -> Content] /\ docs'[d] = NoDocument
        /\ \A x \in Doc : x # d => docs'[x] = docs[x]
    BY <1>1, <1>5, Zenon DEF CatchUpInv, IrohTypeOK
  <2>2. IrohTypeOK'
    BY <1>1, <1>2, <1>5, <2>1, Zenon DEF CatchUpInv, IrohTypeOK
  <2>3. \A o \in Observer, x \in Doc : Told(o, x) => Told(o, x)'
    BY <1>1, <2>1, Zenon DEF Told
  <2>4. QED
    BY <1>5, <2>2, <2>3, Zenon DEF CatchUpInv, OnQueue
<1>6. ASSUME NEW x \in Doc, NEW content \in Content, Put(x, content) PROVE CatchUpInv'
  <2>1. /\ docs' \in [Doc -> Content]
        /\ listener' \in [Observer -> [state : {"none", "snapshot", "on"},
                                       queue : Seq(Doc), lagged : BOOLEAN]]
        /\ missed' \in [Observer -> SUBSET Doc]
        /\ \A o \in Observer : \A y \in Doc \ missed'[o] :
             /\ listener'[o].state = "snapshot" => Told(o, y)'
             /\ listener'[o].state = "on" /\ ~listener'[o].lagged
                   => Told(o, y)' \/ OnQueue(o, y)'
    BY <1>1, <1>6, PutReaches, Zenon
  <2>2. IrohTypeOK'
    BY <1>1, <1>2, <2>1, Zenon DEF CatchUpInv, IrohTypeOK
  <2>3. QED
    BY <2>1, <2>2, Zenon DEF CatchUpInv
<1>7. QED
  BY <1>3, <1>4, <1>5, <1>6, Zenon

(* An observer's own steps tell it more and change no document. *)
LEMMA ObserverTold ==
    ASSUME CatchUpInv, NEW o \in Observer,
           UNCHANGED <<docs, writer, eraser, writes>>,
           NEW l \in [state : {"none", "snapshot", "on"}, queue : Seq(Doc), lagged : BOOLEAN],
           NEW v \in [Doc -> [write : Nat, raw : BOOLEAN]], NEW m \in SUBSET Doc,
           listener' = [listener EXCEPT ![o] = l],
           seen' = [seen EXCEPT ![o] = v],
           missed' = [missed EXCEPT ![o] = m],
           \A d \in Doc \ m :
              \/ docs[d] = NoDocument \/ v[d].write = docs[d].write
              \/ /\ l.state # "snapshot"
                 /\ l.state = "on" /\ ~l.lagged => \E i \in DOMAIN l.queue : l.queue[i] = d
    PROVE  CatchUpInv'
<1>1. /\ listener'[o] = l /\ seen'[o] = v /\ missed'[o] = m
      /\ \A p \in Observer : p # o => /\ listener'[p] = listener[p] /\ seen'[p] = seen[p]
                                      /\ missed'[p] = missed[p]
  BY Zenon DEF CatchUpInv, IrohTypeOK
<1>2. IrohTypeOK'
  BY Zenon DEF CatchUpInv, IrohTypeOK
<1>3. ASSUME NEW p \in Observer, NEW d \in Doc \ missed'[p]
      PROVE  /\ listener'[p].state = "snapshot" => Told(p, d)'
             /\ listener'[p].state = "on" /\ ~listener'[p].lagged
                   => Told(p, d)' \/ OnQueue(p, d)'
  <2>1. CASE p = o
    BY <1>1, <1>3, <2>1 DEF Told, OnQueue
  <2>2. CASE p # o
    BY <1>1, <1>3, <2>2 DEF CatchUpInv, Told, OnQueue
  <2>3. QED
    BY <2>1, <2>2, Zenon
<1>4. QED
  BY <1>2, <1>3, Zenon DEF CatchUpInv

(* observe's snapshot and subscription, the report of one key, and the report
   of every document after a lag. *)
LEMMA ObserversKeepCatchUp ==
    ASSUME CatchUpInv, NEW o \in Observer,
           ObserveSnapshot(o) \/ ObserveSubscribe(o) \/ Report(o) \/ ReportAll(o)
    PROVE  CatchUpInv'
<1> DEFINE l == listener[o]
           Listener == [state : {"none", "snapshot", "on"}, queue : Seq(Doc), lagged : BOOLEAN]
           View == [Doc -> [write : Nat, raw : BOOLEAN]]
<1>1. /\ l \in Listener /\ seen[o] \in View /\ missed[o] \in SUBSET Doc
      /\ docs \in [Doc -> Content]
      /\ \A d \in Doc : docs[d].write \in Nat
      /\ seen = [seen EXCEPT ![o] = seen[o]] /\ missed = [missed EXCEPT ![o] = missed[o]]
  BY Zenon DEF CatchUpInv, IrohTypeOK, Content
<1>2. \A d \in Doc \ missed[o] :
        /\ l.state = "snapshot" => docs[d] = NoDocument \/ seen[o][d].write = docs[d].write
        /\ l.state = "on" /\ ~l.lagged =>
             \/ docs[d] = NoDocument \/ seen[o][d].write = docs[d].write
             \/ \E i \in DOMAIN l.queue : l.queue[i] = d
  BY Zenon DEF CatchUpInv, Told, OnQueue
<1>3. CASE ObserveSnapshot(o)
  <2> DEFINE m == [l EXCEPT !.state = "snapshot"]
             v == [d \in Doc |-> IF docs[d] = NoDocument THEN Unseen ELSE Scanned(d)]
  <2>1. /\ listener' = [listener EXCEPT ![o] = m] /\ seen' = [seen EXCEPT ![o] = v]
        /\ missed' = [missed EXCEPT ![o] = missed[o]]
        /\ UNCHANGED <<docs, writer, eraser, writes>>
    BY <1>1, <1>3, Zenon DEF ObserveSnapshot
  <2>2. m \in Listener /\ v \in View
    BY <1>1, Zenon DEF Unseen, Scanned
  <2>3. \A d \in Doc : docs[d] = NoDocument \/ v[d].write = docs[d].write
    BY Zenon DEF Scanned
  <2> HIDE DEF m, v
  <2>4. QED
    BY <1>1, <2>1, <2>2, <2>3, ObserverTold, Zenon
<1>4. CASE ObserveSubscribe(o)
  <2> DEFINE m == [l EXCEPT !.state = "on"]
  <2>1. /\ listener' = [listener EXCEPT ![o] = m] /\ seen' = [seen EXCEPT ![o] = seen[o]]
        /\ missed' = [missed EXCEPT ![o] = missed[o]] /\ l.state = "snapshot"
        /\ UNCHANGED <<docs, writer, eraser, writes>>
    BY <1>1, <1>4, Zenon DEF ObserveSubscribe
  <2>2. m \in Listener
    BY <1>1, Zenon
  <2>3. \A d \in Doc \ missed[o] : docs[d] = NoDocument \/ seen[o][d].write = docs[d].write
    BY <1>2, <2>1, Zenon
  <2> HIDE DEF m
  <2>4. \A d \in Doc \ missed[o] :
          \/ docs[d] = NoDocument \/ seen[o][d].write = docs[d].write
          \/ /\ m.state # "snapshot"
             /\ m.state = "on" /\ ~m.lagged => \E i \in DOMAIN m.queue : m.queue[i] = d
    BY <2>3, Zenon
  <2>5. QED
    BY <1>1, <2>1, <2>2, <2>4, ObserverTold, Zenon
<1>5. CASE Report(o)
  <2> DEFINE d == Head(l.queue)
             m == [l EXCEPT !.queue = Tail(l.queue)]
             v == [seen[o] EXCEPT ![d] = Fetched(d)]
  <2>1. /\ l.queue \in Seq(Doc) /\ l.queue # <<>> /\ ~l.lagged
        /\ listener' = [listener EXCEPT ![o] = m]
        /\ UNCHANGED <<docs, writer, eraser, writes>>
    BY <1>1, <1>5, Zenon DEF Report
  <2>2. /\ d \in Doc /\ Tail(l.queue) \in Seq(Doc)
        /\ \A x : (\E i \in DOMAIN l.queue : l.queue[i] = x) =>
                    x = d \/ \E i \in DOMAIN Tail(l.queue) : Tail(l.queue)[i] = x
    <3> HIDE DEF l
    <3>1. Head(l.queue) \in Doc
      BY <2>1
    <3>2. QED
      BY <2>1, <3>1, QueueSteps, Zenon
  <2>3. /\ m \in Listener /\ m.queue = Tail(l.queue) /\ m.state = l.state
        /\ m.lagged = l.lagged
    BY <1>1, <2>2, Zenon
  <2>4. CASE docs[d] = NoDocument
    <3>1. /\ seen' = [seen EXCEPT ![o] = seen[o]]
          /\ missed' = [missed EXCEPT ![o] = missed[o]]
      BY <1>1, <1>5, <2>4, Zenon DEF Report
    <3>2. \A x \in Doc \ missed[o] :
            \/ docs[x] = NoDocument \/ seen[o][x].write = docs[x].write
            \/ /\ m.state # "snapshot"
               /\ m.state = "on" /\ ~m.lagged => \E i \in DOMAIN m.queue : m.queue[i] = x
      BY <1>2, <2>2, <2>3, <2>4, Zenon
    <3> HIDE DEF m
    <3>3. QED
      BY <1>1, <2>1, <2>3, <3>1, <3>2, ObserverTold, Zenon
  <2>5. CASE docs[d] # NoDocument
    <3>1. /\ seen' = [seen EXCEPT ![o] = v]
          /\ missed' = [missed EXCEPT ![o] = missed[o] \ {d}]
      BY <1>1, <1>5, <2>5, Zenon DEF Report
    <3>2. /\ v \in View /\ v[d].write = docs[d].write
          /\ \A x \in Doc : x # d => v[x] = seen[o][x]
      BY <1>1, <2>2, Zenon DEF Fetched
    <3>3. missed[o] \ {d} \in SUBSET Doc
      BY <1>1, Zenon
    <3>4. \A x \in Doc \ (missed[o] \ {d}) :
            \/ docs[x] = NoDocument \/ v[x].write = docs[x].write
            \/ /\ m.state # "snapshot"
               /\ m.state = "on" /\ ~m.lagged => \E i \in DOMAIN m.queue : m.queue[i] = x
      BY <1>2, <2>2, <2>3, <3>2, Zenon
    <3> HIDE DEF m, v
    <3>5. QED
      BY <2>1, <2>3, <3>1, <3>2, <3>3, <3>4, ObserverTold, Zenon
  <2>6. QED
    BY <2>4, <2>5, Zenon
<1>6. CASE ReportAll(o)
  <2> DEFINE here == {d \in Doc : docs[d] # NoDocument}
             m == [l EXCEPT !.lagged = FALSE]
             v == [d \in Doc |-> IF d \in here THEN Scanned(d) ELSE seen[o][d]]
  <2>1. /\ listener' = [listener EXCEPT ![o] = m] /\ seen' = [seen EXCEPT ![o] = v]
        /\ missed' = [missed EXCEPT ![o] = missed[o] \ here]
        /\ UNCHANGED <<docs, writer, eraser, writes>>
    BY <1>1, <1>6, Zenon DEF ReportAll
  <2>2. m \in Listener /\ v \in View /\ missed[o] \ here \in SUBSET Doc
    BY <1>1, Zenon DEF Scanned
  <2>3. \A d \in Doc : docs[d] = NoDocument \/ v[d].write = docs[d].write
    BY Zenon DEF Scanned
  <2> HIDE DEF m, v, here
  <2>4. \A d \in Doc \ (missed[o] \ here) :
          \/ docs[d] = NoDocument \/ v[d].write = docs[d].write
          \/ /\ m.state # "snapshot"
             /\ m.state = "on" /\ ~m.lagged => \E i \in DOMAIN m.queue : m.queue[i] = d
    BY <2>3, Zenon
  <2>5. QED
    BY <1>1, <2>1, <2>2, <2>4, ObserverTold, Zenon
<1>7. QED
  BY <1>3, <1>4, <1>5, <1>6, Zenon

(***************************************************************************)
(* IrohDocumentStore's observe: an observer with nothing left to handle was*)
(* told the content of every stored document, for any number of documents, *)
(* writers and observers and any capacity of the channel, whatever was lost*)
(* to lag; only a change between its snapshot and its subscription escapes.*)
(***************************************************************************)
THEOREM ObserverCatchesUpHolds ==
    ASSUME CapacityAssumption
    PROVE  IrohSpec => []ObserverCatchesUp
<1>1. IrohInit => CatchUpInv
  <2> SUFFICES ASSUME IrohInit PROVE CatchUpInv
    OBVIOUS
  <2>1. IrohTypeOK
    <3>1. <<>> \in Seq(Doc)
      OBVIOUS
    <3>2. QED
      BY <3>1, Zenon DEF IrohInit, IrohTypeOK, NoDocument, Content, Unseen
  <2>2. \A o \in Observer : listener[o].state = "none"
    BY Zenon DEF IrohInit
  <2>3. QED
    BY <2>1, <2>2, Zenon DEF CatchUpInv
<1>2. CatchUpInv /\ [IrohNext]_irohVars => CatchUpInv'
  <2> SUFFICES ASSUME CatchUpInv, [IrohNext]_irohVars PROVE CatchUpInv'
    OBVIOUS
  <2>1. CASE Expire \/ UNCHANGED irohVars
    BY <2>1 DEF Expire, irohVars, CatchUpInv, IrohTypeOK, Told, OnQueue
  <2>2. CASE \/ \E d \in Doc, labelled \in BOOLEAN : UpsertStash(d, labelled)
             \/ \E d \in Doc, layout \in {"data", "root"} : OtherWrite(d, layout)
             \/ \E d \in Doc : SoftDelete(d) \/ RemoveDoc(d)
    BY <2>2, WritersKeepCatchUp, Zenon
  <2>3. CASE UpsertPut \/ SoftDeletePut
    <3>1. \E d \in Doc : TRUE
      BY <2>3, Zenon DEF UpsertPut, SoftDeletePut, CatchUpInv, IrohTypeOK
    <3>2. QED
      BY <2>3, <3>1, WritersKeepCatchUp, Zenon
  <2>4. QED
    BY <2>1, <2>2, <2>3, ObserversKeepCatchUp, Zenon DEF IrohNext
<1>3. CatchUpInv => ObserverCatchesUp
  BY DEF CatchUpInv, ObserverCatchesUp, Told, OnQueue
<1>4. QED
  BY <1>1, <1>2, <1>3, PTL DEF IrohSpec

-----------------------------------------------------------------------------
(***************************************************************************)
(* The fan-outs of outbound frames.  What a node's two consumers hold and  *)
(* which of its fan-outs run agree one by one, unless it was torn down     *)
(* through the wrong door.                                                 *)
(***************************************************************************)
CONSTANTS Nodes, Word, MaxHops, MaxFrames

VARIABLES collection, frame, air, registered, fanout, starting, polling, shared,
          frameListener, queue, heard, stray, frameCalls

Gateway == INSTANCE BleGateway WITH doc <- frame, listener <- frameListener, calls <- frameCalls

Fanouts == [node : Nodes, sink : {"queue", "jni"}]

ToQueue(n) == [node |-> n, sink |-> "queue"]
ToListener(n) == [node |-> n, sink |-> "jni"]

Held(n) ==
    /\ registered[n] \in {{}, Gateway!Translators}
    /\ registered[n] = Gateway!Translators <=> \/ n \in polling \/ n \in shared
                                               \/ ToQueue(n) \in starting \/ ToListener(n) \in starting
    /\ ToQueue(n) \in fanout <=> n \in polling \/ ToQueue(n) \in starting
    /\ ToListener(n) \in fanout <=> n \in shared \/ ToListener(n) \in starting

HeldInv ==
    /\ registered = [n \in Nodes |-> registered[n]]
    /\ fanout \subseteq Fanouts /\ starting \subseteq Fanouts
    /\ \A n \in Nodes \ stray : Held(n)

(* A fan-out feeds the queue or the listener of its node. *)
LEMMA FanoutIs ==
    ASSUME NEW f \in Fanouts, NEW n \in Nodes
    PROVE  /\ f = ToQueue(f.node) \/ f = ToListener(f.node)
           /\ f.node = n <=> f = ToQueue(n) \/ f = ToListener(n)
           /\ ToQueue(n) \in Fanouts /\ ToListener(n) \in Fanouts
           /\ ToQueue(n).node = n /\ ToListener(n).node = n
           /\ ToQueue(n).sink = "queue" /\ ToListener(n).sink = "jni" /\ ToQueue(n) # ToListener(n)
  BY DEF Fanouts, ToQueue, ToListener

(* Whether a node has a fan-out that is being started, in terms of its consumers. *)
LEMMA StartingIs ==
    ASSUME starting \subseteq Fanouts, NEW n \in Nodes
    PROVE  n \in Gateway!Starting <=> ToQueue(n) \in starting \/ ToListener(n) \in starting
<1>1. ASSUME n \in Gateway!Starting PROVE ToQueue(n) \in starting \/ ToListener(n) \in starting
  <2>1. PICK f \in starting : f.node = n
    BY <1>1, Zenon DEF Gateway!Starting
  <2>2. QED
    BY <2>1, FanoutIs, Zenon
<1>2. ToQueue(n).node = n /\ ToListener(n).node = n
  BY DEF ToQueue, ToListener
<1>3. QED
  BY <1>1, <1>2, Zenon DEF Gateway!Starting

(* Registering keeps what other nodes hold; it succeeds only where nothing was held. *)
LEMMA RegisteringKeepsHeld ==
    ASSUME HeldInv, NEW n \in Nodes, NEW sink \in {"queue", "jni"},
           Gateway!RegisterSucceeds(n, sink) \/ Gateway!RegisterFails(n),
           UNCHANGED <<polling, shared, stray>>
    PROVE  HeldInv'
<1>0. Gateway!Translators # {}
  BY Zenon DEF Gateway!Translators
<1>1. CASE Gateway!RegisterSucceeds(n, sink)
  <2> DEFINE f == [node |-> n, sink |-> sink]
  <2>1. /\ registered[n] = {} /\ registered' = [registered EXCEPT ![n] = Gateway!Translators]
        /\ fanout' = fanout \cup {f} /\ starting' = starting \cup {f} /\ f \in Fanouts
    BY <1>1, Zenon DEF Gateway!RegisterSucceeds, Fanouts
  <2>2. f = ToQueue(n) \/ f = ToListener(n)
    BY Zenon DEF ToQueue, ToListener
  <2> HIDE DEF f
  <2>3. registered' = [m \in Nodes |-> registered'[m]]
    BY <2>1, Zenon DEF HeldInv
  <2>4. ASSUME NEW m \in Nodes \ stray PROVE Held(m)'
    <3>1. Held(m)
      BY Zenon DEF HeldInv
    <3>2. CASE m = n
      <4>1. registered'[m] = Gateway!Translators
        BY <2>1, <3>2, Zenon DEF HeldInv
      <4>2. /\ m \notin polling /\ m \notin shared
            /\ ToQueue(m) \notin starting /\ ToListener(m) \notin starting
            /\ ToQueue(m) \notin fanout /\ ToListener(m) \notin fanout
        BY <1>0, <2>1, <3>1, <3>2, Zenon DEF Held
      <4>3. QED
        BY <2>1, <2>2, <3>2, <4>1, <4>2, Zenon DEF Held
    <3>3. CASE m # n
      <4>1. registered'[m] = registered[m]
        BY <2>1, <3>3, Zenon DEF HeldInv
      <4>2. ToQueue(m) # f /\ ToListener(m) # f
        BY <2>2, <3>3 DEF ToQueue, ToListener
      <4>3. QED
        BY <2>1, <3>1, <4>1, <4>2, Zenon DEF Held
    <3>4. QED
      BY <3>2, <3>3, Zenon
  <2>5. QED
    BY <2>1, <2>3, <2>4, Zenon DEF HeldInv
<1>2. CASE Gateway!RegisterFails(n)
  <2>1. registered' = registered
    <3>1. CASE registered[n] # {}
      BY <1>2, <3>1, Zenon DEF Gateway!RegisterFails
    <3>2. CASE registered[n] = {}
      BY <1>2, <3>2 DEF Gateway!RegisterFails, Gateway!TakesBack, HeldInv
    <3>3. QED
      BY <3>1, <3>2, Zenon
  <2>2. UNCHANGED <<fanout, starting>>
    BY <1>2, Zenon DEF Gateway!RegisterFails
  <2>3. QED
    BY <2>1, <2>2, Zenon DEF HeldInv, Held
<1>3. QED
  BY <1>1, <1>2, Zenon

(* A handle that is kept takes the place of the fan-out being started. *)
LEMMA KeepingKeepsHeld ==
    ASSUME HeldInv, NEW n \in Nodes,
           Gateway!StartKeepsHandle(n) \/ Gateway!SubscribeKeepsHandle(n)
    PROVE  HeldInv'
<1>1. CASE Gateway!StartKeepsHandle(n)
  <2>1. /\ ToQueue(n) \in starting /\ starting' = starting \ {ToQueue(n)}
        /\ polling' = polling \cup {n} /\ UNCHANGED <<registered, fanout, shared, stray>>
    BY <1>1, Zenon DEF Gateway!StartKeepsHandle, ToQueue
  <2>2. ASSUME NEW m \in Nodes \ stray PROVE Held(m)'
    <3>1. ToQueue(m) = ToQueue(n) <=> m = n
      BY DEF ToQueue
    <3>2. ToListener(m) # ToQueue(n)
      BY DEF ToQueue, ToListener
    <3>3. Held(m)
      BY Zenon DEF HeldInv
    <3>4. QED
      BY <2>1, <3>1, <3>2, <3>3, Zenon DEF Held
  <2>3. QED
    BY <2>1, <2>2, Zenon DEF HeldInv
<1>2. CASE Gateway!SubscribeKeepsHandle(n)
  <2>1. /\ ToListener(n) \in starting /\ starting' = starting \ {ToListener(n)}
        /\ fanout' = {f \in fanout : ~(f.sink = "jni" /\ f.node \in shared \ {n})}
        /\ shared' = {n} /\ stray' = stray \cup (shared \ {n})
        /\ UNCHANGED <<registered, polling>>
    BY <1>2, Zenon DEF Gateway!SubscribeKeepsHandle, ToListener
  <2>2. ASSUME NEW m \in Nodes \ stray' PROVE Held(m)'
    <3>1. /\ m \notin stray /\ m \notin shared \ {n}
          /\ Held(m)
      BY <2>1, Zenon DEF HeldInv
    <3>2. ToListener(m) = ToListener(n) <=> m = n
      BY DEF ToListener
    <3>3. ToQueue(m) # ToListener(n) /\ ToQueue(m).sink # "jni" /\ ToListener(m).node = m
      BY DEF ToQueue, ToListener
    <3>4. (ToQueue(m) \in fanout' <=> ToQueue(m) \in fanout)
      BY <2>1, <3>3, Zenon
    <3>5. (ToListener(m) \in fanout' <=> ToListener(m) \in fanout)
      BY <2>1, <3>1, <3>3, Zenon
    <3>6. QED
      BY <2>1, <3>1, <3>2, <3>3, <3>4, <3>5, Zenon DEF Held
  <2>3. QED
    BY <2>1, <2>2, Zenon DEF HeldInv
<1>3. QED
  BY <1>1, <1>2, Zenon

(* A stop or an unsubscribe takes away the translators of nodes that nobody else
   holds, and counts the others as torn down. *)
LEMMA ReleasingKeepsHeld ==
    ASSUME HeldInv, NEW n \in Nodes, NEW N \in SUBSET Nodes,
           Gateway!StopOutboundFrames(n) \/ Gateway!UnsubscribeOutboundFrames(N)
    PROVE  HeldInv'
<1>0. Gateway!Translators # {}
  BY Zenon DEF Gateway!Translators
<1>1. CASE Gateway!StopOutboundFrames(n)
  <2>1. /\ fanout' = IF n \in polling THEN fanout \ {ToQueue(n)} ELSE fanout
        /\ polling' = polling \ {n} /\ registered' = [registered EXCEPT ![n] = {}]
        /\ stray' = IF n \in shared \cup Gateway!Starting THEN stray \cup {n} ELSE stray
        /\ UNCHANGED <<starting, shared>>
    BY <1>1, Zenon DEF Gateway!StopOutboundFrames, ToQueue
  <2>2. ASSUME NEW m \in Nodes \ stray' PROVE Held(m)'
    <3>1. m \notin stray /\ Held(m)
      BY <2>1, Zenon DEF HeldInv
    <3>2. ToQueue(m) = ToQueue(n) <=> m = n
      BY DEF ToQueue
    <3>3. ToListener(m) # ToQueue(n)
      BY DEF ToQueue, ToListener
    <3>4. CASE m = n
      <4>1. m \notin shared /\ ToQueue(m) \notin starting /\ ToListener(m) \notin starting
        BY <2>1, <3>4, StartingIs, Zenon DEF HeldInv
      <4>2. registered'[m] = {}
        BY <2>1, <3>4, Zenon DEF HeldInv
      <4>3. ToQueue(m) \notin fanout' /\ ToListener(m) \notin fanout'
        BY <2>1, <3>1, <3>3, <3>4, <4>1, Zenon DEF Held
      <4>4. QED
        BY <1>0, <2>1, <3>4, <4>1, <4>2, <4>3, Zenon DEF Held
    <3>5. CASE m # n
      <4>1. registered'[m] = registered[m]
        BY <2>1, <3>5, Zenon DEF HeldInv
      <4>2. (ToQueue(m) \in fanout' <=> ToQueue(m) \in fanout)
            /\ (ToListener(m) \in fanout' <=> ToListener(m) \in fanout)
        BY <2>1, <3>2, <3>3, <3>5, Zenon
      <4>3. QED
        BY <2>1, <3>1, <3>5, <4>1, <4>2, Zenon DEF Held
    <3>6. QED
      BY <3>4, <3>5, Zenon
  <2>3. registered' = [m \in Nodes |-> registered'[m]]
    BY <2>1, Zenon DEF HeldInv
  <2>4. QED
    BY <2>1, <2>2, <2>3, Zenon DEF HeldInv
<1>2. CASE Gateway!UnsubscribeOutboundFrames(N)
  <2>1. /\ fanout' = {f \in fanout : ~(f.sink = "jni" /\ f.node \in shared)}
        /\ shared' = {}
        /\ registered' = [m \in Nodes |-> IF m \in N THEN {} ELSE registered[m]]
        /\ stray' = stray \cup (shared \ N) \cup (N \cap (polling \cup Gateway!Starting))
        /\ UNCHANGED <<starting, polling>>
    BY <1>2, Zenon DEF Gateway!UnsubscribeOutboundFrames
  <2>2. ASSUME NEW m \in Nodes \ stray' PROVE Held(m)'
    <3>1. m \notin stray /\ Held(m) /\ (m \in shared => m \in N)
      BY <2>1, Zenon DEF HeldInv
    <3>2. ToQueue(m).sink # "jni" /\ ToListener(m).node = m /\ ToListener(m).sink = "jni"
      BY DEF ToQueue, ToListener
    <3>3. ToQueue(m) \in fanout' <=> ToQueue(m) \in fanout
      BY <2>1, <3>2, Zenon
    <3>4. ToListener(m) \in fanout' <=> ToListener(m) \in fanout /\ m \notin shared
      BY <2>1, <3>2, Zenon
    <3>5. CASE m \in N
      <4>1. m \notin polling /\ ToQueue(m) \notin starting /\ ToListener(m) \notin starting
        BY <2>1, <3>5, StartingIs, Zenon DEF HeldInv
      <4>2. registered'[m] = {}
        BY <2>1, <3>5, Zenon
      <4>3. QED
        BY <1>0, <2>1, <3>1, <3>3, <3>4, <4>1, <4>2, Zenon DEF Held
    <3>6. CASE m \notin N
      <4>1. registered'[m] = registered[m] /\ m \notin shared
        BY <2>1, <3>1, <3>6, Zenon
      <4>2. QED
        BY <2>1, <3>1, <3>3, <3>4, <4>1, Zenon DEF Held
    <3>7. QED
      BY <3>5, <3>6, Zenon
  <2>3. registered' = [m \in Nodes |-> registered'[m]]
    BY <2>1, Zenon
  <2>4. QED
    BY <2>1, <2>2, <2>3, Zenon DEF HeldInv
<1>3. QED
  BY <1>1, <1>2, Zenon

(* RegisteredWhileHeld: the translators of a node are registered exactly while a
   consumer holds its fan-out, and exactly while the fan-out runs, for any number of
   nodes and any order of starts, stops, subscriptions and failures, but for nodes
   torn down through the wrong door (start_outbound_frames, register_ble_fanout,
   subscribeOutboundFramesJni). *)
THEOREM RegisteredWhileHeldHolds == Gateway!OutboundSpec => []Gateway!RegisteredWhileHeld
<1>1. Gateway!OutboundInit => HeldInv
  BY DEF Gateway!OutboundInit, Gateway!Translators, HeldInv, Held, Fanouts
<1>2. HeldInv /\ [Gateway!OutboundNext]_Gateway!outboundVars => HeldInv'
  <2> SUFFICES ASSUME HeldInv, [Gateway!OutboundNext]_Gateway!outboundVars PROVE HeldInv'
    OBVIOUS
  <2>1. ASSUME NEW n \in Nodes,
               \/ Gateway!StartOutboundFrames(n) \/ Gateway!SubscribeOutboundFrames(n)
        PROVE  HeldInv'
    <3>1. CASE \E sink \in {"queue", "jni"} :
                  /\ Gateway!RegisterSucceeds(n, sink) \/ Gateway!RegisterFails(n)
                  /\ UNCHANGED <<polling, shared, stray>>
      BY <3>1, RegisteringKeepsHeld, Zenon
    <3>2. CASE UNCHANGED <<registered, fanout, starting, polling, shared, stray>>
      BY <3>2, Zenon DEF HeldInv, Held
    <3>3. QED
      BY <2>1, <3>1, <3>2, Zenon
         DEF Gateway!StartOutboundFrames, Gateway!SubscribeOutboundFrames
  <2>2. ASSUME NEW n \in Nodes,
               Gateway!PollOutboundFrames(n) \/ Gateway!FrameOut(n)
        PROVE  HeldInv'
    <3>1. UNCHANGED <<registered, fanout, starting, polling, shared, stray>>
      BY <2>2, Zenon DEF Gateway!PollOutboundFrames, Gateway!FrameOut
    <3>2. QED
      BY <3>1, Zenon DEF HeldInv, Held
  <2>3. CASE UNCHANGED Gateway!outboundVars
    BY <2>3, Zenon DEF Gateway!outboundVars, HeldInv, Held
  <2>4. ASSUME NEW n \in Nodes,
               \/ Gateway!StopOutboundFrames(n) \/ Gateway!UnsubscribeOutboundFrames({n})
               \/ Gateway!UnsubscribeOutboundFrames({})
        PROVE  HeldInv'
    <3>1. {n} \in SUBSET Nodes /\ {} \in SUBSET Nodes
      OBVIOUS
    <3>2. QED
      BY <2>4, <3>1, ReleasingKeepsHeld, Zenon
  <2>5. QED
    BY <2>1, <2>2, <2>3, <2>4, KeepingKeepsHeld, Zenon DEF Gateway!OutboundNext
<1>3. HeldInv => Gateway!RegisteredWhileHeld
  <2> SUFFICES ASSUME HeldInv, NEW n \in Nodes \ stray
               PROVE  /\ registered[n] \in {{}, Gateway!Translators}
                      /\ (registered[n] = Gateway!Translators)
                            = (n \in polling \cup shared \cup Gateway!Starting)
                      /\ (registered[n] = Gateway!Translators) = (\E f \in fanout : f.node = n)
    BY Zenon DEF Gateway!RegisteredWhileHeld
  <2>1. Held(n)
    BY Zenon DEF HeldInv
  <2>2. n \in Gateway!Starting <=> ToQueue(n) \in starting \/ ToListener(n) \in starting
    BY StartingIs, Zenon DEF HeldInv
  <2>3. (\E f \in fanout : f.node = n) <=> ToQueue(n) \in fanout \/ ToListener(n) \in fanout
    BY FanoutIs DEF HeldInv
  <2>4. registered[n] = Gateway!Translators <=> n \in polling \cup shared \cup Gateway!Starting
    BY <2>1, <2>2, Zenon DEF Held
  <2>5. registered[n] = Gateway!Translators <=> \E f \in fanout : f.node = n
    BY <2>1, <2>3, Zenon DEF Held
  <2>6. registered[n] \in {{}, Gateway!Translators}
    BY <2>1, Zenon DEF Held
  <2>7. (registered[n] = Gateway!Translators) = (n \in polling \cup shared \cup Gateway!Starting)
    BY <2>4
  <2>8. (registered[n] = Gateway!Translators) = (\E f \in fanout : f.node = n)
    BY <2>5
  <2>9. QED
    BY <2>6, <2>7, <2>8, Zenon
<1>4. QED
  BY <1>1, <1>2, <1>3, PTL DEF Gateway!OutboundSpec

-----------------------------------------------------------------------------
(***************************************************************************)
(* The nodes behind foreign callers.  The count of a node under            *)
(* construction on its directory is zero, so its constructor's count of one*)
(* is right, and no path of a JNI call still to be taken drops an owner.   *)
(***************************************************************************)
CONSTANTS Threads, Peer, MaxEvents, MaxThreads

VARIABLES refs, handles, slot, bridge, opening, ticking, stopped, jniCall,
          transport, context, connected, callback, cancel, lastError, result, step,
          thread, events, told, since, overlapped, entry, stage, argument, got, outcome,
          answer

Ffi == INSTANCE NativeInterface WITH call <- jniCall, a <- argument, r <- answer

Lends == Seq({"take", "use", "clone", "forget", "inner"})

OwnersInv ==
    /\ refs = [n \in Nodes |-> refs[n]]
    /\ opening = [n \in Nodes |-> opening[n]]
    /\ jniCall = [t \in Threads |-> jniCall[t]]
    /\ Ffi!OwnersAreCounted
    /\ \A n \in Nodes : opening[n] \in {"parts", "backend", "tasks", "composed"} => refs[n] = 0
    /\ \A t \in Threads : jniCall[t] = Ffi!Idle \/ jniCall[t].steps \in Lends \ {<<>>}

-----------------------------------------------------------------------------
(* No JNI wrapper drops the owner it borrows. *)
LEMMA JniLends == Ffi!JniCalls \subseteq Lends
<1> DEFINE Paths == {Ffi!HandlesRefused, Ffi!Borrow, Ffi!TakenThenRefused, Ffi!CloneOut}
<1>1. Paths \subseteq Lends
  <2>1. Ffi!HandlesRefused \in Lends
    BY DEF Ffi!HandlesRefused, Lends
  <2>2. Ffi!Borrow \in Lends
    BY DEF Ffi!Borrow, Lends
  <2>3. Ffi!TakenThenRefused \in Lends
    BY DEF Ffi!TakenThenRefused, Lends
  <2>4. Ffi!CloneOut \in Lends
    BY DEF Ffi!CloneOut, Lends
  <2>5. QED
    BY <2>1, <2>2, <2>3, <2>4, Zenon
<1>2. Ffi!JniCalls \subseteq Paths
  BY DEF Ffi!JniCalls, Ffi!NodeIdJni, Ffi!PeerCountJni, Ffi!RequestSyncJni,
     Ffi!EndpointSocketAddrJni, Ffi!GetDocumentJni, Ffi!ForceStoreErrorForTestingJni,
     Ffi!ConnectedPeersJni, Ffi!StartSyncJni, Ffi!BleSetStartedJni, Ffi!BleAddPeerJni,
     Ffi!BleRemovePeerJni, Ffi!BleIsAvailableJni, Ffi!BlePeerCountJni, Ffi!GetCellsJni,
     Ffi!GetTracksJni, Ffi!GetNodesJni, Ffi!PublishNodeJni, Ffi!PublishDocumentJni,
     Ffi!PublishDocumentWithOriginJni, Ffi!IngestPositionJni, Ffi!IngestInboundFrameJni,
     Ffi!IngestInboundLiteFrameJni, Ffi!IngestCrdtFrameJni, Ffi!ConnectPeerJni,
     Ffi!SubscribeDocumentChangesJni, Ffi!SubscribeOutboundFramesJni,
     Ffi!UnsubscribeOutboundFramesJni, Ffi!EnableBlobTransferJni, Ffi!BlobAddPeerJni,
     Ffi!BlobPutJni, Ffi!BlobGetJni, Ffi!BlobExistsLocallyJni, Ffi!BlobEndpointIdJni
<1>3. QED
  BY <1>1, <1>2, Zenon

(* The phases of create_node_with_identity. *)
LEMMA OpeningKeepsOwners ==
    ASSUME OwnersInv, NEW n \in Nodes,
           \/ Ffi!CreateStarts(n) \/ Ffi!OpenParts(n) \/ Ffi!InitBackend(n)
           \/ Ffi!SpawnTasks(n) \/ Ffi!RegisterTransports(n) \/ Ffi!CreateFails(n)
    PROVE  OwnersInv'
<1>1. PICK from, to : /\ Ffi!Enters(n, from, to)
                      /\ \/ to \in {"none", "checked"}
                         \/ refs[n] = 0
                         \/ from \in {"parts", "backend", "tasks"}
  BY Zenon DEF Ffi!CreateStarts, Ffi!OpenParts, Ffi!InitBackend, Ffi!SpawnTasks,
         Ffi!RegisterTransports, Ffi!CreateFails
<1>2. /\ UNCHANGED <<refs, handles, slot, ticking, jniCall>>
      /\ opening[n] = from /\ opening' = [opening EXCEPT ![n] = to]
  BY <1>1, Zenon DEF Ffi!Enters
<1>3. /\ opening' = [m \in Nodes |-> opening'[m]] /\ opening'[n] = to
      /\ \A m \in Nodes : m # n => opening'[m] = opening[m]
  BY <1>2, Zenon DEF OwnersInv
<1>4. Ffi!OwnersAreCounted'
  BY <1>2, Zenon DEF OwnersInv, Ffi!OwnersAreCounted, Ffi!Owner
<1>5. \A m \in Nodes : opening'[m] \in {"parts", "backend", "tasks", "composed"} => refs'[m] = 0
  BY <1>1, <1>2, <1>3, Zenon DEF OwnersInv
<1>6. QED
  BY <1>2, <1>3, <1>4, <1>5, Zenon DEF OwnersInv, Ffi!Idle

(* A new node has one owner, or two with the slot. *)
LEMMA CreatingKeepsOwners ==
    ASSUME OwnersInv, NEW n \in Nodes,
           Ffi!CreateNodeJni(n) \/ Ffi!CreateNodeWithConfigJni(n) \/ Ffi!HandlesCreateNode(n)
    PROVE  OwnersInv'
<1>1. /\ opening[n] = "composed" /\ opening' = [opening EXCEPT ![n] = "none"]
      /\ handles' = handles \cup {n} /\ UNCHANGED <<ticking, jniCall>>
  BY Zenon DEF Ffi!CreateNodeJni, Ffi!CreateNodeWithConfigJni, Ffi!HandlesCreateNode
<1>2. /\ opening' = [m \in Nodes |-> opening'[m]] /\ opening'[n] = "none"
      /\ \A m \in Nodes : m # n => opening'[m] = opening[m]
  BY <1>1, Zenon DEF OwnersInv
<1>3. \A m \in Nodes : refs[m] = Ffi!Owner(m, handles) + Ffi!Owner(m, slot) + Ffi!Owner(m, ticking)
  BY Zenon DEF OwnersInv, Ffi!OwnersAreCounted
<1>4. refs[n] = 0 /\ n \notin handles /\ n \notin slot /\ n \notin ticking
  BY <1>1, <1>3 DEF OwnersInv, Ffi!Owner
<1>5. /\ refs' = [m \in Nodes |-> refs'[m]]
      /\ \/ UNCHANGED slot /\ refs' = [refs EXCEPT ![n] = 1]
         \/ slot' = {n} /\ refs' = Ffi!StoreOwning([refs EXCEPT ![n] = 1], n)
  <2>1. \/ UNCHANGED slot /\ refs' = [refs EXCEPT ![n] = 1]
        \/ slot' = {n} /\ refs' = Ffi!StoreOwning([refs EXCEPT ![n] = 1], n)
    BY Zenon DEF Ffi!CreateNodeJni, Ffi!CreateNodeWithConfigJni, Ffi!HandlesCreateNode
  <2>2. refs' = [m \in Nodes |-> refs'[m]]
    BY <2>1, Zenon DEF Ffi!StoreOwning, OwnersInv
  <2>3. QED
    BY <2>1, <2>2, Zenon
<1>6. \A m \in Nodes :
        \/ /\ slot' = slot /\ refs'[m] = IF m = n THEN 1 ELSE refs[m]
        \/ /\ slot' = {n}
           /\ refs'[m] = (IF m = n THEN 2 ELSE refs[m]) - (IF m \in slot THEN 1 ELSE 0)
  <2> DEFINE count == [refs EXCEPT ![n] = 1]
  <2>1. \A m \in Nodes : count[m] = IF m = n THEN 1 ELSE refs[m]
    BY Zenon DEF OwnersInv
  <2> HIDE DEF count
  <2>2. CASE slot' = slot /\ refs' = count
    BY <2>1, <2>2, Zenon
  <2>3. CASE slot' = {n} /\ refs' = Ffi!StoreOwning(count, n)
    <3>1. \A m \in Nodes : refs'[m] = count[m] + (IF m = n THEN 1 ELSE 0)
                                        - (IF m \in slot THEN 1 ELSE 0)
      BY <2>3, Zenon DEF Ffi!StoreOwning
    <3>2. \A m \in Nodes : refs[m] \in Nat
      BY <1>3 DEF Ffi!Owner
    <3>3. QED
      BY <2>1, <2>3, <3>1, <3>2
  <2>4. QED
    BY <1>5, <2>2, <2>3, Zenon DEF count
<1>7. Ffi!OwnersAreCounted'
  BY <1>1, <1>3, <1>4, <1>6 DEF Ffi!OwnersAreCounted, Ffi!Owner
<1>8. \A m \in Nodes : opening'[m] \in {"parts", "backend", "tasks", "composed"} => refs'[m] = 0
  <2>1. ASSUME NEW m \in Nodes, m # n, refs[m] = 0 PROVE refs'[m] = 0
    BY <1>3, <1>6, <2>1 DEF Ffi!Owner
  <2>2. QED
    BY <1>2, <2>1, Zenon DEF OwnersInv
<1>9. QED
  BY <1>1, <1>2, <1>5, <1>7, <1>8, Zenon DEF OwnersInv, Ffi!Idle

(* What an owner counts. *)
LEMMA OwnerCounts ==
    ASSUME NEW m, NEW S
    PROVE  /\ m \in S => Ffi!Owner(m, S) = 1
           /\ m \notin S => Ffi!Owner(m, S) = 0
           /\ Ffi!Owner(m, S) \in {0, 1}
  BY Zenon DEF Ffi!Owner

(* A step that changes the count of nodes as their owners change, and lets no
   node that is under construction have any. *)
LEMMA OwnersFollow ==
    ASSUME OwnersInv, refs' = [m \in Nodes |-> refs'[m]], UNCHANGED <<opening, jniCall>>,
           handles' \subseteq handles, slot' \subseteq slot,
           \A m \in Nodes : m \in ticking' => m \in ticking \/ refs[m] > 0,
           \A m \in Nodes :
              refs'[m] = refs[m] + (Ffi!Owner(m, handles') - Ffi!Owner(m, handles))
                                 + (Ffi!Owner(m, slot') - Ffi!Owner(m, slot))
                                 + (Ffi!Owner(m, ticking') - Ffi!Owner(m, ticking))
    PROVE  OwnersInv'
<1>1. \A m \in Nodes : refs[m] = Ffi!Owner(m, handles) + Ffi!Owner(m, slot) + Ffi!Owner(m, ticking)
  BY Zenon DEF OwnersInv, Ffi!OwnersAreCounted
<1>2. \A m \in Nodes :
        refs'[m] = Ffi!Owner(m, handles') + Ffi!Owner(m, slot') + Ffi!Owner(m, ticking')
  BY <1>1 DEF Ffi!Owner
<1>3. Ffi!OwnersAreCounted'
  BY <1>2, Zenon DEF Ffi!OwnersAreCounted, Ffi!Owner
<1>4. ASSUME NEW m \in Nodes, refs[m] = 0 PROVE refs'[m] = 0
  <2>1. m \notin handles /\ m \notin slot /\ m \notin ticking
    <3>1. /\ Ffi!Owner(m, handles) \in {0, 1} /\ Ffi!Owner(m, slot) \in {0, 1}
          /\ Ffi!Owner(m, ticking) \in {0, 1}
          /\ 0 = Ffi!Owner(m, handles) + Ffi!Owner(m, slot) + Ffi!Owner(m, ticking)
      BY <1>1, <1>4, OwnerCounts, Zenon
    <3>2. /\ Ffi!Owner(m, handles) # 1 /\ Ffi!Owner(m, slot) # 1
          /\ Ffi!Owner(m, ticking) # 1
      BY <3>1
    <3>3. QED
      BY <3>2, OwnerCounts, Zenon
  <2>2. m \notin handles' /\ m \notin slot' /\ m \notin ticking'
    BY <1>4, <2>1
  <2>3. QED
    BY <1>2, <2>2 DEF Ffi!Owner
<1>5. QED
  BY <1>3, <1>4, Zenon DEF OwnersInv, Ffi!Idle

(* freeNodeJni, the finalizer, clearing the slot and the reconnect task. *)
LEMMA DroppingKeepsOwners ==
    ASSUME OwnersInv, NEW n \in Nodes,
           \/ Ffi!FreeNodeJni(n) \/ Ffi!DropHandle(n) \/ Ffi!TickStarts(n) \/ Ffi!TickEnds(n)
    PROVE  OwnersInv'
<1>1. \A m \in Nodes : refs[m] \in Nat
  BY DEF OwnersInv, Ffi!OwnersAreCounted, Ffi!Owner
<1>2. \A x : [refs EXCEPT ![n] = x] = [m \in Nodes |-> IF m = n THEN x ELSE refs[m]]
  BY Zenon DEF OwnersInv
<1>3. CASE Ffi!FreeNodeJni(n) \/ Ffi!DropHandle(n)
  <2>1. /\ n \in handles /\ handles' = handles \ {n} /\ refs' = [refs EXCEPT ![n] = refs[n] - 1]
        /\ UNCHANGED <<slot, ticking, opening, jniCall>>
    BY <1>3, Zenon DEF Ffi!FreeNodeJni, Ffi!DropHandle
  <2>2. ASSUME NEW m \in Nodes
        PROVE  refs'[m] = refs[m] + (Ffi!Owner(m, handles') - Ffi!Owner(m, handles))
                                  + (Ffi!Owner(m, slot') - Ffi!Owner(m, slot))
                                  + (Ffi!Owner(m, ticking') - Ffi!Owner(m, ticking))
    <3>1. CASE m = n
      <4>1. /\ Ffi!Owner(m, handles) = 1 /\ Ffi!Owner(m, handles') = 0
            /\ refs'[m] = refs[m] - 1
        BY <1>2, <2>1, <3>1, Zenon DEF Ffi!Owner
      <4>2. QED
        BY <1>1, <2>1, <4>1 DEF Ffi!Owner
    <3>2. CASE m # n
      <4>1. Ffi!Owner(m, handles') = Ffi!Owner(m, handles) /\ refs'[m] = refs[m]
        BY <1>2, <2>1, <3>2, Zenon DEF Ffi!Owner
      <4>2. QED
        BY <1>1, <2>1, <4>1 DEF Ffi!Owner
    <3>3. QED
      BY <3>1, <3>2, Zenon
  <2>3. refs' = [m \in Nodes |-> refs'[m]]
    BY <1>2, <2>1, Zenon
  <2>4. /\ handles' \subseteq handles /\ slot' \subseteq slot
        /\ \A m \in Nodes : m \in ticking' => m \in ticking \/ refs[m] > 0
    BY <2>1, Zenon
  <2>5. QED
    BY <2>1, <2>2, <2>3, <2>4, OwnersFollow, Zenon
<1>4. CASE Ffi!TickStarts(n)
  <2>1. /\ n \notin ticking /\ ticking' = ticking \cup {n} /\ refs[n] > 0
        /\ refs' = [refs EXCEPT ![n] = refs[n] + 1]
        /\ UNCHANGED <<slot, handles, opening, jniCall>>
    BY <1>4, Zenon DEF Ffi!TickStarts
  <2>2. ASSUME NEW m \in Nodes
        PROVE  refs'[m] = refs[m] + (Ffi!Owner(m, handles') - Ffi!Owner(m, handles))
                                  + (Ffi!Owner(m, slot') - Ffi!Owner(m, slot))
                                  + (Ffi!Owner(m, ticking') - Ffi!Owner(m, ticking))
    <3>1. CASE m = n
      <4>1. /\ Ffi!Owner(m, ticking) = 0 /\ Ffi!Owner(m, ticking') = 1
            /\ refs'[m] = refs[m] + 1
        BY <1>2, <2>1, <3>1, Zenon DEF Ffi!Owner
      <4>2. QED
        BY <1>1, <2>1, <4>1 DEF Ffi!Owner
    <3>2. CASE m # n
      <4>1. Ffi!Owner(m, ticking') = Ffi!Owner(m, ticking) /\ refs'[m] = refs[m]
        BY <1>2, <2>1, <3>2, Zenon DEF Ffi!Owner
      <4>2. QED
        BY <1>1, <2>1, <4>1 DEF Ffi!Owner
    <3>3. QED
      BY <3>1, <3>2, Zenon
  <2>3. refs' = [m \in Nodes |-> refs'[m]]
    BY <1>2, <2>1, Zenon
  <2>4. /\ handles' \subseteq handles /\ slot' \subseteq slot
        /\ \A m \in Nodes : m \in ticking' => m \in ticking \/ refs[m] > 0
    BY <2>1, Zenon
  <2>5. QED
    BY <2>1, <2>2, <2>3, <2>4, OwnersFollow, Zenon
<1>5. CASE Ffi!TickEnds(n)
  <2>1. /\ n \in ticking /\ ticking' = ticking \ {n} /\ refs' = [refs EXCEPT ![n] = refs[n] - 1]
        /\ UNCHANGED <<slot, handles, opening, jniCall>>
    BY <1>5, Zenon DEF Ffi!TickEnds
  <2>2. ASSUME NEW m \in Nodes
        PROVE  refs'[m] = refs[m] + (Ffi!Owner(m, handles') - Ffi!Owner(m, handles))
                                  + (Ffi!Owner(m, slot') - Ffi!Owner(m, slot))
                                  + (Ffi!Owner(m, ticking') - Ffi!Owner(m, ticking))
    <3>1. CASE m = n
      <4>1. /\ Ffi!Owner(m, ticking) = 1 /\ Ffi!Owner(m, ticking') = 0
            /\ refs'[m] = refs[m] - 1
        BY <1>2, <2>1, <3>1, Zenon DEF Ffi!Owner
      <4>2. QED
        BY <1>1, <2>1, <4>1 DEF Ffi!Owner
    <3>2. CASE m # n
      <4>1. Ffi!Owner(m, ticking') = Ffi!Owner(m, ticking) /\ refs'[m] = refs[m]
        BY <1>2, <2>1, <3>2, Zenon DEF Ffi!Owner
      <4>2. QED
        BY <1>1, <2>1, <4>1 DEF Ffi!Owner
    <3>3. QED
      BY <3>1, <3>2, Zenon
  <2>3. refs' = [m \in Nodes |-> refs'[m]]
    BY <1>2, <2>1, Zenon
  <2>4. /\ handles' \subseteq handles /\ slot' \subseteq slot
        /\ \A m \in Nodes : m \in ticking' => m \in ticking \/ refs[m] > 0
    BY <2>1, Zenon
  <2>5. QED
    BY <2>1, <2>2, <2>3, <2>4, OwnersFollow, Zenon
<1>6. QED
  BY <1>3, <1>4, <1>5, Zenon

(* The slot read and cleared. *)
LEMMA SlotKeepsOwners ==
    ASSUME OwnersInv, Ffi!GetGlobalNodeHandleJni \/ Ffi!ClearGlobalNodeHandleJni
    PROVE  OwnersInv'
<1>1. \A m \in Nodes : refs[m] \in Nat
  BY DEF OwnersInv, Ffi!OwnersAreCounted, Ffi!Owner
<1>2. CASE Ffi!GetGlobalNodeHandleJni
  <2>1. UNCHANGED <<refs, handles, slot, ticking, opening, jniCall>>
    BY <1>2, Zenon DEF Ffi!GetGlobalNodeHandleJni
  <2>2. QED
    BY <2>1, Zenon DEF OwnersInv, Ffi!OwnersAreCounted, Ffi!Owner, Ffi!Idle
<1>3. CASE Ffi!ClearGlobalNodeHandleJni
  <2>1. /\ refs' = [m \in Nodes |-> refs[m] - (IF m \in slot THEN 1 ELSE 0)] /\ slot' = {}
        /\ UNCHANGED <<handles, ticking, opening, jniCall>>
    BY <1>3, Zenon DEF Ffi!ClearGlobalNodeHandleJni
  <2>2. QED
    BY <1>1, <2>1, OwnersFollow DEF Ffi!Owner
<1>4. QED
  BY <1>2, <1>3, Zenon

(* A JNI call starts, and goes on without giving an owner away. *)
LEMMA CallsKeepOwners ==
    ASSUME OwnersInv, NEW t \in Threads,
           \/ Ffi!CallGoesOn(t)
           \/ \E n \in Nodes, via \in {"handle", "bridge"} :
                \E steps \in Ffi!JniCalls : Ffi!CallStarts(t, n, via, steps)
    PROVE  OwnersInv'
<1>1. ASSUME NEW next, jniCall' = [jniCall EXCEPT ![t] = next],
             next = Ffi!Idle \/ next.steps \in Lends \ {<<>>},
             UNCHANGED <<refs, handles, slot, ticking, opening>>
      PROVE  OwnersInv'
  <2>1. /\ jniCall' = [u \in Threads |-> jniCall'[u]]
        /\ \A u \in Threads : jniCall'[u] = IF u = t THEN next ELSE jniCall[u]
    BY <1>1, Zenon DEF OwnersInv
  <2>2. \A u \in Threads : jniCall'[u] = Ffi!Idle \/ jniCall'[u].steps \in Lends \ {<<>>}
    BY <1>1, <2>1, Zenon DEF OwnersInv
  <2>3. Ffi!OwnersAreCounted'
    BY <1>1, Zenon DEF OwnersInv, Ffi!OwnersAreCounted, Ffi!Owner
  <2>4. QED
    BY <1>1, <2>1, <2>2, <2>3, Zenon DEF OwnersInv, Ffi!Idle
<1>2. ASSUME NEW n \in Nodes, NEW via \in {"handle", "bridge"}, NEW steps \in Ffi!JniCalls,
             Ffi!CallStarts(t, n, via, steps)
      PROVE  OwnersInv'
  <2> DEFINE next == [on |-> {n}, via |-> via, steps |-> steps]
  <2>1. /\ jniCall' = [jniCall EXCEPT ![t] = next] /\ steps # <<>>
        /\ UNCHANGED <<refs, handles, slot, ticking, opening>>
    BY <1>2, Zenon DEF Ffi!CallStarts
  <2>2. next.steps \in Lends \ {<<>>}
    BY <2>1, JniLends, Zenon
  <2> HIDE DEF next
  <2>3. QED
    BY <1>1, <2>1, <2>2, Zenon
<1>3. CASE Ffi!CallGoesOn(t)
  <2> DEFINE steps == jniCall[t].steps
             next == IF Tail(steps) = <<>> THEN Ffi!Idle ELSE [jniCall[t] EXCEPT !.steps = Tail(steps)]
  <2>1. /\ jniCall[t] # Ffi!Idle /\ jniCall' = [jniCall EXCEPT ![t] = next]
        /\ refs' = [m \in Nodes |->
                     refs[m] - (IF m \in jniCall[t].on /\ Head(steps) = "drop" THEN 1 ELSE 0)]
        /\ UNCHANGED <<handles, slot, ticking, opening>>
    BY <1>3, Zenon DEF Ffi!CallGoesOn
  <2>2. Head(steps) # "drop" /\ Tail(steps) \in Lends
    <3>1. steps \in Lends \ {<<>>}
      BY <2>1, Zenon DEF OwnersInv
    <3>2. QED
      BY <3>1 DEF Lends
  <2>3. refs' = refs
    <3>1. \A m \in Nodes : refs[m] \in Nat
      BY DEF OwnersInv, Ffi!OwnersAreCounted, Ffi!Owner
    <3>2. refs' = [m \in Nodes |-> refs[m]]
      BY <2>1, <2>2, <3>1
    <3>3. QED
      BY <3>2, Zenon DEF OwnersInv
  <2>4. next = Ffi!Idle \/ next.steps \in Lends \ {<<>>}
    <3>1. CASE Tail(steps) = <<>>
      BY <3>1, Zenon
    <3>2. CASE Tail(steps) # <<>>
      BY <2>2, <3>2
    <3>3. QED
      BY <3>1, <3>2, Zenon
  <2> HIDE DEF next
  <2>5. QED
    BY <1>1, <2>1, <2>3, <2>4, Zenon
<1>4. QED
  BY <1>2, <1>3, Zenon

(***************************************************************************)
(* createNodeJni, freeNodeJni, the global slot, the reconnect task and the *)
(* JNI wrappers: however they interleave, for any nodes and threads, the   *)
(* count of a node is the number of its owners, so a node that its creator *)
(* still holds, or that the global slot names, is alive.                   *)
(***************************************************************************)
THEOREM OwnersAreCountedHolds == Ffi!HandlesSpec => []Ffi!OwnersAreCounted
<1>1. Ffi!HandlesInit => OwnersInv
  <2> SUFFICES ASSUME Ffi!HandlesInit PROVE OwnersInv
    OBVIOUS
  <2>1. /\ refs = [n \in Nodes |-> 0] /\ handles = {} /\ slot = {} /\ ticking = {}
        /\ opening = [n \in Nodes |-> "none"] /\ jniCall = [t \in Threads |-> Ffi!Idle]
    BY Zenon DEF Ffi!HandlesInit
  <2>2. Ffi!OwnersAreCounted
    BY <2>1 DEF Ffi!OwnersAreCounted, Ffi!Owner
  <2>3. QED
    BY <2>1, <2>2, Zenon DEF OwnersInv
<1>2. OwnersInv /\ [Ffi!HandlesNext]_Ffi!handlesVars => OwnersInv'
  <2> SUFFICES ASSUME OwnersInv, [Ffi!HandlesNext]_Ffi!handlesVars PROVE OwnersInv'
    OBVIOUS
  <2>1. CASE UNCHANGED Ffi!handlesVars
    <3>1. UNCHANGED <<refs, handles, slot, ticking, opening, jniCall>>
      BY <2>1, Zenon DEF Ffi!handlesVars
    <3>2. QED
      BY <3>1, Zenon DEF OwnersInv, Ffi!OwnersAreCounted, Ffi!Owner, Ffi!Idle
  <2>2. CASE Ffi!HandlesNext
    BY <2>2, OpeningKeepsOwners, CreatingKeepsOwners, DroppingKeepsOwners, SlotKeepsOwners,
       CallsKeepOwners, Zenon DEF Ffi!HandlesNext
  <2>3. QED
    BY <2>1, <2>2, Zenon
<1>3. OwnersInv => Ffi!OwnersAreCounted
  BY Zenon DEF OwnersInv
<1>4. QED
  BY <1>1, <1>2, <1>3, PTL DEF Ffi!HandlesSpec
=============================================================================
