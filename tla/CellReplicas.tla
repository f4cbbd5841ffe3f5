---------------------------- MODULE CellReplicas ----------------------------
(* A cell: its CRDT state (CellState), replicas of that state that are merged
   (Spec), and overlapping calls on the cell in a store (StoreSpec). *)
EXTENDS Naturals, FiniteSets

(***************************************************************************)
(* The state of a cell and its operations, peat-protocol/src/models/cell/  *)
(* mod.rs: members, leader, cohort and capabilities under one timestamp,   *)
(* the second of the last update.                                          *)
(***************************************************************************)

CONSTANTS Node, Cohort, Capability, None, max_size

CellStates ==
    [members : SUBSET Node, leader_id : Node \cup {None},
     cohort_id : Cohort \cup {None}, capabilities : SUBSET Capability,
     timestamp : Nat]

NewCell(now) ==
    [members |-> {}, leader_id |-> None, cohort_id |-> None,
     capabilities |-> {}, timestamp |-> now]

IsFull(cell) == Cardinality(cell.members) >= max_size

(* add_member returns true *)
CanAddMember(cell, n) == ~IsFull(cell) /\ n \notin cell.members

AddMember(cell, n, now) ==
    [cell EXCEPT !.members = @ \cup {n}, !.timestamp = now]

(* Variant: the leader stays leader when it leaves. *)
RemoveMemberOnly(cell, n, now) ==
    [cell EXCEPT !.members = @ \ {n}, !.timestamp = now]

RemoveMember(cell, n, now) ==
    [cell EXCEPT !.members = @ \ {n},
                 !.timestamp = now,
                 !.leader_id = IF @ = n THEN None ELSE @]

SetLeader(cell, n, now) ==
    [cell EXCEPT !.leader_id = n, !.timestamp = now]

ClearLeader(cell, now) == [cell EXCEPT !.leader_id = None, !.timestamp = now]

(* A known capability leaves even the timestamp alone. *)
AddCapability(cell, cap, now) ==
    IF cap \in cell.capabilities THEN cell
    ELSE [cell EXCEPT !.capabilities = @ \cup {cap}, !.timestamp = now]

AssignCohort(cell, cohort, now) ==
    [cell EXCEPT !.cohort_id = cohort, !.timestamp = now]

LeaveCohort(cell, now) == [cell EXCEPT !.cohort_id = None, !.timestamp = now]

(* Variant: the newer state replaces the older one. *)
MergeNewer(cell, other) ==
    IF other.timestamp > cell.timestamp THEN other ELSE cell

(* Members and capabilities are united; leader and cohort follow the newer
   state. *)
Merge(cell, other) ==
    LET newer == IF other.timestamp > cell.timestamp THEN other ELSE cell
    IN [members |-> cell.members \cup other.members,
        leader_id |-> newer.leader_id,
        cohort_id |-> newer.cohort_id,
        capabilities |-> cell.capabilities \cup other.capabilities,
        timestamp |-> newer.timestamp]

-----------------------------------------------------------------------------
(***************************************************************************)
(* Copies of one cell's state that are updated and merged independently.   *)
(* A replica merges the last state another one sent, which may be old.     *)
(***************************************************************************)

CONSTANTS
    Replica,
    MaxUpdates,     \* bound: updates of all replicas together
    MaxTime         \* bound: seconds

CellAssumption ==
    /\ None \notin Node
    /\ None \notin Cohort
    /\ max_size \in Nat
    /\ MaxUpdates \in Nat
    /\ MaxTime \in Nat \ {0}

VARIABLES
    cell,           \* cell[r]: the state replica r holds
    sent,           \* sent[r]: the state r sent last
    now,
    updates

vars == <<cell, sent, now, updates>>

TypeOK ==
    /\ cell \in [Replica -> CellStates]
    /\ sent \in [Replica -> CellStates]
    /\ now \in 1..MaxTime
    /\ updates \in 0..MaxUpdates

Init ==
    /\ cell = [r \in Replica |-> NewCell(1)]
    /\ sent = [r \in Replica |-> NewCell(1)]
    /\ now = 1
    /\ updates = 0

Update(r, state) ==
    /\ updates < MaxUpdates
    /\ updates' = updates + 1
    /\ cell' = [cell EXCEPT ![r] = state]
    /\ UNCHANGED <<sent, now>>

Add(r, n) ==
    /\ CanAddMember(cell[r], n)
    /\ Update(r, AddMember(cell[r], n, now))

RemoveNode(r, n) ==
    /\ n \in cell[r].members
    /\ Update(r, RemoveMember(cell[r], n, now))

Lead(r, n) ==
    /\ n \in cell[r].members
    /\ Update(r, SetLeader(cell[r], n, now))

StepDown(r) == Update(r, ClearLeader(cell[r], now))

Other(r) ==
    \/ \E cap \in Capability : Update(r, AddCapability(cell[r], cap, now))
    \/ \E c \in Cohort : Update(r, AssignCohort(cell[r], c, now))
    \/ Update(r, LeaveCohort(cell[r], now))

Send(r) ==
    /\ sent' = [sent EXCEPT ![r] = cell[r]]
    /\ UNCHANGED <<cell, now, updates>>

MergeState(r, q) ==
    /\ cell' = [cell EXCEPT ![r] = Merge(@, sent[q])]
    /\ UNCHANGED <<sent, now, updates>>

Tick ==
    /\ now < MaxTime
    /\ now' = now + 1
    /\ UNCHANGED <<cell, sent, updates>>

Next ==
    \/ \E r \in Replica : StepDown(r) \/ Other(r) \/ Send(r)
    \/ \E r \in Replica, n \in Node : Add(r, n) \/ RemoveNode(r, n) \/ Lead(r, n)
    \/ \E r, q \in Replica : r # q /\ MergeState(r, q)
    \/ Tick

Spec == Init /\ [][Next]_vars

-----------------------------------------------------------------------------
(* "The leader must be a current member of the cell", at every replica and
   in every state it merges: removing the leader or merging never leaves a
   leader that is not a member. *)
LeaderIsMember ==
    \A r \in Replica :
      cell[r].leader_id # None => cell[r].leader_id \in cell[r].members

(* After merging each other's state, two replicas have the same members and
   capabilities. *)
ReplicasAgree ==
    \A r, q \in Replica :
      LET mine == Merge(cell[r], cell[q])
          theirs == Merge(cell[q], cell[r])
      IN /\ mine.members = theirs.members
         /\ mine.capabilities = theirs.capabilities
         /\ cell[r].timestamp # cell[q].timestamp => mine = theirs

-----------------------------------------------------------------------------
(***************************************************************************)
(* peat-protocol/src/storage/cell_store.rs: add_member, remove_member,     *)
(* set_leader and add_capability read the stored cell, change the copy and *)
(* store it, with an await between the two; calls on one store overlap up  *)
(* to MaxCalls.  The document's id is the cell's id and the backend writes *)
(* its fields into a fresh map (sync/automerge.rs, apply_document_to_      *)
(* automerge), so a cell has one document and storing it replaces it.      *)
(***************************************************************************)

CONSTANTS
    Caller,
    MaxCalls,       \* calls in progress at once
    StoreMaxTime         \* bound: seconds

StoreAssumption ==
    /\ None \notin Node
    /\ max_size \in Nat
    /\ MaxCalls \in Nat \ {0}
    /\ StoreMaxTime \in Nat

VARIABLES
    stored,     \* the document of the cell, None when it is deleted
    call,       \* call[p]: None or [cell, op, node] about to be stored
    joined,     \* members whose last successful call was add_member
    overlapped  \* whether two calls were ever in progress at once

storeVars == <<stored, call, now, joined, overlapped>>

Call == [cell : CellStates, op : {"add", "remove", "lead", "capability"},
         node : Node \cup {None}]

StoreTypeOK ==
    /\ stored \in CellStates \cup {None}
    /\ call \in [Caller -> Call \cup {None}]
    /\ now \in 0..StoreMaxTime
    /\ joined \subseteq Node
    /\ overlapped \in BOOLEAN

StoreInit ==
    /\ stored = NewCell(0)
    /\ call = [p \in Caller |-> None]
    /\ now = 0
    /\ joined = {}
    /\ overlapped = FALSE

InProgress == Cardinality({q \in Caller : call[q] # None})

(* get_cell and the change of the copy; a missing cell or a refused change
   ends the call with an error. *)
Begin(p, op, node, copy) ==
    /\ call[p] = None
    /\ InProgress < MaxCalls
    /\ call' = [call EXCEPT ![p] = [cell |-> copy, op |-> op, node |-> node]]
    /\ overlapped' = (overlapped \/ InProgress > 0)
    /\ UNCHANGED <<stored, now, joined>>

BeginAddMember(p, n) ==
    /\ stored # None
    /\ CanAddMember(stored, n)
    /\ Begin(p, "add", n, AddMember(stored, n, now))

BeginRemoveMember(p, n) ==
    /\ stored # None
    /\ n \in stored.members
    /\ Begin(p, "remove", n, RemoveMember(stored, n, now))

(* Variant: anyone may lead. *)
BeginSetLeaderAnyone(p, n) ==
    /\ stored # None
    /\ Begin(p, "lead", n, SetLeader(stored, n, now))

BeginSetLeader(p, n) ==
    /\ stored # None
    /\ n \in stored.members
    /\ Begin(p, "lead", n, SetLeader(stored, n, now))

BeginAddCapability(p, cap) ==
    /\ stored # None
    /\ Begin(p, "capability", None, AddCapability(stored, cap, now))

JoinedAfter(p) ==
    IF call[p].op = "add" THEN joined \cup {call[p].node}
    ELSE IF call[p].op = "remove" THEN joined \ {call[p].node}
    ELSE joined

(* Variant: a copy that is not newer than the document is not stored. *)
StoreCellNewer(p) ==
    /\ call[p] # None
    /\ stored' = IF stored = None \/ call[p].cell.timestamp > stored.timestamp
                  THEN call[p].cell ELSE stored
    /\ call' = [call EXCEPT ![p] = None]
    /\ joined' = JoinedAfter(p)
    /\ UNCHANGED <<now, overlapped>>

(* store_cell, and the call returns Ok *)
StoreCell(p) ==
    /\ call[p] # None
    /\ stored' = call[p].cell
    /\ call' = [call EXCEPT ![p] = None]
    /\ joined' = JoinedAfter(p)
    /\ UNCHANGED <<now, overlapped>>

DeleteCell ==
    /\ InProgress < MaxCalls
    /\ stored # None
    /\ stored' = None
    /\ joined' = {}
    /\ overlapped' = (overlapped \/ InProgress > 0)
    /\ UNCHANGED <<call, now>>

StoreTick ==
    /\ now < StoreMaxTime
    /\ now' = now + 1
    /\ UNCHANGED <<stored, call, joined, overlapped>>

StoreNext ==
    \/ \E p \in Caller, n \in Node :
          BeginAddMember(p, n) \/ BeginRemoveMember(p, n) \/ BeginSetLeader(p, n)
    \/ \E p \in Caller, cap \in Capability : BeginAddCapability(p, cap)
    \/ \E p \in Caller : StoreCell(p)
    \/ DeleteCell
    \/ StoreTick

StoreSpec == StoreInit /\ [][StoreNext]_storeVars

-----------------------------------------------------------------------------
(* Whatever calls overlap, the stored cell has no leader outside its members
   and never more members than max_size. *)
StoredCellConsistent ==
    stored # None =>
      /\ stored.leader_id # None => stored.leader_id \in stored.members
      /\ Cardinality(stored.members) <= max_size

(* "Add a member to a cell (OR-Set add operation)": as long as calls do not
   overlap, a member whose add returned Ok is in the stored cell until it is
   removed, and a removed one is not. *)
MembersAreJoined == ~overlapped /\ stored # None => stored.members = joined

(* What the calls leave in the store is a cell whose leader is a member and that
   is not too large, and it has lost no member unless calls overlapped. *)
CellsStayConsistent == StoreTypeOK /\ StoredCellConsistent /\ MembersAreJoined
=============================================================================
