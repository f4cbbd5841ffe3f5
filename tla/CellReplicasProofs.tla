------------------------- MODULE CellReplicasProofs -------------------------
(***************************************************************************)
(* The leader of a cell is one of its members at every replica, and merged *)
(* replicas agree (models/cell/mod.rs), for any nodes, replicas and        *)
(* capabilities.                                                           *)
(*                                                                         *)
(* The invariant covers the states that were sent as well: any of them may *)
(* be merged later.                                                        *)
(***************************************************************************)
EXTENDS CellReplicas, FiniteSetTheorems, TLAPS

(* A well-formed state whose leader, if any, is a member. *)
Sound(c) ==
    /\ c \in CellStates
    /\ c.leader_id # None => c.leader_id \in c.members

CellInv ==
    /\ now \in Nat
    /\ cell \in [Replica -> CellStates]
    /\ sent \in [Replica -> CellStates]
    /\ \A r \in Replica : Sound(cell[r]) /\ Sound(sent[r])

-----------------------------------------------------------------------------
(* new *)
LEMMA NewCellSound ==
    ASSUME NEW t \in Nat
    PROVE  Sound(NewCell(t))
  BY Zenon DEF Sound, NewCell, CellStates

(* add_member, remove_member, set_leader and clear_leader keep the leader a
   member: set_leader is for members only, and remove_member of the leader
   clears it. *)
LEMMA MembershipSound ==
    ASSUME CellAssumption, NEW c, Sound(c), NEW n \in Node, NEW t \in Nat
    PROVE  /\ Sound(AddMember(c, n, t))
           /\ Sound(RemoveMember(c, n, t))
           /\ n \in c.members => Sound(SetLeader(c, n, t))
           /\ Sound(ClearLeader(c, t))
<1> USE DEF Sound, CellStates
<1>1. Sound(AddMember(c, n, t))
  BY Zenon DEF AddMember
<1>2. Sound(RemoveMember(c, n, t))
  BY Zenon DEF RemoveMember, CellAssumption
<1>3. n \in c.members => Sound(SetLeader(c, n, t))
  BY Zenon DEF SetLeader
<1>4. Sound(ClearLeader(c, t))
  BY Zenon DEF ClearLeader
<1>5. QED
  BY <1>1, <1>2, <1>3, <1>4, Zenon

(* add_capability, assign_cohort and leave_cohort leave members and leader
   alone. *)
LEMMA OtherSound ==
    ASSUME NEW c, Sound(c), NEW t \in Nat
    PROVE  /\ \A cap \in Capability : Sound(AddCapability(c, cap, t))
           /\ \A h \in Cohort : Sound(AssignCohort(c, h, t))
           /\ Sound(LeaveCohort(c, t))
  BY Zenon DEF Sound, CellStates, AddCapability, AssignCohort, LeaveCohort

(* merge: the leader is one of the newer state's members, and all of them are
   members of the result. *)
LEMMA MergeSound ==
    ASSUME NEW c, NEW d, Sound(c), Sound(d)
    PROVE  Sound(Merge(c, d))
  BY Zenon DEF Sound, CellStates, Merge

-----------------------------------------------------------------------------
(* New replicas satisfy the invariant. *)
LEMMA CellInvInitially == Init => CellInv
<1>1. Sound(NewCell(1))
  BY NewCellSound, Zenon
<1>2. QED
  BY <1>1 DEF Init, CellInv, Sound

(* The steps of the replicas keep every state sound. *)
LEMMA NextKeepsCellInv ==
    ASSUME CellAssumption
    PROVE  CellInv /\ [Next]_vars => CellInv'
<1> SUFFICES ASSUME CellInv, [Next]_vars PROVE CellInv'
  OBVIOUS
<1>0. \A c : Sound(c) => c \in CellStates
  BY Zenon DEF Sound
<1>1. ASSUME NEW r \in Replica, NEW s, Sound(s), Update(r, s)
      PROVE  CellInv'
  BY <1>0, <1>1, Zenon DEF Update, CellInv
<1>2. ASSUME NEW r \in Replica, StepDown(r) PROVE CellInv'
  <2>1. Sound(ClearLeader(cell[r], now))
    BY Zenon DEF CellInv, Sound, CellStates, ClearLeader
  <2>2. QED
    BY <1>1, <1>2, <2>1, Zenon DEF StepDown
<1>3. ASSUME NEW r \in Replica, Other(r) PROVE CellInv'
  <2>1. /\ \A cap \in Capability : Sound(AddCapability(cell[r], cap, now))
        /\ \A h \in Cohort : Sound(AssignCohort(cell[r], h, now))
        /\ Sound(LeaveCohort(cell[r], now))
    BY OtherSound, Zenon DEF CellInv
  <2>2. QED
    BY <1>1, <1>3, <2>1, Zenon DEF Other
<1>4. ASSUME NEW r \in Replica, NEW n \in Node,
             Add(r, n) \/ RemoveNode(r, n) \/ Lead(r, n)
      PROVE  CellInv'
  <2>1. /\ Sound(AddMember(cell[r], n, now))
        /\ Sound(RemoveMember(cell[r], n, now))
        /\ n \in cell[r].members => Sound(SetLeader(cell[r], n, now))
    BY MembershipSound, Zenon DEF CellInv
  <2>2. QED
    BY <1>1, <1>4, <2>1, Zenon DEF Add, RemoveNode, Lead
<1>5. ASSUME NEW r \in Replica, Send(r) PROVE CellInv'
  BY <1>5, Zenon DEF Send, CellInv
<1>6. ASSUME NEW r \in Replica, NEW q \in Replica, MergeState(r, q) PROVE CellInv'
  <2>1. Sound(Merge(cell[r], sent[q]))
    BY MergeSound, Zenon DEF CellInv
  <2>2. QED
    BY <1>0, <1>6, <2>1, Zenon DEF MergeState, CellInv
<1>7. CASE Tick
  BY <1>7 DEF Tick, CellInv
<1>8. CASE UNCHANGED vars
  BY <1>8, Zenon DEF vars, CellInv
<1>9. QED
  BY <1>2, <1>3, <1>4, <1>5, <1>6, <1>7, <1>8, Zenon DEF Next

(* "The leader must be a current member of the cell" at every replica, however
   updates, removals of the leader and merges of old states interleave. *)
THEOREM LeaderIsMemberHolds ==
    ASSUME CellAssumption
    PROVE  Spec => []LeaderIsMember
<1>1. Init => CellInv
  BY CellInvInitially, Zenon
<1>2. CellInv /\ [Next]_vars => CellInv'
  BY NextKeepsCellInv, Zenon
<1>3. CellInv => LeaderIsMember
  BY Zenon DEF CellInv, Sound, LeaderIsMember
<1>4. QED
  BY <1>1, <1>2, <1>3, PTL DEF Spec

-----------------------------------------------------------------------------
(* CellState::merge takes states that arrive one after the other in any
   grouping, repeats change nothing, and two replicas that merge each other
   agree whole unless their timestamps are the same. *)
THEOREM MergeIsOrderly ==
    \A a, b, c \in CellStates :
        /\ Merge(Merge(a, b), c) = Merge(a, Merge(b, c))
        /\ Merge(Merge(a, b), b) = Merge(a, b)
        /\ a.timestamp # b.timestamp => Merge(a, b) = Merge(b, a)
<1> SUFFICES ASSUME NEW a \in CellStates, NEW b \in CellStates, NEW c \in CellStates
             PROVE  /\ Merge(Merge(a, b), c) = Merge(a, Merge(b, c))
                    /\ Merge(Merge(a, b), b) = Merge(a, b)
                    /\ a.timestamp # b.timestamp => Merge(a, b) = Merge(b, a)
  OBVIOUS
<1>1. a.timestamp \in Nat /\ b.timestamp \in Nat /\ c.timestamp \in Nat
  BY Zenon DEF CellStates
<1>2. Merge(Merge(a, b), c) = Merge(a, Merge(b, c))
  <2>1. (a.members \cup b.members) \cup c.members = a.members \cup (b.members \cup c.members)
    OBVIOUS
  <2>2. (a.capabilities \cup b.capabilities) \cup c.capabilities
          = a.capabilities \cup (b.capabilities \cup c.capabilities)
    OBVIOUS
  <2>3. CASE b.timestamp > a.timestamp
    BY <1>1, <2>1, <2>2, <2>3 DEF Merge
  <2>4. CASE ~(b.timestamp > a.timestamp)
    <3>1. CASE c.timestamp > b.timestamp
      BY <1>1, <2>1, <2>2, <2>4, <3>1, Zenon DEF Merge
    <3>2. CASE ~(c.timestamp > b.timestamp)
      <4>1. ~(c.timestamp > a.timestamp)
        BY <1>1, <2>4, <3>2
      <4>2. QED
        BY <2>1, <2>2, <2>4, <3>2, <4>1, Zenon DEF Merge
    <3>3. QED
      BY <3>1, <3>2, Zenon
  <2>5. QED
    BY <2>3, <2>4, Zenon
<1>3. Merge(Merge(a, b), b) = Merge(a, b)
  BY Zenon DEF Merge, CellStates
<1>4. ASSUME a.timestamp # b.timestamp PROVE Merge(a, b) = Merge(b, a)
  <2>1. a.members \cup b.members = b.members \cup a.members
    OBVIOUS
  <2>2. a.capabilities \cup b.capabilities = b.capabilities \cup a.capabilities
    OBVIOUS
  <2>3. (b.timestamp > a.timestamp) <=> ~(a.timestamp > b.timestamp)
    BY <1>1, <1>4
  <2>4. QED
    BY <2>1, <2>2, <2>3, Zenon DEF Merge
<1>5. QED
  BY <1>2, <1>3, <1>4, Zenon

-----------------------------------------------------------------------------
(* Two replicas that have merged each other's state have the same members and
   capabilities, and the same leader and cohort unless their timestamps tie. *)
THEOREM ReplicasAgreeHolds ==
    ASSUME CellAssumption
    PROVE  Spec => []ReplicasAgree
<1>1. Init => CellInv
  BY CellInvInitially, Zenon
<1>2. CellInv /\ [Next]_vars => CellInv'
  BY NextKeepsCellInv, Zenon
<1>3. CellInv => ReplicasAgree
  <2> SUFFICES ASSUME CellInv, NEW r \in Replica, NEW q \in Replica
               PROVE  /\ Merge(cell[r], cell[q]).members = Merge(cell[q], cell[r]).members
                      /\ Merge(cell[r], cell[q]).capabilities
                           = Merge(cell[q], cell[r]).capabilities
                      /\ cell[r].timestamp # cell[q].timestamp =>
                           Merge(cell[r], cell[q]) = Merge(cell[q], cell[r])
    BY Zenon DEF ReplicasAgree
  <2>1. cell[r] \in CellStates /\ cell[q] \in CellStates
    BY Zenon DEF CellInv
  <2>2. cell[r].timestamp # cell[q].timestamp =>
           Merge(cell[r], cell[q]) = Merge(cell[q], cell[r])
    BY <2>1, MergeIsOrderly, Zenon
  <2>3. QED
    BY <2>2, Zenon DEF Merge
<1>4. QED
  BY <1>1, <1>2, <1>3, PTL DEF Spec

-----------------------------------------------------------------------------
(***************************************************************************)
(* The store.  The copy a call is about to store is sound and not too      *)
(* large, whatever happens to the document meanwhile; while no two calls   *)
(* have overlapped there is at most one copy, made from the document as it *)
(* still is.                                                               *)
(***************************************************************************)

Fits(c) ==
    Sound(c) /\ IsFiniteSet(c.members) /\ Cardinality(c.members) <= max_size

Busy == {q \in Caller : call[q] # None}

AloneOK ==
    ~overlapped =>
        /\ \A p, q \in Busy : p = q
        /\ stored # None => stored.members = joined
        /\ \A p \in Busy : stored # None /\ call[p].cell.members = JoinedAfter(p)

StoreInv ==
    /\ StoreTypeOK
    /\ IsFiniteSet(Busy)
    /\ stored # None => Fits(stored)
    /\ \A p \in Busy : Fits(call[p].cell) /\ (call[p].op = "add" => call[p].node \in Node)
    /\ AloneOK

(* add_member refuses a full cell and the other calls add nobody. *)
LEMMA CallsFit ==
    ASSUME StoreAssumption, NEW c, Fits(c), NEW t \in Nat
    PROVE  /\ \A n \in Node : CanAddMember(c, n) => Fits(AddMember(c, n, t))
           /\ \A n \in Node : Fits(RemoveMember(c, n, t))
           /\ \A n \in c.members : Fits(SetLeader(c, n, t))
           /\ \A cap \in Capability : Fits(AddCapability(c, cap, t))
<1>0. Sound(c) /\ c \in CellStates /\ IsFiniteSet(c.members) /\ max_size \in Nat
      /\ Cardinality(c.members) \in Nat /\ Cardinality(c.members) <= max_size
  BY FS_CardinalityType, Zenon DEF Fits, Sound, StoreAssumption
<1>1. ASSUME NEW n \in Node, CanAddMember(c, n) PROVE Fits(AddMember(c, n, t))
  <2>1. AddMember(c, n, t).members = c.members \cup {n}
    BY <1>0, Zenon DEF AddMember, CellStates
  <2>2. /\ IsFiniteSet(c.members \cup {n})
        /\ Cardinality(c.members \cup {n}) = Cardinality(c.members) + 1
    BY <1>0, <1>1, FS_AddElement, Zenon DEF CanAddMember
  <2>3. Cardinality(c.members) + 1 <= max_size
    BY <1>0, <1>1 DEF CanAddMember, IsFull
  <2>4. Sound(AddMember(c, n, t))
    BY <1>0, Zenon DEF AddMember, Sound, CellStates
  <2>5. QED
    BY <2>1, <2>2, <2>3, <2>4, Zenon DEF Fits
<1>2. ASSUME NEW n \in Node PROVE Fits(RemoveMember(c, n, t))
  <2>1. RemoveMember(c, n, t).members = c.members \ {n}
    BY <1>0, Zenon DEF RemoveMember, CellStates
  <2>2. /\ IsFiniteSet(c.members \ {n})
        /\ Cardinality(c.members \ {n}) <= Cardinality(c.members)
        /\ Cardinality(c.members \ {n}) \in Nat
    <3>1. c.members \ {n} \in SUBSET c.members
      OBVIOUS
    <3>2. QED
      BY <1>0, <3>1, FS_Subset, FS_CardinalityType, Zenon
  <2>3. Cardinality(c.members \ {n}) <= max_size
    BY <1>0, <2>2
  <2>4. Sound(RemoveMember(c, n, t))
    BY <1>0, Zenon DEF RemoveMember, Sound, CellStates, StoreAssumption
  <2>5. QED
    BY <2>1, <2>2, <2>3, <2>4, Zenon DEF Fits
<1>3. ASSUME NEW n \in c.members PROVE Fits(SetLeader(c, n, t))
  <2>1. SetLeader(c, n, t).members = c.members /\ Sound(SetLeader(c, n, t))
    BY <1>0, Zenon DEF SetLeader, CellStates, Sound
  <2>2. QED
    BY <1>0, <2>1, Zenon DEF Fits
<1>4. ASSUME NEW cap \in Capability PROVE Fits(AddCapability(c, cap, t))
  <2>1. AddCapability(c, cap, t).members = c.members /\ Sound(AddCapability(c, cap, t))
    BY <1>0, Zenon DEF AddCapability, CellStates, Sound
  <2>2. QED
    BY <1>0, <2>1, Zenon DEF Fits
<1>5. QED
  BY <1>1, <1>2, <1>3, <1>4, Zenon

(* The first half of a call. *)
LEMMA BeginKeepsStoreInv ==
    ASSUME StoreAssumption, StoreInv, stored # None, NEW p \in Caller,
           NEW op \in {"add", "remove", "lead", "capability"}, NEW node \in Node \cup {None},
           op = "add" => node \in Node, NEW copy, Fits(copy),
           copy.members = IF op = "add" THEN stored.members \cup {node}
                          ELSE IF op = "remove" THEN stored.members \ {node}
                          ELSE stored.members,
           Begin(p, op, node, copy)
    PROVE  StoreInv'
<1> DEFINE new == [cell |-> copy, op |-> op, node |-> node]
<1>1. /\ call' = [call EXCEPT ![p] = new] /\ UNCHANGED <<stored, now, joined>>
      /\ call[p] = None /\ overlapped' = (overlapped \/ InProgress > 0)
  BY Zenon DEF Begin
<1>2. new \in Call
  BY Zenon DEF Call, Fits, Sound
<1>3. call'[p] = new /\ \A q \in Caller \ {p} : call'[q] = call[q]
  BY <1>1, Zenon DEF StoreInv, StoreTypeOK
<1>4. new.cell = copy /\ new.op = op /\ new.node = node
  OBVIOUS
<1> HIDE DEF new
<1>5. StoreTypeOK'
  <2>1. call' \in [Caller -> Call \cup {None}]
    BY <1>1, <1>2, Zenon DEF StoreInv, StoreTypeOK
  <2>2. overlapped' \in BOOLEAN
    BY <1>1, Zenon
  <2>3. QED
    BY <1>1, <2>1, <2>2, Zenon DEF StoreInv, StoreTypeOK
<1>6. IsFiniteSet(Busy')
  <2>1. Busy' \in SUBSET (Busy \cup {p})
    BY <1>3, Zenon DEF Busy
  <2>2. QED
    BY <2>1, FS_AddElement, FS_Subset, Zenon DEF StoreInv
<1>7. /\ stored' # None => Fits(stored')
      /\ \A q \in Busy' : Fits(call'[q].cell) /\ (call'[q].op = "add" => call'[q].node \in Node)
  BY <1>1, <1>3, <1>4, Zenon DEF StoreInv, Busy
<1>8. AloneOK'
  <2> SUFFICES ASSUME ~overlapped'
               PROVE  /\ \A q, r \in Busy' : q = r
                      /\ stored' # None => stored'.members = joined'
                      /\ \A q \in Busy' : stored' # None
                                            /\ call'[q].cell.members = JoinedAfter(q)'
    BY Zenon DEF AloneOK
  <2>1. ~overlapped /\ ~(InProgress > 0)
    BY <1>1, Zenon DEF StoreInv, StoreTypeOK
  <2>2. Busy = {}
    <3>1. InProgress = Cardinality(Busy)
      BY Zenon DEF InProgress, Busy
    <3>2. Cardinality(Busy) \in Nat
      BY FS_CardinalityType, Zenon DEF StoreInv
    <3>3. Cardinality(Busy) = 0
      BY <2>1, <3>1, <3>2
    <3>4. QED
      BY <3>3, FS_EmptySet, Zenon DEF StoreInv
  <2>3. \A q \in Busy' : q = p
    BY <1>3, <2>2, Zenon DEF Busy
  <2>4. stored'.members = joined'
    BY <1>1, <2>1, Zenon DEF StoreInv, AloneOK
  <2>5. call'[p].cell.members = JoinedAfter(p)'
    BY <1>1, <1>3, <1>4, <2>4, Zenon DEF JoinedAfter
  <2>6. QED
    BY <1>1, <2>3, <2>4, <2>5, Zenon
<1>9. QED
  BY <1>5, <1>6, <1>7, <1>8, Zenon DEF StoreInv, Fits, Sound

(* Every step of a call of the cell store keeps its invariant. *)
LEMMA NextKeepsStoreInv ==
    ASSUME StoreAssumption, StoreInv, [StoreNext]_storeVars
    PROVE  StoreInv'
<1>0. now \in Nat /\ (stored # None => Fits(stored) /\ stored \in CellStates)
  BY DEF StoreInv, StoreTypeOK, Fits, Sound, StoreAssumption
<1>1. ASSUME NEW p \in Caller, NEW n \in Node, BeginAddMember(p, n)
      PROVE  StoreInv'
  <2>1. stored # None /\ Begin(p, "add", n, AddMember(stored, n, now))
    BY <1>1, Zenon DEF BeginAddMember
  <2>2. /\ Fits(AddMember(stored, n, now))
        /\ AddMember(stored, n, now).members = stored.members \cup {n}
    BY <1>0, <1>1, CallsFit, Zenon DEF BeginAddMember, AddMember, CellStates
  <2>3. QED
    BY <2>1, <2>2, BeginKeepsStoreInv, Zenon
<1>2. ASSUME NEW p \in Caller, NEW n \in Node, BeginRemoveMember(p, n)
      PROVE  StoreInv'
  <2>1. stored # None /\ Begin(p, "remove", n, RemoveMember(stored, n, now))
    BY <1>2, Zenon DEF BeginRemoveMember
  <2>2. /\ Fits(RemoveMember(stored, n, now))
        /\ RemoveMember(stored, n, now).members = stored.members \ {n}
    BY <1>0, <2>1, CallsFit, Zenon DEF RemoveMember, CellStates
  <2>3. QED
    BY <2>1, <2>2, BeginKeepsStoreInv, Zenon
<1>3. ASSUME NEW p \in Caller, NEW n \in Node, BeginSetLeader(p, n)
      PROVE  StoreInv'
  <2>1. stored # None /\ Begin(p, "lead", n, SetLeader(stored, n, now))
    BY <1>3, Zenon DEF BeginSetLeader
  <2>2. /\ Fits(SetLeader(stored, n, now))
        /\ SetLeader(stored, n, now).members = stored.members
    BY <1>0, <1>3, CallsFit, Zenon DEF BeginSetLeader, SetLeader, CellStates
  <2>3. QED
    BY <2>1, <2>2, BeginKeepsStoreInv, Zenon
<1>4. ASSUME NEW p \in Caller, NEW cap \in Capability, BeginAddCapability(p, cap)
      PROVE  StoreInv'
  <2>1. stored # None /\ Begin(p, "capability", None, AddCapability(stored, cap, now))
    BY <1>4, Zenon DEF BeginAddCapability
  <2>2. /\ Fits(AddCapability(stored, cap, now))
        /\ AddCapability(stored, cap, now).members = stored.members
    BY <1>0, <2>1, CallsFit, Zenon DEF AddCapability, CellStates
  <2>3. QED
    BY <2>1, <2>2, BeginKeepsStoreInv, Zenon
<1>5. ASSUME NEW p \in Caller, StoreCell(p)
      PROVE  StoreInv'
  <2>1. /\ p \in Busy /\ stored' = call[p].cell /\ joined' = JoinedAfter(p)
        /\ call' = [call EXCEPT ![p] = None] /\ UNCHANGED <<now, overlapped>>
    BY <1>5, Zenon DEF StoreCell, Busy
  <2>2. call'[p] = None /\ \A q \in Caller \ {p} : call'[q] = call[q]
    BY <2>1, Zenon DEF StoreInv, StoreTypeOK
  <2>3. Fits(call[p].cell) /\ (call[p].op = "add" => call[p].node \in Node)
    BY <2>1, Zenon DEF StoreInv
  <2>4. Busy' \in SUBSET Busy /\ p \notin Busy'
    BY <2>2, Zenon DEF Busy
  <2>5. StoreTypeOK'
    <3>1. call' \in [Caller -> Call \cup {None}] /\ stored' \in CellStates
      BY <2>1, <2>3, Zenon DEF StoreInv, StoreTypeOK, Fits, Sound
    <3>2. joined' \subseteq Node
      BY <2>1, <2>3, Zenon DEF StoreInv, StoreTypeOK, JoinedAfter
    <3>3. QED
      BY <2>1, <3>1, <3>2, Zenon DEF StoreInv, StoreTypeOK
  <2>6. IsFiniteSet(Busy')
    BY <2>4, FS_Subset, Zenon DEF StoreInv
  <2>7. \A q \in Busy' : Fits(call'[q].cell) /\ (call'[q].op = "add" => call'[q].node \in Node)
    BY <2>2, <2>4, Zenon DEF StoreInv, Busy
  <2>8. AloneOK'
    <3> SUFFICES ASSUME ~overlapped'
                 PROVE  Busy' = {} /\ stored'.members = joined'
      BY Zenon DEF AloneOK
    <3>1. Busy' = {}
      BY <2>1, <2>4, Zenon DEF StoreInv, AloneOK
    <3>2. stored'.members = joined'
      BY <2>1, Zenon DEF StoreInv, AloneOK
    <3>3. QED
      BY <3>1, <3>2, Zenon
  <2>9. QED
    BY <2>1, <2>3, <2>5, <2>6, <2>7, <2>8, Zenon DEF StoreInv, Fits, Sound
<1>6. ASSUME DeleteCell
      PROVE  StoreInv'
  <2>1. /\ stored' = None /\ joined' = {} /\ UNCHANGED <<call, now>>
        /\ overlapped' = (overlapped \/ InProgress > 0)
    BY <1>6, Zenon DEF DeleteCell
  <2>2. Busy' = Busy
    BY <2>1, Zenon DEF Busy
  <2>3. StoreTypeOK'
    BY <2>1, Zenon DEF StoreInv, StoreTypeOK
  <2>4. ~overlapped' => Busy = {}
    <3>1. InProgress = Cardinality(Busy)
      BY Zenon DEF InProgress, Busy
    <3>2. Cardinality(Busy) \in Nat
      BY FS_CardinalityType, Zenon DEF StoreInv
    <3>3. ~overlapped' => ~(InProgress > 0)
      BY <2>1, Zenon
    <3>4. ~(InProgress > 0) => Cardinality(Busy) = 0
      BY <3>1, <3>2
    <3>5. QED
      BY <3>3, <3>4, FS_EmptySet, Zenon DEF StoreInv
  <2>5. AloneOK'
    BY <2>1, <2>2, <2>4, Zenon DEF AloneOK
  <2>6. QED
    BY <2>1, <2>2, <2>3, <2>5, Zenon DEF StoreInv, Fits, Sound
<1>7. ASSUME StoreTick \/ UNCHANGED storeVars
      PROVE  StoreInv'
  <2>1. UNCHANGED <<stored, call, joined, overlapped>>
    BY <1>7, Zenon DEF StoreTick, storeVars
  <2>2. now' \in 0..StoreMaxTime
    BY <1>7 DEF StoreTick, storeVars, StoreInv, StoreTypeOK, StoreAssumption
  <2>3. Busy' = Busy
    BY <2>1, Zenon DEF Busy
  <2>4. StoreTypeOK'
    BY <2>1, <2>2, Zenon DEF StoreInv, StoreTypeOK
  <2>5. AloneOK'
    BY <2>1, <2>3, Zenon DEF StoreInv, AloneOK, JoinedAfter
  <2>6. QED
    BY <2>1, <2>3, <2>4, <2>5, Zenon DEF StoreInv, Fits, Sound
<1>8. QED
  BY <1>1, <1>2, <1>3, <1>4, <1>5, <1>6, <1>7, Zenon DEF StoreNext

(* CellStore: however calls and deletions overlap, the stored cell's leader is a
   member of it and max_size is respected; as long as none has overlapped, its
   members are those that joined and did not leave. *)
THEOREM CellsStayConsistentHolds ==
    ASSUME StoreAssumption
    PROVE  StoreSpec => []CellsStayConsistent
<1>1. StoreInit => StoreInv
  <2> SUFFICES ASSUME StoreInit PROVE StoreInv
    OBVIOUS
  <2>1. Fits(stored) /\ stored.members = {}
    BY NewCellSound, FS_EmptySet DEF StoreInit, Fits, NewCell, StoreAssumption
  <2>2. Busy = {} /\ IsFiniteSet(Busy)
    BY FS_EmptySet, Zenon DEF StoreInit, Busy
  <2>3. StoreTypeOK
    <3>1. now \in 0..StoreMaxTime /\ stored \in CellStates
      BY <2>1 DEF StoreInit, StoreAssumption, Fits, Sound
    <3>2. QED
      BY <3>1, Zenon DEF StoreInit, StoreTypeOK
  <2>4. QED
    BY <2>1, <2>2, <2>3, Zenon DEF StoreInit, StoreInv, AloneOK
<1>2. StoreInv /\ [StoreNext]_storeVars => StoreInv'
  BY NextKeepsStoreInv, Zenon
<1>3. StoreInv => CellsStayConsistent
  BY Zenon DEF StoreInv, AloneOK, Fits, Sound, CellsStayConsistent, StoredCellConsistent,
         MembersAreJoined
<1>4. QED
  BY <1>1, <1>2, <1>3, PTL DEF StoreSpec
-----------------------------------------------------------------------------
(***************************************************************************)
(* A cell enters the hierarchical phase only when it has earned it         *)
(* (cell/coordinator.rs), for any nodes, profiles, criteria and order of   *)
(* checks, approvals, rejections, resets and changes of the cell.          *)
(*                                                                         *)
(* What the aggregation computes is left uninterpreted: the argument needs *)
(* only that the same members give the same capabilities.  The invariant   *)
(* says besides that a cell that awaits approval meets the criteria too,   *)
(* since an approval makes it Ready unchecked, that human_approved is TRUE *)
(* exactly after an approval of this attempt, and that the attempt began   *)
(* no later than now.                                                      *)
(***************************************************************************)
CONSTANTS Profile, min_size, min_readiness, required_capabilities

VARIABLES members, roles, leader, status, human_approved, formation_start,
          formation_complete, checked, approvals

Formation == INSTANCE CellFormation


Criteria ==
    /\ Formation!Cardinality(DOMAIN members) >= min_size
    /\ Formation!IdentifyGaps(Formation!capabilities, required_capabilities) = {}
    /\ Formation!CalculateReadinessScore(Formation!capabilities)
          >= min_readiness * Formation!Percent

Looked == checked /\ leader /\ roles = DOMAIN members

FormationInv ==
    /\ Formation!TypeOK
    /\ human_approved = approvals
    /\ Looked /\ status \in {"Ready", "AwaitingApproval"} => Criteria
    /\ Looked /\ status = "Ready" /\ Formation!NeedsHumanApproval(Formation!capabilities)
          => approvals
    /\ formation_start <= now
    /\ Formation!DurationDefined

-----------------------------------------------------------------------------
(* Between two checks the cell changes, and what was checked no longer counts. *)
LEMMA CellChanges ==
    ASSUME Formation!FormationAssumption, FormationInv,
           NEW n \in Node,
           Formation!Join(n) \/ Formation!Leave(n) \/ Formation!AssignRole(n)
    PROVE  FormationInv'
<1>1. ~checked' /\ checked' \in BOOLEAN
      /\ UNCHANGED <<leader, status, human_approved, formation_start, formation_complete,
                     now, approvals>>
  BY DEF Formation!Join, Formation!Leave, Formation!AssignRole, Formation!coordinator
<1>2. /\ DOMAIN members' \subseteq Node
      /\ \A m \in DOMAIN members' : members'[m] \in Profile
      /\ roles' \subseteq DOMAIN members'
  <2>1. CASE Formation!Join(n)
    <3>1. PICK p \in Profile : members' = [m \in DOMAIN members \cup {n} |->
                                  IF m = n THEN p ELSE members[m]]
      BY <2>1 DEF Formation!Join
    <3>2. roles' = roles
      BY <2>1 DEF Formation!Join
    <3>3. QED
      BY <3>1, <3>2 DEF FormationInv, Formation!TypeOK
  <2>2. CASE Formation!Leave(n)
    BY <2>2 DEF Formation!Leave, FormationInv, Formation!TypeOK
  <2>3. CASE Formation!AssignRole(n)
    BY <2>3 DEF Formation!AssignRole, FormationInv, Formation!TypeOK
  <2>4. QED
    BY <2>1, <2>2, <2>3
<1>3. Formation!TypeOK'
  BY <1>1, <1>2 DEF FormationInv, Formation!TypeOK
<1>4. QED
  BY <1>1, <1>3 DEF FormationInv, Looked, Formation!DurationDefined

(* check_formation_complete judges the cell as it is. *)
LEMMA CheckJudges ==
    ASSUME Formation!FormationAssumption, FormationInv, Formation!CheckFormationComplete
    PROVE  FormationInv'
<1>1. /\ UNCHANGED <<members, roles, leader, human_approved, formation_start, now, approvals>>
      /\ checked' = TRUE
  BY DEF Formation!CheckFormationComplete, Formation!environment
<1>2. Formation!capabilities' = Formation!capabilities
  BY <1>1 DEF Formation!capabilities
<1>3. /\ formation_start \in Nat /\ now \in Nat /\ None \notin Nat
      /\ formation_complete \in Nat \cup {None}
  BY DEF FormationInv, Formation!TypeOK, Formation!FormationAssumption
<1>4. \/ status' = "Failed" /\ UNCHANGED formation_complete
      \/ ~(leader /\ roles = DOMAIN members) /\ UNCHANGED <<status, formation_complete>>
      \/ Criteria /\ status' = "AwaitingApproval" /\ UNCHANGED formation_complete
      \/ /\ Criteria
         /\ Formation!NeedsHumanApproval(Formation!capabilities) => human_approved
         /\ status' = "Ready" /\ Formation!Complete(now)
  BY DEF Formation!CheckFormationComplete, Criteria
<1>5. /\ formation_complete' \in Nat \cup {None}
      /\ status' \in {"Forming", "AwaitingApproval", "Ready", "Failed"}
      /\ formation_complete' # None => formation_start <= formation_complete'
      /\ status' = "Ready" => formation_complete' # None
  BY <1>3, <1>4
     DEF Formation!Complete, FormationInv, Formation!TypeOK, Formation!DurationDefined
<1>6. Formation!TypeOK'
  BY <1>1, <1>5 DEF FormationInv, Formation!TypeOK
<1>7. Criteria' <=> Criteria
  BY <1>1, <1>2 DEF Criteria
<1>8. Looked' /\ status' \in {"Ready", "AwaitingApproval"} => Criteria'
  BY <1>1, <1>4, <1>7 DEF Looked
<1>9. Looked' /\ status' = "Ready" /\ Formation!NeedsHumanApproval(Formation!capabilities')
         => approvals'
  BY <1>1, <1>2, <1>4 DEF Looked, FormationInv
<1>10. Formation!DurationDefined'
  BY <1>1, <1>5 DEF Formation!DurationDefined
<1>11. QED
  BY <1>1, <1>6, <1>8, <1>9, <1>10 DEF FormationInv

(* approve_formation, reject_formation and reset *)
LEMMA DecisionsKeep ==
    ASSUME Formation!FormationAssumption, FormationInv,
           Formation!ApproveFormation \/ Formation!RejectFormation \/ Formation!Reset
    PROVE  FormationInv'
<1>1. UNCHANGED <<members, roles, leader, now, checked>>
  BY DEF Formation!ApproveFormation, Formation!RejectFormation, Formation!Reset,
         Formation!environment
<1>2. Formation!capabilities' = Formation!capabilities
  BY <1>1 DEF Formation!capabilities
<1>3. /\ formation_start \in Nat /\ now \in Nat /\ None \notin Nat
      /\ formation_complete \in Nat \cup {None}
  BY DEF FormationInv, Formation!TypeOK, Formation!FormationAssumption
<1>4. Criteria' <=> Criteria
  BY <1>1, <1>2 DEF Criteria
<1>5. Looked' <=> Looked
  BY <1>1 DEF Looked
<1>6. CASE Formation!ApproveFormation
  <2>1. /\ status = "AwaitingApproval" /\ status' = "Ready" /\ Formation!Complete(now)
        /\ human_approved' = TRUE /\ approvals' = TRUE /\ UNCHANGED formation_start
    BY <1>6 DEF Formation!ApproveFormation
  <2>2. /\ formation_complete' \in Nat \cup {None}
        /\ formation_complete' # None /\ formation_start <= formation_complete'
    BY <1>3, <2>1 DEF Formation!Complete, FormationInv, Formation!DurationDefined
  <2>3. Formation!TypeOK'
    BY <1>1, <2>1, <2>2 DEF FormationInv, Formation!TypeOK
  <2>4. Formation!DurationDefined'
    BY <2>1, <2>2 DEF Formation!DurationDefined
  <2>5. Looked' => Criteria'
    BY <1>4, <1>5, <2>1 DEF FormationInv
  <2>6. QED
    BY <1>1, <2>1, <2>3, <2>4, <2>5 DEF FormationInv
<1>7. CASE Formation!RejectFormation
  <2>1. /\ status' = "Failed"
        /\ UNCHANGED <<human_approved, formation_start, formation_complete, approvals>>
    BY <1>7 DEF Formation!RejectFormation
  <2>2. Formation!TypeOK'
    BY <1>1, <2>1 DEF FormationInv, Formation!TypeOK
  <2>3. QED
    BY <1>1, <2>1, <2>2 DEF FormationInv, Formation!DurationDefined
<1>8. CASE Formation!Reset
  <2>1. /\ status' = "Forming" /\ human_approved' = FALSE /\ formation_complete' = None
        /\ formation_start' = now /\ approvals' = FALSE
    BY <1>8 DEF Formation!Reset
  <2>2. Formation!TypeOK'
    BY <1>1, <1>3, <2>1 DEF FormationInv, Formation!TypeOK
  <2>3. formation_start' <= now'
    BY <1>1, <1>3, <2>1
  <2>4. QED
    BY <2>1, <2>2, <2>3 DEF FormationInv, Formation!DurationDefined
<1>9. QED
  BY <1>6, <1>7, <1>8

(* Every step of a formation keeps the invariant. *)
LEMMA FormationInvKept ==
    ASSUME Formation!FormationAssumption, FormationInv, [Formation!Next]_Formation!vars
    PROVE  FormationInv'
<1>1. CASE Formation!LeaderChange
  <2>1. /\ ~checked' /\ checked' \in BOOLEAN /\ leader' \in BOOLEAN
        /\ UNCHANGED <<members, roles, status, human_approved, formation_start,
                       formation_complete, now, approvals>>
    BY <1>1 DEF Formation!LeaderChange, Formation!coordinator
  <2>2. Formation!TypeOK'
    BY <2>1 DEF FormationInv, Formation!TypeOK
  <2>3. QED
    BY <2>1, <2>2 DEF FormationInv, Looked, Formation!DurationDefined
<1>2. CASE Formation!Tick \/ UNCHANGED Formation!vars
  <2>1. UNCHANGED <<members, roles, leader, status, human_approved, formation_start,
                    formation_complete, checked, approvals>>
    BY <1>2 DEF Formation!Tick, Formation!vars, Formation!environment, Formation!coordinator
  <2>2. now' \in 0..MaxTime /\ formation_start <= now'
    BY <1>2 DEF Formation!Tick, Formation!vars, FormationInv, Formation!TypeOK,
                Formation!FormationAssumption
  <2>3. Formation!capabilities' = Formation!capabilities
    BY <2>1 DEF Formation!capabilities
  <2>4. Formation!TypeOK'
    BY <2>1, <2>2 DEF FormationInv, Formation!TypeOK
  <2>5. (Criteria' <=> Criteria) /\ (Looked' <=> Looked)
    BY <2>1, <2>3 DEF Criteria, Looked
  <2>6. QED
    BY <2>1, <2>2, <2>3, <2>4, <2>5 DEF FormationInv, Formation!DurationDefined
<1>3. QED
  BY <1>1, <1>2, CellChanges, CheckJudges, DecisionsKeep DEF Formation!Next

(***************************************************************************)
(* CellCoordinator: when the cell that was looked at last is let into the  *)
(* hierarchical phase it is large enough, has the required capabilities    *)
(* and the readiness, a human has approved this attempt if a capability    *)
(* requires oversight, and formation_duration subtracts no larger number.  *)
(***************************************************************************)
THEOREM ReadyIsEarnedHolds ==
    ASSUME Formation!FormationAssumption
    PROVE  Formation!Spec => []Formation!ReadyIsEarned
<1>1. Formation!Init => FormationInv
  <2> SUFFICES ASSUME Formation!Init PROVE FormationInv
    OBVIOUS
  <2>1. DOMAIN members = {}
    BY SMT DEF Formation!Init
  <2>2. /\ status = "Forming" /\ formation_start = 0 /\ now = 0 /\ formation_complete = None
        /\ human_approved = FALSE /\ approvals = FALSE /\ checked = FALSE /\ leader = FALSE
        /\ roles = {}
    BY DEF Formation!Init
  <2>3. now \in 0..MaxTime /\ formation_start \in Nat /\ formation_start <= now
    BY <2>2 DEF Formation!FormationAssumption
  <2>4. Formation!TypeOK
    BY <2>1, <2>2, <2>3, Zenon DEF Formation!TypeOK
  <2>5. QED
    BY <2>2, <2>3, <2>4, Zenon DEF FormationInv, Looked, Formation!DurationDefined
<1>2. FormationInv /\ [Formation!Next]_Formation!vars => FormationInv'
  BY FormationInvKept
<1>3. FormationInv => Formation!ReadyIsEarned
  BY DEF FormationInv, Formation!ReadyIsEarned, Formation!CriteriaMet,
         Formation!HumanInTheLoop, Looked, Criteria, Formation!CanTransitionToHierarchical
<1>4. QED
  BY <1>1, <1>2, <1>3, PTL DEF Formation!Spec
=============================================================================
