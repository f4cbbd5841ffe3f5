----------------------------- MODULE Discovery ------------------------------
(* How cells come about: bootstrap by assignment and discovery by beacons; two
   state machines that share the clock. *)
EXTENDS Naturals, FiniteSets, FiniteSetTheorems, TLAPS

(***************************************************************************)
(* The bootstrap phase: discovery/coordinator.rs counts the nodes that     *)
(* have found a cell, and on every node discovery/directed.rs carries out  *)
(* the assignments that are sent to it, on a shared cell store.            *)
(*                                                                         *)
(* process_assignment awaits the store four times: it looks the cell up,   *)
(* looks for a cell the node is already in, reads the cell again and       *)
(* writes it back.  A manager is borrowed mutably for all of it, so a node *)
(* handles one assignment at a time, while the nodes interleave.           *)
(***************************************************************************)

CONSTANTS Node, Cell,
          MinSize, MaxSize,   \* of every cell
          AssignmentTimeout, BootstrapTimeout,
          Orders, Rosters,    \* bounds: assignments given, once each; nodes a round tracks
          MaxTime             \* bound of the clock

BootstrapAssumption == \A nodes \in Rosters : IsFiniteSet(nodes)

VARIABLES now,
          members,     \* the cell store: members of each cell
          issued,      \* assignments sent so far
          held,        \* held[n]: the manager's assignments, with their status
          step,        \* step[n]: how far process_assignment is on n
          phase, status, started, tracked, assigned,   \* the coordinator
          forced,      \* history: force_complete was called in this round
          overlapped   \* history: two nodes wrote one cell from the same reading

store == <<members, issued, held, step, overlapped>>
coordinator == <<phase, status, started, tracked, assigned, forced>>
bootstrapVars == <<now, store, coordinator>>

None == 99
Idle == [at |-> "idle"]

IsFull(c) == Cardinality(members[c]) >= MaxSize
IsValid(c) == Cardinality(members[c]) >= MinSize
Expired(a) == now > a.timestamp + AssignmentTimeout

BootstrapInit ==
  /\ now = 0
  /\ members = [c \in Cell |-> {}] /\ issued = {} /\ held = [n \in Node |-> {}]
  /\ step = [n \in Node |-> Idle] /\ overlapped = FALSE
  /\ phase = "Discovery" /\ status = "NotStarted" /\ started = None
  /\ tracked = {} /\ assigned = {} /\ forced = FALSE

BootstrapTick == now < MaxTime /\ now' = now + 1 /\ UNCHANGED <<store, coordinator>>

\* CellAssignment::new, sent by the one in command
Issue(o) ==
  /\ ~\E a \in issued : a.cell = o.cell /\ a.nodes = o.nodes
  /\ issued' = issued \cup {[cell |-> o.cell, nodes |-> o.nodes, timestamp |-> now]}
  /\ UNCHANGED <<now, members, held, step, overlapped, coordinator>>

At(n, where) == step[n].at = where
To(n, s) == step' = [step EXCEPT ![n] = s]

\* the assignment reaches n: not for n, expired, no such cell, and full end it
Look(n, a) ==
  /\ At(n, "idle") /\ a \in issued /\ n \in a.nodes
  /\ ~Expired(a) /\ a.cell \in Cell /\ ~IsFull(a.cell)
  /\ To(n, [at |-> "looked", a |-> a])
  /\ UNCHANGED <<now, members, issued, held, overlapped, coordinator>>

\* get_current_cell: only valid cells are searched
CurrentCells(n) == {c \in Cell : IsValid(c) /\ n \in members[c]}

Pending(n, a) == {h \in held[n] : h.a # a} \cup {[a |-> a, status |-> "Pending"]}

\* in another cell already: NodeAlreadyAssigned; the first cell found counts
CheckCurrent(n) ==
  /\ At(n, "looked")
  /\ LET a == step[n].a IN
       \/ /\ \E c \in CurrentCells(n) : c # a.cell
          /\ To(n, Idle) /\ UNCHANGED held
       \/ /\ CurrentCells(n) \subseteq {a.cell} \/ a.cell \in CurrentCells(n)
          /\ held' = [held EXCEPT ![n] = Pending(n, a)]
          /\ To(n, [at |-> "adding", a |-> a])
  /\ UNCHANGED <<now, members, issued, overlapped, coordinator>>

\* add_member: the copy just read; an error leaves the assignment Pending
ReadCell(n) ==
  /\ At(n, "adding")
  /\ LET c == step[n].a.cell IN
       To(n, IF IsFull(c) \/ n \in members[c] THEN Idle
             ELSE [at |-> "storing", a |-> step[n].a, copy |-> members[c] \cup {n}])
  /\ UNCHANGED <<now, members, issued, held, overlapped, coordinator>>

\* store_cell, then the assignment is Completed
StoreCell(n) ==
  /\ At(n, "storing")
  /\ LET a == step[n].a IN
       /\ overlapped' = (overlapped \/ members[a.cell] # step[n].copy \ {n})
       /\ members' = [members EXCEPT ![a.cell] = step[n].copy]
       /\ held' = [held EXCEPT ![n] = {h \in @ : h.a # a} \cup {[a |-> a, status |-> "Completed"]}]
       /\ To(n, Idle)
  /\ UNCHANGED <<now, issued, coordinator>>

\* cleanup_expired; it needs the manager, which process_assignment borrows
BootstrapCleanupExpired(n) ==
  /\ At(n, "idle") /\ \E h \in held[n] : Expired(h.a)
  /\ held' = [held EXCEPT ![n] = {h \in @ : ~Expired(h.a)}]
  /\ UNCHANGED <<now, members, issued, step, overlapped, coordinator>>

----------------------------------------------------------------------------
\* The coordinator

StartBootstrap(nodes) ==
  /\ status = "NotStarted"
  /\ tracked' = nodes /\ started' = now /\ status' = "InProgress"
  /\ UNCHANGED <<now, store, phase, assigned, forced>>

\* register_assignment for a node whose manager reports a completed one; an
\* unknown node is ignored
RegisterAssignment(n) ==
  /\ status = "InProgress" /\ n \in tracked \ assigned
  /\ \E h \in held[n] : h.status = "Completed"
  /\ assigned' = assigned \cup {n}
  /\ UNCHANGED <<now, store, phase, status, started, tracked, forced>>

TimedOut == started # None /\ now >= started + BootstrapTimeout

Rate(tenths) == 10 * Cardinality(assigned) > tenths * Cardinality(tracked)

CheckCompletion ==
  /\ status = "InProgress" /\ (tracked \subseteq assigned \/ TimedOut)
  /\ status' = IF tracked \subseteq assigned \/ Rate(9) THEN "Completed"
               ELSE IF Rate(5) THEN "PartiallyCompleted" ELSE "Failed"
  /\ UNCHANGED <<now, store, phase, started, tracked, assigned, forced>>

ForceComplete ==
  /\ status = "InProgress"
  /\ status' = "Completed" /\ forced' = TRUE
  /\ UNCHANGED <<now, store, phase, started, tracked, assigned>>

TransitionToCellPhase ==
  /\ phase = "Discovery" /\ status # "InProgress"
  /\ phase' = "Cell"
  /\ UNCHANGED <<now, store, status, started, tracked, assigned, forced>>

\* Variant: the assignments of the last round are kept with its nodes
ResetKeepingAssignments ==
  /\ status # "InProgress"
  /\ status' = "NotStarted" /\ started' = None /\ forced' = FALSE
  /\ UNCHANGED <<now, store, phase, tracked, assigned>>

ResetForRetry ==
  /\ status # "InProgress"
  /\ status' = "NotStarted" /\ started' = None /\ assigned' = {} /\ forced' = FALSE
  /\ UNCHANGED <<now, store, phase, tracked>>

BootstrapNext ==
  \/ BootstrapTick
  \/ \E o \in Orders : Issue(o)
  \/ \E n \in Node :
       \/ \E a \in issued : Look(n, a)
       \/ CheckCurrent(n) \/ ReadCell(n) \/ StoreCell(n) \/ BootstrapCleanupExpired(n) \/ RegisterAssignment(n)
  \/ \E nodes \in Rosters : StartBootstrap(nodes)
  \/ CheckCompletion \/ ForceComplete \/ TransitionToCellPhase \/ ResetForRetry

BootstrapSpec == BootstrapInit /\ [][BootstrapNext]_bootstrapVars

----------------------------------------------------------------------------
\* A bootstrap that ends as Completed has put its nodes into cells: unless it
\* was forced, or a cell was overwritten, more than nine in ten of the nodes of
\* this round are members of a stored cell (check_completion counts what the
\* managers of the nodes report, not the store).
CompletedNodesHaveCells ==
  status = "Completed" /\ ~forced /\ ~overlapped =>
    LET placed == {n \in tracked : \E c \in Cell : n \in members[c]}
    IN placed = tracked \/ 10 * Cardinality(placed) > 9 * Cardinality(tracked)

-----------------------------------------------------------------------------
(***************************************************************************)
(* discovery/geographic.rs: every node keeps the beacons it hears, by the  *)
(* geohash cell they were sent from, and decides from them whether to      *)
(* start a cell and with whom.                                             *)
(*                                                                         *)
(* Beacons go to every node through the mesh, in any order and at any      *)
(* time.  A beacon is pushed onto its cluster whether or not the cluster   *)
(* holds one of the same node already; the order within a cluster is never *)
(* used, so a cluster is a set.  A cluster is dropped when it is empty.    *)
(***************************************************************************)

CONSTANTS Scout,              \* numbers, ordered as the ids are
          Listener,          \* the nodes whose view is followed
          Mover,             \* the nodes that change place
          Geohash,
          TTL,               \* BEACON_TTL_SECONDS
          MAX_SIZE,          \* of a proposed cell
          MaxAir             \* bound: beacons sent

BeaconAssumption == Scout \subseteq Nat /\ Listener \subseteq Scout

VARIABLES at,         \* where each node is
          air,        \* beacons sent
          clusters    \* clusters[n]: the beacons n holds

beaconVars == <<now, at, air, clusters>>

MIN_CELL_SIZE == 2

IsExpired(b) == now > b.timestamp + TTL

BeaconInit == now = 0 /\ at \in [Scout -> Geohash] /\ air = {} /\ clusters = [n \in Listener |-> {}]

BeaconTick == now < MaxTime /\ now' = now + 1 /\ UNCHANGED <<at, air, clusters>>

Move(n) == \E g \in Geohash \ {at[n]} : at' = [at EXCEPT ![n] = g] /\ UNCHANGED <<now, air, clusters>>

\* GeographicBeacon::new, broadcast
Beacon(n) == [node |-> n, cell |-> at[n], timestamp |-> now]

Broadcast(n) ==
  /\ Beacon(n) \notin air /\ Cardinality(air) < MaxAir
  /\ air' = air \cup {Beacon(n)}
  /\ UNCHANGED <<now, at, clusters>>

ProcessBeacon(n, b) ==
  /\ b \in air \ clusters[n]
  /\ clusters' = [clusters EXCEPT ![n] = @ \cup {b}]
  /\ UNCHANGED <<now, at, air>>

BeaconCleanupExpired(n) ==
  /\ \E b \in clusters[n] : IsExpired(b)
  /\ clusters' = [clusters EXCEPT ![n] = {b \in @ : ~IsExpired(b)}]
  /\ UNCHANGED <<now, at, air>>

Cluster(n, g) == {b \in clusters[n] : b.cell = g}

\* my_cluster: any cluster with a beacon of this node
MyClusters(n) == {g \in Geohash : \E b \in Cluster(n, g) : b.node = n}

CanFormCell(n, g) == Cardinality(Cluster(n, g)) >= MIN_CELL_SIZE

\* Variant: the first to hear of enough beacons starts
AnyInitiates(n, g) == g \in MyClusters(n) /\ CanFormCell(n, g)

\* should_initiate_cell_formation, when my_cluster is the one of g
ShouldInitiate(n, g) ==
  g \in MyClusters(n) /\ CanFormCell(n, g) /\ \A b \in Cluster(n, g) : n <= b.node

\* get_cell_members: the ids, one per beacon, sorted and cut off after MAX_SIZE
CellMembers(n, g) ==
  LET before(b) == {c \in Cluster(n, g) : c.node < b.node}
  IN {b.node : b \in {b \in Cluster(n, g) : Cardinality(before(b)) < MAX_SIZE}}

BeaconNext ==
  \/ BeaconTick
  \/ (\E n \in Mover : Move(n)) \/ (\E n \in Scout : Broadcast(n))
  \/ \E n \in Listener : BeaconCleanupExpired(n) \/ \E b \in air : ProcessBeacon(n, b)

BeaconSpec == BeaconInit /\ [][BeaconNext]_beaconVars

----------------------------------------------------------------------------
\* the nodes that n holds beacons of from two places
Moved(n) == {b.node : b \in {b \in clusters[n] : \E c \in clusters[n] : b.node = c.node /\ b.cell # c.cell}}

\* "deterministic leader selection": two nodes that hold the same beacons never
\* start cells that share a member, whichever of its clusters each takes for its
\* own, except over a node they have heard from two places.
ProposalsDisjoint ==
  \A m, n \in Listener : \A g, h \in Geohash :
    m # n /\ clusters[m] = clusters[n] /\ ShouldInitiate(m, g) /\ ShouldInitiate(n, h) =>
      CellMembers(m, g) \cap CellMembers(n, h) \subseteq Moved(m)

-----------------------------------------------------------------------------
(***************************************************************************)
(* The two properties for any nodes, cells, sizes, timeouts and orders.    *)
(*                                                                         *)
(* What a manager reports as Completed is in the store as long as no cell  *)
(* was overwritten from an old reading; the coordinator counts only such   *)
(* reports of nodes of its round, and a round starts from none.            *)
(***************************************************************************)

\* While nobody overwrote a cell, completed assignments and counted nodes are in the store.
ReportsHold ==
  ~overlapped =>
    /\ \A n \in Node : \A h \in held[n] :
         h.status = "Completed" => h.a.cell \in Cell /\ n \in members[h.a.cell]
    /\ \A n \in assigned : \E c \in Cell : n \in members[c]

\* A node about to write a cell writes one that exists, and is in its copy.
StepsOK ==
  \A n \in Node :
    /\ step[n].at \in {"looked", "adding", "storing"} => step[n].a.cell \in Cell
    /\ step[n].at = "storing" => n \in step[n].copy

StoreOK ==
  /\ members = [c \in Cell |-> members[c]]
  /\ held = [n \in Node |-> held[n]] /\ step = [n \in Node |-> step[n]]
  /\ overlapped \in BOOLEAN

RoundOK ==
  /\ assigned \subseteq tracked /\ IsFiniteSet(tracked)
  /\ status = "NotStarted" => assigned = {}
  /\ status = "Completed" /\ ~forced => tracked \subseteq assigned \/ Rate(9)

BootstrapInv == StoreOK /\ StepsOK /\ ReportsHold /\ RoundOK

LEMMA BootstrapInitially == BootstrapInit => BootstrapInv
<1> SUFFICES ASSUME BootstrapInit PROVE BootstrapInv
  OBVIOUS
<1>1. IsFiniteSet(tracked)
  BY FS_EmptySet DEF BootstrapInit
<1>2. QED
  BY <1>1 DEF BootstrapInit, BootstrapInv, StoreOK, StepsOK, ReportsHold, RoundOK, Idle

\* The managers: the store and what they report.
LEMMA ManagersKeep ==
  ASSUME BootstrapInv, NEW n \in Node,
         (\E a \in issued : Look(n, a)) \/ CheckCurrent(n) \/ ReadCell(n) \/ StoreCell(n)
           \/ BootstrapCleanupExpired(n)
  PROVE  BootstrapInv'
<1>0. StoreOK /\ StepsOK /\ ReportsHold /\ RoundOK
  BY DEF BootstrapInv
<1>1. UNCHANGED coordinator
  BY Zenon DEF Look, CheckCurrent, ReadCell, StoreCell, BootstrapCleanupExpired
<1>2. RoundOK'
  BY <1>0, <1>1 DEF RoundOK, Rate, coordinator
<1>3. CASE \E a \in issued : Look(n, a)
  <2>1. PICK a \in issued : Look(n, a)
    BY <1>3
  <2>2. StoreOK'
    BY <1>0, <2>1 DEF Look, To, StoreOK
  <2>3. StepsOK'
    BY <1>0, <2>1 DEF Look, To, StepsOK, StoreOK
  <2>4. ReportsHold'
    BY <1>0, <1>1, <2>1 DEF Look, ReportsHold, coordinator
  <2>5. QED
    BY <1>2, <2>2, <2>3, <2>4 DEF BootstrapInv
<1>4. CASE CheckCurrent(n)
  <2>1. /\ step[n].at = "looked" /\ UNCHANGED <<members, overlapped>>
        /\ \/ step' = [step EXCEPT ![n] = Idle] /\ held' = held
           \/ /\ held' = [held EXCEPT ![n] = Pending(n, step[n].a)]
              /\ step' = [step EXCEPT ![n] = [at |-> "adding", a |-> step[n].a]]
    BY <1>4 DEF CheckCurrent, At, To
  <2>2. StoreOK'
    BY <1>0, <2>1 DEF StoreOK
  <2>3. StepsOK'
    BY <1>0, <2>1 DEF StepsOK, StoreOK, Idle
  <2>4. \A m \in Node : \A h \in held'[m] : h.status = "Completed" => h \in held[m]
    BY <1>0, <2>1 DEF StoreOK, Pending
  <2>5. ReportsHold'
    BY <1>0, <1>1, <2>1, <2>4 DEF ReportsHold, coordinator
  <2>6. QED
    BY <1>2, <2>2, <2>3, <2>5 DEF BootstrapInv
<1>5. CASE ReadCell(n)
  <2>1. /\ step[n].at = "adding" /\ UNCHANGED <<members, held, overlapped>>
        /\ \/ step' = [step EXCEPT ![n] = Idle]
           \/ step' = [step EXCEPT ![n] = [at |-> "storing", a |-> step[n].a,
                                           copy |-> members[step[n].a.cell] \cup {n}]]
    BY <1>5 DEF ReadCell, At, To
  <2>2. StoreOK'
    BY <1>0, <2>1 DEF StoreOK
  <2>3. StepsOK'
    <3>1. \A m \in Node \ {n} : step'[m] = step[m]
      BY <1>0, <2>1 DEF StoreOK
    <3>2. \/ step'[n] = Idle
          \/ step'[n] = [at |-> "storing", a |-> step[n].a,
                         copy |-> members[step[n].a.cell] \cup {n}]
      BY <1>0, <2>1 DEF StoreOK
    <3>3. /\ step'[n].at \in {"looked", "adding", "storing"} => step'[n].a.cell \in Cell
          /\ step'[n].at = "storing" => n \in step'[n].copy
      BY <1>0, <2>1, <3>2 DEF StepsOK, Idle
    <3>4. QED
      BY <1>0, <3>1, <3>3 DEF StepsOK
  <2>4. ReportsHold'
    BY <1>0, <1>1, <2>1 DEF ReportsHold, coordinator
  <2>5. QED
    BY <1>2, <2>2, <2>3, <2>4 DEF BootstrapInv
<1>6. CASE StoreCell(n)
  <2> DEFINE a == step[n].a
             copy == step[n].copy
  <2>1. /\ a.cell \in Cell /\ n \in copy
        /\ overlapped' = (overlapped \/ members[a.cell] # copy \ {n})
        /\ members' = [members EXCEPT ![a.cell] = copy]
        /\ held' = [held EXCEPT ![n] = {h \in @ : h.a # a} \cup {[a |-> a, status |-> "Completed"]}]
        /\ step' = [step EXCEPT ![n] = Idle]
    BY <1>0, <1>6 DEF StoreCell, At, To, StepsOK
  <2> HIDE DEF a, copy
  <2>2. StoreOK'
    <3>1. overlapped' \in BOOLEAN
      BY <1>0, <2>1, Zenon DEF StoreOK
    <3>2. QED
      BY <1>0, <2>1, <3>1 DEF StoreOK
  <2>3. StepsOK'
    BY <1>0, <2>1 DEF StepsOK, StoreOK, Idle
  <2>4. ASSUME ~overlapped' PROVE \A c \in Cell : members[c] \subseteq members'[c]
    <3>1. members[a.cell] = copy \ {n}
      BY <2>1, <2>4, Zenon
    <3>2. QED
      BY <1>0, <2>1, <3>1 DEF StoreOK
  <2>5. n \in members'[a.cell]
    BY <1>0, <2>1 DEF StoreOK
  <2>6. \A m \in Node : \A h \in held'[m] :
          h \in held[m] \/ (m = n /\ h.a = a)
    BY <1>0, <2>1 DEF StoreOK
  <2>7. ~overlapped' => ~overlapped
    BY <2>1, Zenon
  <2>8. ReportsHold'
    BY <1>0, <1>1, <2>1, <2>4, <2>5, <2>6, <2>7 DEF ReportsHold, coordinator
  <2>9. QED
    BY <1>2, <2>2, <2>3, <2>8 DEF BootstrapInv
<1>7. CASE BootstrapCleanupExpired(n)
  <2>1. /\ UNCHANGED <<members, step, overlapped>>
        /\ held' = [held EXCEPT ![n] = {h \in @ : ~Expired(h.a)}]
    BY <1>7 DEF BootstrapCleanupExpired
  <2>2. StoreOK' /\ StepsOK'
    BY <1>0, <2>1 DEF StoreOK, StepsOK
  <2>3. \A m \in Node : held'[m] \subseteq held[m]
    BY <1>0, <2>1 DEF StoreOK
  <2>4. ReportsHold'
    BY <1>0, <1>1, <2>1, <2>3 DEF ReportsHold, coordinator
  <2>5. QED
    BY <1>2, <2>2, <2>4 DEF BootstrapInv
<1>8. QED
  BY <1>3, <1>4, <1>5, <1>6, <1>7

\* The coordinator counts what the managers report.
LEMMA CoordinatorKeeps ==
  ASSUME BootstrapAssumption, BootstrapInv,
         \/ \E n \in Node : RegisterAssignment(n)
         \/ \E nodes \in Rosters : StartBootstrap(nodes)
         \/ CheckCompletion \/ ForceComplete \/ TransitionToCellPhase \/ ResetForRetry
  PROVE  BootstrapInv'
<1>0. StoreOK /\ StepsOK /\ ReportsHold /\ RoundOK
  BY DEF BootstrapInv
<1>1. UNCHANGED store
  BY Zenon DEF RegisterAssignment, StartBootstrap, CheckCompletion, ForceComplete,
     TransitionToCellPhase, ResetForRetry
<1>2. StoreOK' /\ StepsOK'
  BY <1>0, <1>1 DEF StoreOK, StepsOK, store
<1>3. ReportsHold'
  <2>1. CASE assigned' \subseteq assigned
    BY <1>0, <1>1, <2>1 DEF ReportsHold, store
  <2>2. CASE \E n \in Node : RegisterAssignment(n)
    BY <1>0, <1>1, <2>2 DEF RegisterAssignment, ReportsHold, store
  <2>3. QED
    BY <2>1, <2>2, Zenon DEF StartBootstrap, CheckCompletion, ForceComplete,
       TransitionToCellPhase, ResetForRetry
<1>4. RoundOK'
  <2>1. CASE \E n \in Node : RegisterAssignment(n)
    BY <1>0, <2>1 DEF RegisterAssignment, RoundOK
  <2>2. CASE \E nodes \in Rosters : StartBootstrap(nodes)
    BY <1>0, <2>2 DEF StartBootstrap, RoundOK, BootstrapAssumption
  <2>3. CASE CheckCompletion
    BY <1>0, <2>3 DEF CheckCompletion, RoundOK, Rate
  <2>4. CASE ForceComplete \/ TransitionToCellPhase \/ ResetForRetry
    BY <1>0, <2>4 DEF ForceComplete, TransitionToCellPhase, ResetForRetry, RoundOK, Rate
  <2>5. QED
    BY <2>1, <2>2, <2>3, <2>4
<1>5. QED
  BY <1>2, <1>3, <1>4 DEF BootstrapInv

\* More than nine in ten counted means more than nine in ten placed.
LEMMA CountedArePlaced == BootstrapInv => CompletedNodesHaveCells
<1> SUFFICES ASSUME BootstrapInv, status = "Completed", ~forced, ~overlapped
             PROVE  LET placed == {n \in tracked : \E c \in Cell : n \in members[c]}
                    IN placed = tracked \/ 10 * Cardinality(placed) > 9 * Cardinality(tracked)
  BY Zenon DEF CompletedNodesHaveCells
<1> DEFINE placed == {n \in tracked : \E c \in Cell : n \in members[c]}
<1>1. assigned \subseteq placed /\ placed \subseteq tracked /\ IsFiniteSet(tracked)
  BY DEF BootstrapInv, RoundOK, ReportsHold
<1>2. tracked \subseteq assigned \/ 10 * Cardinality(assigned) > 9 * Cardinality(tracked)
  BY DEF BootstrapInv, RoundOK, Rate
<1> HIDE DEF placed
<1>3. IsFiniteSet(placed)
  BY <1>1, FS_Subset
<1>4. Cardinality(assigned) <= Cardinality(placed) /\ IsFiniteSet(assigned)
  BY <1>1, <1>3, FS_Subset
<1>5. Cardinality(assigned) \in Nat /\ Cardinality(placed) \in Nat /\ Cardinality(tracked) \in Nat
  BY <1>1, <1>3, <1>4, FS_CardinalityType
<1>6. placed = tracked \/ 10 * Cardinality(placed) > 9 * Cardinality(tracked)
  <2>1. CASE tracked \subseteq assigned
    BY <1>1, <2>1, Zenon
  <2>2. CASE 10 * Cardinality(assigned) > 9 * Cardinality(tracked)
    <3>1. \A i, j, k \in Nat : i <= j /\ 10 * i > 9 * k => 10 * j > 9 * k
      OBVIOUS
    <3>2. QED
      BY <1>4, <1>5, <2>2, <3>1
  <2>3. QED
    BY <1>2, <2>1, <2>2
<1>7. QED
  BY <1>6 DEF placed

\* A bootstrap told Completed has a cell for more than nine in ten of its nodes,
\* however the managers interleave on the store (discovery/coordinator.rs,
\* check_completion; discovery/directed.rs, process_assignment).
THEOREM CompletedNodesHaveCellsHolds ==
  ASSUME BootstrapAssumption
  PROVE  BootstrapSpec => []CompletedNodesHaveCells
<1>1. BootstrapInv /\ [BootstrapNext]_bootstrapVars => BootstrapInv'
  <2> SUFFICES ASSUME BootstrapInv, [BootstrapNext]_bootstrapVars PROVE BootstrapInv'
    OBVIOUS
  <2>1. CASE BootstrapTick \/ (\E o \in Orders : Issue(o)) \/ UNCHANGED bootstrapVars
    <3>1. UNCHANGED <<members, held, step, overlapped, coordinator>>
      BY <2>1 DEF BootstrapTick, Issue, bootstrapVars, store
    <3>2. QED
      BY <3>1 DEF BootstrapInv, StoreOK, StepsOK, ReportsHold, RoundOK, Rate, coordinator
  <2>2. QED
    BY <2>1, ManagersKeep, CoordinatorKeeps DEF BootstrapNext
<1>2. QED
  BY <1>1, BootstrapInitially, CountedArePlaced, PTL DEF BootstrapSpec

\* Nodes that hold the same beacons never start cells that share a member, except
\* over a node heard from two places (discovery/geographic.rs,
\* should_initiate_cell_formation): of one cluster only the lowest id starts.
THEOREM ProposalsDisjointHolds ==
  ASSUME BeaconAssumption
  PROVE  BeaconSpec => []ProposalsDisjoint
<1>1. ProposalsDisjoint
  <2> SUFFICES ASSUME NEW m \in Listener, NEW n \in Listener, NEW g \in Geohash, NEW h \in Geohash,
                      m # n, clusters[m] = clusters[n], ShouldInitiate(m, g), ShouldInitiate(n, h),
                      NEW x \in CellMembers(m, g) \cap CellMembers(n, h)
               PROVE  x \in Moved(m)
    BY Zenon DEF ProposalsDisjoint
  <2>1. PICK b \in clusters[m], c \in clusters[m] :
          b.cell = g /\ c.cell = h /\ b.node = x /\ c.node = x
    BY DEF CellMembers, Cluster
  <2>2. g # h
    <3> SUFFICES ASSUME g = h PROVE FALSE
      OBVIOUS
    <3>1. m <= n /\ n <= m
      BY DEF ShouldInitiate, MyClusters, Cluster
    <3>2. QED
      BY <3>1 DEF BeaconAssumption
  <2>3. QED
    BY <2>1, <2>2 DEF Moved
<1>2. QED
  BY <1>1, PTL
=============================================================================
