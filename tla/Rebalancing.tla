---------------------------- MODULE Rebalancing ----------------------------
(***************************************************************************)
(* Hierarchy maintenance, peat-protocol/src/hierarchy/maintenance.rs: a    *)
(* background pass reads the valid cells of the cell store, then merges    *)
(* the undersized and splits the oversized ones in the routing table, one  *)
(* cell per critical section, all with the timestamp read at its start.    *)
(* The pass never writes the cell store.  Others change store and routing  *)
(* table at any time, during a pass and in its second, too.                *)
(***************************************************************************)
EXTENDS RoutingTable, Sequences, FiniteSets

CONSTANTS
    Stored,             \* cells the store starts with
    Cohorts,            \* the cohorts they may be in, Absent for None
    min_cell_size,
    max_cell_size,
    config_min_size,    \* CellConfig.min_size of the stored cells
    MaxTime,            \* bound: seconds
    MaxMoves            \* bound: membership changes

RebalancingAssumption ==
    /\ IsFiniteSet(Node)
    /\ Stored \subseteq Cell /\ IsFiniteSet(Stored)
    /\ Cohorts \subseteq [Stored -> Zone \cup {Absent}]
    /\ Absent \notin Entry /\ Absent \notin Zone
    /\ min_cell_size \in Nat \ {0}
    /\ max_cell_size \in Nat
    /\ max_cell_size > min_cell_size
    /\ config_min_size \in Nat
    /\ MaxTime \in Nat /\ MaxMoves \in Nat

VARIABLES
    store,      \* store[c]: [members, cohort_id] of every stored cell
    routing,    \* the shared routing table
    used,       \* cell ids in use; a new uuid is none of them
    pass,       \* Idle or the pass in progress
    now,
    moves,
    refused     \* history: assign_node has ignored a move

passVars == <<store, routing, used, pass, now, moves, refused>>

(* A pass: the cells in the order of the query, what they were when read,
   the index of the next one, and the timestamp of all changes. *)
Idle == [active |-> FALSE, order |-> <<>>, snapshot |-> <<>>, next |-> 1,
         timestamp |-> 0]

CellStates == [Stored -> [members : SUBSET Node, cohort_id : Zone \cup {Absent}]]

PassTypeOK ==
    /\ store \in CellStates
    /\ routing \in Table
    /\ Stored \subseteq used /\ used \subseteq Cell
    /\ pass \in [active : BOOLEAN, order : Seq(Stored), next : Nat, timestamp : 0..now,
                 snapshot : CellStates \cup {Idle.snapshot}]
    /\ pass.active => pass.snapshot \in CellStates
    /\ pass.next \in 1..(Len(pass.order) + 1)
    /\ now \in Nat
    /\ moves \in 0..MaxMoves
    /\ refused \in BOOLEAN

(* Every node is a member of one stored cell, and the routing table, written
   in second 1, says the same. *)
PassInit ==
    /\ \E home \in [Node -> Stored], zone \in Cohorts :
          /\ store = [c \in Stored |->
                [members |-> {n \in Node : home[n] = c}, cohort_id |-> zone[c]]]
          /\ routing = [g \in Register |->
                IF g[1] = "node_to_cell"
                   THEN [value |-> home[g[2]], timestamp |-> 1]
                ELSE IF g[1] = "cell_to_zone" /\ g[2] \in Stored /\ zone[g[2]] # Absent
                   THEN [value |-> zone[g[2]], timestamp |-> 1]
                ELSE Absent]
    /\ used = Stored
    /\ pass = Idle
    /\ now = 1
    /\ moves = 0
    /\ refused = FALSE

-----------------------------------------------------------------------------
(* Everybody else *)

Tick ==
    /\ now < MaxTime
    /\ now' = now + 1
    /\ UNCHANGED <<store, routing, used, pass, moves, refused>>

(* A node changes cells: the store and the routing table are told.  In the
   second of the node's last entry assign_node ignores it, and they disagree. *)
MoveNode(n, c) ==
    /\ moves < MaxMoves
    /\ moves' = moves + 1
    /\ store' = [d \in Stored |->
          [store[d] EXCEPT !.members = IF d = c THEN @ \cup {n} ELSE @ \ {n}]]
    /\ routing' = Assign(routing, CellOf(n), c, now)
    /\ refused' = (refused \/ ~Newer(routing[CellOf(n)], now))
    /\ UNCHANGED <<used, pass, now>>

-----------------------------------------------------------------------------
(* HierarchyMaintainer *)

Size(cells, c) == Cardinality(cells[c].members)

NeedsRebalance(cells, c) ==
    IF Size(cells, c) < min_cell_size THEN "Merge"
    ELSE IF Size(cells, c) > max_cell_size THEN "Split"
    ELSE "None"

(* Lower is better; a cell of the same cohort saturates to zero. *)
Score(cells, c, candidate) ==
    IF cells[c].cohort_id # Absent /\ cells[candidate].cohort_id = cells[c].cohort_id
       THEN IF Size(cells, candidate) > 100 THEN Size(cells, candidate) - 100
                                            ELSE 0
       ELSE Size(cells, candidate)

(* Variant: the capacity of the candidate is not considered. *)
HasCapacityAlways(cells, c, candidate) == candidate # c

HasCapacity(cells, c, candidate) ==
    /\ candidate # c
    /\ Size(cells, c) + Size(cells, candidate) <= max_cell_size

(* The first candidate, in the order of the query, of the lowest score. *)
FindMergeCandidate(cells, order, c) ==
    LET eligible == {i \in 1..Len(order) : HasCapacity(cells, c, order[i])}
    IN {order[i] : i \in {j \in eligible : \A k \in eligible :
          \/ Score(cells, c, order[j]) < Score(cells, c, order[k])
          \/ Score(cells, c, order[j]) = Score(cells, c, order[k]) /\ j <= k}}

-----------------------------------------------------------------------------
(* RebalancingCoordinator::check_and_rebalance *)

Unused == Cell \ used

(* The timestamp is read, then the valid cells, in whatever order the store
   returns them. *)
StartPass ==
    /\ ~pass.active
    /\ LET valid == {c \in Stored : Size(store, c) >= config_min_size} IN
       \E order \in [1..Cardinality(valid) -> valid] :
          /\ \A c \in valid : \E i \in DOMAIN order : order[i] = c
          /\ pass' = [active |-> TRUE, order |-> order, snapshot |-> store,
                      next |-> 1, timestamp |-> now]
    /\ UNCHANGED <<store, routing, used, now, moves, refused>>

MergeStep(c) ==
    LET targets == FindMergeCandidate(pass.snapshot, pass.order, c)
        merged == CHOOSE u \in Unused : TRUE
    IN /\ NeedsRebalance(pass.snapshot, c) = "Merge"
       /\ \/ /\ targets = {}
             /\ UNCHANGED <<routing, used>>
          \/ /\ Unused # {}
             /\ \E t \in targets :
                   routing' = MergeCells(routing, c, t, merged,
                                 pass.snapshot[c].cohort_id, pass.timestamp)
             /\ used' = used \cup {merged}

SplitPoint(count) == count \div 2

AtMostMax(count) == IF count > max_cell_size THEN max_cell_size ELSE count

(* The first half of the member list goes to one new cell, the rest to the
   other, the list in any order; add_member refuses what exceeds max_cell_size,
   and those members go nowhere. *)
SplitStep(c) ==
    LET members == pass.snapshot[c].members
        a == CHOOSE u \in Unused : TRUE
        b == CHOOSE u \in Unused \ {a} : TRUE
    IN /\ NeedsRebalance(pass.snapshot, c) = "Split"
       /\ Unused # {} /\ Unused \ {a} # {}
       /\ \E half \in SUBSET members : \E rest \in SUBSET (members \ half) :
             /\ Cardinality(half) = AtMostMax(SplitPoint(Cardinality(members)))
             /\ Cardinality(rest) =
                   AtMostMax(Cardinality(members) - SplitPoint(Cardinality(members)))
             /\ routing' = SplitCell(routing, c, a, b, half, rest,
                               pass.snapshot[c].cohort_id, pass.timestamp)
       /\ used' = used \cup {a, b}

BalancedStep(c) ==
    /\ NeedsRebalance(pass.snapshot, c) = "None"
    /\ UNCHANGED <<routing, used>>

CheckCell ==
    /\ pass.active
    /\ pass.next <= Len(pass.order)
    /\ LET c == pass.order[pass.next] IN
          MergeStep(c) \/ SplitStep(c) \/ BalancedStep(c)
    /\ pass' = [pass EXCEPT !.next = @ + 1]
    /\ UNCHANGED <<store, now, moves, refused>>

EndPass ==
    /\ pass.active
    /\ pass.next > Len(pass.order)
    /\ pass' = Idle
    /\ UNCHANGED <<store, routing, used, now, moves, refused>>

PassNext ==
    \/ Tick
    \/ \E n \in Node, c \in Stored : MoveNode(n, c)
    \/ StartPass
    \/ CheckCell
    \/ EndPass

PassSpec == PassInit /\ [][PassNext]_passVars

-----------------------------------------------------------------------------
New == used \ Stored

(* What was registered before the second of the pass *)
Older(n) == routing[CellOf(n)].timestamp < pass.timestamp

(* A pass never builds a cell beyond max_cell_size, however often a cell is
   chosen as the target of several undersized ones and whoever moves during
   the pass, unless the routing table refused a move the store has made. *)
NewCellsFit ==
    ~refused => \A c \in New : Cardinality(GetCellNodes(routing, c)) <= max_cell_size

(* merge_cells and split_cell move all nodes of the cells they dissolve: no
   step of a pass leaves a node that had a zone without one, but for those
   registered in the second of the pass or later, when the table refused no
   move.  The new cells are in the cohort of the cell the step is about, so it
   must have one, and a split drops members beyond twice max_cell_size. *)
KeepsZones ==
    (pass.active /\ pass' # pass /\ pass.next <= Len(pass.order) /\ ~refused) =>
        LET c == pass.order[pass.next] IN
        (/\ pass.snapshot[c].cohort_id # Absent
         /\ Size(pass.snapshot, c) <= 2 * max_cell_size) =>
            \A n \in Node :
                NodeHasZone(routing, n) /\ Older(n) => NodeHasZone(routing', n)

(* "Cell too small: Merge with neighbor": when a pass has gone through its
   cells, every cell it found undersized beside one with capacity is out of
   the routing table, and no node registered before the pass is still routed
   to it. *)
UndersizedIsMerged ==
    (pass.active /\ pass.next > Len(pass.order)) =>
      \A i, j \in DOMAIN pass.order :
        LET c == pass.order[i] IN
        (/\ Size(pass.snapshot, c) < min_cell_size
         /\ HasCapacity(pass.snapshot, c, pass.order[j])) =>
           /\ routing[ZoneOf(c)] = Absent
           /\ \A n \in GetCellNodes(routing, c) : ~Older(n)

(* What a pass leaves behind. *)
PassLeavesFittingCells == PassTypeOK /\ NewCellsFit /\ UndersizedIsMerged
=============================================================================
