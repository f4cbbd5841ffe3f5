------------------------------ MODULE MCCells ------------------------------
(* Cells and their registration: formation, the replicas of a cell, overlapping
   calls on the cell store, the replicas of the routing table, and a
   rebalancing pass.  Every behaviour exercises one of these, chosen by part;
   none stands for "no value" and fills what a part does not use. *)
EXTENDS Naturals, Sequences, FiniteSets, TLC

CONSTANTS x1, x2, x3, y1, y2, m1, m2, n1, n2, u1, u2, u3, u4, z1, z2, k1, none

VARIABLES part, now,
          members, roles, leader, status, human_approved, formation_start, formation_complete, checked, approvals,
          cell, sent, updates,
          stored, call, joined, overlapped,
          table, snapshot, known, sent_known, writes, removals,
          cells, routing, used, pass, moves, refused

Cap(t, c) == [type |-> t, confidence |-> c]
Member(o, a, c) == [operational |-> o, authority |-> a, capabilities |-> c]

Threes == {x1, x2, x3}
Pair == {y1, y2}

(* A cell of up to three members, each of which looks like one of these to the
   aggregation; authorities are numbered as in CellFormation. *)
Formation == INSTANCE CellFormation WITH
    Node <- Threes, min_size <- 2, min_readiness <- 70, None <- none, MaxTime <- 1,
    required_capabilities <- {"Communication", "Sensor"},
    Profile <-
      { Member(TRUE, 0, <<Cap("Communication", 90), Cap("Sensor", 90)>>),
        Member(TRUE, 5, <<Cap("Communication", 70)>>),
        Member(TRUE, 4, <<Cap("Sensor", 60), Cap("Sensor", 75), Cap("Communication", 65)>>),
        Member(TRUE, 3, <<Cap("Communication", 98), Cap("Payload", 80)>>),
        Member(TRUE, 2, <<Cap("Sensor", 100), Cap("Mobility", 0)>>),
        Member(FALSE, 5, <<Cap("Communication", 90), Cap("Sensor", 90), Cap("Payload", 90)>>) }
Replicas == INSTANCE CellReplicas WITH
    Node <- {m1, m2}, Cohort <- {z1}, Capability <- {k1}, None <- none, max_size <- 2,
    Replica <- Pair, MaxUpdates <- 4, MaxTime <- 3, Caller <- {}, MaxCalls <- 0, StoreMaxTime <- 0
Store == INSTANCE CellReplicas WITH
    Node <- Threes, Cohort <- {z1}, Capability <- {k1}, None <- none, max_size <- 2,
    Replica <- {}, MaxUpdates <- 0, MaxTime <- 0, Caller <- Pair, MaxCalls <- 2, StoreMaxTime <- 1
Routes == INSTANCE RoutingReplicas WITH
    Node <- {m1}, Cell <- {k1}, Zone <- {z1, z2}, Absent <- none, Replica <- Threes,
    MaxWrites <- 2, MaxRemovals <- 1, MaxStamp <- 2, sent <- snapshot
(* Three stored cells, one of them in no cohort, five nodes, and ids for new
   cells. *)
Balance == INSTANCE Rebalancing WITH
    Node <- Threes \cup Pair, Cell <- {m1, m2, n2, u1, u2, u3, u4}, Zone <- {z1}, Absent <- none,
    Stored <- {m1, m2, n2}, Cohorts <- {[c \in {m1, m2, n2} |-> IF c = n2 THEN none ELSE z1]},
    min_cell_size <- 1, max_cell_size <- 2, config_min_size <- 0, MaxTime <- 2,
    MaxMoves <- 1, store <- cells

ASSUME Formation!FormationAssumption /\ Replicas!CellAssumption /\ Store!StoreAssumption
       /\ Routes!ReplicasAssumption /\ Balance!RebalancingAssumption

formationVars == <<members, roles, leader, status, human_approved, formation_start, formation_complete,
    checked, approvals>>
replicasVars == <<cell, sent, updates>>
storeVars == <<stored, call, joined, overlapped>>
routesVars == <<table, snapshot, known, sent_known, writes, removals>>
rebalancingVars == <<cells, routing, used, pass, moves, refused>>
vars == <<part, now, formationVars, replicasVars, storeVars, routesVars, rebalancingVars>>

FormationStart ==
    IF part = "formation" THEN Formation!Init
    ELSE /\ members = none /\ roles = none /\ leader = none /\ status = none /\ human_approved = none
         /\ formation_start = none /\ formation_complete = none /\ checked = none /\ approvals = none
ReplicasStart ==
    IF part = "replicas" THEN Replicas!Init
    ELSE /\ cell = none /\ sent = none /\ updates = none
StoreStart ==
    IF part = "store" THEN Store!StoreInit
    ELSE /\ stored = none /\ call = none /\ joined = none /\ overlapped = none
RoutesStart ==
    IF part = "routes" THEN Routes!Init
    ELSE /\ table = none /\ snapshot = none /\ known = none /\ sent_known = none /\ writes = none
         /\ removals = none
BalanceStart ==
    IF part = "rebalancing" THEN Balance!PassInit
    ELSE /\ cells = none /\ routing = none /\ used = none /\ pass = none /\ moves = none /\ refused = none

Init ==
    /\ part \in {"formation", "replicas", "store", "routes", "rebalancing"}
    /\ FormationStart /\ ReplicasStart /\ StoreStart /\ RoutesStart /\ BalanceStart
    /\ now = none \/ part \in {"formation", "replicas", "store", "rebalancing"}

InFormation ==
    part = "formation" /\ UNCHANGED <<part, replicasVars, storeVars, routesVars,
        rebalancingVars>>
InReplicas ==
    part = "replicas" /\ UNCHANGED <<part, formationVars, storeVars, routesVars,
        rebalancingVars>>
InStore ==
    part = "store" /\ UNCHANGED <<part, formationVars, replicasVars, routesVars,
        rebalancingVars>>
InRoutes ==
    part = "routes" /\ UNCHANGED <<part, now, formationVars, replicasVars, storeVars,
        rebalancingVars>>
InBalance ==
    part = "rebalancing" /\ UNCHANGED <<part, formationVars, replicasVars, storeVars,
        routesVars>>

Next ==
    \/ InFormation /\ Formation!Next
    \/ InReplicas /\ Replicas!Next
    \/ InStore /\ Store!StoreNext
    \/ InRoutes /\ Routes!Next
    \/ InBalance /\ Balance!PassNext

Spec == Init /\ [][Next]_vars

Symmetry == Permutations(Threes) \cup Permutations(Pair) \cup Permutations({m1, m2})

(* A cell that is let through meets the criteria, whatever approvals, resets and
   changes came before: its size, capabilities and readiness, and, where a
   capability requires oversight, an approval since the last reset; the time it
   took is never negative
   (CellCoordinator). *)
ReadyIsEarned == part = "formation" => Formation!ReadyIsEarned
(* A cell's leader is a member of it at every replica and in the store, whatever
   calls overlap; calls that do not overlap lose no member (CellState,
   CellStore). *)
CellsStayConsistent ==
    /\ part = "replicas" => Replicas!TypeOK /\ Replicas!LeaderIsMember
    /\ part = "store" => Store!CellsStayConsistent
(* Replicas that have merged agree: cells merge alike in either order, and
   routing tables hold the latest write known to them (CellState::merge,
   RoutingTable::merge). *)
ReplicasAgree ==
    /\ part = "replicas" => Replicas!ReplicasAgree
    /\ part = "routes" => Routes!ReplicasAgree
(* A pass never builds a cell beyond max_cell_size, and takes every cell it
   found undersized beside one with capacity out of the routing table
   (HierarchyMaintainer). *)
PassLeavesFittingCells == part = "rebalancing" => Balance!PassLeavesFittingCells
(* No step loses what was registered: a register of the routing table never goes
   back to an older entry, and a pass leaves no node that had a zone without one,
   but for nodes registered in its own second or later (RoutingTable::merge,
   merge_cells, split_cell). *)
RegistrationsLast ==
    [][/\ part = "routes" => Routes!EntriesAdvance
       /\ part = "rebalancing" => Balance!KeepsZones]_vars
=============================================================================
