---------------------------- MODULE RoutingTable ----------------------------
(***************************************************************************)
(* The routing table of peat-protocol/src/hierarchy/routing_table.rs as a  *)
(* value and its methods as operators.  Its three maps node_to_cell,       *)
(* cell_to_zone and cell_leaders have one and the same assign and one and  *)
(* the same remove method, so a table is one function from registers       *)
(* <<map, key>> to an entry [value, timestamp] or Absent.                  *)
(***************************************************************************)
EXTENDS Naturals

CONSTANTS Node, Cell, Zone, Absent

CellOf(n) == <<"node_to_cell", n>>
ZoneOf(c) == <<"cell_to_zone", c>>
LeaderOf(c) == <<"cell_leaders", c>>

Register == ({"node_to_cell"} \X Node)
              \cup ({"cell_to_zone", "cell_leaders"} \X Cell)

Value(g) == CASE g[1] = "node_to_cell" -> Cell
              [] g[1] = "cell_to_zone" -> Zone
              [] OTHER -> Node

Entry == [value : Cell \cup Zone \cup Node, timestamp : Nat]
Table == [Register -> Entry \cup {Absent}]

EmptyTable == [g \in Register |-> Absent]

(* An assignment is applied unless the entry is at least as recent. *)
Newer(entry, ts) == entry = Absent \/ entry.timestamp < ts

(* assign_node, assign_cell, set_cell_leader for all registers of gs at once *)
AssignAll(t, gs, v, ts) ==
    [g \in Register |-> IF g \in gs /\ Newer(t[g], ts)
                        THEN [value |-> v, timestamp |-> ts] ELSE t[g]]

Assign(t, g, v, ts) == AssignAll(t, {g}, v, ts)

(* Variant: an old removal deletes a newer entry. *)
RemoveAllAlways(t, gs, ts) ==
    [g \in Register |-> IF g \in gs THEN Absent ELSE t[g]]

(* remove_node, remove_cell, remove_cell_leader: only a strictly newer entry
   stays, and nothing is left of a removed one. *)
RemoveAll(t, gs, ts) ==
    [g \in Register |->
        IF g \in gs /\ (t[g] # Absent => t[g].timestamp <= ts)
        THEN Absent ELSE t[g]]

Remove(t, g, ts) == RemoveAll(t, {g}, ts)

(* Variant: only missing entries are taken over. *)
MergeMissing(t, other) ==
    [g \in Register |-> IF t[g] = Absent THEN other[g] ELSE t[g]]

(* merge: every entry of the other table is assigned with its timestamp. *)
Merge(t, other) ==
    [g \in Register |->
        IF other[g] # Absent /\ Newer(t[g], other[g].timestamp)
        THEN other[g] ELSE t[g]]

-----------------------------------------------------------------------------
(* Queries *)

Holds(t, g, v) == t[g] # Absent /\ t[g].value = v

GetCellNodes(t, c) == {n \in Node : Holds(t, CellOf(n), c)}

(* get_node_zone is Some: the node has a cell and that cell has a zone. *)
NodeHasZone(t, n) ==
    /\ t[CellOf(n)] # Absent
    /\ t[ZoneOf(t[CellOf(n)].value)] # Absent

-----------------------------------------------------------------------------
(* Rebuilding cells; zone may be Absent *)

AssignZone(t, cells, zone, ts) ==
    IF zone = Absent THEN t ELSE AssignAll(t, {ZoneOf(c) : c \in cells}, zone, ts)

(* Variant: the dissolved cells stay in their zone. *)
DissolveLeadersOnly(t, cells, ts) ==
    RemoveAll(t, {LeaderOf(c) : c \in cells}, ts)

(* remove_cell and remove_cell_leader for every source cell *)
Dissolve(t, cells, ts) ==
    RemoveAll(t, {ZoneOf(c) : c \in cells} \cup {LeaderOf(c) : c \in cells}, ts)

(* Variant: only the nodes of the undersized cell are moved. *)
MergeCellsSource(t, source, target, merged, zone, ts) ==
    LET moved == AssignAll(t, {CellOf(n) : n \in GetCellNodes(t, source)},
                           merged, ts)
    IN Dissolve(AssignZone(moved, {merged}, zone, ts), {source, target}, ts)

MergeCells(t, source, target, merged, zone, ts) ==
    LET nodes == GetCellNodes(t, source) \cup GetCellNodes(t, target)
        moved == AssignAll(t, {CellOf(n) : n \in nodes}, merged, ts)
    IN Dissolve(AssignZone(moved, {merged}, zone, ts), {source, target}, ts)

SplitCell(t, source, a, b, nodes_for_a, nodes_for_b, zone, ts) ==
    LET first == AssignAll(t, {CellOf(n) : n \in nodes_for_a}, a, ts)
        both == AssignAll(first, {CellOf(n) : n \in nodes_for_b}, b, ts)
    IN Dissolve(AssignZone(both, {a, b}, zone, ts), {source}, ts)
=============================================================================
