--------------------------- MODULE SummaryStorage ---------------------------
EXTENDS Integers, FiniteSets, FiniteSetsExt, Functions

(***************************************************************************)
(* What a leader computes for the tier above, and the deltas that carry it *)
(* there: peat-protocol/src/hierarchy/state_aggregation.rs, deltas.rs and  *)
(* the apply_*_delta functions of storage/automerge_summary_storage.rs.    *)
(*                                                                         *)
(* The four tiers Cell, Cohort, Federation and Coalition have summaries of *)
(* one shape.  Latitude, longitude and altitude are treated alike and are  *)
(* one coordinate here; f32 averages are exact multiples of 1/Scale; a     *)
(* capability is its type, and the list of them is kept as a multiplicity. *)
(* basis is no field of the code: it records, per cell, the node states a  *)
(* summary was computed from.                                              *)
(***************************************************************************)

CONSTANTS Node, CapabilityType, Capabilities, Readiness, NoPosition

(* HealthStatus: the larger, the worse *)
Nominal == 1
Failed == 4

Scale == 12

Located(states) == {n \in DOMAIN states : states[n].position # NoPosition}
Positions(states) == {states[n].position : n \in Located(states)}

IsOperational(state) == state.health # Failed /\ state.fuel > 0

Operational(states) ==
    Restrict(states, {n \in DOMAIN states : IsOperational(states[n])})

(* aggregate_cell is an error without an operational member that is located. *)
CanAggregateCell(states) == Located(Operational(states)) # {}

CalculateAvgFuel(members) ==
    (Scale * MapThenSumSet(LAMBDA n : members[n].fuel, DOMAIN members))
        \div Cardinality(DOMAIN members)

FindWorstHealth(values) == IF values = {} THEN Nominal ELSE Max(values)

(* aggregate_cell: only operational members are looked at and counted. *)
AggregateCell(cell, states, now) ==
    LET members == Operational(states)
        nodes == DOMAIN members
    IN [ids |-> nodes, total |-> Cardinality(nodes),
        operational |-> Cardinality(nodes), fuel |-> CalculateAvgFuel(members),
        health |-> FindWorstHealth({members[n].health : n \in nodes}),
        readiness |-> Readiness[nodes],
        capabilities |-> [t \in CapabilityType |->
            IF \E n \in nodes : t \in Capabilities[n] THEN 1 ELSE 0],
        low |-> Min(Positions(members)), high |-> Max(Positions(members)),
        aggregated_at |-> now,
        basis |-> [c \in {cell} |-> members]]

-----------------------------------------------------------------------------
(* The higher tiers; parts is a non-empty function from the ids of the units
   below to their summaries. *)

Sum(parts, f(_)) == MapThenSumSet(LAMBDA u : f(parts[u]), DOMAIN parts)

CalculateWeighted(parts, value(_)) ==
    LET members == Sum(parts, LAMBDA s : s.total) IN
    IF members = 0 THEN 0 ELSE Sum(parts, LAMBDA s : value(s) * s.total) \div members

(* Union of capabilities by type: one entry per type. *)
AggregateCapabilities(parts) ==
    [t \in CapabilityType |->
        IF \E u \in DOMAIN parts : parts[u].capabilities[t] > 0 THEN 1 ELSE 0]

(* Variant: every unit below has the same weight. *)
WeightedAvgFuelEqual(parts) ==
    Sum(parts, LAMBDA s : s.fuel) \div Cardinality(DOMAIN parts)

WeightedAvgFuel(parts) == CalculateWeighted(parts, LAMBDA s : s.fuel)

WeightedReadiness(parts) == CalculateWeighted(parts, LAMBDA s : s.readiness)

AggregateBoxes(parts) ==
    [low |-> Min({parts[u].low : u \in DOMAIN parts}),
     high |-> Max({parts[u].high : u \in DOMAIN parts})]

(* Variant: a summary has the time of the latest one it was made from. *)
CurrentTimestampLatest(parts, now) ==
    Max({parts[u].aggregated_at : u \in DOMAIN parts})

CurrentTimestamp(parts, now) == now

AggregateCohort(parts, now) ==
    [ids |-> DOMAIN parts, total |-> Sum(parts, LAMBDA s : s.total),
     operational |-> Sum(parts, LAMBDA s : s.operational),
     fuel |-> WeightedAvgFuel(parts),
     health |-> FindWorstHealth({parts[u].health : u \in DOMAIN parts}),
     readiness |-> WeightedReadiness(parts),
     capabilities |-> AggregateCapabilities(parts),
     low |-> AggregateBoxes(parts).low, high |-> AggregateBoxes(parts).high,
     aggregated_at |-> CurrentTimestamp(parts, now),
     basis |-> [c \in UNION {DOMAIN parts[u].basis : u \in DOMAIN parts} |->
        parts[CHOOSE u \in DOMAIN parts : c \in DOMAIN parts[u].basis].basis[c]]]

(* aggregate_federation and aggregate_coalition repeat aggregate_cohort with
   cohorts and federations in the place of cells. *)
AggregateFederation(parts, now) == AggregateCohort(parts, now)
AggregateCoalition(parts, now) == AggregateCohort(parts, now)

-----------------------------------------------------------------------------
(* Deltas: what a list of field updates does, removals first.  from_summary
   sets every scalar and adds every id and capability; it removes nothing. *)

CellDelta(s) == [removed |-> {}, lost |-> {}, summary |-> s]
CohortDelta(s) == CellDelta(s)
FederationDelta(s) == CellDelta(s)
CoalitionDelta(s) == CellDelta(s)

(* A delta whose caller put removals in front: RemoveMemberId of the members
   that are gone and RemoveCapability of every capability, so that none is
   listed twice. *)
WithRemovals(delta, doc) ==
    [delta EXCEPT !.removed = doc.ids \ delta.summary.ids,
                  !.lost = CapabilityType]

(* Variant: AddMemberId is not applied. *)
ApplyCellDeltaNoIds(doc, delta) ==
    [delta.summary EXCEPT
        !.ids = doc.ids \ delta.removed,
        !.capabilities = [t \in CapabilityType |-> @[t] +
            IF t \in delta.lost THEN 0 ELSE doc.capabilities[t]]]

(* apply_cell_delta: an id is added once, a capability every time. *)
ApplyCellDelta(doc, delta) ==
    [delta.summary EXCEPT
        !.ids = (doc.ids \ delta.removed) \cup @,
        !.capabilities = [t \in CapabilityType |-> @[t] +
            IF t \in delta.lost THEN 0 ELSE doc.capabilities[t]]]

(* The other tiers' functions differ in the names of their fields. *)
ApplyCohortDelta(doc, delta) == ApplyCellDelta(doc, delta)
ApplyFederationDelta(doc, delta) == ApplyCellDelta(doc, delta)
ApplyCoalitionDelta(doc, delta) == ApplyCellDelta(doc, delta)

-----------------------------------------------------------------------------
(***************************************************************************)
(* The living summary documents of the hierarchy: peat-protocol/src/       *)
(* hierarchy/aggregation_coordinator.rs over storage/                      *)
(* automerge_summary_storage.rs.  A leader aggregates what is below it and *)
(* hands the summary to create_* the first time and, as a delta, to        *)
(* update_* from then on.                                                  *)
(*                                                                         *)
(* A call checks or reads the document, stores the new one, and then       *)
(* counts it in metrics, each under a lock of its own, so calls of         *)
(* different leaders interleave at those points.  The document store is on *)
(* disk, metrics is in memory: a restart empties it.                       *)
(***************************************************************************)

CONSTANTS Unit, TierOf, Below,  \* the units, their tier, and what is below one
          NodeState, FirstState,\* the states nodes report, and the first one
          Task,                 \* concurrent callers
          Absent,
          MaxPublishes,
          MaxIncidents          \* reports, deletions and restarts

VARIABLES node,         \* what the nodes last reported
          docs,         \* the document store
          metrics,      \* the update_count of a document's metrics
          call,         \* what a task is in the middle of
          now,          \* current_timestamp, counts publishes
          applied,      \* history: deltas stored since the document was created
          overlapped,   \* history: units with overlapping calls so far
          budget        \* what the bounds still allow

vars == <<node, docs, metrics, call, now, applied, overlapped, budget>>

Idle == [op |-> "idle"]
UnitsOf(tier) == {u \in Unit : TierOf[u] = tier}

Init ==
    /\ node = [n \in Node |-> FirstState]
    /\ docs = [u \in Unit |-> Absent]
    /\ metrics = [u \in Unit |-> Absent]
    /\ call = [t \in Task |-> Idle]
    /\ now = 0
    /\ applied = [u \in Unit |-> 0]
    /\ overlapped = {}
    /\ budget = [publishes |-> MaxPublishes, incidents |-> MaxIncidents]

Spend(what) ==
    /\ budget[what] > 0
    /\ budget' = [budget EXCEPT ![what] = @ - 1]

(* A node reports a new state. *)
Report(n, state) ==
    /\ Spend("incidents")
    /\ state # node[n]
    /\ node' = [node EXCEPT ![n] = state]
    /\ UNCHANGED <<docs, metrics, call, now, applied, overlapped>>

-----------------------------------------------------------------------------
(* What the leader of a unit aggregates: get_*_summary of what is below. *)

PartsBelow(u) == Restrict(docs, {v \in Below[u] : docs[v] # Absent})
StatesBelow(u) == Restrict(node, Below[u])

CanAggregate(u) == IF TierOf[u] = "cell" THEN CanAggregateCell(StatesBelow(u))
                                         ELSE DOMAIN PartsBelow(u) # {}

Aggregate(u) ==
    CASE TierOf[u] = "cell" -> AggregateCell(u, StatesBelow(u), now + 1)
      [] TierOf[u] = "cohort" -> AggregateCohort(PartsBelow(u), now + 1)
      [] TierOf[u] = "federation" -> AggregateFederation(PartsBelow(u), now + 1)
      [] OTHER -> AggregateCoalition(PartsBelow(u), now + 1)

(* Task t starts a call on u that is to store doc. *)
Begin(t, op, u, doc) ==
    /\ call[t] = Idle
    /\ call' = [call EXCEPT ![t] = [op |-> op, unit |-> u, doc |-> doc]]
    /\ overlapped' = IF \E s \in Task : call[s] # Idle /\ call[s].unit = u
                     THEN overlapped \cup {u} ELSE overlapped

(* create_*_summary up to the check that there is no such document *)
Create(t, u) ==
    /\ CanAggregate(u)
    /\ Spend("publishes")
    /\ now' = now + 1
    /\ docs[u] = Absent
    /\ Begin(t, "create", u, Aggregate(u))
    /\ UNCHANGED <<node, docs, metrics, applied>>

(* update_*_summary up to the document it will store; the caller may or may
   not say what is gone *)
Update(t, u, FromSummary(_), Apply(_, _)) ==
    /\ CanAggregate(u)
    /\ Spend("publishes")
    /\ now' = now + 1
    /\ docs[u] # Absent
    /\ LET delta == FromSummary(Aggregate(u)) IN
       \E d \in {delta, WithRemovals(delta, docs[u])} :
          Begin(t, "update", u, Apply(docs[u], d))
    /\ UNCHANGED <<node, docs, metrics, applied>>

(* delete_*_summary *)
Delete(t, u) ==
    /\ docs[u] # Absent
    /\ Spend("incidents")
    /\ Begin(t, "deleted", u, Absent)
    /\ docs' = [docs EXCEPT ![u] = Absent]
    /\ UNCHANGED <<node, metrics, now, applied>>

CreateCellSummary(t) == \E u \in UnitsOf("cell") : Create(t, u)
CreateCohortSummary(t) == \E u \in UnitsOf("cohort") : Create(t, u)
CreateFederationSummary(t) == \E u \in UnitsOf("federation") : Create(t, u)
CreateCoalitionSummary(t) == \E u \in UnitsOf("coalition") : Create(t, u)

UpdateCellSummary(t) ==
    \E u \in UnitsOf("cell") : Update(t, u, CellDelta, ApplyCellDelta)
UpdateCohortSummary(t) ==
    \E u \in UnitsOf("cohort") : Update(t, u, CohortDelta, ApplyCohortDelta)
UpdateFederationSummary(t) ==
    \E u \in UnitsOf("federation") :
        Update(t, u, FederationDelta, ApplyFederationDelta)
UpdateCoalitionSummary(t) ==
    \E u \in UnitsOf("coalition") :
        Update(t, u, CoalitionDelta, ApplyCoalitionDelta)

DeleteCellSummary(t) == \E u \in UnitsOf("cell") : Delete(t, u)
DeleteCohortSummary(t) == \E u \in UnitsOf("cohort") : Delete(t, u)
DeleteFederationSummary(t) == \E u \in UnitsOf("federation") : Delete(t, u)
DeleteCoalitionSummary(t) == \E u \in UnitsOf("coalition") : Delete(t, u)

(* store.put *)
Put(t) ==
    /\ call[t].op \in {"create", "update"}
    /\ docs' = [docs EXCEPT ![call[t].unit] = call[t].doc]
    /\ applied' = [applied EXCEPT ![call[t].unit] =
                     IF call[t].op = "create" THEN 0 ELSE @ + 1]
    /\ call' = [call EXCEPT ![t].op = IF @ = "create" THEN "created" ELSE "updated"]
    /\ UNCHANGED <<node, metrics, now, overlapped, budget>>

Return(t) == call' = [call EXCEPT ![t] = Idle]

RecordCreate(t) ==
    /\ call[t].op = "created"
    /\ metrics' = [metrics EXCEPT ![call[t].unit] = 0]
    /\ Return(t)
    /\ UNCHANGED <<node, docs, now, applied, overlapped, budget>>

(* Variant: the first update of a document without metrics starts them. *)
RecordUpdateStarts(t) ==
    /\ call[t].op = "updated"
    /\ metrics' = [metrics EXCEPT ![call[t].unit] = IF @ = Absent THEN 1 ELSE @ + 1]
    /\ Return(t)
    /\ UNCHANGED <<node, docs, now, applied, overlapped, budget>>

RecordUpdate(t) ==
    /\ call[t].op = "updated"
    /\ metrics' = [metrics EXCEPT ![call[t].unit] = IF @ = Absent THEN @ ELSE @ + 1]
    /\ Return(t)
    /\ UNCHANGED <<node, docs, now, applied, overlapped, budget>>

RemoveMetrics(t) ==
    /\ call[t].op = "deleted"
    /\ metrics' = [metrics EXCEPT ![call[t].unit] = Absent]
    /\ Return(t)
    /\ UNCHANGED <<node, docs, now, applied, overlapped, budget>>

Restart ==
    /\ Spend("incidents")
    /\ metrics' = [u \in Unit |-> Absent]
    /\ call' = [t \in Task |-> Idle]
    /\ UNCHANGED <<node, docs, now, applied, overlapped>>

Next ==
    \/ \E n \in Node, state \in NodeState : Report(n, state)
    \/ \E t \in Task :
        \/ CreateCellSummary(t) \/ UpdateCellSummary(t) \/ DeleteCellSummary(t)
        \/ CreateCohortSummary(t) \/ UpdateCohortSummary(t)
        \/ DeleteCohortSummary(t)
        \/ CreateFederationSummary(t) \/ UpdateFederationSummary(t)
        \/ DeleteFederationSummary(t)
        \/ CreateCoalitionSummary(t) \/ UpdateCoalitionSummary(t)
        \/ DeleteCoalitionSummary(t)
        \/ Put(t) \/ RecordCreate(t) \/ RecordUpdate(t) \/ RemoveMetrics(t)
    \/ Restart

Spec == Init /\ [][Next]_vars

-----------------------------------------------------------------------------
Doc == [ids : SUBSET (Node \cup Unit), total : 1..Cardinality(Node),
        operational : 1..Cardinality(Node), fuel : Nat, health : 1..3,
        readiness : 0..Scale, capabilities : [CapabilityType -> Nat],
        low : Int, high : Int, aggregated_at : Nat,
        basis : UNION {[cells -> UNION {[ns -> NodeState] : ns \in SUBSET Node}] :
                         cells \in SUBSET UnitsOf("cell")}]

(* Every document has the shape of a summary of at least one and at most all
   nodes, none of them failed, and a task is idle or in one of a call's
   steps. *)
TypeOK ==
    /\ node \in [Node -> NodeState]
    /\ \A u \in Unit : docs[u] # Absent => docs[u] \in Doc
    /\ metrics \in [Unit -> Nat \cup {Absent}]
    /\ \A t \in Task : call[t] = Idle
          \/ /\ call[t].op \in {"create", "update", "created", "updated", "deleted"}
             /\ call[t].unit \in Unit
             /\ call[t].op # "deleted" => call[t].doc \in Doc
    /\ now \in Nat /\ applied \in [Unit -> Nat] /\ overlapped \subseteq Unit

Total(doc, f(_)) == MapThenSumSet(LAMBDA c : f(doc.basis[c]), DOMAIN doc.basis)
States(doc) == UNION {Range(doc.basis[c]) : c \in DOMAIN doc.basis}

(* Whatever path the numbers took through the tiers, a stored summary says of
   the nodes it was computed from exactly what aggregating them directly would
   say: no failed one is counted, none is counted twice, averages of averages are averages,
   the worst health and the extent of the positions are theirs. *)
SummaryTellsBasis ==
    \A u \in {v \in Unit : docs[v] # Absent} :
        LET doc == docs[u]
            located == {s.position : s \in States(doc)} \ {NoPosition}
        IN /\ doc.total = Total(doc, LAMBDA m : Cardinality(DOMAIN m))
           /\ doc.operational = doc.total
           /\ doc.fuel * doc.total = Scale * Total(doc,
                 LAMBDA m : MapThenSumSet(LAMBDA n : m[n].fuel, DOMAIN m))
           /\ doc.readiness * doc.total = Total(doc,
                 LAMBDA m : Readiness[DOMAIN m] * Cardinality(DOMAIN m))
           /\ \A s \in States(doc) : s.health # Failed
           /\ doc.health = Max({s.health : s \in States(doc)})
           /\ doc.low = Min(located) /\ doc.high = Max(located)

IsUnder(c, v) == \/ c = v \/ c \in Below[v]
                 \/ \E w \in Below[v] \cap Unit : c \in Below[w]

(* A summary names every node, or every unit with the cells, that it counts,
   and every type of capability they have, whatever the deltas removed. *)
NothingLeftOut ==
    \A u \in {v \in Unit : docs[v] # Absent} :
        \A c \in DOMAIN docs[u].basis :
            LET nodes == DOMAIN docs[u].basis[c] IN
            /\ IF TierOf[u] = "cell" THEN nodes \subseteq docs[u].ids
               ELSE \E v \in docs[u].ids : IsUnder(c, v)
            /\ \A t \in UNION {Capabilities[n] : n \in nodes} :
                  docs[u].capabilities[t] > 0

(* While the calls on a document do not overlap, update_count, if there are
   metrics at all, is the number of deltas stored since it was created; a
   restart may lose the metrics but not leave a wrong count. *)
MetricsCountUpdates ==
    \A u \in Unit \ overlapped :
        (metrics[u] # Absent /\ \A t \in Task : call[t] # Idle => call[t].unit # u)
        => docs[u] # Absent /\ metrics[u] = applied[u]

(* While the calls on a document do not overlap, it is never replaced by an
   older summary. *)
NeverOlder ==
    [][\A u \in Unit \ overlapped' :
         (docs[u] # Absent /\ docs'[u] # Absent)
         => docs'[u].aggregated_at >= docs[u].aggregated_at]_vars

=============================================================================
