------------------------------- MODULE Nodes --------------------------------
(* What is known of nodes: their states behind a throttled store, the roles they
   fit, the queries for their capabilities, and whom a deployment is for; four
   state machines. *)
EXTENDS FiniteSets, Integers, FiniteSetsExt, Sequences, SequencesExt

(***************************************************************************)
(* models/node.rs, the state of a node, and the two stores it goes to:     *)
(* storage/node_store.rs and, in front of it, the throttle of              *)
(* storage/throttled_node_store.rs.                                        *)
(*                                                                         *)
(* flush keeps pending_updates locked from its first look at it until it   *)
(* has cleared it, over one await per node; update_state takes the same    *)
(* lock to queue a state and looks at the clock afterwards.  Every change  *)
(* of a node's state sets its one timestamp, in whole seconds.             *)
(***************************************************************************)

CONSTANTS Node, Caller,
          Cells,          \* cells a node may be in
          sync_interval,
          MaxFuel,        \* u32::MAX, where replenish_fuel saturates
          MaxTime, MaxChanges, MaxCalls, MaxFaults   \* bounds

VARIABLES now, faults, calls, changes,
          own,        \* own[n]: the state node n keeps of itself
          stored,     \* stored[n]: its document in the node_states collection
          pending,    \* pending_updates
          holder,     \* who holds the lock on pending_updates
          last_sync,
          step,       \* step[c]: where caller c is
          copy,       \* copy[n]: the state of n that a peer keeps
          latest,     \* history: the last state of n that was queued
          failed      \* history: that one could not be stored

stateVars == <<now, faults, calls, changes, own, stored, pending, holder, last_sync, step, copy, latest, failed>>
store == <<stored, pending, holder, last_sync, step, latest, failed, calls, faults>>

NoState == [timestamp |-> 99]
Idle == [at |-> "idle"]

NewState(n) == [fuel |-> 1, health |-> "Nominal", phase |-> "Discovery", cell |-> "none", timestamp |-> 0]

StateInit ==
  /\ now = 0 /\ faults = 0 /\ calls = 0 /\ changes = 0
  /\ own = [n \in Node |-> NewState(n)] /\ copy = own
  /\ stored = [n \in Node |-> NoState] /\ pending = stored /\ latest = stored
  /\ holder = "nobody" /\ last_sync = 0 /\ step = [c \in Caller |-> Idle]
  /\ failed = [n \in Node |-> FALSE]

Tick == now < MaxTime /\ now' = now + 1 /\ UNCHANGED <<store, own, copy, changes>>

----------------------------------------------------------------------------
\* NodeStateExt

\* update_timestamp ends every change
Change(n, s) ==
  /\ changes < MaxChanges /\ changes' = changes + 1
  /\ own' = [own EXCEPT ![n] = [s EXCEPT !.timestamp = now]]
  /\ UNCHANGED <<now, store, copy>>

StateUpdateHealth(n, h) == Change(n, [own[n] EXCEPT !.health = h])
UpdatePhase(n, p) == Change(n, [own[n] EXCEPT !.phase = p])
\* assign_cell and leave_cell; update_position, assign_zone and leave_zone are alike
AssignCell(n, c) == Change(n, [own[n] EXCEPT !.cell = c])
LeaveCell(n) == Change(n, [own[n] EXCEPT !.cell = "none"])
ConsumeFuel(n, k) == Change(n, [own[n] EXCEPT !.fuel = IF @ < k THEN 0 ELSE @ - k])
ReplenishFuel(n, k) == Change(n, [own[n] EXCEPT !.fuel = IF @ + k > MaxFuel THEN MaxFuel ELSE @ + k])

IsOperational(s) == s.health # "Failed" /\ s.fuel > 0

\* Variant: the fuel is taken for a counter of its own
MergedKeepsFuel(a, b) == IF b.timestamp > a.timestamp THEN [b EXCEPT !.fuel = a.fuel] ELSE a

Merged(a, b) == IF b.timestamp > a.timestamp THEN b ELSE a

\* the peer receives the document of n
Merge(n) ==
  /\ stored[n] # NoState
  /\ copy' = [copy EXCEPT ![n] = Merged(@, stored[n])]
  /\ UNCHANGED <<now, store, own, changes>>

----------------------------------------------------------------------------
\* ThrottledNodeStore

At(c, where) == step[c].at = where
To(c, s) == step' = [step EXCEPT ![c] = s]
Queued == {n \in Node : pending[n] # NoState}

\* update_state is called with the state of n as it is now, or flush is
Call(c) ==
  /\ At(c, "idle") /\ calls < MaxCalls /\ calls' = calls + 1
  /\ To(c, [at |-> "lock"]) \/ \E n \in Node : To(c, [at |-> "insert", node |-> n, state |-> own[n]])
  /\ UNCHANGED <<now, own, changes, copy, stored, pending, holder, last_sync, latest, failed, faults>>

\* Variant: a state is queued while a flush is under way
InsertUnlocked(c) ==
  /\ At(c, "insert")
  /\ pending' = [pending EXCEPT ![step[c].node] = step[c].state]
  /\ latest' = [latest EXCEPT ![step[c].node] = step[c].state]
  /\ failed' = [failed EXCEPT ![step[c].node] = FALSE]
  /\ To(c, [at |-> "check"])
  /\ UNCHANGED <<now, own, changes, copy, stored, holder, last_sync, calls, faults>>

Insert(c) ==
  /\ At(c, "insert") /\ holder = "nobody"
  /\ pending' = [pending EXCEPT ![step[c].node] = step[c].state]
  /\ latest' = [latest EXCEPT ![step[c].node] = step[c].state]
  /\ failed' = [failed EXCEPT ![step[c].node] = FALSE]
  /\ To(c, [at |-> "check"])
  /\ UNCHANGED <<now, own, changes, copy, stored, holder, last_sync, calls, faults>>

\* should_sync
Check(c) ==
  /\ At(c, "check")
  /\ To(c, IF now >= last_sync + sync_interval THEN [at |-> "lock"] ELSE Idle)
  /\ UNCHANGED <<now, own, changes, copy, stored, pending, holder, last_sync, latest, failed, calls, faults>>

\* flush takes the lock; with nothing to do it returns
Lock(c) ==
  /\ At(c, "lock") /\ holder = "nobody"
  /\ IF Queued = {} THEN To(c, Idle) /\ UNCHANGED holder
     ELSE To(c, [at |-> "flush", todo |-> Queued]) /\ holder' = c
  /\ UNCHANGED <<now, own, changes, copy, stored, pending, last_sync, latest, failed, calls, faults>>

\* store_state of one node of the map, which may fail: it is not tried again
Store(c) ==
  /\ At(c, "flush")
  /\ \E n \in step[c].todo :
       /\ To(c, [at |-> "flush", todo |-> step[c].todo \ {n}])
       /\ \/ stored' = [stored EXCEPT ![n] = pending[n]] /\ UNCHANGED <<failed, faults>>
          \/ /\ faults < MaxFaults /\ faults' = faults + 1
             /\ failed' = [failed EXCEPT ![n] = TRUE] /\ UNCHANGED stored
  /\ UNCHANGED <<now, own, changes, copy, pending, holder, last_sync, latest, calls>>

Flushed(c) ==
  /\ At(c, "flush") /\ step[c].todo = {}
  /\ pending' = [n \in Node |-> NoState] /\ last_sync' = now /\ holder' = "nobody"
  /\ To(c, Idle)
  /\ UNCHANGED <<now, own, changes, copy, stored, latest, failed, calls, faults>>

\* delete_state of the inner store; a queued state will bring the document back
DeleteState(n) ==
  /\ stored[n] # NoState
  /\ stored' = [stored EXCEPT ![n] = NoState] /\ latest' = [latest EXCEPT ![n] = NoState]
  /\ UNCHANGED <<now, own, changes, copy, pending, holder, last_sync, step, failed, calls, faults>>

StateNext ==
  \/ Tick
  \/ \E n \in Node :
       \/ (\E h \in {"Nominal", "Failed"} : StateUpdateHealth(n, h)) \/ UpdatePhase(n, "Cell")
       \/ LeaveCell(n) \/ (\E c \in Cells : AssignCell(n, c))
       \/ ConsumeFuel(n, 2) \/ ReplenishFuel(n, 2)
       \/ Merge(n) \/ DeleteState(n)
  \/ \E c \in Caller : Call(c) \/ Insert(c) \/ Check(c) \/ Lock(c) \/ Store(c) \/ Flushed(c)

----------------------------------------------------------------------------
\* NodeStore's queries
Document == {n \in Node : stored[n] # NoState}
GetNodesByCell(cell) == {n \in Document : stored[n].cell = cell}
GetOperationalNodes == {n \in Document : stored[n].fuel > 0 /\ IsOperational(stored[n])}

\* update_state, flush: the last state of a node that was queued is still queued
\* or has been stored, whatever calls overlap, unless storing it failed (flush
\* then returned an error) or the document was deleted since.
UpdatesAreKept ==
  \A n \in Node : latest[n] # NoState => latest[n] \in {pending[n], stored[n]} \/ failed[n]

\* get_operational_nodes, get_nodes_by_cell: what the store answers about a node
\* with nothing queued is what the node last said.
AnswersAreCurrent ==
  \A n \in Node : latest[n] # NoState /\ pending[n] = NoState /\ ~failed[n] =>
    /\ n \in GetOperationalNodes <=> IsOperational(latest[n])
    /\ \A cell \in Cells : n \in GetNodesByCell(cell) <=> latest[n].cell = cell

\* NodeState::merge: two states of a node from different seconds merge to the
\* same state in either order, in every field.
MergesAgree ==
  \A n \in Node : \A a, b \in {own[n], copy[n], stored[n]} \ {NoState} :
    a.timestamp # b.timestamp => Merged(a, b) = Merged(b, a)

-----------------------------------------------------------------------------
(***************************************************************************)
(* models/role.rs: how well a node fits the roles of a cell, by its        *)
(* capabilities, its operator's occupation (MOS) and its health, which     *)
(* change.  Confidences are tenths; a score is in 1/1400, which every      *)
(* average and the missing weight of a node without operator divide.       *)
(***************************************************************************)

CONSTANTS RoleLibrary,    \* the capabilities: [id, type, confidence]
          Occupations,
          RoleMaxCaps     \* bound on the capabilities of the node

VARIABLES caps, mos, health

NoOperator == "no operator"
RoleInit == caps = {} /\ mos \in Occupations \cup {NoOperator} /\ health = "Nominal"

RoleAddCapability(cap) ==
  /\ Cardinality(caps) < RoleMaxCaps /\ \A c \in caps : c.id # cap.id
  /\ caps' = caps \cup {cap} /\ UNCHANGED <<mos, health>>
RoleUpdateHealth(h) == health' = h /\ UNCHANGED <<caps, mos>>

----------------------------------------------------------------------------
AssignableRoles == {"Sensor", "Compute", "Relay", "Strike", "Support", "Follower"}
RequiredCapabilities ==
  [r \in AssignableRoles |->
     CASE r = "Sensor" -> {"Sensor"} [] r = "Compute" -> {"Compute"} [] r = "Relay" -> {"Communication"}
       [] r = "Strike" -> {"Payload"} [] OTHER -> {}]
PreferredCapabilities ==
  [r \in AssignableRoles |->
     CASE r \in {"Sensor", "Compute"} -> {"Communication"} [] r = "Relay" -> {"Sensor"}
       [] r = "Strike" -> {"Sensor", "Compute"} [] r = "Support" -> {"Mobility"} [] OTHER -> {}]
RelevantMos ==
  [r \in AssignableRoles |->
     CASE r = "Sensor" -> {"19D", "35M", "35N"} [] r = "Compute" -> {"35F", "35N", "17C"}
       [] r = "Relay" -> {"25U", "25B", "25Q"} [] r = "Strike" -> {"11B", "11C", "19K"}
       [] r = "Support" -> {"68W", "88M", "91B"} [] OTHER -> {}]

Has(type, S) == \E c \in S : c.type = type
RoleBest(type, S) == Max({c.confidence : c \in {d \in S : d.type = type}})
Average(types, S) == MapThenSumSet(LAMBDA t : 2 * RoleBest(t, S), types) \div Cardinality(types)

\* in twentieths; no role requires more than one type
ScoreRequired(r, S) == IF RequiredCapabilities[r] = {} THEN 20 ELSE Average(RequiredCapabilities[r], S)

\* the average of those the node has, neutral when it has none
ScorePreferred(r, S) ==
  LET found == {t \in PreferredCapabilities[r] : Has(t, S)} IN
  IF PreferredCapabilities[r] = {} THEN 20 ELSE IF found = {} THEN 10 ELSE Average(found, S)

ScoreOperatorMos(r) == IF RelevantMos[r] = {} THEN 10 ELSE IF mos \in RelevantMos[r] THEN 18 ELSE 6
ScoreNodeHealth(h) ==
  CASE h = "Nominal" -> 20 [] h = "Degraded" -> 12 [] h = "Critical" -> 6 [] h = "Failed" -> 0 [] OTHER -> 10

CanFill(r, S) == \A t \in RequiredCapabilities[r] : Has(t, S)

\* without an operator the weights sum to seven tenths
ScoreNodeForRole(r, S, h) ==
  LET sum == 3 * ScoreRequired(r, S) + 2 * ScorePreferred(r, S) + 2 * ScoreNodeHealth(h)
  IN IF mos = NoOperator THEN 10 * sum ELSE 7 * (sum + 3 * ScoreOperatorMos(r))

ScoreAllRoles(S) == {r \in AssignableRoles : CanFill(r, S)}

\* max_by over a hash map: any of the roles that score most
BestRoles(S, h) ==
  {r \in ScoreAllRoles(S) : \A q \in ScoreAllRoles(S) : ScoreNodeForRole(q, S, h) <= ScoreNodeForRole(r, S, h)}

Health == {"Nominal", "Degraded", "Critical", "Failed", "Unspecified"}
RoleNext == (\E cap \in RoleLibrary : RoleAddCapability(cap)) \/ (\E h \in Health : RoleUpdateHealth(h))

----------------------------------------------------------------------------
\* score_node_for_role: a capability that is at least neutral and as sure as any
\* the node has never takes a role from it nor lowers its score for a role.
GainsNeverCost ==
  \A cap \in RoleLibrary \ caps :
    cap.confidence >= 5 /\ (\A c \in caps : c.confidence <= cap.confidence) =>
      \A r \in ScoreAllRoles(caps) :
        /\ CanFill(r, caps \cup {cap})
        /\ ScoreNodeForRole(r, caps \cup {cap}, health) >= ScoreNodeForRole(r, caps, health)

\* best_role_for_node: the health of a node changes its scores and never which
\* role is best, and a node without an operator is given a special role only if
\* it could be a follower as well: what a role requires and prefers counts in
\* full for Follower, which names nothing.
HealthDoesNotDecide ==
  /\ BestRoles(caps, health) = BestRoles(caps, "Nominal")
  /\ mos = NoOperator => "Follower" \in BestRoles(caps, health)

-----------------------------------------------------------------------------
(***************************************************************************)
(* discovery/capability_query.rs: which nodes (or cells: query_cells is    *)
(* the same code) answer a capability query and how they rank, while the   *)
(* nodes gain capabilities (NodeConfig::add_capability).  Confidences are  *)
(* tenths and a score is in twelfths of a hundredth, which the averages    *)
(* over at most two types and three capabilities divide exactly.           *)
(***************************************************************************)

CONSTANTS QueryLibrary,    \* the capabilities: [id, type, confidence]
          Queries,    \* [required_types, optional_types, min_confidence, min_capability_count, limit]
          Count,      \* how many nodes are asked about
          QueryMaxCaps     \* bound on the capabilities of one node

VARIABLES query,
          nodes       \* nodes[i]: the capabilities of the i-th node

QueryInit == query \in Queries /\ nodes = [i \in 1..Count |-> {}]

\* a capability with an id the node has is ignored
QueryAddCapability(i, cap) ==
  /\ Cardinality(nodes[i]) < QueryMaxCaps
  /\ \A c \in nodes[i] : c.id # cap.id
  /\ nodes' = [nodes EXCEPT ![i] = @ \cup {cap}] /\ UNCHANGED query

QueryNext == \E i \in 1..Count, cap \in QueryLibrary : QueryAddCapability(i, cap)

----------------------------------------------------------------------------
Total(S) == MapThenSumSet(LAMBDA c : c.confidence, S)
Of(type, offered) == {c \in offered : c.type = type}
QueryBest(type, offered) == Max({0} \cup {c.confidence : c \in Of(type, offered)})

QueryMatches(q, offered) ==
  /\ Cardinality(offered) >= q.min_capability_count
  /\ \A k \in DOMAIN q.required_types :
       \E c \in Of(q.required_types[k], offered) : c.confidence >= q.min_confidence

\* the average over the types a query names, full when it names none
OverTypes(types, offered) ==
  IF types = <<>> THEN 120
  ELSE (12 * FoldFunction(+, 0, [k \in DOMAIN types |-> QueryBest(types[k], offered)])) \div Len(types)

Score(q, offered) ==
  IF offered = {} THEN 0
  ELSE 6 * OverTypes(q.required_types, offered) + 3 * OverTypes(q.optional_types, offered)
       + (12 * Total(offered)) \div Cardinality(offered)

Shorter(s, n) == SubSeq(s, 1, IF Len(s) < n THEN Len(s) ELSE n)

Ranked(q, list, found) ==
  LET before(i, j) == \/ Score(q, list[i]) > Score(q, list[j])
                      \/ Score(q, list[i]) = Score(q, list[j]) /\ i < j
  IN SetToSortSeq(found, before)

\* Variant: the list is cut before it is sorted
QueryNodesCutFirst(q, list) ==
  LET found == {i \in DOMAIN list : QueryMatches(q, list[i])}
  IN Ranked(q, list, {i \in found : Cardinality({j \in found : j < i}) < q.limit})

\* filter, score, a stable sort by falling score, truncate; the answer is the
\* places of the nodes in the list
QueryNodes(q, list) ==
  Shorter(Ranked(q, list, {i \in DOMAIN list : QueryMatches(q, list[i])}), q.limit)

\* node_capability_stats: the figures of one type over all nodes
NodeCapabilityStats(type) ==
  LET all == UNION {{<<i, c>> : c \in Of(type, nodes[i])} : i \in DOMAIN nodes}
  IN [count |-> Cardinality(all), max |-> Max({0} \cup {p[2].confidence : p \in all})]

----------------------------------------------------------------------------
Backwards == [i \in 1..Count |-> nodes[Count + 1 - i]]
Tied == \E i, j \in 1..Count : i # j /\ Score(query, nodes[i]) = Score(query, nodes[j])

\* query_nodes: the nodes are answered in the same order whatever order they are
\* listed in, unless two have the same score.
RankingIgnoresOrder ==
  Tied \/ QueryNodes(query, Backwards) = [k \in DOMAIN QueryNodes(query, nodes) |->
                                            Count + 1 - QueryNodes(query, nodes)[k]]

\* matches, score: one more capability never makes a node cease to match, and
\* when it is as sure as the node's others on average the score does not fall.
MoreNeverLoses ==
  \A i \in 1..Count : \A cap \in QueryLibrary \ nodes[i] :
    LET more == nodes[i] \cup {cap} IN
    /\ QueryMatches(query, nodes[i]) => QueryMatches(query, more)
    /\ nodes[i] # {} /\ Cardinality(more) <= QueryMaxCaps
         /\ cap.confidence * Cardinality(nodes[i]) >= Total(nodes[i])
       => Score(query, more) >= Score(query, nodes[i])

\* query_nodes, node_capability_stats: a query for one type alone finds a node
\* exactly when the statistics show that type with enough confidence.
StatsForetell ==
  Len(query.required_types) = 1 /\ query.min_capability_count = 0 /\ query.limit > 0 =>
    LET stats == NodeCapabilityStats(query.required_types[1]) IN
    QueryNodes(query, nodes) # <<>> <=> stats.count > 0 /\ stats.max >= query.min_confidence

-----------------------------------------------------------------------------
(***************************************************************************)
(* distribution/directive.rs and distribution/capability_matcher.rs: whom  *)
(* a deployment directive is for.  A node's advertisement fills up while   *)
(* the directive stands; callers that only have a node's name use          *)
(* targets_node, callers that have its advertisement use targets.          *)
(*                                                                         *)
(* A capability string is <<word, padded>>: its upper-cased word and       *)
(* whether there is white space around it.                                 *)
(***************************************************************************)

CONSTANTS Formation,
          Word,       \* words in requirements and advertisements
          Figure,     \* values of hardware figures and of custom keys
          MaxReports  \* bound: how often an advertisement grows

VARIABLES directive, adv, reports

deploymentVars == <<directive, adv, reports>>

Unset == "none"
Bounds == {"gpu_memory_mb", "memory_mb", "storage_mb"}
Custom == {"site"}

\* a partial map of hardware keys to figures; a filter has at most one here
Partial(keys) == {<<>>} \cup UNION {[{k} -> Figure] : k \in keys}

\* a directive under construction: the scope is one of DeploymentScope's
Scopes ==
       {[kind |-> "Broadcast"]}
  \cup [kind : {"Formation"}, formation : Formation]
  \cup [kind : {"Nodes"}, nodes : SUBSET Node]
  \cup [kind : {"Capability"}, minimum : Partial(Bounds), custom : Partial(Custom),
        required : {{}} \cup {{<<w, padded>>} : w \in Word, padded \in BOOLEAN}]

New(scope, issuer) == [scope |-> scope, issuer_formation |-> issuer]

\* nothing but its name is known of the node; hardware is None as a whole
DeploymentInit ==
  /\ directive \in {New(s, i) : s \in Scopes, i \in Formation \cup {Unset}}
  /\ adv \in [node : Node, formation : {Unset}, hardware : {<<>>}, capabilities : {{}}]
  /\ reports = 0

----------------------------------------------------------------------------
\* capability_matcher.rs

\* sensor_type_from_string, then code()
Code(word) ==
  CASE word \in {"EO", "ELECTRO_OPTICAL", "ELECTROOPTICAL", "ELECTRO-OPTICAL"} -> "EO"
    [] word \in {"IR", "INFRARED"}  -> "IR"
    [] word \in {"RAD", "RADAR"}    -> "RAD"
    [] word \in {"SON", "SONAR"}    -> "SON"
    [] word \in {"ACO", "ACOUSTIC"} -> "ACO"
    [] word \in {"SIGINT", "MAD"}   -> word
    [] OTHER -> Unset

\* the direct comparison trims both sides, the one with the code neither
CapabilityMatchesAny(req, advertised) ==
  \/ \E c \in advertised : c[1] = req[1]
  \/ Code(req[1]) # Unset /\ <<Code(req[1]), FALSE>> \in advertised

HardwareBoundSatisfied(hardware, k, req) == k \in DOMAIN hardware /\ hardware[k] >= req

CustomSatisfied(hardware, k, v) == k \in DOMAIN hardware /\ hardware[k] = v

DeploymentMatches(a, filter) ==
  /\ \A k \in DOMAIN filter.minimum : HardwareBoundSatisfied(a.hardware, k, filter.minimum[k])
  /\ \A k \in DOMAIN filter.custom : CustomSatisfied(a.hardware, k, filter.custom[k])
  /\ \A req \in filter.required : CapabilityMatchesAny(req, a.capabilities)

----------------------------------------------------------------------------
\* directive.rs


IsUnconstrained(filter) ==
  filter.minimum = <<>> /\ filter.required = {} /\ filter.custom = <<>>

TargetsNode(d, n) ==
  CASE d.scope.kind = "Broadcast"  -> TRUE
    [] d.scope.kind = "Formation"  -> d.issuer_formation = d.scope.formation
    [] d.scope.kind = "Nodes"      -> n \in d.scope.nodes
    [] d.scope.kind = "Capability" -> IsUnconstrained(d.scope)

Targets(d, a) ==
  CASE d.scope.kind = "Broadcast"  -> TRUE
    [] d.scope.kind = "Formation"  -> \/ a.formation = d.scope.formation
                                      \/ /\ a.formation = Unset
                                         /\ d.issuer_formation = d.scope.formation
    [] d.scope.kind = "Nodes"      -> a.node \in d.scope.nodes
    [] d.scope.kind = "Capability" -> DeploymentMatches(a, d.scope)

----------------------------------------------------------------------------
\* The node's advertisement grows

Grow(a) == reports < MaxReports /\ adv' = a /\ reports' = reports + 1 /\ UNCHANGED directive

Report(k, v) ==
  /\ k \notin DOMAIN adv.hardware
  /\ Grow([adv EXCEPT !.hardware = [x \in DOMAIN @ \cup {k} |-> IF x = k THEN v ELSE @[x]]])

Advertise(w, padded) == Grow([adv EXCEPT !.capabilities = @ \cup {<<w, padded>>}])

Join(f) == adv.formation = Unset /\ Grow([adv EXCEPT !.formation = f])

DeploymentNext ==
  \/ \E k \in Bounds \cup Custom, v \in Figure : Report(k, v)
  \/ \E w \in Word, padded \in BOOLEAN : Advertise(w, padded)
  \/ \E f \in Formation : Join(f)

----------------------------------------------------------------------------
\* targets_node, targets: whoever the name alone admits, the advertisement
\* admits too, however much of it has arrived; a formation's directive is the
\* exception, once the node has joined another formation.
IdAloneIsConservative ==
  TargetsNode(directive, adv.node) =>
    \/ Targets(directive, adv)
    \/ directive.scope.kind = "Formation" /\ adv.formation \notin {Unset, directive.scope.formation}

=============================================================================
