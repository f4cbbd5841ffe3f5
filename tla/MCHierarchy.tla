---------------------------- MODULE MCHierarchy ----------------------------
(* What goes on between tiers: overlapping calls of the election, the replicas
   and the judge of a zone, bootstrap by assignment, discovery by beacons, and
   events on their way to the parent, and queries for events.  Every behaviour exercises one of these,
   chosen by part; none fills what a part does not use. *)
EXTENDS Naturals, Sequences, FiniteSets

CONSTANTS none

VARIABLES part, now, status,
          state, current_round, current_leader, leader_heartbeat, log, cursor, handler, monitor, operator, overrides,
          zone, backed,
          members, issued, held, step, phase, started, tracked, assigned, forced, overlapped,
          at, air, clusters,
          emitted, outbound_queue, local_store, handoff, queues, tokens, dropped, overflow_policy, link,
          windows, passthrough_queue, queryable_store, summary_queue, parent,
          event_store, subordinate_ids, clock

Cap(t, c) == [type |-> t, confidence |-> c]
Kind(level, mode, type, size) == [level |-> level, mode |-> mode, type |-> type, size |-> size]

(* Two nodes, each with two calls in progress at once. *)
Election == INSTANCE LeaderElection WITH
    Node <- 1..2, None <- none, MaxTasks <- 2, MaxRound <- 3, MaxLog <- 2, MaxOverrides <- 1
(* Two cells that offer one type with different confidence, one filled enough and
   one not; only a merge brings a zone both. *)
Judged == INSTANCE Zones WITH
    Replica <- {1, 2}, Judges <- {1}, Cell <- {"x", "y"}, Leader <- {"l"},
    Offers <- [x |-> <<Cap("Sensor", 5)>>, y |-> <<Cap("Sensor", 8), Cap("Compute", 5)>>],
    Fill <- [x |-> 1, y |-> 4], CellSize <- 4, max_cells <- 1, min_cells <- 1, min_readiness <- 50,
    MaxTime <- 1
(* Two orders that concern one node, and a roster with or without the other. *)
Discovering == INSTANCE Discovery WITH
    Node <- {"a", "b"}, Cell <- {"x", "y"}, MinSize <- 2, MaxSize <- 2, AssignmentTimeout <- 0,
    BootstrapTimeout <- 1, MaxTime <- 1, Rosters <- {{"a"}, {"a", "b"}},
    Orders <- {[cell |-> "x", nodes |-> {"a", "b"}], [cell |-> "y", nodes |-> {"a"}]},
    Scout <- 1..3, Listener <- {1, 2}, Mover <- {3}, Geohash <- {"g", "h"}, TTL <- 0, MAX_SIZE <- 3,
    MaxAir <- 4
Stored(id, class, type, time, ttl) ==
    [id |-> id, class |-> class, type |-> type, time |-> time, source |-> IF class = "anomaly" THEN "t" ELSE "s",
     ttl |-> ttl]
Filter(class, type, after, before, source) ==
    [class |-> class, type |-> type, after |-> after, before |-> before, source |-> source]
(* Events of every mode and level that compete for small queues; queries about events
   that share an id, a second or a type, or have no time. *)
Events == INSTANCE EventPipeline WITH
    Kinds <- {Kind(0, "Full", "alert", 2), Kind(1, "Full", "alert", 1), Kind(2, "Full", "track", 1),
              Kind(2, "Summary", "track", 1), Kind(3, "Summary", "alert", 1), Kind(3, "Query", "track", 1)},
    Type <- {"alert", "track"}, max_queue_sizes <- [l \in 0..3 |-> 1], Capacity <- [l \in 0..3 |-> 2],
    max_events <- 2, None <- none, MaxEvents <- 3,
    Storable <- {Stored(1, "product", <<"track">>, 1, 1), Stored(1, "product", <<"track">>, 2, 0),
                 Stored(2, "product", <<"track", "air">>, 2, 1), Stored(2, "anomaly", <<"alert">>, none, 1)},
    Asked <- "a", Below <- {"b", "c"}, FormationId <- "f", MaxLimit <- 2, MaxClock <- 2,
    Filters <- {Filter(none, none, none, none, none), Filter("product", <<"track">>, 2, none, none),
                Filter(none, <<"track">>, none, 1, "s"), Filter(none, none, none, none, "t")}

ASSUME /\ Discovering!BootstrapAssumption /\ Discovering!BeaconAssumption
       /\ Events!PipelineAssumption

electionVars == <<state, current_round, current_leader, leader_heartbeat, log, cursor, handler, monitor,
    operator, overrides>>
zonesVars == <<zone, backed>>
bootstrapVars == <<members, issued, held, step, phase, started, tracked, assigned, forced, overlapped>>
beaconsVars == <<at, air, clusters>>
eventsVars == <<emitted, outbound_queue, local_store, handoff, queues, tokens, dropped, overflow_policy,
    link, windows, passthrough_queue, queryable_store, summary_queue, parent>>
queryVars == <<event_store, subordinate_ids, clock>>
vars == <<part, now, status, electionVars, zonesVars, bootstrapVars, beaconsVars, eventsVars, queryVars>>

ElectionStart ==
    IF part = "election" THEN Election!Init
    ELSE /\ state = none /\ current_round = none /\ current_leader = none /\ leader_heartbeat = none
         /\ log = none /\ cursor = none /\ handler = none /\ monitor = none /\ operator = none
         /\ overrides = none
JudgedStart ==
    IF part = "zones" THEN Judged!Init
    ELSE /\ zone = none /\ backed = none
AssigningStart ==
    IF part = "bootstrap" THEN Discovering!BootstrapInit
    ELSE /\ members = none /\ issued = none /\ held = none /\ step = none /\ phase = none /\ started = none
         /\ tracked = none /\ assigned = none /\ forced = none /\ overlapped = none
BeaconsStart ==
    IF part = "beacons" THEN Discovering!BeaconInit
    ELSE /\ at = none /\ air = none /\ clusters = none
EventsStart ==
    IF part = "events" THEN Events!Init
    ELSE /\ emitted = none /\ outbound_queue = none /\ local_store = none /\ handoff = none /\ queues = none
         /\ tokens = none /\ dropped = none /\ overflow_policy = none /\ link = none /\ windows = none
         /\ passthrough_queue = none /\ queryable_store = none /\ summary_queue = none /\ parent = none
QueriesStart ==
    IF part = "queries" THEN Events!QueryInit
    ELSE /\ event_store = none /\ subordinate_ids = none /\ clock = none

Init ==
    /\ part \in {"election", "zones", "bootstrap", "beacons", "events", "queries"}
    /\ ElectionStart /\ JudgedStart /\ AssigningStart /\ BeaconsStart /\ EventsStart /\ QueriesStart
    /\ now = none \/ part \in {"zones", "bootstrap", "beacons"}
    /\ status = none \/ part \in {"zones", "bootstrap"}

InElection ==
    part = "election" /\ UNCHANGED <<part, now, status, zonesVars, bootstrapVars, beaconsVars,
        eventsVars, queryVars>>
InJudged ==
    part = "zones" /\ UNCHANGED <<part, electionVars, bootstrapVars, beaconsVars, eventsVars, queryVars>>
InAssigning ==
    part = "bootstrap" /\ UNCHANGED <<part, electionVars, zonesVars, beaconsVars,
        eventsVars, queryVars>>
InBeacons ==
    part = "beacons" /\ UNCHANGED <<part, status, electionVars, zonesVars, bootstrapVars,
        eventsVars, queryVars>>
InEvents ==
    part = "events" /\ UNCHANGED <<part, now, status, electionVars, zonesVars, bootstrapVars,
        beaconsVars, queryVars>>
InQueries ==
    part = "queries" /\ UNCHANGED <<part, now, status, electionVars, zonesVars, bootstrapVars,
        beaconsVars, eventsVars>>

Next ==
    \/ InElection /\ Election!Next
    \/ InJudged /\ Judged!Next
    \/ InAssigning /\ Discovering!BootstrapNext
    \/ InBeacons /\ Discovering!BeaconNext
    \/ InEvents /\ Events!Next
    \/ InQueries /\ Events!QueryNext

Spec == Init /\ [][Next]_vars

(* Whoever acts on a verdict has what it rests on: a zone told Ready its cells, a
   bootstrap told Completed a cell for every node it tracked, and a follower the
   announcement of the leader it follows (update_status, check_completion,
   LeaderElectionManager). *)
JudgementsAreBacked ==
    /\ part = "zones" => Judged!ReadyIsBacked
    /\ part = "bootstrap" => Discovering!CompletedNodesHaveCells
    /\ part = "election" => Election!TypeOK /\ Election!FollowedAnnounced
(* Nodes that decide apart decide alike: replicas of a zone merge alike in either
   order, unless both changed in one second, and aggregate the same cells alike in
   any order; nodes that hold the same beacons propose disjoint cells
   (ZoneState::merge, aggregate_capabilities, should_initiate). *)
DecisionsAgree ==
    /\ part = "zones" => Judged!MergesAgree /\ Judged!AggregatesAlike
    /\ part = "beacons" => Discovering!ProposalsDisjoint
(* An event emitted is in one place, once, or counted as dropped; the events of a
   level stay in order, within the limits of its queue, and the most important
   one that waits goes next; a query is answered with the newest events of the
   nodes it is for (EventEmitter, EventTransmitter, HierarchyAggregator,
   EventQueryHandler). *)
EventsAreServed ==
    /\ part = "events" =>
        /\ Events!TypeOK /\ Events!NothingVanishes
        /\ Events!LevelsInOrder /\ Events!QueuesWithinLimits /\ Events!MostImportantGoes
    /\ part = "queries" => Events!AnswersAreNewest
(* Every step is one the abstraction allows: the election, with overlapping calls,
   publishes and receives as the abstract bus does, and a full transmitter drops
   the least important event (LeaderElectionManager, OverflowPolicy). *)
StepsAreAllowed ==
    [][/\ part = "election" => Election!StepsAreAllowed
       /\ part = "events" => Events!DropsLowest]_vars
=============================================================================
