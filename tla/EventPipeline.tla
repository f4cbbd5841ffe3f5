--------------------------- MODULE EventPipeline ----------------------------
EXTENDS Naturals, Sequences, FiniteSetsExt, FiniteSets

(***************************************************************************)
(* Queues of events by priority: peat-protocol/src/event/priority_queue.rs *)
(* and the queues, the token buckets and the overflow policies of          *)
(* event/transmitter.rs.  An event has a level (0 is critical, 3 is low)   *)
(* and a size; a family of queues is a function from levels to sequences.  *)
(***************************************************************************)

SeqExt == INSTANCE SequencesExt

Levels == 0..3

EmptyQueues == [l \in Levels |-> <<>>]

(* Variant: a new event goes to the front. *)
PushFront(queues, e) == [queues EXCEPT ![e.level] = <<e>> \o @]

Push(queues, e) == [queues EXCEPT ![e.level] = Append(@, e)]

Front(queue, k) == SubSeq(queue, 1, k)
Rest(queue, k) == SubSeq(queue, k + 1, Len(queue))

(* A batch is a number of events for each level, taken from the fronts. *)
Batch(queues, counts) ==
    Front(queues[0], counts[0]) \o Front(queues[1], counts[1])
        \o Front(queues[2], counts[2]) \o Front(queues[3], counts[3])

Remaining(queues, counts) == [l \in Levels |-> Rest(queues[l], counts[l])]

(* Variant: what HIGH leaves of its share is lost. *)
NormalTargetFixed(left, high_alloc, high) == (left * 35) \div 100

NormalTarget(left, high_alloc, high) ==
    (left * 35) \div 100 + (high_alloc - high)

(* After the critical events, HIGH gets half of what is left of the batch,
   NORMAL 35 % and what HIGH leaves of its half, LOW all the rest.
   Avail(l, limit) is how many events level l can give. *)
Shares(max, critical, Avail(_, _)) ==
    LET left == max - critical
        high_alloc == (left * 50) \div 100
        high == Avail(1, high_alloc)
        normal_target == NormalTarget(left, high_alloc, high)
        normal == Avail(2, Min({normal_target, left - high}))
        low == Avail(3, left - high - normal)
    IN [l \in Levels |-> <<critical, high, normal, low>>[l + 1]]

(* EventEmitter::pop_events: all critical events, then pop_weighted. *)
PopCounts(queues, max) ==
    LET critical == Len(queues[0])
        Avail(l, limit) == Min({limit, Len(queues[l])})
    IN Shares(Max({max, critical}), critical, Avail)

-----------------------------------------------------------------------------
(* EventTransmitter *)

Size(events) == SeqExt!FoldLeft(LAMBDA sum, e : sum + e.size, 0, events)

(* How many events leave the front of a queue while the bucket pays. *)
Affordable(queue, tokens, limit) ==
    Max({k \in 0..Min({limit, Len(queue)}) : Size(Front(queue, k)) <= tokens})

TransmitCounts(queues, tokens, max) ==
    LET Avail(l, limit) == Affordable(queues[l], tokens[l], limit)
    IN Shares(max, Avail(0, max), Avail)

(* Variant: the highest of the levels below critical makes room. *)
VictimHighest(queues) ==
    LET filled == {l \in 1..3 : queues[l] # <<>>}
    IN IF filled = {} THEN 0 ELSE Min(filled)

(* drop_lowest_priority: the level whose oldest event makes room, 0 if
   only critical events are queued. *)
Victim(queues) ==
    LET filled == {l \in 1..3 : queues[l] # <<>>}
    IN IF filled = {} THEN 0 ELSE Max(filled)

(* What enqueue leaves: the queues and the level that lost an event, if any. *)
Outcome(queues, dropped) == [queues |-> queues, dropped |-> dropped]

DropFront(queues, l) == [queues EXCEPT ![l] = Tail(@)]

(* Variant: the limit is passed by one. *)
EnqueueOffByOne(queues, e, max_sizes, policy) ==
    LET l == e.level
        victim == Victim(queues)
    IN CASE Len(queues[l]) <= max_sizes[l] -> Outcome(Push(queues, e), {})
         [] Len(queues[l]) > max_sizes[l] /\ policy = "RejectNew" ->
                Outcome(queues, {l})
         [] Len(queues[l]) > max_sizes[l] /\ policy = "RemoveOldest" ->
                Outcome(Push(DropFront(queues, l), e), {l})
         [] Len(queues[l]) > max_sizes[l] /\ policy = "RemoveLowestPriority" ->
                IF victim = 0 THEN Outcome(queues, {l})
                ELSE Outcome(Push(DropFront(queues, victim), e), {victim})

Enqueue(queues, e, max_sizes, policy) ==
    LET l == e.level
        victim == Victim(queues)
    IN CASE Len(queues[l]) < max_sizes[l] -> Outcome(Push(queues, e), {})
         [] Len(queues[l]) >= max_sizes[l] /\ policy = "RejectNew" ->
                Outcome(queues, {l})
         [] Len(queues[l]) >= max_sizes[l] /\ policy = "RemoveOldest" ->
                Outcome(Push(DropFront(queues, l), e), {l})
         [] Len(queues[l]) >= max_sizes[l] /\ policy = "RemoveLowestPriority" ->
                IF victim = 0 THEN Outcome(queues, {l})
                ELSE Outcome(Push(DropFront(queues, victim), e), {victim})

-----------------------------------------------------------------------------
(***************************************************************************)
(* Events of one node on their way to the parent tier:                     *)
(*   EventEmitter (event/emitter.rs), EventTransmitter                     *)
(*   (event/transmitter.rs), an ordered link, and the HierarchyAggregator  *)
(*   (event/aggregator.rs) of the tier above, under peat-protocol/src.     *)
(*                                                                         *)
(* Ids number the events in the order in which they are emitted.  Tokens   *)
(* and sizes are in whole units.  An aggregation window is elapsed or not. *)
(***************************************************************************)

CONSTANTS
    Kinds,              \* the [level, mode, type, size] that are emitted
    Type,
    max_queue_sizes,    \* max_queue_sizes[l], of the transmitter
    Capacity,           \* Capacity[l]: tokens a bucket holds
    max_events,         \* events asked for in pop_events and transmit
    None,
    MaxEvents           \* bound: events emitted

Policies == {"RejectNew", "RemoveOldest", "RemoveLowestPriority"}

PipelineAssumption ==
    /\ None \notin Levels
    /\ max_queue_sizes \in [Levels -> Nat \ {0}]
    /\ Capacity \in [Levels -> Nat]
    /\ \A k \in Kinds : k.level \in Levels /\ k.size <= Capacity[k.level]
    /\ max_events \in Nat

VARIABLES
    emitted,            \* number of events emitted
    outbound_queue,     \* of the emitter
    local_store,
    handoff,            \* events popped and not yet enqueued
    queues,             \* of the transmitter
    tokens,
    dropped,            \* stats.dropped[l]
    overflow_policy,
    link,
    windows,            \* windows[t]: None or [events, elapsed]
    passthrough_queue,  \* of the aggregator
    queryable_store,
    summary_queue,      \* summaries: [type, events]
    parent              \* what the parent tier got, in order

transmitter == <<queues, tokens, dropped, overflow_policy>>
aggregator == <<windows, passthrough_queue, queryable_store, summary_queue>>
vars == <<emitted, outbound_queue, local_store, handoff, transmitter, link,
          aggregator, parent>>

Modes == {"Full", "Summary", "Query", "Local"}
Event == [id : 1..MaxEvents, level : Levels, mode : Modes, type : Type, size : Nat]
Queues == [Levels -> Seq(Event)]
Summary == [type : Type, events : Seq(Event)]

TypeOK ==
    /\ emitted \in 0..MaxEvents
    /\ outbound_queue \in Queues
    /\ local_store \subseteq Event
    /\ handoff \in Seq(Event)
    /\ queues \in Queues
    /\ \A l \in Levels : tokens[l] \in 0..Capacity[l]
    /\ dropped \in [Levels -> Nat]
    /\ overflow_policy \in Policies
    /\ link \in Seq(Event)
    /\ windows \in [Type -> [events : Seq(Event), elapsed : BOOLEAN] \cup {None}]
    /\ passthrough_queue \in Queues
    /\ queryable_store \subseteq Event
    /\ summary_queue \in Seq(Summary)
    /\ parent \in Seq(Event \cup Summary)

Init ==
    /\ emitted = 0
    /\ outbound_queue = EmptyQueues
    /\ local_store = {}
    /\ handoff = <<>>
    /\ queues = EmptyQueues
    /\ tokens = Capacity
    /\ dropped = [l \in Levels |-> 0]
    /\ overflow_policy \in Policies
    /\ link = <<>>
    /\ windows = [t \in Type |-> None]
    /\ passthrough_queue = EmptyQueues
    /\ queryable_store = {}
    /\ summary_queue = <<>>
    /\ parent = <<>>

-----------------------------------------------------------------------------
(* The node *)

NewEvent(k) ==
    [id |-> emitted + 1, level |-> k.level, mode |-> k.mode, type |-> k.type,
     size |-> k.size]

Emit(k) ==
    /\ emitted < MaxEvents
    /\ emitted' = emitted + 1
    /\ \/ /\ k.mode \in {"Local", "Query"}
          /\ local_store' = local_store \cup {NewEvent(k)}
          /\ UNCHANGED outbound_queue
       \/ /\ k.mode \in {"Summary", "Full"}
          /\ outbound_queue' = Push(outbound_queue, NewEvent(k))
          /\ UNCHANGED local_store
    /\ UNCHANGED <<handoff, transmitter, link, aggregator, parent>>

(* pop_events; the node takes more once it has passed on what it took. *)
PopEvents ==
    /\ handoff = <<>>
    /\ outbound_queue # EmptyQueues
    /\ \E counts \in {PopCounts(outbound_queue, max_events)} :
          /\ handoff' = Batch(outbound_queue, counts)
          /\ outbound_queue' = Remaining(outbound_queue, counts)
    /\ UNCHANGED <<emitted, local_store, transmitter, link, aggregator, parent>>

PopCritical ==
    /\ handoff = <<>>
    /\ outbound_queue[0] # <<>>
    /\ handoff' = outbound_queue[0]
    /\ outbound_queue' = [outbound_queue EXCEPT ![0] = <<>>]
    /\ UNCHANGED <<emitted, local_store, transmitter, link, aggregator, parent>>

EnqueueEvent ==
    /\ handoff # <<>>
    /\ LET result == Enqueue(queues, Head(handoff), max_queue_sizes,
                             overflow_policy)
       IN /\ queues' = result.queues
          /\ dropped' = [l \in Levels |-> IF l \in result.dropped
                                          THEN dropped[l] + 1 ELSE dropped[l]]
    /\ handoff' = Tail(handoff)
    /\ UNCHANGED <<emitted, outbound_queue, local_store, tokens,
                   overflow_policy, link, aggregator, parent>>

Send(counts) ==
    /\ link' = link \o Batch(queues, counts)
    /\ queues' = Remaining(queues, counts)
    /\ tokens' = [l \in Levels |-> tokens[l] - Size(Front(queues[l], counts[l]))]
    /\ UNCHANGED <<emitted, outbound_queue, local_store, handoff, dropped,
                   overflow_policy, aggregator, parent>>

Transmit ==
    /\ queues # EmptyQueues
    /\ \E counts \in {TransmitCounts(queues, tokens, max_events)} : Send(counts)

TransmitCritical ==
    /\ queues[0] # <<>>
    /\ Send([l \in Levels |-> IF l # 0 THEN 0
                              ELSE Affordable(queues[0], tokens[0], Len(queues[0]))])

(* Time passes: every bucket gets a unit, up to its capacity. *)
Refill ==
    /\ tokens' = [l \in Levels |-> Min({tokens[l] + 1, Capacity[l]})]
    /\ UNCHANGED <<emitted, outbound_queue, local_store, handoff, queues,
                   dropped, overflow_policy, link, aggregator, parent>>
-----------------------------------------------------------------------------
(* The aggregator of the tier above *)

AddToWindow(window, e) ==
    IF window = None THEN [events |-> <<e>>, elapsed |-> FALSE]
    ELSE [window EXCEPT !.events = Append(@, e)]

Receive ==
    /\ link # <<>>
    /\ link' = Tail(link)
    /\ LET e == Head(link) IN
       /\ passthrough_queue' = IF e.mode = "Full" THEN Push(passthrough_queue, e)
                               ELSE passthrough_queue
       /\ windows' = IF e.mode = "Summary"
                     THEN [windows EXCEPT ![e.type] = AddToWindow(@, e)]
                     ELSE windows
       /\ queryable_store' = IF e.mode = "Query" THEN queryable_store \cup {e}
                             ELSE queryable_store
    /\ UNCHANGED <<emitted, outbound_queue, local_store, handoff, transmitter,
                   summary_queue, parent>>

(* Time passes: a window is past its duration. *)
Elapse(t) ==
    /\ windows[t] # None
    /\ ~windows[t].elapsed
    /\ windows' = [windows EXCEPT ![t].elapsed = TRUE]
    /\ UNCHANGED <<emitted, outbound_queue, local_store, handoff, transmitter,
                   link, passthrough_queue, queryable_store, summary_queue,
                   parent>>

Filled == {t \in Type : windows[t] # None /\ windows[t].events # <<>>}

(* Variant: a summarised window keeps its events. *)
FlushKeeps(types) ==
    \E order \in SeqExt!SetToSeqs(types) :
        /\ summary_queue' = summary_queue \o
              [i \in DOMAIN order |-> [type |-> order[i],
                                       events |-> windows[order[i]].events]]
        /\ windows' = [t \in Type |-> IF t \in types
                                      THEN [windows[t] EXCEPT !.elapsed = FALSE]
                                      ELSE windows[t]]
        /\ UNCHANGED <<emitted, outbound_queue, local_store, handoff,
                       transmitter, link, passthrough_queue, queryable_store,
                       parent>>

(* A summary of each window, in the map's order, and the windows reset. *)
Flush(types) ==
    \E order \in SeqExt!SetToSeqs(types) :
        /\ summary_queue' = summary_queue \o
              [i \in DOMAIN order |-> [type |-> order[i],
                                       events |-> windows[order[i]].events]]
        /\ windows' = [t \in Type |-> IF t \in types
                                      THEN [events |-> <<>>, elapsed |-> FALSE]
                                      ELSE windows[t]]
        /\ UNCHANGED <<emitted, outbound_queue, local_store, handoff,
                       transmitter, link, passthrough_queue, queryable_store,
                       parent>>

FlushExpiredWindows ==
    LET expired == {t \in Filled : windows[t].elapsed} IN
    expired # {} /\ Flush(expired)

FlushAllWindows == Filled # {} /\ Flush(Filled)

(* pop_all: pop_passthrough with its batch of 100, then pop_summaries. *)
PopAll ==
    /\ passthrough_queue # EmptyQueues \/ summary_queue # <<>>
    /\ \E counts \in {PopCounts(passthrough_queue,
                                Len(passthrough_queue[0]) + 100)} :
          /\ parent' = parent \o Batch(passthrough_queue, counts) \o summary_queue
          /\ passthrough_queue' = Remaining(passthrough_queue, counts)
    /\ summary_queue' = <<>>
    /\ UNCHANGED <<emitted, outbound_queue, local_store, handoff, transmitter,
                   link, windows, queryable_store>>

Next ==
    \/ \E k \in Kinds : Emit(k)
    \/ PopEvents \/ PopCritical
    \/ EnqueueEvent \/ Transmit \/ TransmitCritical \/ Refill
    \/ Receive \/ FlushExpiredWindows \/ FlushAllWindows \/ PopAll
    \/ \E t \in Type : Elapse(t)

Spec == Init /\ [][Next]_vars

-----------------------------------------------------------------------------
(***************************************************************************)
(* Event queries (event/query.rs): the stores of a node and its            *)
(* subordinates, and the answers to queries about a formation.  A type is  *)
(* the sequence of its parts; a field a filter leaves open is None.        *)
(***************************************************************************)

CONSTANTS
    Storable,           \* events [id, class, type, time, source, ttl]
    Asked,              \* the node whose handler gets the queries
    Below,              \* nodes that may be its subordinates
    FormationId,
    Filters,            \* [class, type, after, before, source]
    MaxLimit,           \* bound: limits of queries
    MaxClock            \* bound: the clock

VARIABLES
    event_store,        \* event_store[n]: the events of n, one of an id
    subordinate_ids,    \* of the handler
    clock

queryVars == <<event_store, subordinate_ids, clock>>

QueryInit ==
    /\ event_store = [n \in {Asked} \cup Below |-> {}]
    /\ subordinate_ids = <<>>
    /\ clock = 1

StoreEvent(n, e) ==
    /\ event_store' = [event_store EXCEPT ![n] = {d \in @ : d.id # e.id} \cup {e}]
    /\ UNCHANGED <<subordinate_ids, clock>>

(* An event without a time or a time to live stays. *)
EnforceTtl(n) ==
    /\ event_store' = [event_store EXCEPT ![n] =
          {e \in @ : e.ttl > 0 /\ e.time # None => clock < e.time + e.ttl}]
    /\ UNCHANGED <<subordinate_ids, clock>>

(* Variant: a subordinate that registers again is listed again. *)
AddSubordinateAgain(n) ==
    /\ Len(subordinate_ids) <= Cardinality(Below)
    /\ subordinate_ids' = Append(subordinate_ids, n)
    /\ UNCHANGED <<event_store, clock>>

AddSubordinate(n) ==
    /\ subordinate_ids' = IF SeqExt!Contains(subordinate_ids, n) THEN subordinate_ids
                          ELSE Append(subordinate_ids, n)
    /\ UNCHANGED <<event_store, clock>>

RemoveSubordinate(n) ==
    /\ subordinate_ids' = SelectSeq(subordinate_ids, LAMBDA m : m # n)
    /\ UNCHANGED <<event_store, clock>>

QueryTick ==
    /\ clock < MaxClock
    /\ clock' = clock + 1
    /\ UNCHANGED <<event_store, subordinate_ids>>

QueryNext ==
    \/ \E n \in {Asked} \cup Below : \E e \in Storable : StoreEvent(n, e)
    \/ \E n \in {Asked} \cup Below : EnforceTtl(n)
    \/ \E n \in Below : AddSubordinate(n) \/ RemoveSubordinate(n)
    \/ QueryTick

Seconds(e) == IF e.time = None THEN 0 ELSE e.time

NewestFirst(events) ==
    \A i, j \in DOMAIN events : i < j => Seconds(events[i]) >= Seconds(events[j])

Limited(events, limit) ==
    IF limit > 0 /\ Len(events) > limit THEN Front(events, limit) ELSE events

Matches(e, filter) ==
    /\ filter.class # None => e.class = filter.class
    /\ filter.type # None => SeqExt!IsPrefix(filter.type, e.type)
    /\ e.time # None => /\ filter.after # None => e.time >= filter.after
                        /\ filter.before # None => e.time <= filter.before
    /\ filter.source # None => e.source = filter.source

(* Variant: the limit is applied before the sort. *)
QueryStoreUnsorted(events, filter, limit) ==
    {Limited(s, limit) : s \in SeqExt!SetToSeqs({e \in events : Matches(e, filter)})}

(* The map's order decides between events of one second. *)
QueryStore(events, filter, limit) ==
    {Limited(s, limit) :
        s \in {t \in SeqExt!SetToSeqs({e \in events : Matches(e, filter)}) : NewestFirst(t)}}

Response(events, total, truncated) ==
    [events |-> events, total_matching |-> total, truncated |-> truncated]

EmptyResponse == Response(<<>>, 0, FALSE)

QueryLocal(n, query) ==
    {Response(s, Len(s), query.limit > 0 /\ Len(s) >= query.limit) :
        s \in QueryStore(event_store[n], query.filters, query.limit)}

(* The responses in turn, and a stable sort. *)
MergeResponses(responses, limit) ==
    LET all == SeqExt!FlattenSeq([i \in DOMAIN responses |-> responses[i].events])
        before(i) == {j \in DOMAIN all : \/ Seconds(all[j]) > Seconds(all[i])
                                         \/ Seconds(all[j]) = Seconds(all[i]) /\ j < i}
        order == [k \in DOMAIN all |-> CHOOSE i \in DOMAIN all : Cardinality(before(i)) = k - 1]
    IN Response(Limited([i \in DOMAIN order |-> all[order[i]]], limit), Len(all),
                limit > 0 /\ Len(all) > limit)

(* create_node_query, create_formation_query and create_subordinates_query. *)
Query(scope, target, filters, limit) ==
    [scope |-> scope, target |-> target, filters |-> filters, limit |-> limit]

(* What the handler answers itself, if anything, and who it says is to be asked. *)
HandleQuery(query) ==
    LET Result(local, forward) == [local |-> local, forward |-> forward]
        here == QueryLocal(Asked, query)
    IN CASE query.scope = "Node" ->
              IF query.target = Asked THEN Result(here, <<>>)
              ELSE Result({}, <<query.target>>)
         [] query.scope = "Formation" ->
              IF query.target = FormationId THEN Result(here, subordinate_ids)
              ELSE Result({}, subordinate_ids)
         [] query.scope = "Subordinates" ->
              IF subordinate_ids = <<>> THEN Result({EmptyResponse}, <<>>)
              ELSE Result({}, subordinate_ids)
         [] OTHER -> Result(here, <<>>)

-----------------------------------------------------------------------------
(* Properties *)

Flat(qs) == qs[0] \o qs[1] \o qs[2] \o qs[3]

(* All events that are somewhere, each as often as it is there. *)
Held ==
    SeqExt!SetToSeq(local_store \cup queryable_store) \o Flat(outbound_queue)
    \o handoff \o Flat(queues) \o link \o Flat(passthrough_queue)
    \o SeqExt!FlattenSeq([i \in DOMAIN summary_queue |-> summary_queue[i].events])
    \o SeqExt!FlattenSeq([i \in DOMAIN parent |->
            IF "events" \in DOMAIN parent[i] THEN parent[i].events
            ELSE <<parent[i]>>])
    \o SeqExt!FlattenSeq([i \in 1..Cardinality(Filled) |->
            windows[SeqExt!SetToSeq(Filled)[i]].events])

(* Every event emitted is in one place, once, or counted in the statistics
   as dropped: a summary stands for the events of its window and no others,
   and neither a batch nor an overflow loses an event unnoticed. *)
NothingVanishes ==
    LET held == Held IN
    /\ SeqExt!IsInjective([i \in DOMAIN held |-> held[i].id])
    /\ Len(held) + dropped[0] + dropped[1] + dropped[2] + dropped[3] = emitted

(* The parent gets the events of one priority that are passed through in the
   order of their emission, whatever the batches and overflows on the way. *)
LevelsInOrder ==
    \A i, j \in DOMAIN parent :
        /\ i < j
        /\ "level" \in DOMAIN parent[i] /\ "level" \in DOMAIN parent[j]
        /\ parent[i].level = parent[j].level
        => parent[i].id < parent[j].id

(* Under RemoveLowestPriority an event makes room only for one at least as
   important, and only if no less important one is queued. *)
DropsLowest ==
    \A l \in Levels :
        dropped'[l] > dropped[l] /\ overflow_policy = "RemoveLowestPriority" =>
            /\ Head(handoff).level <= l
            /\ \A m \in (l + 1)..3 : queues[m] = <<>>

(* The limits of the transmitter's queues hold under the policies that drop
   from the queue that overflows. *)
QueuesWithinLimits ==
    overflow_policy # "RemoveLowestPriority" =>
        \A l \in Levels : Len(queues[l]) <= max_queue_sizes[l]

(* Once its bucket is full, the first event of the most important level that
   waits is in the next batch, in the emitter and in the transmitter: the
   shares of a batch let no level starve. *)
MostImportantGoes ==
    LET goes(qs, counts) ==
            \A l \in Levels : qs[l] # <<>> /\ (\A m \in 0..(l - 1) : qs[m] = <<>>)
                => counts[l] > 0
    IN /\ goes(outbound_queue, PopCounts(outbound_queue, max_events))
       /\ goes(queues, TransmitCounts(queues, Capacity, max_events))

(* The answer to a query is the newest of what the nodes asked for it hold,
   as many as its limit allows, though each of them applied the limit by itself and
   another copy of an event may be at another node; a response that is not marked
   truncated, merged from such responses, is complete, and one that a merge marks
   is not (handle_query, query_local, merge_responses). *)
AnswersAreNewest ==
    \A filter \in Filters, limit \in 0..MaxLimit,
       to \in {<<"Formation", FormationId>>, <<"Formation", None>>, <<"Subordinates", None>>,
              <<"Node", Asked>>, <<None, None>>} :
    LET query == Query(to[1], to[2], filter, limit)
        result == HandleQuery(query)
        n == Len(result.forward)
        answers == [i \in 1..n |-> QueryLocal(result.forward[i], query)]
        local == IF result.local = {} THEN {EmptyResponse} ELSE result.local
        nodes == (IF to[1] = "Subordinates" \/ to = <<"Formation", None>> THEN {} ELSE {Asked})
                 \cup (IF to[1] \in {"Formation", "Subordinates"}
                      THEN SeqExt!ToSet(subordinate_ids) ELSE {})
        copies == {<<m, e>> \in nodes \X Storable : e \in event_store[m] /\ Matches(e, filter)}
    IN /\ Cardinality(SeqExt!ToSet(result.forward)) = n
       /\ \A first \in local :
          \A others \in {r \in [1..n -> UNION SeqExt!ToSet(answers)] :
                          \A i \in 1..n : r[i] \in answers[i]} :
          LET merged == MergeResponses(<<first>> \o others, limit)
              listed(e) == Cardinality({i \in DOMAIN merged.events : merged.events[i] = e})
              held(e) == Cardinality({c \in copies : c[2] = e})
              complete == Len(merged.events) = Cardinality(copies)
          IN /\ limit = 0 \/ Cardinality(copies) <= limit => complete
             /\ limit > 0 /\ ~complete => Len(merged.events) = limit
             /\ \A e \in Storable :
                   /\ listed(e) <= held(e)
                   /\ listed(e) < held(e) => \A i \in DOMAIN merged.events :
                                                Seconds(merged.events[i]) >= Seconds(e)
             /\ merged.truncated => ~complete
             /\ ~merged.truncated /\ ~first.truncated /\ (\A i \in 1..n : ~others[i].truncated)
                   => complete

=============================================================================
