----------------------------- MODULE FlowRouting -----------------------------
(***************************************************************************)
(* HierarchicalRouter::route_message of                                    *)
(* peat-protocol/src/hierarchy/router.rs with the FlowController of        *)
(* flow_control.rs behind it.  Several callers route messages through one  *)
(* router while the holder of the shared table merges updates into it.     *)
(*                                                                         *)
(* The table sits behind a tokio RwLock, which serves its waiters in       *)
(* order: a reader that arrives behind a waiting writer waits for it.  The *)
(* validity check takes and releases the lock; the second read lock, under *)
(* which the level is computed, is held until the permit is granted.       *)
(*                                                                         *)
(* Tokens and costs are counted in quarters, so that the priorities cost   *)
(* whole numbers.  The code refills a bucket lazily, from the time that    *)
(* passed, whenever it is used; since the refill is linear and capped, a   *)
(* Tick that refills every bucket at once has the same effect.             *)
(***************************************************************************)
EXTENDS RoutingTable, FiniteSetsExt

CONSTANTS
    Caller,      \* tasks that call route_message, once each
    Request,     \* the calls' arguments: [from, to, priority, size]
    Updates,     \* the tables that update_routing_table is called with
    InitTable,
    Limit,       \* [level -> [msgs, bytes]]: messages and bytes per second
    TicksPerSecond,
    DropPolicy,
    MaxTime      \* ticks that are counted

Level == {"Cell", "Zone"}
Resource == {"msgs", "bytes"}

Multiplier == [Critical |-> 2, High |-> 3, Normal |-> 4, Low |-> 6]

(* Tables that map nodes to cells, cells to zones and cells to their leaders. *)
ProperTable == {t \in Table :
    /\ \A n \in Node : t[CellOf(n)] # Absent => t[CellOf(n)].value \in Cell
    /\ \A c \in Cell : t[ZoneOf(c)] # Absent => t[ZoneOf(c)].value \in Zone}

FlowAssumption ==
    /\ Absent \notin Entry \cup Updates
    /\ Node \cap Zone = {}
    /\ Updates \cup {InitTable} \subseteq ProperTable
    /\ Request \subseteq [from : Node, to : Node \cup Zone,
                          priority : DOMAIN Multiplier, size : Nat]
    /\ Limit \in [Level -> [Resource -> Nat]]
    /\ TicksPerSecond \in Nat \ {0}
    /\ MaxTime \in Nat

VARIABLES
    table,       \* routing_table
    readers,     \* callers that hold the table's read lock
    writer,      \* the update waiting for the write lock, or Absent
    merged,      \* updates already merged
    call,        \* per caller: the call's arguments, level and progress
    tokens,      \* per level and resource
    pressure,    \* backpressure.active
    sent,        \* per level: tokens' worth of the permits granted
    dropped,     \* messages_dropped
    now,
    moved        \* callers whose table changed between check and level

flowVars == <<table, readers, writer, merged, call, tokens, pressure, sent,
              dropped, now, moved>>

-----------------------------------------------------------------------------
(* A message costs one token and its size in bytes, times the multiplier. *)
Cost(c, r) == Multiplier[call[c].priority]
                * (IF r = "msgs" THEN 1 ELSE call[c].size)

(* A bucket holds what it is refilled with in a second. *)
Capacity(l, r) == 4 * Limit[l][r]
PerTick(l, r) == Capacity(l, r) \div TicksPerSecond

(* Whether get_node_cell finds both ids in one cell. *)
SameCell(t, from, to) ==
    /\ to \in Node
    /\ t[CellOf(from)] # Absent
    /\ Holds(t, CellOf(to), t[CellOf(from)].value)

(* is_cell_leader for the node's own cell *)
IsLeader(t, n) ==
    /\ t[CellOf(n)] # Absent
    /\ Holds(t, LeaderOf(t[CellOf(n)].value), n)

IsUpwardRouteValid(t, from) == IsLeader(t, from)

(* A target without a cell counts as a zone or a cell. *)
IsRouteValid(t, from, to) ==
    /\ t[CellOf(from)] # Absent
    /\ IF to \in Node /\ t[CellOf(to)] # Absent
       THEN SameCell(t, from, to)
       ELSE IsUpwardRouteValid(t, from)

ValidTargets(t, n) ==
    IF t[CellOf(n)] = Absent THEN {}
    ELSE (GetCellNodes(t, t[CellOf(n)].value) \ {n})
           \cup (IF IsLeader(t, n) /\ NodeHasZone(t, n)
                 THEN {t[ZoneOf(t[CellOf(n)].value)].value} ELSE {})

(* should_drop *)
ShouldDrop(priority) ==
    DropPolicy = "DropLowPriority" /\ priority \in {"Low", "Normal"}

Idle == [pc |-> "idle"]

Init ==
    /\ table = InitTable
    /\ readers = {} /\ writer = Absent /\ merged = {}
    /\ call = [c \in Caller |-> Idle]
    /\ tokens = [l \in Level |-> [r \in Resource |-> Capacity(l, r)]]
    /\ pressure = FALSE
    /\ sent = [l \in Level |-> [r \in Resource |-> 0]]
    /\ dropped = 0
    /\ now = 0
    /\ moved = {}

-----------------------------------------------------------------------------
Goto(c, pc) == call' = [call EXCEPT ![c].pc = pc]

RouteMessage(c) ==
    /\ call[c] = Idle
    /\ \E a \in Request :
          call' = [call EXCEPT ![c] =
                     [pc |-> "check", level |-> Absent, from |-> a.from, to |-> a.to,
                      priority |-> a.priority, size |-> a.size]]
    /\ UNCHANGED <<table, readers, writer, merged, tokens, pressure, sent,
                   dropped, now, moved>>

(* A sender that consults the drop policy under backpressure and gives the
   message up. *)
DropMessage(c) ==
    /\ call[c] = Idle /\ pressure
    /\ \E a \in Request : ShouldDrop(a.priority)
    /\ call' = [call EXCEPT ![c] = [pc |-> "dropped"]]
    /\ dropped' = dropped + 1
    /\ UNCHANGED <<table, readers, writer, merged, tokens, pressure, sent,
                   now, moved>>

(* is_route_valid, under a read lock of its own *)
CheckRoute(c) ==
    /\ call[c].pc = "check" /\ writer = Absent
    /\ Goto(c, IF IsRouteValid(table, call[c].from, call[c].to)
               THEN "level" ELSE "rejected")
    /\ UNCHANGED <<table, readers, writer, merged, tokens, pressure, sent,
                   dropped, now, moved>>

(* Variant: the level is that of the target alone. *)
TakeLevelByTarget(c) ==
    /\ call[c].pc = "level" /\ writer = Absent
    /\ readers' = readers \cup {c}
    /\ call' = [call EXCEPT
         ![c].pc = "try_msgs",
         ![c].level = IF call[c].to \in Node THEN "Cell" ELSE "Zone"]
    /\ UNCHANGED <<table, writer, merged, tokens, pressure, sent, dropped,
                   now, moved>>

(* The second read lock; it is kept. *)
TakeLevel(c) ==
    /\ call[c].pc = "level" /\ writer = Absent
    /\ readers' = readers \cup {c}
    /\ call' = [call EXCEPT
         ![c].pc = "try_msgs",
         ![c].level = IF SameCell(table, call[c].from, call[c].to)
                      THEN "Cell" ELSE "Zone"]
    /\ UNCHANGED <<table, writer, merged, tokens, pressure, sent, dropped,
                   now, moved>>

(* Variant: the bucket may go below zero. *)
EnoughAnyTokens(c, r) == tokens[call[c].level][r] > 0

(* try_consume's condition *)
Enough(c, r) == tokens[call[c].level][r] >= Cost(c, r)

Consume(c, r) ==
    tokens' = [tokens EXCEPT ![call[c].level][r] = @ - Cost(c, r)]

(* Variant: the read lock outlives the call. *)
GrantKeepsLock(c) ==
    /\ Goto(c, "granted")
    /\ UNCHANGED readers
    /\ sent' = [sent EXCEPT ![call[c].level] =
                  [r \in Resource |-> @[r] + Cost(c, r)]]

(* The permit is returned, the metrics count it and the lock is released. *)
Grant(c) ==
    /\ Goto(c, "granted")
    /\ readers' = readers \ {c}
    /\ sent' = [sent EXCEPT ![call[c].level] =
                  [r \in Resource |-> @[r] + Cost(c, r)]]

(* The first attempt, messages before bytes.  A failed attempt turns on
   backpressure, and message tokens taken by then are not given back. *)
TryMessages(c) ==
    /\ call[c].pc = "try_msgs"
    /\ IF Enough(c, "msgs")
       THEN Consume(c, "msgs") /\ Goto(c, "try_bytes") /\ UNCHANGED pressure
       ELSE pressure' = TRUE /\ Goto(c, "wait_msgs") /\ UNCHANGED tokens
    /\ UNCHANGED <<table, readers, writer, merged, sent, dropped, now, moved>>

TryBytes(c) ==
    /\ call[c].pc = "try_bytes"
    /\ IF Enough(c, "bytes")
       THEN Consume(c, "bytes") /\ Grant(c) /\ UNCHANGED pressure
       ELSE /\ pressure' = TRUE /\ Goto(c, "wait_msgs")
            /\ UNCHANGED <<tokens, readers, sent>>
    /\ UNCHANGED <<table, writer, merged, dropped, now, moved>>

(* The waiting loops; an attempt that fails changes nothing. *)
WaitMessages(c) ==
    /\ call[c].pc = "wait_msgs" /\ Enough(c, "msgs")
    /\ Consume(c, "msgs")
    /\ Goto(c, "wait_bytes")
    /\ UNCHANGED <<table, readers, writer, merged, pressure, sent, dropped,
                   now, moved>>

WaitBytes(c) ==
    /\ call[c].pc = "wait_bytes" /\ Enough(c, "bytes")
    /\ Consume(c, "bytes")
    /\ Grant(c)
    /\ UNCHANGED <<table, writer, merged, pressure, dropped, now, moved>>

Refill(l, r) == Min({Capacity(l, r), tokens[l][r] + PerTick(l, r)})

Tick ==
    /\ now' = Min({MaxTime, now + 1})
    /\ tokens' = [l \in Level |-> [r \in Resource |-> Refill(l, r)]]
    /\ UNCHANGED <<table, readers, writer, merged, call, pressure, sent,
                   dropped, moved>>

ReleaseBackpressure ==
    /\ pressure
    /\ pressure' = FALSE
    /\ UNCHANGED <<table, readers, writer, merged, call, tokens, sent,
                   dropped, now, moved>>

(* update_routing_table queues for the write lock ... *)
UpdateRoutingTable ==
    /\ writer = Absent
    /\ \E u \in Updates \ merged : writer' = u
    /\ UNCHANGED <<table, readers, merged, call, tokens, pressure, sent,
                   dropped, now, moved>>

(* ... and merges once no reader holds the lock. *)
MergeUpdate ==
    /\ writer # Absent /\ readers = {}
    /\ table' = Merge(table, writer)
    /\ merged' = merged \cup {writer}
    /\ writer' = Absent
    /\ moved' = moved \cup {c \in Caller : call[c].pc = "level"}
    /\ UNCHANGED <<readers, call, tokens, pressure, sent, dropped, now>>

Route(c) ==
    \/ CheckRoute(c) \/ TakeLevel(c)
    \/ TryMessages(c) \/ TryBytes(c) \/ WaitMessages(c) \/ WaitBytes(c)

Next ==
    \/ \E c \in Caller : RouteMessage(c) \/ DropMessage(c) \/ Route(c)
    \/ Tick \/ ReleaseBackpressure \/ UpdateRoutingTable \/ MergeUpdate

(* Tasks run, time passes; nobody has to call or to release backpressure. *)
Fairness ==
    /\ \A c \in Caller : WF_flowVars(Route(c))
    /\ WF_flowVars(Tick)
    /\ WF_flowVars(MergeUpdate)

Spec == Init /\ [][Next]_flowVars /\ Fairness

-----------------------------------------------------------------------------
Waiting(c) == c \in readers

(* A message that no full bucket can pay for. *)
Oversized(c) ==
    Waiting(c) /\ \E r \in Resource : Cost(c, r) > Capacity(call[c].level, r)

(* The permits granted at a level never cost more than a full bucket and
   what was refilled since the start, in messages and in bytes: the token
   bucket limits the rate however many callers compete. *)
RateLimited ==
    now < MaxTime =>
        \A l \in Level, r \in Resource :
            sent[l][r] <= Capacity(l, r) + now * PerTick(l, r)

(* Whoever waits for a permit is entitled to it in the table as it is now: a
   cell permit goes to nodes that share a cell, and a zone permit to a cell
   leader, unless the table was updated between the check and the second
   read lock. *)
Entitled ==
    \A c \in readers :
        LET a == call[c] IN
        /\ a.level = "Cell" <=> SameCell(table, a.from, a.to)
        /\ c \notin moved => IsRouteValid(table, a.from, a.to)

(* Everything valid_targets offers is a route that route_message accepts. *)
TargetsAreValid ==
    \A n \in Node : \A to \in ValidTargets(table, n) : IsRouteValid(table, n, to)

(* Permits are waited for and offered along the hierarchy, and those that are
   granted stay within the rate of their level. *)
PermitFollowsHierarchy == Entitled /\ TargetsAreValid /\ RateLimited

(* Every call of route_message ends and every table update is merged, unless
   a message that costs more than a full bucket waits: it keeps the read
   lock, the update behind it waits, and so does every later call.  (Each
   caller calls once and each update is made once.) *)
CallsEnd ==
    \/ <>(\E d \in Caller : Oversized(d))
    \/ <>[](/\ \A c \in Caller : call[c].pc \in {"idle", "dropped", "granted", "rejected"}
            /\ writer = Absent)
=============================================================================
