----------------------------- MODULE MCTraffic -----------------------------
(* Traffic control: the router with its flow control, the update queues and
   the mission context.  They share no state, so every behaviour exercises one
   of them, chosen by part in the initial state, and leaves the others alone. *)
EXTENDS FlowRouting, TLC

CONSTANTS n1, n2, n3, c1, c2, z1, k1, k2, t1, t2, l1, NoLimit

VARIABLES part,
          hour, queues, totalBytes, updates, updateBytes, iterator, offered,
          out, recovered, discarded,
          context, custom, overrides, listeners, switch, told, due, switches

At(g, v, ts) == Assign(EmptyTable, g, v, ts)
Both(s, t) == Merge(s, t)

StartTable == Both(Both(At(CellOf(n1), c1, 1), At(CellOf(n2), c1, 1)),
                   Both(At(LeaderOf(c1), n1, 1), At(ZoneOf(c1), z1, 1)))

LaterTables == {At(CellOf(n2), c2, 2),
                Both(At(LeaderOf(c1), n2, 2), At(CellOf(n3), c1, 1))}

Msg(from, to, priority, size) ==
    [from |-> from, to |-> to, priority |-> priority, size |-> size]

(* Within the cell, upward from the leader, to a
   node without a cell; the last one costs more than a full bucket. *)
Messages == {Msg(n1, n2, "Low", 1), Msg(n1, z1, "Critical", 2),
             Msg(n1, n3, "High", 1),
             Msg(n1, n2, "Low", 3)}

Limits == [Cell |-> [msgs |-> 2, bytes |-> 4], Zone |-> [msgs |-> 1, bytes |-> 4]]

ASSUME FlowAssumption

Item(class, size, multiplier, type) ==
    [class |-> class, size |-> size, multiplier |-> multiplier, type |-> type]

Classes == INSTANCE QoS WITH
    Offer <- {Item(1, 1, 1, "ContactReport"), Item(4, 1, 1, "PositionUpdate"),
              Item(5, 2, 2, "DebugLog"), Item(5, 1, 1, "DebugLog")},
    MaxBytes <- 4,
    Window <- [PositionUpdate |-> 0, DebugLog |-> 1],
    Limits <- {2, 3}, MaxItems <- 3, MaxTime <- 2,
    Thread <- {t1, t2}, Listener <- {l1},
    Contexts <- {"Standby", "Execution", "Emergency"},
    CustomProfile <- [TargetImage |-> [kind |-> "Demote", n |-> 1]],
    MaxSwitches <- 3

queueVars == <<hour, queues, totalBytes, updates, updateBytes, iterator,
               offered, out, recovered, discarded>>
contextVars == <<context, custom, overrides, listeners, switch, told, due,
                 switches>>

TrafficInit ==
        /\ part \in {"flow", "queue", "recovery", "context"}
        /\ Init /\ Classes!QueuesInit /\ Classes!Init

InFlow == part = "flow" /\ UNCHANGED <<part, queueVars, contextVars>>
InQueues == UNCHANGED <<part, flowVars, contextVars>>
InContext == part = "context" /\ UNCHANGED <<part, flowVars, queueVars>>

TrafficNext ==
    \/ InFlow /\ Next
    \/ part = "queue" /\ InQueues /\ Classes!QueueNext
    \/ part = "recovery" /\ InQueues /\ Classes!RecoveryNext
    \/ InContext /\ Classes!Next

trafficVars == <<part, flowVars, queueVars, contextVars>>

(* Fairness of the router, for the behaviours that exercise it *)
TrafficFairness ==
    /\ \A c \in Caller : WF_trafficVars(InFlow /\ Route(c))
    /\ WF_trafficVars(InFlow /\ Tick)
    /\ WF_trafficVars(InFlow /\ MergeUpdate)

TrafficSpec == TrafficInit /\ [][TrafficNext]_trafficVars /\ TrafficFairness

(* A dequeue takes the head of the highest class that is not empty, within its
   limit, and apply_aging leaves nothing to promote and loses no item
   (dequeue_highest, dequeue_bytes, apply_aging). *)
ServedInOrder ==
    [][(part \in {"queue", "recovery"}) => Classes!ServedInOrder /\ Classes!AgingSettles]_trafficVars
(* What is known of the traffic is true: the byte totals equal the sizes of what
   is queued; recovery hands out updates by class and discards only obsolete
   ones; every listener hears of each change of the context, and of no other;
   the class the manager reports is the class in the registry's policy
   (sync_queue.rs, recover_from_partition, compare_and_swap, effective_class,
   get_effective_policy). *)
ClassesAreKept ==
    /\ part \in {"queue", "recovery"} => Classes!BytesAccounted
    /\ part = "recovery" => Classes!RecoveryInOrder
    /\ part = "context" => Classes!ChangesAnnounced /\ Classes!ClassificationsAgree
=============================================================================
