-------------------------------- MODULE QoS ---------------------------------
(* peat-protocol/src/qos: the tables of classes and policies, the manager that
   switches mission contexts, and the two queues that hold updates back.  The
   manager and the queues are state machines of their own; they share the
   classes and no variable. *)
EXTENDS Naturals, FiniteSets, FiniteSetsExt, TLC, Bags, Sequences, SequencesExt

(***************************************************************************)
(* The tables of peat-protocol/src/qos as values: which class and policy a *)
(* data type has (classification.rs), how a mission context adjusts them   *)
(* (context.rs), the presets of the registry (registry.rs) and how long an *)
(* update queued during a partition stays of use (recovery.rs).            *)
(* Classes are numbered by QoSClass::as_u8; NoLimit stands for None.       *)
(* Sizes are in bytes, latencies in ms, times to live in seconds.          *)
(***************************************************************************)

CONSTANT NoLimit

Critical == 1
High == 2
Normal == 3
Low == 4
Bulk == 5
QoSClass == Critical..Bulk

TypesOf == <<{"ContactReport", "EmergencyAlert", "AbortCommand", "RoeUpdate"},
             {"TargetImage", "AudioIntercept", "MissionRetasking", "FormationChange"},
             {"HealthStatus", "CapabilityChange", "FormationUpdate", "TaskAssignment"},
             {"PositionUpdate", "Heartbeat", "SensorTelemetry", "EnvironmentData"},
             {"ModelUpdate", "DebugLog", "HistoricalTrack", "TrainingData"}>>

(* all_predefined; a Custom type behaves like one of its class *)
DataType == UNION {TypesOf[c] : c \in QoSClass}

DefaultClass(d) == CHOOSE c \in QoSClass : d \in TypesOf[c]

Policy(class, latency, size, ttl, retention, preemptable) ==
    [class |-> class, latency |-> latency, size |-> size, ttl |-> ttl,
     retention |-> retention, preemptable |-> preemptable]

Day == 86400
KB == 1024
MB == 1024 * KB

DefaultPolicy ==
    [ContactReport    |-> Policy(Critical, 500, 32 * KB, NoLimit, 5, FALSE),
     EmergencyAlert   |-> Policy(Critical, 500, 8 * KB, NoLimit, 5, FALSE),
     AbortCommand     |-> Policy(Critical, 500, 1 * KB, NoLimit, 5, FALSE),
     RoeUpdate        |-> Policy(Critical, 500, 64 * KB, NoLimit, 5, FALSE),
     TargetImage      |-> Policy(High, 5000, 10 * MB, 3600, 4, TRUE),
     AudioIntercept   |-> Policy(High, 5000, 5 * MB, 3600, 4, TRUE),
     MissionRetasking |-> Policy(High, 2000, 64 * KB, 7200, 4, FALSE),
     FormationChange  |-> Policy(High, 5000, 16 * KB, 3600, 4, TRUE),
     HealthStatus     |-> Policy(Normal, 60000, 8 * KB, Day, 3, TRUE),
     CapabilityChange |-> Policy(Normal, 60000, 16 * KB, Day, 3, TRUE),
     FormationUpdate  |-> Policy(Normal, 60000, 32 * KB, Day \div 2, 3, TRUE),
     TaskAssignment   |-> Policy(Normal, 30000, 16 * KB, Day, 3, TRUE),
     PositionUpdate   |-> Policy(Low, 300000, 1 * KB, Day, 2, TRUE),
     Heartbeat        |-> Policy(Low, 300000, 256, 3600, 1, TRUE),
     SensorTelemetry  |-> Policy(Low, 300000, 64 * KB, Day \div 2, 2, TRUE),
     EnvironmentData  |-> Policy(Low, 600000, 128 * KB, Day, 2, TRUE),
     ModelUpdate      |-> Policy(Bulk, NoLimit, 500 * MB, 7 * Day, 2, TRUE),
     DebugLog         |-> Policy(Bulk, NoLimit, 10 * MB, 3 * Day, 1, TRUE),
     HistoricalTrack  |-> Policy(Bulk, NoLimit, 100 * MB, 7 * Day, 2, TRUE),
     TrainingData     |-> Policy(Bulk, NoLimit, 1024 * MB, 30 * Day, 2, TRUE)]

(* default_military of the recovery: a type without a window never becomes
   obsolete. *)
ObsolescenceWindow ==
    [PositionUpdate   |-> 300,  Heartbeat        |-> 60,
     SensorTelemetry  |-> 30,   EnvironmentData  |-> 600,
     HealthStatus     |-> 600,  CapabilityChange |-> 1800,
     FormationUpdate  |-> 1800, TaskAssignment   |-> 3600,
     TargetImage      |-> 3600, AudioIntercept   |-> 3600,
     MissionRetasking |-> 7200, FormationChange  |-> 3600,
     DebugLog         |-> Day,  HistoricalTrack  |-> 7 * Day]

-----------------------------------------------------------------------------

Elevate(n) == [kind |-> "Elevate", n |-> n]
Demote(n) == [kind |-> "Demote", n |-> n]
Override(c) == [kind |-> "Override", n |-> c]
NoChange == [kind |-> "NoChange", n |-> 0]

(* QoSClassAdjustment::apply: the sum saturates at both ends. *)
Apply(a, class) ==
    CASE a.kind = "Elevate" -> IF class > a.n THEN class - a.n ELSE Critical
      [] a.kind = "Demote" -> Min({class + a.n, Bulk})
      [] a.kind = "Override" -> a.n
      [] OTHER -> class

(* A profile is the adjustments it makes: [data type -> adjustment]. *)
All(types, a) == [d \in types |-> a]

Profile(context) ==
    CASE context = "Ingress" -> All({"HistoricalTrack", "PositionUpdate"}, Demote(1))
      [] context = "Execution" ->
            All({"TargetImage", "AudioIntercept", "CapabilityChange",
                 "FormationChange"}, Elevate(1))
      [] context = "Egress" ->
            All({"HealthStatus", "CapabilityChange", "FormationUpdate"}, Elevate(1))
      [] context = "Emergency" ->
            All({"HealthStatus", "CapabilityChange", "PositionUpdate"}, Elevate(2))
              @@ All({"EmergencyAlert"}, Override(Critical))
              @@ All({"TrainingData"}, Override(Bulk))
      [] context = "Standby" -> <<>>

GetAdjustment(profile, d) == IF d \in DOMAIN profile THEN profile[d] ELSE NoChange

(* Variant: the comparison of the classes is the wrong way round (as numbers
   a higher priority is smaller). *)
ApplyToPolicySwapped(profile, base, d) ==
    LET class == Apply(GetAdjustment(profile, d), base.class)
        latency == IF base.latency = NoLimit \/ class = base.class THEN base.latency
                   ELSE IF class > base.class THEN base.latency \div 2
                   ELSE base.latency * 2
    IN [base EXCEPT !.class = class, !.latency = latency]

(* apply_to_policy: a higher class halves the latency, a lower one doubles it *)
ApplyToPolicy(profile, base, d) ==
    LET class == Apply(GetAdjustment(profile, d), base.class)
        latency == IF base.latency = NoLimit \/ class = base.class THEN base.latency
                   ELSE IF class < base.class THEN base.latency \div 2
                   ELSE base.latency * 2
    IN [base EXCEPT !.class = class, !.latency = latency]

-----------------------------------------------------------------------------
(* Registry presets: the policies they override *)
LowBandwidth ==
    [TargetImage    |-> Policy(High, 30000, 2 * MB, 7200, 4, TRUE),
     AudioIntercept |-> Policy(High, 30000, 1 * MB, 7200, 4, TRUE),
     ModelUpdate    |-> Policy(Bulk, NoLimit, 50 * MB, Day, 1, TRUE)]

HighPriority ==
    [ContactReport    |-> Policy(Critical, 250, 64 * KB, NoLimit, 5, FALSE),
     MissionRetasking |-> Policy(Critical, 500, 64 * KB, 7200, 5, FALSE)]

GetPolicy(overrides, d) ==
    IF d \in DOMAIN overrides THEN overrides[d] ELSE DefaultPolicy[d]

-----------------------------------------------------------------------------
(***************************************************************************)
(* The ContextManager of peat-protocol/src/qos/context_manager.rs, with    *)
(* the registry whose policies it adjusts.  Threads switch the mission     *)
(* context; the switch is one atomic swap, and the listeners are notified  *)
(* after it, one call per listener under the listeners' read lock, so two  *)
(* switches may notify in either order.  Listeners subscribe and unsub-    *)
(* scribe under the write lock.                                            *)
(***************************************************************************)

CONSTANTS
    Thread, Listener,
    Contexts,     \* the contexts the threads switch to
    CustomProfile,\* a profile that set_custom_profile installs
    MaxSwitches

VARIABLES
    context,      \* current_context
    custom,       \* custom_profiles: [context -> profile], partial
    overrides,    \* QoSRegistry::overrides
    listeners,    \* the subscribed listeners
    switch,       \* per thread: the change it still has to announce
    told,         \* per listener: bag of the changes it was told
    due,          \* per listener: bag of the changes made since it subscribed
    switches

contextVars == <<context, custom, overrides, listeners, switch, told, due,
                 switches>>

None == [pending |-> FALSE]

Init ==
    /\ context = "Standby"
    /\ custom = <<>> /\ overrides = <<>>
    /\ listeners = {}
    /\ switch = [t \in Thread |-> None]
    /\ told = [l \in Listener |-> EmptyBag]
    /\ due = [l \in Listener |-> EmptyBag]
    /\ switches = 0

-----------------------------------------------------------------------------
Announcing == {t \in Thread : switch[t].pending}

(* Variant: a switch to the context that is already set is announced too. *)
SwapAlways(t, new) ==
    /\ switch[t] = None
    /\ switches < MaxSwitches /\ switches' = switches + 1
    /\ context' = new
    /\ switch' = [switch EXCEPT ![t] =
                    [pending |-> TRUE, change |-> <<context, new>>]]
    /\ due' = IF new = context THEN due
              ELSE [l \in Listener |->
                      IF l \in listeners
                      THEN due[l] (+) SetToBag({<<context, new>>}) ELSE due[l]]
    /\ UNCHANGED <<custom, overrides, listeners, told>>

(* The atomic part of set_context and of a successful compare_and_swap.  A
   listener subscribed by now is owed the change. *)
Swap(t, new) ==
    /\ switch[t] = None
    /\ switches < MaxSwitches /\ switches' = switches + 1
    /\ context' = new
    /\ IF new = context THEN UNCHANGED <<switch, due>>
       ELSE /\ switch' = [switch EXCEPT ![t] =
                 [pending |-> TRUE, change |-> <<context, new>>]]
            /\ due' = [l \in Listener |->
                 IF l \in listeners
                 THEN due[l] (+) SetToBag({<<context, new>>}) ELSE due[l]]
    /\ UNCHANGED <<custom, overrides, listeners, told>>

SetContext(t) == \E new \in Contexts : Swap(t, new)

CompareAndSwap(t) ==
    \E expected, new \in Contexts : expected = context /\ Swap(t, new)

(* notify_listeners, under the read lock *)
Notify(t) ==
    /\ switch[t].pending
    /\ told' = [l \in Listener |->
                  IF l \in listeners
                  THEN told[l] (+) SetToBag({switch[t].change}) ELSE told[l]]
    /\ switch' = [switch EXCEPT ![t] = None]
    /\ UNCHANGED <<context, custom, overrides, listeners, due, switches>>

(* A listener that subscribes between a swap and its notification hears of
   the change as well. *)
Subscribe(l) ==
    /\ l \notin listeners
    /\ listeners' = listeners \cup {l}
    /\ told' = [told EXCEPT ![l] = EmptyBag]
    /\ due' = [due EXCEPT ![l] =
                 BagOfAll(LAMBDA t : switch[t].change, SetToBag(Announcing))]
    /\ UNCHANGED <<context, custom, overrides, switch, switches>>

ClearListeners ==
    /\ listeners # {}
    /\ listeners' = {}
    /\ UNCHANGED <<context, custom, overrides, switch, told, due, switches>>

SetCustomProfile ==
    /\ custom' = ("Execution" :> CustomProfile)
    /\ UNCHANGED <<context, overrides, listeners, switch, told, due, switches>>

ClearCustomProfile ==
    /\ custom' = <<>>
    /\ UNCHANGED <<context, overrides, listeners, switch, told, due, switches>>

(* override_policy, one type after the other, and clear_override *)
ChangeOverrides ==
    /\ overrides' \in {<<>>, LowBandwidth, HighPriority}
    /\ UNCHANGED <<context, custom, listeners, switch, told, due, switches>>

Next ==
    \/ \E t \in Thread : SetContext(t) \/ CompareAndSwap(t) \/ Notify(t)
    \/ \E l \in Listener : Subscribe(l)
    \/ ClearListeners \/ SetCustomProfile \/ ClearCustomProfile
    \/ ChangeOverrides

-----------------------------------------------------------------------------
CurrentProfile ==
    IF context \in DOMAIN custom THEN custom[context] ELSE Profile(context)

(* ContextManager::effective_class *)
EffectiveClass(d) == Apply(GetAdjustment(CurrentProfile, d), DefaultClass(d))

(* QoSRegistry::get_effective_policy *)
GetEffectivePolicy(d) == ApplyToPolicy(CurrentProfile, GetPolicy(overrides, d), d)

(* No switch of context is lost or told twice: once no announcement is under
   way, a listener has been told exactly the changes made since it subscribed,
   whichever threads made them (the order is not kept). *)
ChangesAnnounced ==
    Announcing = {} => \A l \in listeners : told[l] = due[l]

(* The manager and the registry classify alike wherever the registry does not
   override the class, an elevated type never gets a longer latency and a
   demoted one never a shorter, no predefined context delays critical data,
   and recovery never hands out an update that outlived its time to live nor
   drops a critical one. *)
ClassificationsAgree ==
    \A d \in DataType :
        LET base == GetPolicy(overrides, d)
            now == GetEffectivePolicy(d)
        IN /\ base.class = DefaultClass(d) => now.class = EffectiveClass(d)
           /\ now.latency # NoLimit =>
                 IF now.class <= base.class THEN now.latency <= base.latency
                                            ELSE now.latency >= base.latency
           /\ context \notin DOMAIN custom /\ base.class = Critical
                 => now = base
           /\ d \in DOMAIN ObsolescenceWindow =>
                 DefaultClass(d) # Critical
                 /\ ObsolescenceWindow[d] <= DefaultPolicy[d].ttl

-----------------------------------------------------------------------------
(***************************************************************************)
(* The two queues that hold updates back in peat-protocol/src/qos: the     *)
(* PrioritySyncQueue of sync_queue.rs, which serves classes in order and   *)
(* promotes what has waited long, and the SyncRecovery of recovery.rs,     *)
(* which collects updates during a partition and hands them out when it    *)
(* heals.  A queue is a sequence per class; classes are numbered by        *)
(* QoSClass::as_u8, 1 Critical to 5 Bulk.  Time is counted in hours.       *)
(***************************************************************************)

CONSTANTS
    Offer,      \* what producers offer: [class, size, multiplier, type]
    MaxBytes,   \* max_bytes of the queue
    Window,     \* obsolescence_windows: [type -> hours]
    Limits,     \* the byte and item limits of the batch calls
    MaxItems,   \* items ever offered to each queue
    MaxTime

Class == 1..5

VARIABLES
    hour,
    queues, totalBytes,             \* PrioritySyncQueue
    updates, updateBytes, iterator, \* SyncRecovery; iterator: it is borrowed
    offered,                        \* items offered so far, to either queue
    out,                            \* what the last call returned
    recovered, discarded            \* handed out since recovery began; filtered

queueVars == <<hour, queues, totalBytes, updates, updateBytes, iterator,
               offered, out, recovered, discarded>>

Empty == [c \in Class |-> <<>>]

Bytes(items) == FoldSeq(LAMBDA i, n : i.size + n, 0, items)
AllItems(q) == FlattenSeq(q)
Age(i) == hour - i.at

-----------------------------------------------------------------------------
AgedClass(i) ==
    LET hours == Age(i) * i.multiplier IN
    CASE i.class = Bulk /\ hours >= 1 -> Low
      [] i.class = Low /\ hours >= 2 -> Normal
      [] OTHER -> i.class

(* Items of class from that age to class to move to the back of its queue. *)
Promote(q, from, to) ==
    LET moving(i) == AgedClass(i) = to
        staying(i) == ~moving(i)
        up == SelectSeq(q[from], moving)
    IN [q EXCEPT ![from] = SelectSeq(q[from], staying),
                 ![to] = @ \o [k \in DOMAIN up |-> [up[k] EXCEPT !.class = to]]]

(* The first queue that is not empty, or 0 *)
HighestClass(q) ==
    IF \A c \in Class : q[c] = <<>> THEN 0
    ELSE CHOOSE c \in Class : q[c] # <<>> /\ \A d \in 1..(c - 1) : q[d] = <<>>

PeekHighest(q) == Head(q[HighestClass(q)])

Pop(q) == [q EXCEPT ![HighestClass(q)] = Tail(@)]

(* dequeue_highest, repeated while the loop's condition holds: n items, or as
   many as fit into n bytes and at least one. *)
DequeueBatch(q, n) ==
    LET step[k \in 0..n] ==
            IF k = 0 THEN [batch |-> <<>>, rest |-> q]
            ELSE LET s == step[k - 1] IN
                 IF HighestClass(s.rest) = 0 THEN s
                 ELSE [batch |-> Append(s.batch, PeekHighest(s.rest)),
                       rest |-> Pop(s.rest)]
    IN step[n]

(* Variant: the limit is only looked at after the item is taken. *)
DequeueBytesOver(q, max) ==
    LET step[k \in 0..Len(AllItems(q))] ==
            IF k = 0 THEN [batch |-> <<>>, rest |-> q]
            ELSE LET s == step[k - 1] IN
                 IF HighestClass(s.rest) = 0 \/ Bytes(s.batch) >= max THEN s
                 ELSE [batch |-> Append(s.batch, PeekHighest(s.rest)),
                       rest |-> Pop(s.rest)]
    IN step[Len(AllItems(q))]

DequeueBytes(q, max) ==
    LET step[k \in 0..Len(AllItems(q))] ==
            IF k = 0 THEN [batch |-> <<>>, rest |-> q]
            ELSE LET s == step[k - 1] IN
                 IF \/ HighestClass(s.rest) = 0
                    \/ Bytes(s.batch) >= max
                    \/ /\ s.batch # <<>>
                       /\ Bytes(s.batch) + PeekHighest(s.rest).size > max
                 THEN s
                 ELSE [batch |-> Append(s.batch, PeekHighest(s.rest)),
                       rest |-> Pop(s.rest)]
    IN step[Len(AllItems(q))]

-----------------------------------------------------------------------------
QueuesInit ==
    /\ hour = 0
    /\ queues = Empty /\ totalBytes = 0
    /\ updates = Empty /\ updateBytes = 0 /\ iterator = FALSE
    /\ offered = 0 /\ out = <<>> /\ recovered = <<>> /\ discarded = {}

Item(o) == [id |-> offered, at |-> hour] @@ o

Enqueue ==
    /\ offered < MaxItems
    /\ \E o \in Offer :
          /\ totalBytes + o.size <= MaxBytes
          /\ queues' = [queues EXCEPT ![o.class] = Append(@, Item(o))]
          /\ totalBytes' = totalBytes + o.size
    /\ offered' = offered + 1
    /\ out' = <<>>
    /\ UNCHANGED <<hour, updates, updateBytes, iterator, recovered, discarded>>

HandOut(r) ==
    /\ r.batch # <<>>
    /\ out' = r.batch
    /\ queues' = r.rest
    /\ totalBytes' = totalBytes - Bytes(r.batch)
    /\ UNCHANGED <<hour, updates, updateBytes, iterator, offered, recovered,
                   discarded>>

DequeueHighest == HandOut(DequeueBatch(queues, 1))

DequeueItems == \E n \in Limits : HandOut(DequeueBatch(queues, n))

DequeueUpTo == \E n \in Limits : HandOut(DequeueBytes(queues, n))

(* Variant: the promotions are applied from the top down. *)
ApplyAgingTopDown ==
    /\ queues' = Promote(Promote(queues, Low, Normal), Bulk, Low)
    /\ out' = <<>>
    /\ UNCHANGED <<hour, totalBytes, updates, updateBytes, iterator, offered,
                   recovered, discarded>>

ApplyAging ==
    /\ queues' = Promote(Promote(queues, Bulk, Low), Low, Normal)
    /\ out' = <<>>
    /\ UNCHANGED <<hour, totalBytes, updates, updateBytes, iterator, offered,
                   recovered, discarded>>

(* Variant: the bytes of the stale items stay counted. *)
RemoveStaleKeepsBytes(maxAge) ==
    /\ queues' = [c \in Class |-> SelectSeq(queues[c], LAMBDA i : Age(i) < maxAge)]
    /\ out' = <<>>
    /\ UNCHANGED <<hour, totalBytes, updates, updateBytes, iterator, offered,
                   recovered, discarded>>

RemoveStale(maxAge) ==
    LET kept == [c \in Class |-> SelectSeq(queues[c], LAMBDA i : Age(i) < maxAge)]
    IN /\ queues' = kept
       /\ totalBytes' = totalBytes - (Bytes(AllItems(queues)) - Bytes(AllItems(kept)))
       /\ out' = <<>>
       /\ UNCHANGED <<hour, updates, updateBytes, iterator, offered, recovered,
                      discarded>>

DrainClass ==
    \E c \in Class :
        /\ queues[c] # <<>>
        /\ queues' = [queues EXCEPT ![c] = <<>>]
        /\ totalBytes' = totalBytes - Bytes(queues[c])
        /\ out' = <<>>
        /\ UNCHANGED <<hour, updates, updateBytes, iterator, offered,
                       recovered, discarded>>

ClearQueue ==
    /\ queues' = Empty /\ totalBytes' = 0 /\ out' = <<>>
    /\ UNCHANGED <<hour, updates, updateBytes, iterator, offered, recovered,
                   discarded>>

-----------------------------------------------------------------------------
(* SyncRecovery.  Its iterator borrows it: while it lives nothing is queued. *)

(* Variant: a type without a window is always obsolete. *)
IsObsoleteByDefault(type, age) ==
    type \in DOMAIN Window => age > Window[type]

IsObsolete(type, age) ==
    type \in DOMAIN Window /\ age > Window[type]

QueueUpdate ==
    /\ ~iterator /\ offered < MaxItems
    /\ \E o \in Offer :
          /\ updates' = [updates EXCEPT ![o.class] = Append(@, Item(o))]
          /\ updateBytes' = updateBytes + o.size
    /\ offered' = offered + 1
    /\ out' = <<>>
    /\ UNCHANGED <<hour, queues, totalBytes, iterator, recovered, discarded>>

(* recover_from_partition: filter, then lend the iterator out. *)
RecoverFromPartition ==
    LET obsolete(i) == IsObsolete(i.type, Age(i))
        fresh == [c \in Class |-> SelectSeq(updates[c], LAMBDA i : ~obsolete(i))]
    IN /\ ~iterator
       /\ iterator' = TRUE
       /\ updates' = fresh
       /\ updateBytes' = Bytes(AllItems(fresh))
       /\ discarded' = discarded \cup
             {[item |-> i, age |-> Age(i)] :
                 i \in ToSet(SelectSeq(AllItems(updates), obsolete))}
       /\ recovered' = <<>>
       /\ out' = <<>>
       /\ UNCHANGED <<hour, queues, totalBytes, offered>>

(* The iterator's next, or next_with_limit, which gives nothing while the
   next batch is larger than the limit. *)
NextRecoveryBatch ==
    /\ iterator /\ HighestClass(updates) # 0
    /\ LET b == PeekHighest(updates) IN
          /\ recovered' = Append(recovered, b)
          /\ updateBytes' = updateBytes - b.size
    /\ updates' = Pop(updates)
    /\ out' = <<>>
    /\ UNCHANGED <<hour, queues, totalBytes, iterator, offered, discarded>>

(* The iterator is dropped, with or without batches left; complete_recovery *)
EndRecovery ==
    /\ iterator
    /\ iterator' = FALSE
    /\ out' = <<>>
    /\ UNCHANGED <<hour, queues, totalBytes, updates, updateBytes, offered,
                   recovered, discarded>>

Tick ==
    /\ hour < MaxTime
    /\ hour' = hour + 1
    /\ out' = <<>>
    /\ UNCHANGED <<queues, totalBytes, updates, updateBytes, iterator,
                   offered, recovered, discarded>>

QueueNext ==
    \/ Enqueue \/ DequeueHighest \/ DequeueItems \/ DequeueUpTo \/ ApplyAging
    \/ RemoveStale(2) \/ DrainClass \/ ClearQueue \/ Tick

RecoveryNext ==
    \/ QueueUpdate \/ RecoverFromPartition \/ NextRecoveryBatch \/ EndRecovery
    \/ Tick

QueuesNext == QueueNext \/ RecoveryNext

-----------------------------------------------------------------------------
(* total_bytes is the size of what is queued and never exceeds max_bytes,
   after any sequence of enqueues, batches, promotions and removals: an
   unsigned counter that drifted would wrap and refuse every enqueue. *)
BytesAccounted ==
    /\ totalBytes = Bytes(AllItems(queues)) /\ totalBytes <= MaxBytes
    /\ updateBytes = Bytes(AllItems(updates))

(* Whatever the batch calls return is the front of the queues read in
   priority order, nothing is skipped or lost; a byte limit is exceeded only
   by a batch of one, and the batch stops only when the next item does not
   fit. *)
ServedInOrder ==
    queueVars' # queueVars =>
        /\ out' # <<>> => out' \o AllItems(queues') = AllItems(queues)
        /\ \A n \in Limits :
             LET r == DequeueBytes(queues, n) IN
             /\ Len(r.batch) > 1 => Bytes(r.batch) <= n
             /\ HighestClass(r.rest) # 0 =>
                   Bytes(r.batch) + PeekHighest(r.rest).size > n

(* apply_aging leaves nothing to promote: a bulk item that waited long enough
   for two promotions gets both, and no item is promoted early. *)
AgingSettles ==
    queueVars' # queueVars /\ ApplyAging =>
        /\ \A c \in Class : \A k \in DOMAIN queues'[c] :
              queues'[c][k].class = c /\ AgedClass(queues'[c][k]) = c
        /\ {i.id : i \in ToSet(AllItems(queues'))} = {i.id : i \in ToSet(AllItems(queues))}

(* Recovery drops only what is older than its window, and hands out critical
   updates first and each class in the order it was queued. *)
RecoveryInOrder ==
    /\ \A d \in discarded :
          d.item.type \in DOMAIN Window /\ d.age > Window[d.item.type]
    /\ \A j, k \in DOMAIN recovered : j < k =>
          \/ recovered[j].class < recovered[k].class
          \/ /\ recovered[j].class = recovered[k].class
             /\ recovered[j].id < recovered[k].id

=============================================================================
