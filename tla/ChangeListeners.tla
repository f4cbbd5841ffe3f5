--------------------------- MODULE ChangeListeners ---------------------------
(***************************************************************************)
(* How an embedding application hears of document changes                  *)
(* (peat-ffi/src/lib.rs).                                                  *)
(*                                                                         *)
(* JNI: one process-wide listener slot and one process-wide ACTIVE flag,   *)
(* shared by every subscription task ever spawned.  A task looks at the    *)
(* flag between two events (at the latest after 200 ms), and on its way    *)
(* out looks once more before it empties the slot.  Subscribing swaps the  *)
(* listener in, sets the flag to false and to true, and spawns a task.     *)
(*                                                                         *)
(* UniFFI: each subscription has its own handle, flag and task; the task   *)
(* calls back (subscribe) or queues for poll_changes (subscribe_poll).     *)
(*                                                                         *)
(* Both read a broadcast channel that keeps the last Capacity changes.     *)
(* The node, and so the channel, outlives the subscriptions here, and the  *)
(* Java VM accepts every call.                                             *)
(***************************************************************************)
EXTENDS Naturals, Sequences, FiniteSets

CONSTANTS Listeners,    \* listeners of successive JNI subscriptions: 1..n
          Handles,      \* UniFFI subscriptions
          Capacity,     \* of the broadcast channel
          MaxChanges    \* bound: documents written

VARIABLES changes,      \* changes published so far
          slot,         \* DOCUMENT_CHANGE_LISTENER, {} when empty
          active,       \* DOCUMENT_SUBSCRIPTION_ACTIVE
          client,       \* where the (single) JNI client is: "idle" or inside subscribe
          wanted,       \* history: the listener the client last subscribed, {} after unsubscribe
          task,         \* JNI tasks: [at, read] per listener that spawned it
          handle        \* UniFFI: [kind, active, at, read, queue] per subscription

vars == <<changes, slot, active, client, wanted, task, handle>>
jni == <<slot, active, client, wanted, task>>

NoTask == [at |-> "none", read |-> 0]
NoHandle == [kind |-> "none", active |-> FALSE, at |-> "none", read |-> 0, queue |-> 0]

Init ==
    /\ changes = 0 /\ slot = {} /\ active = FALSE /\ client = "idle" /\ wanted = {}
    /\ task = [l \in Listeners |-> NoTask]
    /\ handle = [h \in Handles |-> NoHandle]

\* A document is stored, locally or by sync, and the change is broadcast.
Change ==
    /\ changes < MaxChanges /\ changes' = changes + 1
    /\ UNCHANGED <<slot, active, client, wanted, task, handle>>

\* RecvError::Lagged: the oldest kept change is next.
Oldest == IF changes > Capacity THEN changes - Capacity ELSE 0
Lags(read) == read < Oldest

-----------------------------------------------------------------------------
\* subscribeDocumentChangesJni, in its four steps.
SwapListener(l) ==
    /\ client = "idle" /\ task[l].at = "none" /\ l \notin slot
    /\ slot' = {l} /\ wanted' = {l} /\ client' = "swapped"
    /\ UNCHANGED <<changes, active, task, handle>>

SignalPrevious ==
    /\ client = "swapped" /\ active' = FALSE /\ client' = "signalled"
    /\ UNCHANGED <<changes, slot, wanted, task, handle>>

MarkActive ==
    /\ client = "signalled" /\ active' = TRUE /\ client' = "marked"
    /\ UNCHANGED <<changes, slot, wanted, task, handle>>

Spawn(l) ==
    /\ client = "marked" /\ wanted = {l} /\ client' = "idle"
    /\ task' = [task EXCEPT ![l].at = "spawned"]
    /\ UNCHANGED <<changes, slot, active, wanted, handle>>

UnsubscribeDocumentChangesJni ==
    /\ client = "idle" /\ active' = FALSE /\ wanted' = {}
    /\ UNCHANGED <<changes, slot, client, task, handle>>

\* The task subscribes to the channel when it first runs, not before.
TaskStarts(l) ==
    /\ task[l].at = "spawned"
    /\ task' = [task EXCEPT ![l] = [at |-> "top", read |-> changes]]
    /\ UNCHANGED <<changes, slot, active, client, wanted, handle>>

\* Then: the loop's test, one event or timeout, and the way out.
TaskTests(l) ==
    /\ task[l].at = "top"
    /\ task' = [task EXCEPT ![l].at = IF active THEN "recv" ELSE "leaving"]
    /\ UNCHANGED <<changes, slot, active, client, wanted, handle>>

TaskTimesOut(l) ==
    /\ task[l].at = "recv" /\ task' = [task EXCEPT ![l].at = "top"]
    /\ UNCHANGED <<changes, slot, active, client, wanted, handle>>

\* dispatch_document_change: to whichever listener the slot holds by now, if any;
\* what a listener does with the change has no effect here.
DispatchDocumentChange(l) ==
    /\ task[l].at = "recv" /\ task[l].read < changes /\ ~Lags(task[l].read)
    /\ task' = [task EXCEPT ![l] = [at |-> "top", read |-> @.read + 1]]
    /\ UNCHANGED <<changes, slot, active, client, wanted, handle>>

DispatchDocumentError(l) ==
    /\ task[l].at = "recv" /\ Lags(task[l].read)
    /\ task' = [task EXCEPT ![l] = [at |-> "top", read |-> Oldest]]
    /\ UNCHANGED <<changes, slot, active, client, wanted, handle>>

LeaveUnchecked(l) ==
    /\ task[l].at = "leaving" /\ task' = [task EXCEPT ![l].at = "gone"]
    /\ UNCHANGED <<changes, slot, active, client, wanted, handle>>

\* The second look at the flag, and the emptying of the slot it allows.
Leave(l) ==
    /\ task[l].at = "leaving"
    /\ task' = [task EXCEPT ![l].at = IF active THEN "gone" ELSE "clearing"]
    /\ UNCHANGED <<changes, slot, active, client, wanted, handle>>

ClearSlot(l) ==
    /\ task[l].at = "clearing" /\ task' = [task EXCEPT ![l].at = "gone"]
    /\ slot' = {}
    /\ UNCHANGED <<changes, active, client, wanted, handle>>

-----------------------------------------------------------------------------
\* PeatNode::subscribe and subscribe_poll: the receiver exists before the task.
Opens(h, kind) ==
    /\ handle[h].kind = "none"
    /\ handle' = [handle EXCEPT ![h] = [NoHandle EXCEPT !.kind = kind, !.active = TRUE,
                                                        !.at = "top", !.read = changes]]
    /\ UNCHANGED <<changes, jni>>

Subscribe(h) == Opens(h, "callback")
SubscribePoll(h) == Opens(h, "poll")

HandleTests(h) ==
    /\ handle[h].at = "top"
    /\ handle' = [handle EXCEPT ![h].at = IF handle[h].active THEN "recv" ELSE "gone"]
    /\ UNCHANGED <<changes, jni>>

HandleTimesOut(h) ==
    /\ handle[h].at = "recv"
    /\ handle' = [handle EXCEPT ![h].at = IF handle[h].active THEN "top" ELSE "gone"]
    /\ UNCHANGED <<changes, jni>>

\* A change is called back or queued, also when cancel() came meanwhile; a lag
\* skips to the oldest kept change, and only callbacks hear of it.
HandleTakes(h) ==
    /\ handle[h].at = "recv" /\ handle[h].read < changes
    /\ LET lag == Lags(handle[h].read)
       IN handle' = [handle EXCEPT
            ![h].at = "top",
            ![h].read = IF lag THEN Oldest ELSE @ + 1,
            ![h].queue = IF ~lag /\ handle[h].kind = "poll" THEN @ + 1 ELSE @]
    /\ UNCHANGED <<changes, jni>>

PollChanges(h) ==
    /\ handle[h].queue > 0 /\ handle' = [handle EXCEPT ![h].queue = 0]
    /\ UNCHANGED <<changes, jni>>

\* cancel(), or the handle is dropped.
Cancel(h) ==
    /\ handle[h].active /\ handle' = [handle EXCEPT ![h].active = FALSE]
    /\ UNCHANGED <<changes, jni>>

Next ==
    \/ Change \/ SignalPrevious \/ MarkActive \/ UnsubscribeDocumentChangesJni
    \/ \E l \in Listeners :
         \/ SwapListener(l) \/ Spawn(l) \/ TaskStarts(l) \/ TaskTests(l) \/ TaskTimesOut(l)
         \/ DispatchDocumentChange(l) \/ DispatchDocumentError(l) \/ Leave(l) \/ ClearSlot(l)
    \/ \E h \in Handles :
         \/ Subscribe(h) \/ SubscribePoll(h) \/ HandleTests(h) \/ HandleTimesOut(h)
         \/ HandleTakes(h) \/ PollChanges(h) \/ Cancel(h)

\* Tasks run, and a call of the client returns.
Fairness ==
    /\ WF_vars(SignalPrevious) /\ WF_vars(MarkActive)
    /\ \A l \in Listeners :
         /\ WF_vars(Spawn(l)) /\ WF_vars(TaskStarts(l)) /\ WF_vars(TaskTests(l)) /\ WF_vars(Leave(l)) /\ WF_vars(ClearSlot(l))
         /\ WF_vars(TaskTimesOut(l) \/ DispatchDocumentChange(l) \/ DispatchDocumentError(l))
    /\ \A h \in Handles : WF_vars(HandleTests(h)) /\ WF_vars(HandleTakes(h) \/ HandleTimesOut(h))

Spec == Init /\ [][Next]_vars /\ Fairness

\* After the last unsubscribe every task ends, whatever subscriptions and
\* unsubscriptions raced before, and the slot is emptied so that the listener
\* can be collected.
UnsubscribedGoesQuiet ==
    /\ <>[](client = "idle" /\ wanted = {})
         => <>[](slot = {} /\ \A l \in Listeners : task[l].at \in {"none", "gone"})
    /\ \A h \in Handles : [](handle[h].kind # "none" /\ ~handle[h].active
                               => <>(handle[h].at = "gone"))

=============================================================================
