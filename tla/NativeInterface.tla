-------------------------- MODULE NativeInterface ---------------------------
(* The node behind foreign callers: counted handles through JNI, the C interface
   to the peers, and the entry points called from Dart; three state machines. *)
EXTENDS Naturals, Sequences, FiniteSetsExt

(***************************************************************************)
(* Who owns an embedded node (peat-ffi/src/lib.rs).  A node is a reference *)
(* counted object.  Foreign code holds it as an integer: the handle its    *)
(* creator got, and the one GLOBAL_NODE_HANDLE keeps so that a bridge can  *)
(* reach the node after a plugin is replaced.  Every JNI call turns such   *)
(* an integer back into an owner for its own duration and must leave the   *)
(* count as it found it, on every path.  The reconnect task upgrades a     *)
(* weak reference for each of its ticks.  The node owns the lock of its    *)
(* database, so the next node on the directory opens only when it is gone. *)
(*                                                                         *)
(* A JNI call is the sequence of what it does with the node, one sequence  *)
(* per path through the wrapper:                                           *)
(*   take    Arc::from_raw on the handle   forget  mem::forget             *)
(*   use     work through that reference   clone   clones of its parts     *)
(*   inner   work through those clones     drop    the owner is dropped    *)
(* The client is assumed to start no call on a handle it has given up and  *)
(* to give up no handle while a call through it runs.                      *)
(***************************************************************************)

CONSTANTS Nodes,        \* nodes, each known by its storage directory
          Threads       \* threads of the foreign runtime

VARIABLES refs,         \* strong count of each node
          handles,      \* nodes whose creator has not released its handle
          slot,         \* GLOBAL_NODE_HANDLE: {} or the node it owns
          bridge,       \* nodes the bridge reached through the slot and still uses
          opening,      \* how far a node's construction has come
          ticking,      \* nodes whose reconnect task runs a tick
          stopped,      \* nodes whose background tasks were told to stop
          call          \* what each thread still has to do: [on, via, steps]

handlesVars == <<refs, handles, slot, bridge, opening, ticking, stopped, call>>

Idle == [on |-> {}, via |-> "none", steps |-> <<>>]
InCall(n, via) == \E t \in Threads : call[t].on = {n} /\ call[t].via = via

HandlesInit ==
    /\ refs = [n \in Nodes |-> 0] /\ handles = {} /\ slot = {} /\ bridge = {}
    /\ opening = [n \in Nodes |-> "none"] /\ ticking = {} /\ stopped = {}
    /\ call = [t \in Threads |-> Idle]

-----------------------------------------------------------------------------
\* The paths of the JNI wrappers.
HandlesRefused == <<>>                                         \* handle 0 or unreadable arguments
Borrow == <<"take", "use", "forget">>
TakenThenRefused == <<"take", "forget">>                \* arguments read after the take
CloneOut == <<"take", "clone", "forget", "inner">>

NodeIdJni == {HandlesRefused, Borrow}
PeerCountJni == {HandlesRefused, Borrow}
RequestSyncJni == {HandlesRefused, Borrow}
EndpointSocketAddrJni == {HandlesRefused, Borrow}
GetDocumentJni == {HandlesRefused, CloneOut}
ForceStoreErrorForTestingJni == {HandlesRefused}
ConnectedPeersJni == {HandlesRefused, Borrow}
StartSyncJni == {HandlesRefused, Borrow}
BleSetStartedJni == {HandlesRefused, Borrow}
BleAddPeerJni == {HandlesRefused}                              \* the transport's own global slot
BleRemovePeerJni == {HandlesRefused}
BleIsAvailableJni == {HandlesRefused}
BlePeerCountJni == {HandlesRefused}
GetCellsJni == {HandlesRefused, Borrow}
GetTracksJni == {HandlesRefused, Borrow}
GetNodesJni == {HandlesRefused, Borrow}
PublishNodeJni == {HandlesRefused, Borrow}
PublishDocumentJni == {HandlesRefused, CloneOut}
PublishDocumentWithOriginJni == {HandlesRefused, CloneOut}
IngestPositionJni == {HandlesRefused, CloneOut}
IngestInboundFrameJni == {HandlesRefused, Borrow}
IngestInboundLiteFrameJni == {HandlesRefused, Borrow}
IngestCrdtFrameJni == {HandlesRefused, Borrow}
ConnectPeerJni == {HandlesRefused, Borrow}
SubscribeDocumentChangesJni == {HandlesRefused, CloneOut}
SubscribeOutboundFramesJni == {HandlesRefused, Borrow}
UnsubscribeOutboundFramesJni == {HandlesRefused, Borrow}
EnableBlobTransferJni == {HandlesRefused, Borrow}
BlobAddPeerJni == {HandlesRefused, TakenThenRefused, Borrow}
BlobPutJni == {HandlesRefused, TakenThenRefused, Borrow}
BlobGetJni == {HandlesRefused, TakenThenRefused, Borrow}
BlobExistsLocallyJni == {HandlesRefused, TakenThenRefused, Borrow}
BlobEndpointIdJni == {HandlesRefused, Borrow}

JniCalls ==
    UNION {NodeIdJni, PeerCountJni, RequestSyncJni, EndpointSocketAddrJni, GetDocumentJni,
           ForceStoreErrorForTestingJni, ConnectedPeersJni, StartSyncJni, BleSetStartedJni,
           BleAddPeerJni, BleRemovePeerJni, BleIsAvailableJni, BlePeerCountJni, GetCellsJni,
           GetTracksJni, GetNodesJni, PublishNodeJni, PublishDocumentJni,
           PublishDocumentWithOriginJni, IngestPositionJni, IngestInboundFrameJni,
           IngestInboundLiteFrameJni, IngestCrdtFrameJni, ConnectPeerJni,
           SubscribeDocumentChangesJni, SubscribeOutboundFramesJni,
           UnsubscribeOutboundFramesJni, EnableBlobTransferJni, BlobAddPeerJni, BlobPutJni,
           BlobGetJni, BlobExistsLocallyJni, BlobEndpointIdJni}

-----------------------------------------------------------------------------
\* create_node_with_identity in its phases; each may return an error, and what
\* it holds (the store's lock from "parts" on) is then dropped with the runtime.
Enters(n, from, to) ==
    /\ opening[n] = from /\ opening' = [opening EXCEPT ![n] = to]
    /\ UNCHANGED <<refs, handles, slot, bridge, ticking, stopped, call>>

\* Credentials, runtime, bind address, directory.
CreateStarts(n) == n \notin handles /\ Enters(n, "none", "checked")

\* Store and endpoint are opened side by side; the store is retried while the
\* previous node on the directory still holds its lock.
OpenParts(n) == refs[n] = 0 /\ Enters(n, "checked", "parts")
InitBackend(n) == Enters(n, "parts", "backend")
\* The mDNS task and the peer event listener; nothing after it returns an error.
SpawnTasks(n) == Enters(n, "backend", "tasks")
\* The Iroh transport and, where it can be had, the BLE one.
RegisterTransports(n) == Enters(n, "tasks", "composed")

CreateFails(n) == \E phase \in {"checked", "parts", "backend"} : Enters(n, phase, "none")

\* store_owning_node_in_slot: the slot owns its node, the one before loses an owner.
StoreAlias(count, n) == count

StoreOwning(count, n) ==
    [m \in Nodes |-> count[m] + (IF m = n THEN 1 ELSE 0) - (IF m \in slot THEN 1 ELSE 0)]

\* createNodeJni: the creator's handle and the slot.
CreateNodeJni(n) ==
    /\ opening[n] = "composed" /\ opening' = [opening EXCEPT ![n] = "none"] /\ stopped' = stopped \ {n}
    /\ refs' = StoreOwning([refs EXCEPT ![n] = 1], n)
    /\ slot' = {n} /\ handles' = handles \cup {n}
    /\ UNCHANGED <<bridge, ticking, call>>

CreateNodeWithConfigJni(n) == CreateNodeJni(n)

\* The same without the JNI global: a node of the Dart bindings off Android.
HandlesCreateNode(n) ==
    /\ opening[n] = "composed" /\ opening' = [opening EXCEPT ![n] = "none"] /\ stopped' = stopped \ {n}
    /\ refs' = [refs EXCEPT ![n] = 1] /\ handles' = handles \cup {n}
    /\ UNCHANGED <<slot, bridge, ticking, call>>

GetGlobalNodeHandleJni ==
    /\ bridge' = bridge \cup slot
    /\ UNCHANGED <<refs, handles, slot, opening, ticking, stopped, call>>

\* clear_owning_node_slot; the bridge calls it when it is done with the node.
ClearGlobalNodeHandleJni ==
    /\ \A n \in slot : ~InCall(n, "bridge")
    /\ refs' = [n \in Nodes |-> refs[n] - (IF n \in slot THEN 1 ELSE 0)]
    /\ slot' = {} /\ bridge' = bridge \ slot
    /\ UNCHANGED <<handles, opening, ticking, stopped, call>>

\* freeNodeJni: stop the background tasks, then drop.
FreeNodeJni(n) ==
    /\ n \in handles /\ ~InCall(n, "handle")
    /\ handles' = handles \ {n} /\ stopped' = stopped \cup {n}
    /\ refs' = [refs EXCEPT ![n] = @ - 1]
    /\ UNCHANGED <<slot, bridge, opening, ticking, call>>

\* The Dart finalizer or close(): the handle's owner is dropped, nothing is stopped.
DropHandle(n) ==
    /\ n \in handles /\ ~InCall(n, "handle")
    /\ handles' = handles \ {n}
    /\ refs' = [refs EXCEPT ![n] = @ - 1]
    /\ UNCHANGED <<slot, bridge, opening, ticking, stopped, call>>

-----------------------------------------------------------------------------
CallStarts(t, n, via, steps) ==
    /\ call[t] = Idle
    /\ n \in (IF via = "handle" THEN handles ELSE bridge \cap slot)
    /\ steps # <<>> /\ call' = [call EXCEPT ![t] = [on |-> {n}, via |-> via, steps |-> steps]]
    /\ UNCHANGED <<refs, handles, slot, bridge, opening, ticking, stopped>>

CallGoesOn(t) ==
    /\ call[t] # Idle
    /\ LET rest == Tail(call[t].steps)
       IN call' = [call EXCEPT ![t] = IF rest = <<>> THEN Idle ELSE [@ EXCEPT !.steps = rest]]
    /\ refs' = [n \in Nodes |-> refs[n] - (IF n \in call[t].on /\ Head(call[t].steps) = "drop"
                                           THEN 1 ELSE 0)]
    /\ UNCHANGED <<handles, slot, bridge, opening, ticking, stopped>>

\* The reconnect task of create_node: weak.upgrade, one pass, drop.
TickStarts(n) ==
    /\ refs[n] > 0 /\ n \notin ticking /\ n \notin stopped
    /\ ticking' = ticking \cup {n} /\ refs' = [refs EXCEPT ![n] = @ + 1]
    /\ UNCHANGED <<handles, slot, bridge, opening, stopped, call>>

TickEnds(n) ==
    /\ n \in ticking
    /\ ticking' = ticking \ {n} /\ refs' = [refs EXCEPT ![n] = @ - 1]
    /\ UNCHANGED <<handles, slot, bridge, opening, stopped, call>>

HandlesNext ==
    \/ GetGlobalNodeHandleJni \/ ClearGlobalNodeHandleJni
    \/ \E n \in Nodes : \/ CreateStarts(n) \/ OpenParts(n) \/ InitBackend(n) \/ SpawnTasks(n)
                        \/ RegisterTransports(n) \/ CreateFails(n) \/ CreateNodeWithConfigJni(n)
                        \/ CreateNodeJni(n) \/ HandlesCreateNode(n)
                        \/ FreeNodeJni(n) \/ DropHandle(n) \/ TickStarts(n) \/ TickEnds(n)
    \/ \E t \in Threads, n \in Nodes, via \in {"handle", "bridge"} :
         \E steps \in JniCalls : CallStarts(t, n, via, steps)
    \/ \E t \in Threads : CallGoesOn(t)

HandlesSpec == HandlesInit /\ [][HandlesNext]_handlesVars

Owner(n, owners) == IF n \in owners THEN 1 ELSE 0

\* A node's count is the number of its owners, so a node whose creator still has
\* its handle, or that the global slot names, is alive: no path of a JNI wrapper
\* gives away an owner it only borrowed, and replacing or clearing the slot drops
\* exactly the owner the slot had.  (A bridge's call is covered while the slot
\* names its node; creating a second node replaces the slot under it.)
OwnersAreCounted ==
    \A n \in Nodes : refs[n] = Owner(n, handles) + Owner(n, slot) + Owner(n, ticking)

-----------------------------------------------------------------------------
(***************************************************************************)
(* ffi/peer.rs: the C interface to the peers of a node.  One callback, one *)
(* cancellation flag and one last error are shared by every call; every    *)
(* registration that passes a callback starts a thread with a subscription *)
(* of its own, and no thread is ever joined.  A registration resets the    *)
(* flag, stores the callback and starts the thread in three steps; taking  *)
(* the callback back sets the flag and clears the callback in two.         *)
(***************************************************************************)

CONSTANTS Peer, Caller,
          MaxEvents, MaxThreads, MaxCalls   \* bounds

VARIABLES transport,    \* GLOBAL_TRANSPORT and ASYNC_CONTEXT are set
          context,
          connected,    \* external: the peers the transport is connected to
          callback,     \* PEER_CALLBACK is set
          cancel,       \* CALLBACK_CANCEL
          lastError,    \* LAST_ERROR
          result,       \* what the last call returned
          step,         \* step[c]: where caller c is
          thread,       \* the threads started so far
          events,       \* external: the events of the transport so far
          told,         \* what the callback was called with
          calls,
          since,        \* history: the events before the last registration
          overlapped    \* history: the last call began while another was running

callbacksVars == <<transport, context, connected, callback, cancel, lastError, result, step, thread, events, told,
    calls, since, overlapped>>
callVars == <<step, calls, overlapped>>
callbackVars == <<callback, cancel, thread, told, since>>

CallbacksInit ==
  /\ transport = FALSE /\ context = FALSE /\ connected = {}
  /\ callback = FALSE /\ cancel = FALSE
  /\ lastError = "none" /\ result = [code |-> "PEAT_OK", peers |-> {}]
  /\ step = [c \in Caller |-> "idle"] /\ thread = <<>> /\ events = <<>> /\ told = {}
  /\ calls = 0 /\ since = 0 /\ overlapped = FALSE

----------------------------------------------------------------------------
\* the transport: every subscription gets every event

Live == {t \in DOMAIN thread : thread[t].at # "ended"}

Emit(kind) ==
  /\ Len(events) < MaxEvents
  /\ events' = Append(events, kind)
  /\ thread' = [t \in DOMAIN thread |->
       IF t \in Live THEN [thread[t] EXCEPT !.queue = Append(@, Len(events) + 1)] ELSE thread[t]]

Transport ==
  /\ transport
  /\ \/ \E p \in Peer \ connected : Emit("Connected") /\ connected' = connected \cup {p}
     \/ \E p \in connected : Emit("Disconnected") /\ connected' = connected \ {p}
     \/ \E p \in connected : Emit("Degraded") /\ UNCHANGED connected
     \/ \E p \in Peer \ connected, k \in {"Reconnecting", "ReconnectFailed"} :
          Emit(k) /\ UNCHANGED connected
  /\ UNCHANGED <<transport, context, callback, cancel, lastError, result, callVars, told, since>>

----------------------------------------------------------------------------
\* calls that answer at once

Begin(c) == step[c] = "idle" /\ calls < MaxCalls /\ calls' = calls + 1 /\ UNCHANGED overlapped

Return(peers) == result' = [code |-> "PEAT_OK", peers |-> peers] /\ UNCHANGED lastError
Fail(code, why) == result' = [code |-> code, peers |-> {}] /\ lastError' = why

InitializeFfi == ~transport /\ transport' = TRUE
  /\ UNCHANGED <<context, connected, lastError, result, callVars, callbackVars, events>>

\* peat_init_async: a second call sets the last error and still returns PEAT_OK
InitAsync(c) ==
  /\ Begin(c) /\ context' = TRUE
  /\ IF context THEN Fail("PEAT_OK", "already initialized") ELSE Return({})
  /\ UNCHANGED <<transport, connected, step, callbackVars, events>>

\* null, or not UTF-8
BadPeerId(code) == Fail(code, "bad peer_id")
NoTransport(code) == ~transport /\ Fail(code, "not initialized")
Ask(c) == Begin(c) /\ UNCHANGED <<transport, context, connected, step, callbackVars, events>>

GetConnectedPeers(c) == Ask(c) /\ (NoTransport("null") \/ (transport /\ Return(connected)))
GetPeerStatus(c, p) ==
  Ask(c) /\ (BadPeerId("null") \/ NoTransport("null") \/ (transport /\ Return(connected \cap {p})))
GetPeerHealth(c, p) ==
  /\ Ask(c)
  /\ \/ BadPeerId("null") \/ NoTransport("null")
     \/ transport /\ p \in connected /\ Return({p})
     \/ transport /\ p \notin connected /\ Fail("null", "Peer not found")

CallbacksRefused(c) ==
  /\ UNCHANGED <<connected, events, thread>>
  /\ \/ BadPeerId("PEAT_ERR_INVALID_ARGUMENT")
     \/ ~context /\ Fail("PEAT_ERR_NOT_INITIALIZED", "no context")
     \/ context /\ NoTransport("PEAT_ERR_NOT_INITIALIZED")

\* the transport may fail; it reports in an event what it has done
CallbacksConnectPeer(c) ==
  /\ Begin(c)
  /\ \/ CallbacksRefused(c)
     \/ context /\ transport /\ Fail("PEAT_ERR_CONNECTION_FAILED", "Connection failed")
        /\ UNCHANGED <<connected, events, thread>>
     \/ /\ context /\ transport /\ Return({})
        /\ \E p \in Peer \ connected : Emit("Connected") /\ connected' = connected \cup {p}
  /\ UNCHANGED <<transport, context, step, callback, cancel, told, since>>

CallbacksDisconnectPeer(c) ==
  /\ Begin(c)
  /\ \/ CallbacksRefused(c)
     \/ context /\ transport /\ Fail("PEAT_ERR_INTERNAL", "Disconnect failed")
        /\ UNCHANGED <<connected, events, thread>>
     \/ /\ context /\ transport /\ Return({})
        /\ \E p \in connected : Emit("Disconnected") /\ connected' = connected \ {p}
  /\ UNCHANGED <<transport, context, step, callback, cancel, told, since>>

----------------------------------------------------------------------------
\* the callback

BeginChange(c) ==
  /\ step[c] = "idle" /\ calls < MaxCalls /\ calls' = calls + 1
  /\ overlapped' = \E d \in Caller \ {c} : step[d] # "idle"

\* Variant: the flag of an earlier unregistration is left set
RegisterKeepsFlag(c) ==
  /\ BeginChange(c) /\ transport /\ \E where \in {"store", "store null"} : step' = [step EXCEPT ![c] = where]
  /\ UNCHANGED <<transport, context, connected, callback, cancel, lastError, result, thread, events, told, since>>

\* peat_register_peer_callback with a callback or with null
Register(c) ==
  /\ BeginChange(c)
  /\ IF transport
     THEN /\ cancel' = FALSE /\ UNCHANGED <<lastError, result>>
          /\ \E where \in {"store", "store null"} : step' = [step EXCEPT ![c] = where]
     ELSE Fail("PEAT_ERR_NOT_INITIALIZED", "not initialized") /\ UNCHANGED <<cancel, step>>
  /\ UNCHANGED <<transport, context, connected, callback, thread, events, told, since>>

StoreCallback(c) ==
  /\ \/ /\ step[c] = "store" /\ callback' = TRUE
        /\ step' = [step EXCEPT ![c] = "spawn"] /\ UNCHANGED <<result, lastError>>
     \/ /\ step[c] \in {"store null", "clear"} /\ callback' = FALSE
        /\ step' = [step EXCEPT ![c] = "idle"] /\ Return({})
  /\ UNCHANGED <<transport, context, connected, cancel, thread, events, told, since, calls, overlapped>>

Spawn(c) ==
  /\ step[c] = "spawn" /\ Len(thread) < MaxThreads
  /\ thread' = Append(thread, [at |-> "check", queue |-> <<>>])
  /\ since' = Len(events) /\ step' = [step EXCEPT ![c] = "idle"] /\ Return({})
  /\ UNCHANGED <<transport, context, connected, callback, cancel, events, told, calls, overlapped>>

\* peat_unregister_peer_callback; StoreCallback clears the callback
Unregister(c) ==
  /\ BeginChange(c) /\ cancel' = TRUE /\ step' = [step EXCEPT ![c] = "clear"]
  /\ UNCHANGED <<transport, context, connected, callback, lastError, result, thread, events, told, since>>

Move(t, s) == thread' = [thread EXCEPT ![t] = s]

\* the head of the loop
CheckCancel(t) ==
  /\ thread[t].at = "check"
  /\ Move(t, [thread[t] EXCEPT !.at = IF cancel THEN "ended" ELSE "recv"])
  /\ UNCHANGED <<transport, context, connected, callback, cancel, lastError, result, callVars, events, told, since>>

EventCode(kind) ==
  CASE kind = "Connected" -> 1 [] kind = "Disconnected" -> 2 [] kind = "Degraded" -> 3
    [] kind = "Reconnecting" -> 4 [] kind = "ReconnectFailed" -> 5

\* recv with its timeout: an event that waits is told under the read lock, or
\* ends the thread when nobody listens
Receive(t) ==
  /\ thread[t].at = "recv"
  /\ IF thread[t].queue = <<>> THEN Move(t, [thread[t] EXCEPT !.at = "check"]) /\ UNCHANGED told
     ELSE LET e == Head(thread[t].queue) IN
          /\ Move(t, [at |-> IF callback THEN "check" ELSE "ended", queue |-> Tail(thread[t].queue)])
          /\ told' = IF callback THEN told \cup {<<e, EventCode(events[e])>>} ELSE told
  /\ UNCHANGED <<transport, context, connected, callback, cancel, lastError, result, callVars, events, since>>

CallbacksNext ==
  \/ InitializeFfi \/ Transport
  \/ \E c \in Caller :
       \/ InitAsync(c) \/ GetConnectedPeers(c) \/ (\E p \in Peer : GetPeerStatus(c, p) \/ GetPeerHealth(c, p))
       \/ CallbacksConnectPeer(c) \/ CallbacksDisconnectPeer(c)
       \/ Register(c) \/ StoreCallback(c) \/ Spawn(c) \/ Unregister(c)
  \/ \E t \in Live : CheckCancel(t) \/ Receive(t)

----------------------------------------------------------------------------
Quiet == \A c \in Caller : step[c] = "idle"

\* peat_register_peer_callback: while a callback is registered, every event since
\* then was passed to it under its own code or waits in the queue of a thread
\* that runs, unless two of the calls overlapped.
RegisteredIsTold ==
  Quiet /\ callback /\ ~overlapped =>
    \A e \in since + 1 .. Len(events) :
      \/ <<e, EventCode(events[e])>> \in told
      \/ \E t \in Live : ~cancel /\ \E i \in DOMAIN thread[t].queue : thread[t].queue[i] = e

\* peat_get_last_error: a call that returns an error code or null has left the
\* reason in the last error, whichever of its checks failed.
FailuresExplained == result.code # "PEAT_OK" => lastError \notin {"none", "already initialized"}

-----------------------------------------------------------------------------
\* The entry points of the Dart bindings (peat-ffi/src/dart_ffi.rs).  A call passes its
\* arguments in one array of 8-byte elements and gets its result, status and error in
\* another: a number or a handle takes one element, a buffer three.  The wrapper names
\* the element at which it finds each argument, one wrapper for each function; the
\* Dart side (external) lays the arguments out one after the other.

VARIABLES
  entry,        \* the function called
  stage,        \* how far the call has come
  a,            \* the argument array
  got,          \* what the function was given
  outcome,      \* what it answered: its value, or an error
  r,            \* the result array
  seen          \* what Dart makes of it

dartVars == <<entry, stage, a, got, outcome, r, seen>>

Junk == <<"junk", 0, 0>>
Width(kind) == IF kind = "buf" THEN 3 ELSE 1

\* An argument: its kind and the element where the wrapper reads it.
Word(i) == [kind |-> "word", at |-> i]
Buf(i) == [kind |-> "buf", at |-> i]
Call(reads, ret) == [reads |-> reads, ret |-> ret]

\* The wrappers, in the order of the file.
FunctionCalls ==
  [create_node |-> Call(<<Buf(0)>>, "word"),
   create_position |-> Call(<<Word(0), Word(1), Buf(2)>>, "buf"),
   create_velocity |-> Call(<<Word(0), Word(1)>>, "buf"),
   encode_track_to_cot |-> Call(<<Buf(0)>>, "buf"),
   peat_version |-> Call(<<>>, "buf")]

CrdtCalls ==
  [crdt_counter_value |-> Call(<<Word(0)>>, "word"),
   crdt_counter_increment |-> Call(<<Word(0), Word(1)>>, "buf"),
   crdt_counter_merge |-> Call(<<Word(0), Buf(1)>>, "word"),
   crdt_counter_snapshot |-> Call(<<Word(0)>>, "buf"),
   crdt_kv_put |-> Call(<<Word(0), Buf(1), Buf(4), Buf(7)>>, "buf"),
   crdt_kv_all |-> Call(<<Word(0), Buf(1)>>, "buf"),
   crdt_kv_merge |-> Call(<<Word(0), Buf(1), Buf(4)>>, "void"),
   crdt_kv_snapshot |-> Call(<<Word(0), Buf(1)>>, "buf")]

PeerCalls ==
  [all_peer_transport_states |-> Call(<<Word(0)>>, "buf"),
   connect_peer |-> Call(<<Word(0), Buf(1)>>, "void"),
   connect_peer_nowait |-> Call(<<Word(0), Buf(1)>>, "void"),
   connected_peers |-> Call(<<Word(0)>>, "buf"),
   delete_document |-> Call(<<Word(0), Buf(1), Buf(4)>>, "void"),
   disconnect_peer |-> Call(<<Word(0), Buf(1)>>, "void"),
   endpoint_addr |-> Call(<<Word(0)>>, "buf"),
   endpoint_socket_addr |-> Call(<<Word(0)>>, "buf")]

GetCalls ==
  [get_cell |-> Call(<<Word(0), Buf(1)>>, "buf"),
   get_cells |-> Call(<<Word(0)>>, "buf"),
   get_document |-> Call(<<Word(0), Buf(1), Buf(4)>>, "buf"),
   get_nodes |-> Call(<<Word(0)>>, "buf"),
   get_track |-> Call(<<Word(0), Buf(1)>>, "buf"),
   get_tracks |-> Call(<<Word(0)>>, "buf"),
   ingest_inbound_frame |-> Call(<<Word(0), Buf(1), Buf(4)>>, "buf"),
   ingest_inbound_lite_frame |-> Call(<<Word(0), Buf(1), Buf(4)>>, "buf"),
   publish_document |-> Call(<<Word(0), Buf(1), Buf(4)>>, "buf"),
   list_documents |-> Call(<<Word(0), Buf(1)>>, "buf")]

PutCalls ==
  [node_id |-> Call(<<Word(0)>>, "buf"),
   peer_count |-> Call(<<Word(0)>>, "word"),
   peer_transport_state |-> Call(<<Word(0), Buf(1)>>, "buf"),
   poll_outbound_frames |-> Call(<<Word(0)>>, "buf"),
   put_cell |-> Call(<<Word(0), Buf(1)>>, "void"),
   put_document |-> Call(<<Word(0), Buf(1), Buf(4), Buf(7)>>, "void"),
   put_node |-> Call(<<Word(0), Buf(1)>>, "void"),
   put_track |-> Call(<<Word(0), Buf(1)>>, "void")]

SyncCalls ==
  [request_sync |-> Call(<<Word(0)>>, "void"),
   start_outbound_frames |-> Call(<<Word(0)>>, "void"),
   start_sync |-> Call(<<Word(0)>>, "void"),
   stop_outbound_frames |-> Call(<<Word(0)>>, "void"),
   stop_sync |-> Call(<<Word(0)>>, "void"),
   subscribe |-> Call(<<Word(0), Word(1)>>, "word"),
   subscribe_poll |-> Call(<<Word(0)>>, "word"),
   sync_document |-> Call(<<Word(0), Buf(1), Buf(4)>>, "void"),
   sync_stats |-> Call(<<Word(0)>>, "buf")]

SubscriptionCalls ==
  [cancel |-> Call(<<Word(0)>>, "void"),
   is_active |-> Call(<<Word(0)>>, "word"),
   poll_changes |-> Call(<<Word(0)>>, "buf")]

RosterCalls ==
  [roster_remember |-> Call(<<Word(0), Buf(1), Buf(4)>>, "void"),
   reconnect_known_peers |-> Call(<<Word(0)>>, "void"),
   wake_reconnect |-> Call(<<Word(0)>>, "void"),
   notify_network_change |-> Call(<<Word(0)>>, "void"),
   on_peer_observed |-> Call(<<Word(0), Buf(1)>>, "void")]

BlobCalls ==
  [enable_blob_transfer |-> Call(<<Word(0), Buf(1)>>, "void"),
   blob_add_peer |-> Call(<<Word(0), Buf(1), Buf(4)>>, "void"),
   blob_add_peer_id |-> Call(<<Word(0), Buf(1)>>, "void"),
   blob_put |-> Call(<<Word(0), Buf(1), Buf(4)>>, "buf"),
   blob_exists_locally |-> Call(<<Word(0), Buf(1)>>, "word"),
   blob_endpoint_id |-> Call(<<Word(0)>>, "buf"),
   blob_bound_addr |-> Call(<<Word(0)>>, "buf")]

\* Variant: the second buffer is read right where the size is.
BlobFetchCallsPacked ==
  [blob_fetch_start |-> Call(<<Word(0), Buf(1), Word(4), Buf(4)>>, "word"),
   status |-> Call(<<Word(0)>>, "buf"),
   dispose |-> Call(<<Word(0)>>, "void")]

BlobFetchCalls ==
  [blob_fetch_start |-> Call(<<Word(0), Buf(1), Word(4), Buf(5)>>, "word"),
   status |-> Call(<<Word(0)>>, "buf"),
   dispose |-> Call(<<Word(0)>>, "void")]

\* What Dart can look up: the functions and the methods of PeatNode, then the shared
\* documents, the subscriptions and the blobs.
NodeEntryPoints ==
  Range(FunctionCalls) \cup Range(PeerCalls) \cup Range(GetCalls) \cup Range(PutCalls)
    \cup Range(SyncCalls) \cup Range(RosterCalls)
OtherEntryPoints ==
  Range(CrdtCalls) \cup Range(SubscriptionCalls) \cup Range(BlobCalls) \cup Range(BlobFetchCalls)
EntryPoints == NodeEntryPoints \cup OtherEntryPoints

\* The elements of value v of a kind: a buffer is its capacity, length and pointer.
Elements(v, kind) == [i \in 1..Width(kind) |-> <<v[1], v[2], i>>]

\* The Dart side, argument by argument.
Laid(c) ==
  MapThenFoldSet(\o, <<>>, LAMBDA k : Elements(<<"arg", k>>, c.reads[k].kind), Min, DOMAIN c.reads)

\* read_buf, or one element.
ReadAt(array, at, kind) == [i \in 1..Width(kind) |-> IF at + i <= Len(array) THEN array[at + i] ELSE Junk]

\* write_buf, write_err
Status(answer) == IF answer = "ok" THEN <<"status", 0, 1>> ELSE <<"status", 1, 1>>
Error(answer) == Elements(IF answer = "ok" THEN <<"empty", 0>> ELSE <<"error", 0>>, "buf")

\* ret_void, ret_u64, ret_u32, ret_i64, ret_i8 and ret_rbuf: the value if there is one,
\* the status, the error.
Returned(answer, ret) ==
    (IF ret = "void" THEN <<>> ELSE Elements(<<answer, 0>>, ret)) \o <<Status(answer)>> \o Error(answer)

DartInit ==
    /\ entry \in EntryPoints /\ stage = "dart"
    /\ a = <<>> /\ got = <<>> /\ outcome = "none" /\ r = <<>> /\ seen = <<>>

DartCalls == stage = "dart" /\ stage' = "wrapper" /\ a' = Laid(entry) /\ UNCHANGED <<entry, got, outcome, r, seen>>

\* The wrapper: the function gets what was read, and answers or fails.
Wrapper ==
    /\ stage = "wrapper" /\ stage' = "returned"
    /\ got' = [k \in 1..Len(entry.reads) |-> ReadAt(a, entry.reads[k].at, entry.reads[k].kind)]
    /\ outcome' \in {"ok", "failed"}
    /\ r' = Returned(outcome', entry.ret)
    /\ UNCHANGED <<entry, a, seen>>

\* Dart looks at the status behind the value, then at the error or the value.
StatusAt(ret) == CASE ret = "void" -> 0 [] ret = "word" -> 1 [] ret = "buf" -> 3
DartReturns ==
    /\ stage = "returned" /\ stage' = "done"
    /\ seen' = IF r[StatusAt(entry.ret) + 1] = Status("ok")
               THEN ReadAt(r, 0, IF entry.ret = "void" THEN "word" ELSE entry.ret)
               ELSE ReadAt(r, StatusAt(entry.ret) + 1, "buf")
    /\ UNCHANGED <<entry, a, got, outcome, r>>

DartNext == DartCalls \/ Wrapper \/ DartReturns

DartSpec == DartInit /\ [][DartNext]_dartVars

\* Every entry point hands the function the arguments Dart passed, each whole and in
\* its place, and hands Dart the function's value or its error.
CallArrives ==
    stage = "done" =>
        /\ got = [k \in 1..Len(entry.reads) |-> Elements(<<"arg", k>>, entry.reads[k].kind)]
        /\ outcome = "failed" => seen = Error("failed")
        /\ outcome = "ok" /\ entry.ret # "void" => seen = Elements(<<"ok", 0>>, entry.ret)

=============================================================================
