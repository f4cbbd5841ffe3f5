------------------------------ MODULE BleRelay ------------------------------
(***************************************************************************)
(* Multi-hop relay of frames between BLE neighbours (peat-ffi/src/lib.rs:  *)
(* ingest_inbound_frame, ingest_inbound_lite_frame, relay_ble_frame, the   *)
(* outbound queue and the collections the lite bridge carries).  A node    *)
(* re-emits each frame it ingests to all its neighbours, the sender        *)
(* included; only the content cache relay_seen keeps a frame from going    *)
(* round for ever.  Entries leave the cache after RELAY_DEDUP_TTL, and all *)
(* of them when it holds RELAY_SEEN_CAP.                                   *)
(***************************************************************************)
EXTENDS Naturals, FiniteSets

CONSTANTS Nodes,
          Neighbours,     \* who is in radio range of each node
          SeenCap,        \* RELAY_SEEN_CAP
          MaxPublished,   \* bound: documents published
          MaxEvents       \* bound: expiries, stops and starts

\* A frame: the document it encodes, by collection and version.
Collections == {"tracks", "nodes", "demo"}
TypedCollections == {"tracks", "nodes", "alerts", "canned_messages"}
LiteCollections == {"markers", "demo", "nodes", "mission", "cells", "commands"}
Frames == [via : {"ble", "ble-lite"}, collection : Collections, doc : 1..MaxPublished]

VARIABLES on,        \* nodes with an active outbound subscription
          queue,     \* outbound_queue, as a set
          radio,     \* frames in flight: [to, frame]
          seen,      \* relay_seen
          store,     \* documents each node holds
          published, events

vars == <<on, queue, radio, seen, store, published, events>>

Init ==
    /\ on = Nodes /\ queue = [n \in Nodes |-> {}] /\ radio = {}
    /\ seen = [n \in Nodes |-> {}] /\ store = [n \in Nodes |-> {}] /\ published = 0 /\ events = 0

\* The two translators' encodings of a document, without the transport it came from.
Encodings(c, d, origin) ==
    {f \in Frames :
        /\ f.collection = c /\ f.doc = d /\ f.via # origin
        /\ f.via = "ble" => c \in TypedCollections
        /\ f.via = "ble-lite" => c \in LiteCollections}

\* A local write is fanned out to the queue while a subscription is active.
Publish(n, c) ==
    /\ published < MaxPublished /\ published' = published + 1
    /\ store' = [store EXCEPT ![n] = @ \cup {published'}]
    /\ queue' = IF n \in on THEN [queue EXCEPT ![n] = @ \cup Encodings(c, published', "none")] ELSE queue
    /\ UNCHANGED <<on, radio, seen, events>>

\* poll_outbound_frames, and the host's radio sends what it drained.
Poll(n) ==
    /\ queue[n] # {}
    /\ radio' = radio \cup {[to |-> m, frame |-> f] : m \in Neighbours[n], f \in queue[n]}
    /\ queue' = [queue EXCEPT ![n] = {}]
    /\ UNCHANGED <<on, seen, store, published, events>>

Lose(r) ==
    /\ r \in radio /\ events < MaxEvents /\ radio' = radio \ {r} /\ events' = events + 1
    /\ UNCHANGED <<on, queue, seen, store, published>>

\* relay_ble_frame: what is queued, and the cache afterwards.
ForgetsRelayed(n, f) == seen[n]

Remembers(n, f) == (IF Cardinality(seen[n]) >= SeenCap THEN {} ELSE seen[n]) \cup {f}

Relays(n, f) == f.collection # "nodes" /\ n \in on /\ f \notin seen[n]

\* ingest_inbound_frame and ingest_inbound_lite_frame: publish with the frame's
\* transport as origin, then relay.  A document that is new here is fanned out
\* to the other transport's translator.
Ingest(r) ==
    LET n == r.to  f == r.frame
        fanned == IF n \in on /\ f.doc \notin store[n] THEN Encodings(f.collection, f.doc, f.via) ELSE {}
    IN /\ r \in radio /\ radio' = radio \ {r}
       /\ store' = [store EXCEPT ![n] = @ \cup {f.doc}]
       /\ queue' = [queue EXCEPT ![n] = @ \cup fanned \cup (IF Relays(n, f) THEN {f} ELSE {})]
       /\ seen' = IF Relays(n, f) THEN [seen EXCEPT ![n] = Remembers(n, f)] ELSE seen
       /\ UNCHANGED <<on, published, events>>

\* RELAY_DEDUP_TTL passes for a frame.
Expire(n, f) ==
    /\ f \in seen[n] /\ events < MaxEvents /\ events' = events + 1
    /\ seen' = [seen EXCEPT ![n] = @ \ {f}]
    /\ UNCHANGED <<on, queue, radio, store, published>>

StopOutbound(n) ==
    /\ n \in on /\ events < MaxEvents /\ events' = events + 1
    /\ on' = on \ {n} /\ queue' = [queue EXCEPT ![n] = {}]
    /\ UNCHANGED <<radio, seen, store, published>>

StartOutbound(n) ==
    /\ n \notin on /\ on' = on \cup {n}
    /\ UNCHANGED <<queue, radio, seen, store, published, events>>

Next ==
    \/ \E n \in Nodes : \/ \E c \in Collections : Publish(n, c)
                        \/ Poll(n) \/ StopOutbound(n) \/ StartOutbound(n)
                        \/ \E f \in seen[n] : Expire(n, f)
    \/ \E r \in radio : Ingest(r) \/ Lose(r)

\* Hosts poll, and a frame in the air arrives or is lost.
Fairness ==
    /\ \A n \in Nodes : WF_vars(Poll(n))
    /\ WF_vars(\E r \in radio : Ingest(r) \/ Lose(r))

Spec == Init /\ [][Next]_vars /\ Fairness

\* The relay dies out: once no more documents are published and no cache
\* entry expires, every frame stops being re-emitted, also on a ring of
\* neighbours and after losses, stops and expiries at any moment.
RelayDiesOut == <>[](radio = {} /\ \A n \in Nodes : queue[n] = {})

=============================================================================
