----------------------------- MODULE BleGateway -----------------------------
(* The BLE side of the embedding API: the translation of frames, and who holds
   the fan-out that sends them; two state machines. *)
EXTENDS Integers, Sequences

(***************************************************************************)
(* The BLE gateway's translation (peat-protocol/src/sync/                  *)
(* ble_translation.rs, and the position ingest of peat-ffi/src/lib.rs).    *)
(*                                                                         *)
(* Here a document crosses a chain of gateways: one encodes it to a typed  *)
(* BLE frame, the next decodes the frame to a document of its own and may  *)
(* encode that again.  Documents are JSON: a field may be missing ({}),    *)
(* out of range or of an unknown wording; frames are the typed structs.    *)
(* Coordinates are integers, of which an f32 keeps the even ones.          *)
(***************************************************************************)

CONSTANTS Word,       \* ids are 0 .. Word-1 (u32 in the code)
          MaxHops     \* bound: gateways in the chain

VARIABLES collection, doc, air    \* the document at the current gateway, the frames sent so far

translationVars == <<collection, doc, air>>

Clamp(n, lo, hi) == IF n < lo THEN lo ELSE IF n > hi THEN hi ELSE n
F32(x) == x - (x % 2)
Each(opt, Op(_)) == {Op(x) : x \in opt}
OrElse(opt, default) == IF opt = {} THEN default ELSE CHOOSE x \in opt : TRUE

\* {:08X} and its parsers, with and without the ble- prefix: anything else is no id.
ParseBleId(id) == IF id.form \in {"hex", "ble-hex"} THEN {id.n} ELSE {}
ParseHex(id) == IF id.form = "hex" THEN {id.n} ELSE {}
BleId(n) == [form |-> "ble-hex", n |-> n]
Hex(n) == [form |-> "hex", n |-> n]

\* parse_peripheral_id: a non-negative id, or one Kotlin read as a signed Int.
ParsePeripheralId(raw) ==
    IF raw \in 0..(Word - 1) THEN {raw}
    ELSE IF raw \in -(Word \div 2)..-1 THEN {raw + Word}
    ELSE {}

-----------------------------------------------------------------------------
\* Tracks.  The frame holds the position alone: the decoder takes the id from
\* its context's wire id, and 0 when that is not set.
PositionToTrack(pos, id) ==
    [id |-> BleId(id), lat |-> {pos.lat}, lon |-> {pos.lon}, hae |-> pos.alt, cep |-> pos.acc]

TrackToPosition(t) ==
    IF t.lat = {} \/ t.lon = {} THEN {}
    ELSE {[lat |-> F32(OrElse(t.lat, 0)), lon |-> F32(OrElse(t.lon, 0)),
           alt |-> Each(t.hae, F32), acc |-> Each(t.cep, F32)]}

\* ingest_position_via_translator: a position from the embedding application.
IngestPosition(p, raw) ==
    {PositionToTrack([lat |-> F32(p.lat), lon |-> F32(p.lon), alt |-> Each(p.alt, F32),
                      acc |-> Each(p.acc, F32)], id) : id \in ParsePeripheralId(raw)}

-----------------------------------------------------------------------------
\* Nodes.
TypeName(t) == CASE t = 1 -> "wearable" [] t = 2 -> "sensor" [] t = 3 -> "relay" [] OTHER -> "unknown"
ActivityName(a) == CASE a = 0 -> "still" [] a = 1 -> "walking" [] a = 2 -> "running"
                     [] a = 3 -> "vehicle" [] OTHER -> "unknown"
TypeCode(s) == CASE s = "wearable" -> 1 [] s = "sensor" -> 2 [] s = "relay" -> 3 [] OTHER -> 0
ActivityCode(s) == CASE s = "walking" -> 1 [] s = "running" -> 2 [] s = "vehicle" -> 3 [] OTHER -> 0
KnownAlerts == {"man_down", "low_battery", "out_of_range"}

\* coerce_metric_to_i64: an integer, or a float (here in tenths) rounded half away from zero.
Metric(n) == [float |-> FALSE, n |-> n]
CoerceMetric(v) == IF ~v.float THEN v.n ELSE IF v.n >= 0 THEN (v.n + 5) \div 10 ELSE -((5 - v.n) \div 10)
Percent(v) == Clamp(CoerceMetric(v), 0, 100)
HeartRate(v) == Clamp(CoerceMetric(v), 0, 250)

\* The alerts array is written only when some bit is set, and names only known bits.
PeripheralToNode(p) ==
    LET pos == p.position
    IN [id |-> BleId(p.id), name |-> p.callsign, type |-> TypeName(p.type),
        battery |-> {Metric(p.battery)}, heart |-> Each(p.heart, Metric), activity |-> ActivityName(p.activity),
        parent |-> Hex(p.parent), alerts |-> p.alerts \cap KnownAlerts,
        lat |-> {q.lat : q \in pos}, lon |-> {q.lon : q \in pos},
        hae |-> UNION {q.alt : q \in pos}, cep |-> {}]

PositionOf(n) ==
    IF n.lat = {} \/ n.lon = {} THEN {}
    ELSE {[lat |-> F32(OrElse(n.lat, 0)), lon |-> F32(OrElse(n.lon, 0)),
           alt |-> Each(n.hae, F32), acc |-> Each(n.cep, F32)]}

AlertsPassAll(n) == n.alerts

AlertBits(n) == n.alerts \cap KnownAlerts

\* A node whose id is not a BLE id is declined.
NodeToPeripheral(n) ==
    {[id |-> id, parent |-> OrElse(ParseBleId(n.parent), 0), type |-> TypeCode(n.type),
      callsign |-> n.name, battery |-> OrElse(Each(n.battery, Percent), 100),
      heart |-> Each(n.heart, HeartRate), activity |-> ActivityCode(n.activity),
      alerts |-> AlertBits(n), position |-> PositionOf(n)] : id \in ParseBleId(n.id)}

-----------------------------------------------------------------------------
\* Emergencies and canned messages: acks are a map of hex ids, those that do
\* not parse are skipped; a message code keeps its low byte and names the message.
HexKeys(acks) == [k \in {Hex(n) : n \in DOMAIN acks} |-> acks[k.n]]
ParseKeys(acks) ==
    LET ids == UNION {ParseHex(k) : k \in DOMAIN acks}
    IN [n \in ids |-> acks[CHOOSE k \in DOMAIN acks : n \in ParseHex(k)]]

EmergencyToAlert(e) ==
    [type |-> "emergency", source |-> Hex(e.source), timestamp |-> {e.timestamp}, acks |-> HexKeys(e.acks)]

AlertToEmergency(a) ==
    IF a.type # "emergency" \/ a.timestamp = {} THEN {}
    ELSE {[source |-> s, timestamp |-> OrElse(a.timestamp, 0), acks |-> ParseKeys(a.acks)] :
            s \in ParseHex(a.source)}

CodeByte(code) == code % Word
MessageNameFromCode(code) == IF code \in 0..3 THEN code ELSE "Unknown"

CannedMessageToDoc(m) ==
    [type |-> "canned_message", code |-> {m.code}, name |-> m.name, source |-> Hex(m.source),
     target |-> {Hex(t) : t \in m.target}, timestamp |-> {m.timestamp},
     sequence |-> {m.sequence}, acks |-> HexKeys(m.acks)]

DocToCannedMessage(d) ==
    IF d.type # "canned_message" \/ d.code = {} \/ d.timestamp = {} THEN {}
    ELSE {[code |-> CodeByte(OrElse(d.code, 0)), name |-> MessageNameFromCode(CodeByte(OrElse(d.code, 0))),
           source |-> s, target |-> UNION {ParseHex(t) : t \in d.target},
           timestamp |-> OrElse(d.timestamp, 0), sequence |-> OrElse(d.sequence, 0) % Word,
           acks |-> ParseKeys(d.acks)] : s \in ParseHex(d.source)}

-----------------------------------------------------------------------------
\* encode_outbound and decode_inbound, by collection; {} declines.
EncodeOutbound(c, d) ==
    CASE c = "tracks" -> TrackToPosition(d)
      [] c = "nodes" -> NodeToPeripheral(d)
      [] c = "alerts" -> AlertToEmergency(d)
      [] c = "canned_messages" -> DocToCannedMessage(d)
      [] OTHER -> {}

DecodeInbound(c, frame, wire) ==
    CASE c = "tracks" -> {PositionToTrack(frame, OrElse(ParseHex(wire), 0))}
      [] c = "nodes" -> {PeripheralToNode(frame)}
      [] c = "alerts" -> {EmergencyToAlert(frame)}
      [] c = "canned_messages" -> {CannedMessageToDoc(frame)}
      [] OTHER -> {}

NoDoc == [none |-> TRUE]

\* A gateway sends what it holds.
Encode ==
    /\ doc # NoDoc /\ Len(air) < MaxHops
    /\ \E f \in EncodeOutbound(collection, doc) : air' = Append(air, f)
    /\ doc' = NoDoc /\ UNCHANGED collection

\* The next one decodes it.
Decode(wire) ==
    /\ doc = NoDoc /\ air # << >>
    /\ \E d \in DecodeInbound(collection, air[Len(air)], wire) : doc' = d
    /\ UNCHANGED <<collection, air>>

-----------------------------------------------------------------------------
\* Documents that meet every branch of the decoders.
Ids == {BleId(Word - 1), Hex(1), [form |-> "name", n |-> 0]}
AckMaps == {[k \in ks |-> 7] : ks \in {{}, {Hex(1)}, {BleId(2), Hex(1)}, {[form |-> "name", n |-> 0]}}}

TrackDocs ==
    [id : {BleId(1)}, lat : {{}, {3}, {4}}, lon : {{}, {5}}, hae : {{}, {7}}, cep : {{}, {1}}]
NodeDocs ==
    [id : Ids, name : {"n"}, type : {"wearable", "relay", "drone"}, battery : {{}, {Metric(-5)}, {Metric(120)}, {[float |-> TRUE, n |-> 855]}},
     heart : {{}, {Metric(300)}}, activity : {"walking", "vehicle", "idle"}, parent : {Hex(1), [form |-> "name", n |-> 0]},
     alerts : {{}, {"man_down"}, {"low_battery", "panic"}}, lat : {{}, {3}}, lon : {{5}},
     hae : {{}, {7}}, cep : {{}, {2}}]
AlertDocs ==
    [type : {"emergency", "info"}, source : Ids, timestamp : {{}, {9}}, acks : AckMaps]
CannedDocs ==
    [type : {"canned_message"}, code : {{}, {2}, {Word + 1}}, name : {2, 9}, source : Ids,
     target : {{}, {Hex(2)}, {[form |-> "name", n |-> 0]}}, timestamp : {{9}}, sequence : {{}, {Word + 3}},
     acks : AckMaps]
DocsOf == [tracks |-> TrackDocs, nodes |-> NodeDocs, alerts |-> AlertDocs,
           canned_messages |-> CannedDocs, demo |-> TrackDocs]
Positions == [lat : {3}, lon : {4}, alt : {{}, {5}}, acc : {{}, {7}}]

\* A document written at the gateway, or a position the application ingests there.
TranslationInit ==
    /\ air = << >>
    /\ \/ collection \in DOMAIN DocsOf /\ doc \in DocsOf[collection]
       \/ /\ collection = "tracks"
          /\ \E p \in Positions, raw \in -Word..(Word + 1) : doc \in IngestPosition(p, raw)

TranslationNext == Encode \/ \E wire \in Ids : Decode(wire)

TranslationSpec == TranslationInit /\ [][TranslationNext]_translationVars

\* What a chain of gateways may change: a node's position accuracy, which a
\* node document has no field for, is lost at the first hop.
Heard(f) ==
    IF collection = "nodes"
    THEN [f EXCEPT !.position = {[q EXCEPT !.acc = {}] : q \in f.position}]
    ELSE f

\* Every gateway after the first sends the frame it received, byte for byte
\* but for a node's accuracy, and none declines what another sent it: clamps,
\* unknown wordings, unknown alerts, unparsable acks and wrapped codes are
\* settled by the first encoding, so that the content-based deduplication of
\* the relay recognises a frame that comes round again.
FramesSettle ==
    /\ \A i \in 2..Len(air) : air[i] = Heard(air[1])
    /\ doc # NoDoc /\ air # << >> => EncodeOutbound(collection, doc) # {}

-----------------------------------------------------------------------------
(***************************************************************************)
(* Who receives the frames a node's BLE translators produce                *)
(* (peat-ffi/src/lib.rs).  A consumer polls a queue (start/poll/stop) or   *)
(* is called back through JNI (subscribe/unsubscribe).  Both register the  *)
(* "ble" and "ble-lite" translators with the node's transport manager and  *)
(* start a fan-out; the poll path keeps the fan-out's handle in the node,  *)
(* the JNI path in a slot shared by every node of the process.             *)
(***************************************************************************)

CONSTANTS Nodes,       \* nodes of this process
          MaxFrames,   \* bound: frames waiting in a queue
          MaxCalls     \* bound: calls

VARIABLES registered,  \* translators of each node's transport manager
          fanout,      \* nodes whose fan-out runs, with the sink it feeds: [node, sink]
          starting,    \* fan-outs whose handle is not stored yet
          polling,     \* nodes with a handle in outbound_fanout
          shared,      \* OUTBOUND_FRAME_FANOUT: the node whose fan-out it holds, or {}
          listener,    \* OUTBOUND_FRAME_LISTENER is set
          queue,       \* outbound_queue: frames per node
          heard,       \* frames the listener was called with
          stray,       \* history: nodes whose fan-out was torn down through another handle
          calls

outboundVars == <<registered, fanout, starting, polling, shared, listener, queue, heard, stray, calls>>

Translators == {"ble", "ble-lite"}

OutboundInit ==
    /\ registered = [n \in Nodes |-> {}] /\ fanout = {} /\ starting = {} /\ polling = {} /\ shared = {}
    /\ listener = FALSE /\ queue = [n \in Nodes |-> 0] /\ heard = 0 /\ stray = {} /\ calls = 0

Call == calls < MaxCalls /\ calls' = calls + 1

\* register_ble_fanout: translators one after the other, then the fan-out; a
\* failure takes back what was registered.  The transport manager refuses a
\* translator it already has; any of the three steps may fail.
RegisterSucceeds(n, sink) ==
    /\ registered[n] = {}
    /\ registered' = [registered EXCEPT ![n] = Translators]
    /\ fanout' = fanout \cup {[node |-> n, sink |-> sink]}
    /\ starting' = starting \cup {[node |-> n, sink |-> sink]}


TakesBack(done) == done \ done

RegisterFails(n) ==
    /\ UNCHANGED <<fanout, starting>>
    /\ IF registered[n] # {} THEN UNCHANGED registered
       ELSE \E done \in {{}, {"ble"}, Translators} :
              registered' = [registered EXCEPT ![n] = TakesBack(done)]

-----------------------------------------------------------------------------
Starting == {f.node : f \in starting}

\* start_outbound_frames: register, then keep the handle.
StartOutboundFrames(n) ==
    /\ Call /\ n \notin polling
    /\ RegisterSucceeds(n, "queue") \/ RegisterFails(n)
    /\ UNCHANGED <<polling, shared, listener, queue, heard, stray>>

StartKeepsHandle(n) ==
    /\ [node |-> n, sink |-> "queue"] \in starting
    /\ starting' = starting \ {[node |-> n, sink |-> "queue"]}
    /\ polling' = polling \cup {n}
    /\ UNCHANGED <<registered, fanout, shared, listener, queue, heard, stray, calls>>

PollOutboundFrames(n) ==
    /\ queue[n] > 0 /\ queue' = [queue EXCEPT ![n] = 0]
    /\ UNCHANGED <<registered, fanout, starting, polling, shared, listener, heard, stray, calls>>

\* stop_outbound_frames: the handle is dropped if there is one, the queue
\* cleared and the translators unregistered in any case.
StopOutboundFrames(n) ==
    /\ Call
    /\ fanout' = IF n \in polling THEN fanout \ {[node |-> n, sink |-> "queue"]} ELSE fanout
    /\ polling' = polling \ {n}
    /\ queue' = [queue EXCEPT ![n] = 0]
    /\ registered' = [registered EXCEPT ![n] = {}]
    /\ stray' = IF n \in shared \cup Starting THEN stray \cup {n} ELSE stray
    /\ UNCHANGED <<starting, shared, listener, heard>>

-----------------------------------------------------------------------------
\* subscribeOutboundFramesJni: the listener is swapped; a fan-out in the shared
\* slot is enough, whichever node it belongs to.
SubscribeOutboundFrames(n) ==
    /\ Call
    /\ \/ shared # {} /\ listener' = TRUE /\ UNCHANGED <<registered, fanout, starting>>
       \/ shared = {} /\ RegisterSucceeds(n, "jni") /\ listener' = TRUE
       \/ shared = {} /\ RegisterFails(n) /\ listener' = FALSE
    /\ UNCHANGED <<polling, shared, queue, heard, stray>>

\* Storing the handle drops the one the slot held, and with it that fan-out.
SubscribeKeepsHandle(n) ==
    /\ [node |-> n, sink |-> "jni"] \in starting
    /\ starting' = starting \ {[node |-> n, sink |-> "jni"]}
    /\ fanout' = {f \in fanout : ~(f.sink = "jni" /\ f.node \in shared \ {n})}
    /\ shared' = {n}
    /\ stray' = stray \cup (shared \ {n})
    /\ UNCHANGED <<registered, polling, listener, queue, heard, calls>>

\* unsubscribeOutboundFramesJni with a node's handle, or with 0 (n = {}).
UnsubscribeOutboundFrames(n) ==
    /\ Call
    /\ fanout' = {f \in fanout : ~(f.sink = "jni" /\ f.node \in shared)}
    /\ shared' = {} /\ listener' = FALSE
    /\ registered' = [m \in Nodes |-> IF m \in n THEN {} ELSE registered[m]]
    /\ stray' = stray \cup (shared \ n) \cup (n \cap (polling \cup Starting))
    /\ UNCHANGED <<starting, polling, queue, heard>>

\* A document changes: the fan-out hands it to the registered translators, and
\* each encoding goes to the sink registered with them.
FrameOut(n) ==
    /\ \E f \in fanout :
         /\ f.node = n /\ registered[n] # {}
         /\ IF f.sink = "queue"
            THEN queue[n] < MaxFrames /\ queue' = [queue EXCEPT ![n] = @ + 1] /\ UNCHANGED heard
            ELSE /\ heard' = IF listener /\ heard < MaxFrames THEN heard + 1 ELSE heard
                 /\ UNCHANGED queue
    /\ UNCHANGED <<registered, fanout, starting, polling, shared, listener, stray, calls>>

OutboundNext ==
    \E n \in Nodes :
        \/ StartOutboundFrames(n) \/ StartKeepsHandle(n) \/ SubscribeKeepsHandle(n) \/ PollOutboundFrames(n) \/ StopOutboundFrames(n)
        \/ SubscribeOutboundFrames(n) \/ UnsubscribeOutboundFrames({n})
        \/ UnsubscribeOutboundFrames({}) \/ FrameOut(n)

OutboundSpec == OutboundInit /\ [][OutboundNext]_outboundVars

\* A node has its translators registered exactly while someone holds its
\* fan-out, through failed registrations, repeated and overlapping calls and a
\* mix of the two consumers; so a consumer that stops can start again.  The
\* exceptions are nodes torn down through the wrong door: a JNI unsubscribe
\* given another handle (or 0), a stop of the other consumer or in the middle
\* of a start, and two JNI subscriptions of different nodes at once.
RegisteredWhileHeld ==
    \A n \in Nodes \ stray :
        /\ registered[n] \in {{}, Translators}
        /\ (registered[n] = Translators) = (n \in polling \cup shared \cup Starting)
        /\ (registered[n] = Translators) = (\E f \in fanout : f.node = n)

=============================================================================
