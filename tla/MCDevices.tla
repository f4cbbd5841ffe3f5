----------------------------- MODULE MCDevices -----------------------------
(* What runs on a device: the API embedded in applications (counted owners of a
   node, frames and records that survive translation, registered transports,
   complete pages, shared documents, blob fetches, the calls from Dart, the C
   interface to the peers) and the
   badge firmware (its links, the emergencies of two badges that gossip, the
   screen, the sensors).  Every behaviour exercises one of these, chosen by part;
   none fills what a part does not use. *)
EXTENDS Naturals, FiniteSets

CONSTANTS n1, n2, t1, k1, v1, v2, p1, p2, f1, c1, c2, b1, b2, h1, h2, phone, none

VARIABLES part,
          refs, handles, slot, bridge, opening, ticking, stopped, call,
          collection, frame, air,
          registered, fanout, starting, polling, shared, listener, queue, heard, stray, calls,
          docs, operations, scan, purged, writes,
          counter, file, kv, kvFile, actor, frames, kvFrames, made, ops, crashes,
          kind, written, doc, read,
          store, created, built, known, local, caller, fetch,
          entry, stage, a, got, outcome, r, seen,
          link, slots, discovering, peerDoc, version, lastSent, mixed,
          em, alert, own, vibrates, last, fallen, inbox, raised,
          screen, prev, crowded,
          ready, streak, stable, since, current, battery, fails, reinits, silent,
          health, published, advert,
          transport, context, connected, callback, cancel, lastError, result, step, thread, events, told, asked,
          before, overlapped

Native == INSTANCE NativeInterface WITH
    Nodes <- {n1, n2}, Threads <- {t1},
    Peer <- {p1}, Caller <- {c1, c2}, MaxEvents <- 2, MaxThreads <- 2, MaxCalls <- 3,
    calls <- asked, since <- before
Gateway == INSTANCE BleGateway WITH
    Word <- 8, MaxHops <- 3, doc <- frame,
    Nodes <- {n1, n2}, MaxFrames <- 1, MaxCalls <- 5
Data == INSTANCE ApplicationData WITH
    Ids <- 1..3, MaxLimit <- 2, MaxDocBytes <- 2, MaxPageBytes <- 3, MaxTargets <- 2, MaxWrites <- 4,
    Nodes <- {1, 2}, Deltas <- {5, 2}, Keys <- {k1}, Values <- {v1, v2}, MaxOps <- 2, MaxCrashes <- 1,
    Peers <- {p1}, Fetches <- {f1}, Callers <- {c1, c2}, MaxStores <- 2
(* The samples: flat, upright, an impact on two axes, free fall. *)
Firmware == INSTANCE Badge WITH
    Peers <- {p1, p2}, Speakers <- {p1, p2}, Handles <- {h1, h2}, SlotCount <- 4, None <- none, MaxVersion <- 2,
    slot <- slots,
    Badges <- {b1, b2}, Legacy <- phone, MaxRaised <- 2, MaxInbox <- 1,
    Known <- {p1, p2}, Levels <- {0, 15}, Rows <- 1,
    Samples <- {<<0, 0, 10>>, <<10, 0, 0>>, <<40, 35, 0>>, <<0, 1, 1>>}, Voltages <- {3500, 4200},
    Confirm <- 3, Window <- 5, Threshold <- 2, GiveUp <- 2
(* Flat, upright, an impact on two axes, free fall. *)

ownersVars == <<refs, handles, slot, bridge, opening, ticking, stopped, call>>
bleVars == <<collection, frame, air>>
outboundVars == <<registered, fanout, starting, polling, shared, listener, queue, heard, stray, calls>>
pagesVars == <<docs, operations, scan, purged, writes>>
sharedVars == <<counter, file, kv, kvFile, actor, frames, kvFrames, made, ops, crashes>>
recordsVars == <<kind, written, doc, read>>
blobsVars == <<store, created, built, known, local, caller, fetch>>
dartVars == <<entry, stage, a, got, outcome, r, seen>>
linksVars == <<link, slots, discovering, peerDoc, version, lastSent, mixed>>
alertsVars == <<em, alert, own, vibrates, last, fallen, inbox, raised>>
screenVars == <<screen, prev, crowded>>
sensorsVars == <<ready, streak, stable, since, current, battery, fails, reinits, silent, health, published,
    advert>>
callbacksVars == <<transport, context, connected, callback, cancel, lastError, result, step, thread, events,
    told, asked, before, overlapped>>
vars == <<part, ownersVars, bleVars, outboundVars, pagesVars, sharedVars, recordsVars, blobsVars, dartVars,
    linksVars, alertsVars, screenVars, sensorsVars, callbacksVars>>

OwnersStart ==
    IF part = "owners" THEN Native!HandlesInit
    ELSE /\ refs = none /\ handles = none /\ slot = none /\ bridge = none /\ opening = none
         /\ ticking = none /\ stopped = none /\ call = none
BleStart ==
    IF part = "ble" THEN Gateway!TranslationInit
    ELSE /\ collection = none /\ frame = none /\ air = none
OutboundStart ==
    IF part = "outbound" THEN Gateway!OutboundInit
    ELSE /\ registered = none /\ fanout = none /\ starting = none /\ polling = none /\ shared = none
         /\ listener = none /\ queue = none /\ heard = none /\ stray = none /\ calls = none
PagesStart ==
    IF part = "pages" THEN Data!PagesInit
    ELSE /\ docs = none /\ operations = none /\ scan = none /\ purged = none /\ writes = none
SharedStart ==
    IF part = "shared" THEN Data!SharedInit
    ELSE /\ counter = none /\ file = none /\ kv = none /\ kvFile = none /\ actor = none /\ frames = none
         /\ kvFrames = none /\ made = none /\ ops = none /\ crashes = none
RecordsStart ==
    IF part = "records" THEN Data!RecordInit
    ELSE /\ kind = none /\ written = none /\ doc = none /\ read = none
BlobsStart ==
    IF part = "blobs" THEN Data!BlobInit
    ELSE /\ store = none /\ created = none /\ built = none /\ known = none /\ local = none /\ caller = none
         /\ fetch = none
DartStart ==
    IF part = "dart" THEN Native!DartInit
    ELSE /\ entry = none /\ stage = none /\ a = none /\ got = none /\ outcome = none /\ r = none
         /\ seen = none
LinksStart ==
    IF part = "links" THEN Firmware!LinksInit
    ELSE /\ link = none /\ slots = none /\ discovering = none /\ peerDoc = none /\ version = none
         /\ lastSent = none /\ mixed = none
AlertsStart ==
    IF part = "alerts" THEN Firmware!AlertsInit
    ELSE /\ em = none /\ alert = none /\ own = none /\ vibrates = none /\ last = none /\ fallen = none
         /\ inbox = none /\ raised = none
ScreenStart ==
    IF part = "screen" THEN Firmware!DisplayInit
    ELSE /\ screen = none /\ prev = none /\ crowded = none
SensorsStart ==
    IF part = "sensors" THEN Firmware!SensorsInit
    ELSE /\ ready = none /\ streak = none /\ stable = none /\ since = none /\ current = none
         /\ battery = none /\ fails = none /\ reinits = none /\ silent = none /\ health = none
         /\ published = none /\ advert = none
CallbacksStart ==
    IF part = "callbacks" THEN Native!CallbacksInit
    ELSE /\ transport = none /\ context = none /\ connected = none /\ callback = none /\ cancel = none
         /\ lastError = none /\ result = none /\ step = none /\ thread = none /\ events = none
         /\ told = none /\ asked = none /\ before = none /\ overlapped = none

Init ==
    /\ part \in {"owners", "ble", "outbound", "pages", "shared", "records", "blobs", "dart",
                 "links", "alerts", "screen", "sensors", "callbacks"}
    /\ OwnersStart /\ BleStart /\ OutboundStart /\ PagesStart /\ SharedStart /\ RecordsStart /\ BlobsStart
    /\ DartStart /\ LinksStart /\ AlertsStart /\ ScreenStart /\ SensorsStart /\ CallbacksStart

InOwners ==
    part = "owners" /\ UNCHANGED <<part, bleVars, outboundVars, pagesVars, sharedVars,
        recordsVars, blobsVars, dartVars, linksVars, alertsVars, screenVars, sensorsVars, callbacksVars>>
InBle ==
    part = "ble" /\ UNCHANGED <<part, ownersVars, outboundVars, pagesVars, sharedVars, recordsVars,
        blobsVars, dartVars, linksVars, alertsVars, screenVars, sensorsVars, callbacksVars>>
InOutbound ==
    part = "outbound" /\ UNCHANGED <<part, ownersVars, bleVars, pagesVars, sharedVars,
        recordsVars, blobsVars, dartVars, linksVars, alertsVars, screenVars, sensorsVars, callbacksVars>>
InPages ==
    part = "pages" /\ UNCHANGED <<part, ownersVars, bleVars, outboundVars, sharedVars,
        recordsVars, blobsVars, dartVars, linksVars, alertsVars, screenVars, sensorsVars, callbacksVars>>
InShared ==
    part = "shared" /\ UNCHANGED <<part, ownersVars, bleVars, outboundVars, pagesVars,
        recordsVars, blobsVars, dartVars, linksVars, alertsVars, screenVars, sensorsVars, callbacksVars>>
InRecords ==
    part = "records" /\ UNCHANGED <<part, ownersVars, bleVars, outboundVars, pagesVars,
        sharedVars, blobsVars, dartVars, linksVars, alertsVars, screenVars, sensorsVars, callbacksVars>>
InBlobs ==
    part = "blobs" /\ UNCHANGED <<part, ownersVars, bleVars, outboundVars, pagesVars, sharedVars,
        recordsVars, dartVars, linksVars, alertsVars, screenVars, sensorsVars, callbacksVars>>
InDart ==
    part = "dart" /\ UNCHANGED <<part, ownersVars, bleVars, outboundVars, pagesVars, sharedVars,
        recordsVars, blobsVars, linksVars, alertsVars, screenVars, sensorsVars, callbacksVars>>
InLinks ==
    part = "links" /\ UNCHANGED <<part, ownersVars, bleVars, outboundVars, pagesVars, sharedVars,
        recordsVars, blobsVars, dartVars, alertsVars, screenVars, sensorsVars, callbacksVars>>
InAlerts ==
    part = "alerts" /\ UNCHANGED <<part, ownersVars, bleVars, outboundVars, pagesVars,
        sharedVars, recordsVars, blobsVars, dartVars, linksVars, screenVars, sensorsVars, callbacksVars>>
InScreen ==
    part = "screen" /\ UNCHANGED <<part, ownersVars, bleVars, outboundVars, pagesVars,
        sharedVars, recordsVars, blobsVars, dartVars, linksVars, alertsVars, sensorsVars, callbacksVars>>
InSensors ==
    part = "sensors" /\ UNCHANGED <<part, ownersVars, bleVars, outboundVars, pagesVars,
        sharedVars, recordsVars, blobsVars, dartVars, linksVars, alertsVars, screenVars, callbacksVars>>
InCallbacks ==
    part = "callbacks" /\ UNCHANGED <<part, ownersVars, bleVars, outboundVars, pagesVars,
        sharedVars, recordsVars, blobsVars, dartVars, linksVars, alertsVars, screenVars, sensorsVars>>

Next ==
    \/ InOwners /\ Native!HandlesNext
    \/ InBle /\ Gateway!TranslationNext
    \/ InOutbound /\ Gateway!OutboundNext
    \/ InPages /\ Data!PagesNext
    \/ InShared /\ Data!SharedNext
    \/ InRecords /\ Data!RecordNext
    \/ InBlobs /\ Data!BlobNext
    \/ InDart /\ Native!DartNext
    \/ InLinks /\ Firmware!LinksNext
    \/ InAlerts /\ Firmware!AlertsNext
    \/ InScreen /\ Firmware!DisplayNext
    \/ InSensors /\ Firmware!SensorsNext
    \/ InCallbacks /\ Native!CallbacksNext

Spec == Init /\ [][Next]_vars

(* Nothing is missed or counted twice: a scan that reached its end returned every
   item that was there all along, unless an operation was purged meanwhile; a
   node shows the sum of the increments it made and merged, each once; a callback
   is told every event since it was registered, unless registering and
   unregistering overlapped, and a call that fails leaves the reason
   (query_documents, list, WaterCounter, CrdtKv, ffi/peer.rs). *)
NothingIsMissed ==
    /\ part = "pages" => Data!ScanIsComplete
    /\ part = "shared" => Data!EachCountsOnce
    /\ part = "callbacks" => Native!RegisteredIsTold /\ Native!FailuresExplained
=============================================================================
