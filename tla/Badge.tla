------------------------------- MODULE Badge --------------------------------
(* The badge firmware, one state machine for each of its concerns: links, alerts,
   display and sensors.  The machines share no variable. *)
EXTENDS Naturals, FiniteSets, Sequences

\* The Bluetooth links of the badge firmware (examples/m5stack-core2-peat,
\* nimble.rs) as it is built, PERIPHERAL_ONLY: peers connect to the badge, and a
\* scan result is dropped at once.  The callbacks of the NimBLE host task fill the
\* connection slots and run the discovery of the peer's document characteristic
\* one callback at a time.  The discovery keeps one global for the connection under
\* discovery and one for the characteristic found, whatever the number of links.
\* Received documents go to the queue that the alerts below take from; the cool-downs that
\* only dialling reads and the node ids that only the display reads are left out.

CONSTANTS
  Peers,        \* devices in range; a characteristic is named by the peer that has it
  Speakers,     \* the peers with a document characteristic
  Handles,      \* connections the stack keeps open (NIMBLE_MAX_CONNECTIONS)
  SlotCount,    \* HARD_MAX_CONNECTIONS
  None,         \* a zero address or handle
  MaxVersion    \* bound on local document versions

VARIABLES
  link,         \* the stack's links: the peer and the running GATT procedure
  slot,         \* CONNECTIONS
  discovering,  \* DISCOVERING_CONN
  peerDoc,      \* PEER_DOC_HANDLE
  version,      \* of DOC_BUFFER
  lastSent,     \* LAST_SENT_VERSION
  mixed         \* history: two links were in discovery at the same time

globals == <<discovering, peerDoc, version, lastSent, mixed>>
linksVars == <<link, slot, globals>>

FreeSlot == [handle |-> None, peer |-> None, doc |-> None]
NoLink == [peer |-> None, gatt |-> "idle"]
Slots == 1..SlotCount
Active == {i \in Slots : slot[i].handle # None}
SlotOf(h) == {i \in Active : slot[i].handle = h}
First(S) == CHOOSE i \in S : \A j \in S : i <= j

LinksInit ==
    /\ link = [h \in Handles |-> NoLink] /\ slot = [i \in Slots |-> FreeSlot]
    /\ discovering = None /\ peerDoc = None /\ version = 1 /\ lastSent = 0 /\ mixed = FALSE

\* The stack starts the procedure, or refuses and the discovery stops there.
Starts(h, gatt) == \E g \in {gatt, "idle"} : link' = [link EXCEPT ![h].gatt = g]

\* BLE_GAP_EVENT_CONNECT: the link takes the first free slot, becomes the one under
\* discovery and exchanges MTUs, or discovers services when that cannot start.
Connected(h, p) ==
    /\ link[h] = NoLink /\ \A k \in Handles : link[k].peer # p
    /\ \E g \in {"mtu", "svcs", "idle"} : link' = [link EXCEPT ![h] = [peer |-> p, gatt |-> g]]
    /\ slot' = IF Active = Slots THEN slot
               ELSE [slot EXCEPT ![First(Slots \ Active)] = [handle |-> h, peer |-> p, doc |-> None]]
    /\ discovering' = h
    /\ mixed' = (mixed \/ \E k \in Handles : link[k].gatt # "idle")
    /\ UNCHANGED <<peerDoc, version, lastSent>>

FreeAny(h) == IF SlotOf(h) = {} THEN slot ELSE [slot EXCEPT ![First(Active)] = FreeSlot]

Free(h) == IF SlotOf(h) = {} THEN slot ELSE [slot EXCEPT ![First(SlotOf(h))] = FreeSlot]

\* BLE_GAP_EVENT_DISCONNECT
Disconnected(h) ==
    /\ link[h] # NoLink /\ link' = [link EXCEPT ![h] = NoLink]
    /\ slot' = Free(h) /\ lastSent' = 0
    /\ UNCHANGED <<discovering, peerDoc, version, mixed>>

\* mtu_exchange_cb, whatever the result.
MtuExchanged(h) == link[h].gatt = "mtu" /\ Starts(h, "svcs") /\ UNCHANGED <<slot, globals>>

\* gatt_disc_svc_cb, complete or failed.
ServicesDiscovered(h) == link[h].gatt = "svcs" /\ Starts(h, "chrs") /\ UNCHANGED <<slot, globals>>

\* gatt_disc_chr_cb with the document characteristic of h's peer.
CharacteristicFound(h) ==
    /\ link[h].gatt = "chrs" /\ link[h].peer \in Speakers
    /\ peerDoc' = link[h].peer
    /\ slot' = [i \in Slots |-> IF i \in SlotOf(discovering) THEN [slot[i] EXCEPT !.doc = link[h].peer] ELSE slot[i]]
    /\ UNCHANGED <<link, discovering, version, lastSent, mixed>>

\* gatt_disc_chr_cb at the end: descriptors, or the fallback's read, or nothing.
CharacteristicsDone(h) ==
    /\ link[h].gatt = "chrs"
    /\ IF peerDoc = None THEN Starts(h, "idle") ELSE Starts(h, "dscs") \/ Starts(h, "read")
    /\ UNCHANGED <<slot, globals>>

\* gatt_disc_dsc_cb with the configuration descriptor, subscribe_to_notifications.
DescriptorFound(h) == link[h].gatt = "dscs" /\ Starts(h, "read") /\ UNCHANGED <<slot, globals>>

Narrow(v) == v % 65536

\* gatt_read_cb: ours is sent when it is newer than the last one sent, to whichever
\* peer; the write may fail.
DocumentRead(h) ==
    /\ link[h].gatt = "read" /\ Starts(h, "idle")
    /\ lastSent' \in (IF version > lastSent THEN {lastSent, Narrow(version)} ELSE {lastSent})
    /\ UNCHANGED <<slot, discovering, peerDoc, version, mixed>>

\* set_document, the first step of gossip_document too.
SetDocument ==
    /\ version < MaxVersion /\ version' = version + 1
    /\ UNCHANGED <<link, slot, discovering, peerDoc, lastSent, mixed>>

LinksNext ==
    \/ SetDocument
    \/ \E h \in Handles :
         \/ Disconnected(h) \/ MtuExchanged(h) \/ ServicesDiscovered(h) \/ CharacteristicFound(h)
         \/ CharacteristicsDone(h) \/ DescriptorFound(h) \/ DocumentRead(h)
         \/ \E p \in Peers : Connected(h, p)

LinksSpec == LinksInit /\ [][LinksNext]_linksVars

\* gossip_document: what is sent goes to every active slot, as a notification and,
\* when the discovery found one, as a write to the peer's characteristic.
GossipTo == {<<slot[i].peer, "notify">> : i \in Active}
            \cup {<<slot[i].doc, "write">> : i \in {j \in Active : slot[j].doc # None}}

\* Gossip reaches exactly the peers the stack is linked with, and is written only
\* to characteristics of peers still linked, unless two links were in discovery at
\* once, when the globals of one discovery are used for the other.
GossipFollowsLinks ==
    LET linked == {link[h].peer : h \in Handles} \ {None}
    IN /\ {g[1] : g \in {t \in GossipTo : t[2] = "notify"}} = linked
       /\ mixed \/ \A i \in Active : slot[i].doc \in {None, link[slot[i].handle].peer}

-----------------------------------------------------------------------------
\* The emergency handling of the badge's main loop (main.rs), on several badges that
\* gossip their documents.  A stage of the loop is an action: a stage acts only when
\* its input is there, so their order within one iteration does not matter.  The
\* emergency in the mesh document and its merge belong to peat-btle and are modelled
\* from how the loop uses them.

CONSTANTS
  Badges,
  Legacy,       \* a peer that only raises the peripheral event
  MaxRaised,    \* bound on emergencies raised in all
  MaxInbox      \* bound on documents queued at one badge

VARIABLES
  em,           \* the document's emergency: source, timestamp and the nodes that acked
  alert,        \* alert_active
  own,          \* we_are_emergency_source
  vibrates,     \* vibration_on
  last,         \* last_emergency
  fallen,       \* fall_detected
  inbox,        \* PENDING_DOCS
  raised        \* emergencies so far; the clock of the timestamps

alertsVars == <<em, alert, own, vibrates, last, fallen, inbox, raised>>

NoKey == [src |-> None, ts |-> 0]
NoEm == [src |-> None, ts |-> 0, acks |-> {}]
Key(e) == [src |-> e.src, ts |-> e.ts]

\* What a received document carries: its emergency, and a legacy peer's event.
Doc(e, event) == [em |-> e, event |-> event]

AlertsInit ==
    /\ em = [b \in Badges |-> NoEm] /\ alert = [b \in Badges |-> FALSE]
    /\ own = [b \in Badges |-> FALSE] /\ vibrates = [b \in Badges |-> FALSE]
    /\ last = [b \in Badges |-> NoKey] /\ fallen = [b \in Badges |-> FALSE]
    /\ inbox = [b \in Badges |-> << >>] /\ raised = 0

\* gossip_document: a peer may miss it.
Gossip(b, e) ==
    \E got \in SUBSET {c \in Badges \ {b} : Len(inbox[c]) < MaxInbox} :
        inbox' = [c \in Badges |-> IF c \in got THEN Append(inbox[c], Doc(e, NoKey)) ELSE inbox[c]]

\* start_emergency_with_known_peers and what both callers do with it.
StartEmergency(b) ==
    LET e == [src |-> b, ts |-> raised + 1, acks |-> {b}]
    IN /\ raised < MaxRaised /\ raised' = raised + 1
       /\ em' = [em EXCEPT ![b] = e] /\ Gossip(b, e)
       /\ alert' = [alert EXCEPT ![b] = TRUE] /\ own' = [own EXCEPT ![b] = TRUE]
       /\ UNCHANGED vibrates

\* A fall is classified while no alert is active.
Fall(b) ==
    /\ ~fallen[b] /\ ~alert[b] /\ StartEmergency(b)
    /\ fallen' = [fallen EXCEPT ![b] = TRUE] /\ UNCHANGED last

FallOver(b) ==
    /\ fallen[b] /\ fallen' = [fallen EXCEPT ![b] = FALSE]
    /\ UNCHANGED <<em, alert, own, vibrates, last, inbox, raised>>

\* The motor toggles for an alert of somebody else and is off otherwise.
Vibration(b) ==
    /\ (alert[b] /\ ~own[b]) \/ vibrates[b]
    /\ vibrates' = [vibrates EXCEPT ![b] = alert[b] /\ ~own[b] /\ ~vibrates[b]]
    /\ UNCHANGED <<em, alert, own, last, fallen, inbox, raised>>

\* Button A: ack_emergency, if there is one; the alert is silenced anyway.
ButtonA(b) ==
    /\ IF em[b] = NoEm
       THEN UNCHANGED <<em, inbox>>
       ELSE /\ em' = [em EXCEPT ![b].acks = @ \cup {b}]
            /\ Gossip(b, em'[b])
    /\ alert' = [alert EXCEPT ![b] = FALSE] /\ vibrates' = [vibrates EXCEPT ![b] = FALSE]
    /\ UNCHANGED <<own, last, fallen, raised>>

ButtonBKeepsLast(b) ==
    /\ em' = [em EXCEPT ![b] = NoEm] /\ alert' = [alert EXCEPT ![b] = FALSE]
    /\ vibrates' = [vibrates EXCEPT ![b] = FALSE]
    /\ UNCHANGED <<own, last, fallen, inbox, raised>>

\* Button B: clear_emergency; nothing is gossiped.
ButtonB(b) ==
    /\ em' = [em EXCEPT ![b] = NoEm] /\ alert' = [alert EXCEPT ![b] = FALSE]
    /\ vibrates' = [vibrates EXCEPT ![b] = FALSE] /\ last' = [last EXCEPT ![b] = NoKey]
    /\ UNCHANGED <<own, fallen, inbox, raised>>

ButtonC(b) ==
    /\ StartEmergency(b)
    /\ last' = [last EXCEPT ![b] = [src |-> b, ts |-> raised + 1]] /\ UNCHANGED fallen

\* on_ble_data: the later emergency wins, acks of the same one are united.
Merge(mine, theirs) ==
    IF theirs.ts > mine.ts THEN theirs
    ELSE IF Key(theirs) = Key(mine) THEN [mine EXCEPT !.acks = @ \cup theirs.acks]
    ELSE mine

\* The alert a document raises: first by the emergency it merges to, then by the
\* peripheral event, each unless an alert is active or it is the last one handled.
Raises(b, e, event) ==
    /\ ~alert[b]
    /\ \/ e # NoEm /\ Key(e) # last[b]
       \/ event # NoKey /\ event # last[b]

\* One document of the drain, with MULTIHOP_FORWARD off.
Drain(b) ==
    /\ inbox[b] # << >>
    /\ LET doc == Head(inbox[b])
           e == Merge(em[b], doc.em)
           new == Raises(b, e, doc.event)
       IN /\ em' = [em EXCEPT ![b] = e]
          /\ alert' = [alert EXCEPT ![b] = @ \/ new]
          /\ own' = [own EXCEPT ![b] = @ /\ ~new]
          /\ vibrates' = [vibrates EXCEPT ![b] = @ \/ new]
          /\ last' = [last EXCEPT ![b] =
                        IF ~new THEN @ ELSE IF e # NoEm /\ Key(e) # @ THEN Key(e) ELSE doc.event]
    /\ inbox' = [inbox EXCEPT ![b] = Tail(@)]
    /\ UNCHANGED <<fallen, raised>>

\* The gossip of every fifth second.
PeriodicGossip(b) == Gossip(b, em[b]) /\ UNCHANGED <<em, alert, own, vibrates, last, fallen, raised>>

\* A legacy peer's peripheral event.
LegacyEvent(b) ==
    /\ raised < MaxRaised /\ raised' = raised + 1 /\ Len(inbox[b]) < MaxInbox
    /\ inbox' = [inbox EXCEPT ![b] = Append(@, Doc(NoEm, [src |-> Legacy, ts |-> raised + 1]))]
    /\ UNCHANGED <<em, alert, own, vibrates, last, fallen>>

\* A reboot: the document is loaded from flash, the emergency cleared.
Restart(b) ==
    /\ em' = [em EXCEPT ![b] = NoEm] /\ alert' = [alert EXCEPT ![b] = FALSE]
    /\ own' = [own EXCEPT ![b] = FALSE] /\ vibrates' = [vibrates EXCEPT ![b] = FALSE]
    /\ last' = [last EXCEPT ![b] = NoKey] /\ fallen' = [fallen EXCEPT ![b] = FALSE]
    /\ inbox' = [inbox EXCEPT ![b] = << >>] /\ UNCHANGED raised

AlertsNext == \E b \in Badges :
    \/ Fall(b) \/ FallOver(b) \/ Vibration(b) \/ ButtonA(b) \/ ButtonB(b) \/ ButtonC(b)
    \/ Drain(b) \/ PeriodicGossip(b) \/ LegacyEvent(b) \/ Restart(b)

AlertsSpec == AlertsInit /\ [][AlertsNext]_alertsVars

\* An emergency the wearer has not acknowledged is on the badge's screen: whatever
\* the order of falls, buttons, merges and reboots, an emergency in the document
\* that lacks the badge's ack comes with alert_active.
UnackedIsAlerting == \A b \in Badges : em[b] # NoEm /\ b \notin em[b].acks => alert[b]

-----------------------------------------------------------------------------
\* The badge's screen (update_display in main.rs): each zone is cleared and painted
\* only when its own inputs differ from those of the previous call, on top of what
\* the screen holds.

CONSTANTS
  Known,        \* peers the mesh may know
  Levels,       \* battery percentages, 0 when it could not be read
  Rows          \* peers listed, the rest is a "+n more" line below the zone

VARIABLES
  screen,       \* what each part of the screen shows
  prev,         \* display_state
  crowded       \* history: more than Rows peers were listed since the buttons were drawn

displayVars == <<screen, prev, crowded>>

Activities == {"stand", "prone", "fall"}

\* DisplayState; the mesh lists peers in one order, so sets tell lists apart.
States == {s \in [conns : 0..1, battery : Levels, alert : BOOLEAN, peers : SUBSET Known,
                  connected : SUBSET Known, acked : SUBSET Known, activity : Activities] :
              s.connected \cup s.acked \subseteq s.peers}

Blank == "blank"

Battery(s) == IF s.battery > 20 THEN <<"green", s.battery>>
              ELSE IF s.battery > 0 THEN <<"red", s.battery>> ELSE <<Blank, 0>>

Dot(s) == IF s.conns > 0 THEN "green" ELSE "gray"

\* The peer list of the alert box, and that of the ready screen.
AlertRow(s, p) == IF p \notin s.connected THEN "--" ELSE IF p \in s.acked THEN "ACK" ELSE "..."
AlertList(s) == {<<p, AlertRow(s, p)>> : p \in s.peers}
ReadyList(s) == {<<p, IF p \in s.connected THEN "OK" ELSE "--">> : p \in s.peers}

More(s) == IF ~s.alert /\ Cardinality(s.peers) > Rows THEN Cardinality(s.peers) - Rows ELSE 0

\* The whole screen for a state, had it been painted from scratch.
Render(s) ==
    [battery |-> Battery(s), dot |-> Dot(s),
     title |-> IF s.alert THEN "EMERGENCY" ELSE "callsign",
     badge |-> IF s.alert THEN Blank ELSE s.activity,
     list |-> IF s.alert THEN AlertList(s) ELSE ReadyList(s),
     buttons |-> IF s.alert THEN "ack" ELSE "idle", more |-> More(s)]

ModeChanged(s) == s.alert # prev.alert

BadgeChangedInAlertOnly(s) == ModeChanged(s)

BadgeChanged(s) == ModeChanged(s) \/ (~s.alert /\ s.activity # prev.activity)

ListChanged(s) ==
    \/ ModeChanged(s) \/ s.peers # prev.peers \/ s.connected # prev.connected
    \/ s.alert /\ s.acked # prev.acked

\* The main area: the alert box or the ready zones.  The list's "+n more" line is
\* painted below its zone, among the buttons.
MainZones(s) ==
    [title |-> IF ModeChanged(s) THEN Render(s).title ELSE screen.title,
     badge |-> IF BadgeChanged(s) THEN Render(s).badge ELSE screen.badge,
     list |-> IF ListChanged(s) THEN Render(s).list ELSE screen.list,
     more |-> IF ListChanged(s) /\ More(s) > 0 THEN More(s) ELSE screen.more]

\* update_button_labels clears the button area, the "+n more" line included, after
\* the zones are painted.
Labelled(s, zones) ==
    IF ModeChanged(s) THEN [buttons |-> Render(s).buttons, more |-> 0]
    ELSE [buttons |-> screen.buttons, more |-> zones.more]

\* update_display
UpdateDisplay(s) ==
    LET z == MainZones(s)
        l == Labelled(s, z)
    IN /\ prev' = s
       /\ screen' = [battery |-> IF s.battery # prev.battery THEN Battery(s) ELSE screen.battery,
                     dot |-> IF s.conns # prev.conns THEN Dot(s) ELSE screen.dot,
                     title |-> z.title, badge |-> z.badge,
                     list |-> z.list, buttons |-> l.buttons, more |-> l.more]
       /\ crowded' = (Cardinality(s.peers) > Rows \/ (crowded /\ ~ModeChanged(s)))

\* draw_static_ui, update_button_labels and the seeded display_state.
Default == [conns |-> 0, battery |-> 0, alert |-> TRUE, peers |-> {}, connected |-> {},
            acked |-> {}, activity |-> "stand"]
Static == [battery |-> <<Blank, 0>>, dot |-> Blank, title |-> Blank, badge |-> Blank,
           list |-> {}, buttons |-> "idle", more |-> 0]

DisplayInit == screen = Static /\ prev = Default /\ crowded = FALSE

Booted == screen.title # Blank

\* The first call, then one for every change of the badge's state.
FirstUpdate(s) == ~Booted /\ ~s.alert /\ s.activity = "stand" /\ UpdateDisplay(s)

Redraw(s) == Booted /\ s # prev /\ UpdateDisplay(s)

DisplayNext == \E s \in States : FirstUpdate(s) \/ Redraw(s)

DisplaySpec == DisplayInit /\ [][DisplayNext]_displayVars

\* Painting only what changed leaves the screen as painting everything would, but
\* for the connection dot, absent until the number of connections first changes,
\* and the "+n more" line once there was one.
ScreenShowsState ==
    Booted => /\ \A zone \in {"battery", "title", "badge", "list", "buttons"} :
                     screen[zone] = Render(prev)[zone]
              /\ screen.dot \in {Blank, Dot(prev)} /\ (screen.dot = Blank => prev.conns = 0)
              /\ crowded \/ screen.more = More(prev)

-----------------------------------------------------------------------------
\* The badge's accelerometer and battery (imu.rs, the power chip and the periodic
\* health update of main.rs): samples are debounced into an activity, the activity
\* is published in the mesh health record once a second, and failing reads re-start
\* the chip.

CONSTANTS
  Samples,      \* accelerations <<x, y, z>> in tenths of g, absolute values
  Voltages,     \* battery voltages in mV
  Confirm,      \* FALL_CONFIRM_SAMPLES
  Window,       \* samples between two classifications (500 ms at 10 Hz)
  Threshold,    \* IMU_REINIT_THRESHOLD
  GiveUp        \* IMU_REINIT_GIVEUP_STREAK

VARIABLES
  ready,        \* imu_ok
  streak,       \* ImuState.fall_streak, up to Confirm
  stable,       \* ImuState.last_activity
  since,        \* samples since last_classify_ms, up to Window
  current,      \* current_activity
  battery,      \* battery_pct, and whether one was read
  fails,        \* imu_consecutive_fails
  reinits,      \* imu_reinit_failure_streak, up to GiveUp
  silent,       \* imu_reinit_giveup_logged
  health,       \* the mesh's health record: battery, activity, alerts
  published,    \* last_alerts_published
  advert        \* the last node advertisement sent

imu == <<ready, fails, reinits, silent>>
classifier == <<streak, stable, since>>
sensorsVars == <<imu, classifier, current, battery, health, published, advert>>

\* activity_wire_encoding; alert 1 is ALERT_MAN_DOWN.
Encoding(a) == [stand |-> <<0, 0>>, prone |-> <<4, 1>>, fall |-> <<3, 0>>][a]

\* battery_percent_from_voltage
BatteryPercent(mv) == IF mv >= 4150 THEN 100 ELSE IF mv <= 3000 THEN 0 ELSE ((mv - 3000) * 100) \div 1150

NoAdvert == [battery |-> 0, wire |-> <<0, 0>>]

SensorsInit ==
    /\ ready \in BOOLEAN /\ streak = 0 /\ stable = "stand" /\ since = Window
    /\ current = "stand" /\ battery \in {<<>>} \cup {<<BatteryPercent(mv)>> : mv \in Voltages}
    /\ fails = 0 /\ reinits = 0 /\ silent = FALSE
    /\ health = [battery |-> 0, activity |-> 0, alerts |-> 0]
    /\ published = Encoding("stand")[2] /\ advert = NoAdvert

\* imu::init answers on the bus or not; the loop retries it every 30 s.
BootRetry == ~ready /\ ready' = TRUE /\ UNCHANGED <<fails, reinits, silent, classifier, current, battery, health, published, advert>>

Capped(n, top) == IF n > top THEN top ELSE n

\* magnitude above FALL_IMPACT_G or below FALL_FREEFALL_G, compared as squares.
LooksLikeFall(a) ==
    LET square == a[1] * a[1] + a[2] * a[2] + a[3] * a[3]
    IN square > 50 * 50 \/ square < 3 * 3

ZDominant(a) == a[3] > a[1] /\ a[3] > a[2] /\ a[3] > 5

\* ImuState::update
StreakAfter(a) == IF LooksLikeFall(a) THEN Capped(streak + 1, Confirm) ELSE 0

Classified(a) ==
    IF StreakAfter(a) >= Confirm THEN "fall" ELSE IF ZDominant(a) THEN "prone" ELSE "stand"

Activity(a) ==
    IF since >= Window THEN Classified(a)
    ELSE IF StreakAfter(a) >= Confirm THEN "fall" ELSE stable

\* A successful read: classification, and the advertisement of a change, once a
\* battery reading is there.
Sample(a) ==
    /\ ready /\ fails' = 0
    /\ reinits' = IF fails > 0 THEN 0 ELSE reinits
    /\ silent' = (silent /\ fails = 0)
    /\ streak' = StreakAfter(a) /\ current' = Activity(a)
    /\ IF since >= Window THEN stable' = Classified(a) /\ since' = 1
       ELSE stable' = stable /\ since' = since + 1
    /\ advert' = IF current' # current /\ battery # <<>>
                 THEN [battery |-> battery[1], wire |-> Encoding(current')] ELSE advert
    /\ UNCHANGED <<ready, battery, health, published>>

\* A failed read; the Threshold-th in a row re-initialises the chip, which may fail.
ReadFails ==
    /\ ready
    /\ IF fails + 1 < Threshold
       THEN fails' = fails + 1 /\ UNCHANGED <<reinits, silent>>
       ELSE /\ fails' = 0
            /\ \/ reinits' = 0 /\ silent' = FALSE
               \/ reinits' = Capped(reinits + 1, GiveUp) /\ silent' = (silent \/ reinits' >= GiveUp)
    /\ since' = Capped(since + 1, Window)
    /\ UNCHANGED <<ready, streak, stable, current, battery, health, published, advert>>


\* The periodic update with a battery reading: update_health_full, then
\* update_alerts only when the alerts differ from those last published.
HealthTick(mv) ==
    LET wire == Encoding(current)
    IN /\ battery' = <<BatteryPercent(mv)>>
       /\ health' = [battery |-> BatteryPercent(mv), activity |-> wire[1],
                     alerts |-> IF wire[2] # published THEN wire[2] ELSE health.alerts]
       /\ published' = wire[2]
       /\ UNCHANGED <<imu, classifier, current, advert>>

SensorsNext ==
    \/ BootRetry \/ ReadFails
    \/ \E a \in Samples : Sample(a)
    \/ \E mv \in Voltages : HealthTick(mv)

SensorsSpec == SensorsInit /\ [][SensorsNext]_sensorsVars

\* The health record and the advertisement never tell two stories: in each of them
\* the man-down alert is set exactly with the prone activity, whatever the debounce
\* of the alerts skipped, and no advertisement carries an invented battery level.
HealthIsCoherent ==
    /\ <<health.activity, health.alerts>> \in {Encoding(a) : a \in {"stand", "prone", "fall"}}
    /\ advert # NoAdvert => /\ advert.battery \in {BatteryPercent(mv) : mv \in Voltages}
                            /\ advert.wire \in {Encoding(a) : a \in {"stand", "prone", "fall"}}

=============================================================================
