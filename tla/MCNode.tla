------------------------------- MODULE MCNode -------------------------------
(* What a node of the embedding API does by itself: reconnecting the peers of
   its roster, dialling announced peers, delivering document changes and
   relaying BLE frames.  Every behaviour exercises one of these,
   chosen by part in the initial state. *)
EXTENDS Naturals, FiniteSets

CONSTANTS p1, p2, n1, n2, n3, h1

VARIABLES part,
          roster, file, phase, ripe, waiting, dialing, linked, reachable, pass, faults,
          events, known, recent, candidates, dialled, up, present, sent, dialFaults,
          changes, slot, active, client, wanted, task, handle,
          changes2, slot2, active2, client2, wanted2, task2, handle2,
          on, queue, radio, seen, held, published, stops

Roster == INSTANCE NodeReconnect WITH
    Peers <- {p1}, Callers <- {"background", "app"}, Permits <- 1, MaxDials <- 2, MaxFaults <- 2,
    MdnsPeers <- {p1, p2}, MaxEvents <- 4, MaxDialFaults <- 2, joined <- up
(* Two JNI subscriptions in a row; and a UniFFI subscription. *)
Jni == INSTANCE ChangeListeners WITH
    Listeners <- {1, 2}, Handles <- {}, Capacity <- 1, MaxChanges <- 2
Uniffi == INSTANCE ChangeListeners WITH
    Listeners <- {}, Handles <- {h1}, Capacity <- 1, MaxChanges <- 2,
    changes <- changes2, slot <- slot2, active <- active2, client <- client2,
    wanted <- wanted2, task <- task2, handle <- handle2
(* Three nodes in range of one another. *)
Relay == INSTANCE BleRelay WITH
    Nodes <- {n1, n2, n3}, Neighbours <- [n \in {n1, n2, n3} |-> {n1, n2, n3} \ {n}],
    SeenCap <- 2, MaxPublished <- 1, MaxEvents <- 1, store <- held, events <- stops

rosterVars == <<roster, file, phase, ripe, waiting, dialing, linked, reachable, pass, faults>>
mdnsVars == <<events, known, recent, candidates, dialled, up, present, sent, dialFaults>>
changeVars == <<changes, slot, active, client, wanted, task, handle>>
handleVars == <<changes2, slot2, active2, client2, wanted2, task2, handle2>>
relayVars == <<on, queue, radio, seen, held, published, stops>>
vars == <<part, rosterVars, mdnsVars, changeVars, handleVars, relayVars>>

Init ==
    /\ part \in {"roster", "mdns", "listeners", "handles", "relay"}
    /\ Roster!Init /\ Roster!MdnsInit /\ Relay!Init
    /\ Jni!Init /\ Uniffi!Init

InRoster == part = "roster" /\ UNCHANGED <<part, mdnsVars, changeVars, handleVars, relayVars>>
InMdns == part = "mdns" /\ UNCHANGED <<part, rosterVars, changeVars, handleVars, relayVars>>
InListeners == part = "listeners" /\ UNCHANGED <<part, rosterVars, mdnsVars, handleVars, relayVars>>
InHandles == part = "handles" /\ UNCHANGED <<part, rosterVars, mdnsVars, changeVars, relayVars>>
InRelay == part = "relay" /\ UNCHANGED <<part, rosterVars, mdnsVars, changeVars, handleVars>>

Next ==
    \/ InRoster /\ Roster!Next
    \/ InMdns /\ Roster!MdnsNext
    \/ InListeners /\ Jni!Next
    \/ InHandles /\ Uniffi!Next
    \/ InRelay /\ Relay!Next

(* The fairness of each component, for the behaviours that exercise it. *)
RosterFairness ==
    /\ WF_vars(InRoster /\ Roster!Tick) /\ WF_vars(InRoster /\ Roster!PassActs("background"))
    /\ WF_vars(InRoster /\ Roster!WaitPasses(p1)) /\ SF_vars(InRoster /\ Roster!Acquire(p1))
    /\ WF_vars(InRoster /\ (Roster!DialSucceeds(p1) \/ Roster!DialFails(p1)))

MdnsFairness ==
    /\ SF_vars(InMdns /\ Roster!MdnsTick)
    /\ \A p \in {p1, p2} :
         /\ SF_vars(InMdns /\ (Roster!Found(p) \/ Roster!Lost(p)))
         /\ WF_vars(InMdns /\ (Roster!PassOver(p) \/ Roster!Dial(p))) /\ SF_vars(InMdns /\ Roster!Dial(p))
         /\ WF_vars(InMdns /\ Roster!IntervalPasses(p))
         /\ WF_vars(InMdns /\ \E b \in BOOLEAN : Roster!DialEnds(p, b))

ListenerFairness ==
    /\ WF_vars(InListeners /\ Jni!SignalPrevious) /\ WF_vars(InListeners /\ Jni!MarkActive)
    /\ \A l \in {1, 2} :
         /\ WF_vars(InListeners /\ Jni!Spawn(l)) /\ WF_vars(InListeners /\ Jni!TaskStarts(l))
         /\ WF_vars(InListeners /\ Jni!TaskTests(l)) /\ WF_vars(InListeners /\ Jni!Leave(l))
         /\ WF_vars(InListeners /\ Jni!ClearSlot(l))
         /\ WF_vars(InListeners /\ \/ Jni!TaskTimesOut(l)
                                   \/ Jni!DispatchDocumentChange(l)
                                   \/ Jni!DispatchDocumentError(l))

HandleFairness ==
    /\ WF_vars(InHandles /\ Uniffi!HandleTests(h1))
    /\ WF_vars(InHandles /\ (Uniffi!HandleTakes(h1) \/ Uniffi!HandleTimesOut(h1)))

RelayFairness ==
    /\ \A n \in {n1, n2, n3} : WF_vars(InRelay /\ Relay!Poll(n))
    /\ WF_vars(InRelay /\ \E r \in radio : Relay!Ingest(r) \/ Relay!Lose(r))

Fairness == /\ RosterFairness /\ MdnsFairness /\ ListenerFairness
            /\ HandleFairness /\ RelayFairness

Spec == Init /\ [][Next]_vars /\ Fairness

(* A roster member, or a peer announced over mDNS, that stays reachable is
   connected in the end and for good, whatever links, dials, writes or
   processes failed before (run_supervisor_tick, run_peat_mdns_auto_dial). *)
PeersReconnect == /\ part = "roster" => Roster!RosterPeersReconnect
                  /\ part = "mdns" => Roster!AnnouncedConnect
(* A node that is left alone goes quiet: after the last unsubscribe every delivery
   task ends and the listener is released, and once publishing, expiries and
   restarts are over no frame is re-emitted any more
   (subscribeDocumentChangesJni, SubscriptionHandle, relay_ble_frame). *)
GoesQuiet == /\ part = "listeners" => Jni!UnsubscribedGoesQuiet
             /\ part = "handles" => Uniffi!UnsubscribedGoesQuiet
             /\ part = "relay" => Relay!RelayDiesOut
=============================================================================
