------------------------------- MODULE MCSync -------------------------------
(* Synchronisation with peers: who serves a connection, how changes are
   pushed, and how connections come about.  Every behaviour exercises one of
   the three, chosen by part in the initial state. *)
EXTENDS Naturals, FiniteSets

CONSTANTS p1, p2, d1, d2

VARIABLES part,
          conn, conns, syncActive, starts, events, window, spawner, active,
          handlers,
          changes, has, up, gossip, local, debounced, pending, cooling, resync,
          recent, pushing, faults,
          source, known, asked, current, authed, dialler, acceptor,
          acceptErrors, broken, failed

Sync == INSTANCE PeerSync WITH
    Peer <- {p1}, MaxConns <- 2, MaxStarts <- 1, MaxEvents <- 1,
    Node <- {p1}, Doc <- {d1, d2}, MaxChanges <- 2, ChannelCap <- 1,
    MaxBatch <- 2, MaxFaults <- 1, Recycling <- TRUE,
    Remote <- {p1, p2}, Initiates <- {p1}, MaxConnections <- 2,
    MaxAcceptErrors <- 2, MaxDialFaults <- 2



handlerVars == <<conn, conns, syncActive, starts, events, window, spawner,
                 active, handlers>>
changeVars == <<changes, has, up, gossip, local, debounced, pending, cooling,
                resync, recent, pushing, faults>>
dialVars == <<source, known, asked, current, authed, dialler, acceptor,
              acceptErrors, broken, failed>>
vars == <<part, handlerVars, changeVars, dialVars>>

(* The source only matters to the behaviours that dial. *)
Init == /\ part \in {"handlers", "changes", "dialing"}
        /\ Sync!Init /\ Sync!ChangeInit /\ Sync!DialInit
        /\ part # "dialing" => source = "mdns"

InHandlers == part = "handlers" /\ UNCHANGED <<part, changeVars, dialVars>>
InChanges == part = "changes" /\ UNCHANGED <<part, handlerVars, dialVars>>
InDialing == part = "dialing" /\ UNCHANGED <<part, handlerVars, changeVars>>

Next ==
    \/ InHandlers /\ Sync!Next
    \/ InChanges /\ Sync!ChangeNext
    \/ InDialing /\ Sync!DialNext

(* The fairness of each component, for the behaviours that exercise it. *)
Fairness ==
    /\ WF_vars(InHandlers /\ Sync!PollAny)
    /\ WF_vars(InHandlers /\ Sync!SpawnAny)
    /\ WF_vars(InHandlers /\ Sync!SettleAny)
    /\ WF_vars(InChanges /\ Sync!GossipTakes)
    /\ WF_vars(InChanges /\ Sync!AutoSync)
    /\ WF_vars(InChanges /\ Sync!Recycle(p1))
    /\ WF_vars(InChanges /\ Sync!Reconnect(p1))
    /\ WF_vars(InChanges /\ Sync!PushAll(p1))
    /\ WF_vars(InDialing /\ Sync!Attempts)
    /\ \A p \in {p1, p2} : /\ WF_vars(InDialing /\ Sync!BreakerCloses(p))
                           /\ SF_vars(InDialing /\ Sync!Dial(p))

Spec == Init /\ [][Next]_vars /\ Fairness

(* A peer that stays connected while sync stays active is served on its
   connection in the end (start_sync). *)
PeersServed == part = "handlers" => Sync!PeersServed
(* Once changes, failures and drops are over, every peer comes to have every
   change (the gossip, batch, resync and recycling tasks of start_sync). *)
ChangesReachPeers == part = "changes" => Sync!ChangesReachPeers
(* A peer that a discovery task keeps trying is connected and authenticated in
   the end, whatever dials, handshakes and links failed before
   (IrohPeerDiscovery::start). *)
KnownPeersConnect == part = "dialing" => Sync!KnownPeersConnect
=============================================================================
