------------------------------ MODULE PeerSync ------------------------------
(* Synchronisation with peers: who serves a connection, how changes are pushed,
   and how connections come about; three state machines. *)
EXTENDS Naturals, Sequences, FiniteSets, Bags, SequencesExt

(***************************************************************************)
(* The stream handlers of AutomergeBackend::start_sync in                  *)
(* peat-protocol/src/storage/automerge_backend.rs.  One handler task per   *)
(* connection accepts the peer's streams: a sync handler is spawned by the *)
(* task that listens to connection events or by the polling task, a        *)
(* heartbeat handler by a polling task of its own.  The set of peers that  *)
(* have a handler is checked and extended under separate locks.            *)
(*                                                                         *)
(* The transport (external) replaces connections when both sides dialled,  *)
(* recycles old ones, and may announce one connection twice.  Every call   *)
(* of start_sync starts a new generation of tasks; stop_sync clears a flag *)
(* that the tasks see when they next wake.                                 *)
(***************************************************************************)

CONSTANTS
    Peer,
    MaxConns,    \* connections ever made
    MaxStarts,   \* calls of start_sync
    MaxEvents    \* events waiting when a connection is announced again

Kind == {"sync", "heartbeat"}
Generation == 1..MaxStarts
NoConn == 0
Idle == [pc |-> "idle"]
Off == [pc |-> "off"]

VARIABLES
    conn,        \* transport: the peer's current connection, or NoConn
    conns,       \* connections made so far; they are numbered
    syncActive,
    starts,
    events,      \* per generation: peer events not yet handled
    window,      \* per generation: peers inside the dedup window
    spawner,     \* per generation: the event task, and per kind the poller
    active,      \* per kind: peers marked as having a handler
    handlers     \* bag of handler tasks [kind, peer, conn, pc]

handlerVars == <<conn, conns, syncActive, starts, events, window, spawner,
                 active, handlers>>

Open(p, c) == conn[p] = c

Task == {"events"} \cup Kind
KindOf(t) == IF t = "events" THEN "sync" ELSE t

Init ==
    /\ conn = [p \in Peer |-> NoConn] /\ conns = 0
    /\ syncActive = FALSE /\ starts = 0
    /\ events = [g \in Generation |-> <<>>]
    /\ window = [g \in Generation |-> {}]
    /\ spawner = [g \in Generation |-> [t \in Task |-> Off]]
    /\ active = [k \in Kind |-> {}]
    /\ handlers = EmptyBag

-----------------------------------------------------------------------------
StartSync ==
    /\ ~syncActive /\ starts < MaxStarts
    /\ syncActive' = TRUE
    /\ starts' = starts + 1
    /\ spawner' = [spawner EXCEPT ![starts + 1] = [t \in Task |-> Idle]]
    /\ UNCHANGED <<conn, conns, events, window, active, handlers>>

StopSync ==
    /\ syncActive
    /\ syncActive' = FALSE
    /\ UNCHANGED <<conn, conns, starts, events, window, spawner, active, handlers>>

(* The transport tells every event task that still listens. *)
Announce(kind, p) ==
    events' = [g \in Generation |->
                 IF spawner[g]["events"] = Off THEN <<>>
                 ELSE Append(events[g], [kind |-> kind, peer |-> p])]

(* A peer connects, or its connection is replaced by another one. *)
Connect(p) ==
    /\ conns < MaxConns
    /\ conns' = conns + 1
    /\ conn' = [conn EXCEPT ![p] = conns + 1]
    /\ Announce("Connected", p)
    /\ UNCHANGED <<syncActive, starts, window, spawner, active, handlers>>

(* Connect path and accept path both announce the connection. *)
AnnounceAgain(p) ==
    /\ conn[p] # NoConn
    /\ \A g \in Generation : Len(events[g]) < MaxEvents
    /\ Announce("Connected", p)
    /\ UNCHANGED <<conn, conns, syncActive, starts, window, spawner, active,
                   handlers>>

(* The link is lost or recycled. *)
Disconnect(p) ==
    /\ conn[p] # NoConn
    /\ conn' = [conn EXCEPT ![p] = NoConn]
    /\ Announce("Disconnected", p)
    /\ UNCHANGED <<conns, syncActive, starts, window, spawner, active, handlers>>

-----------------------------------------------------------------------------
(* The event task; it ends when it finds sync inactive.  A duplicate within
   the window is skipped; otherwise the first part of
   spawn_sync_handler_for_peer looks for a handler. *)
TakeEvent(g) ==
    /\ spawner[g]["events"] = Idle /\ events[g] # <<>>
    /\ LET e == Head(events[g]) IN
       /\ events' = [events EXCEPT ![g] = Tail(@)]
       /\ CASE ~syncActive ->
                 /\ spawner' = [spawner EXCEPT ![g]["events"] = Off]
                 /\ UNCHANGED window
            [] syncActive /\ e.kind = "Disconnected" ->
                 /\ window' = [window EXCEPT ![g] = @ \ {e.peer}]
                 /\ UNCHANGED spawner
            [] syncActive /\ e.kind = "Connected" ->
                 /\ window' = [window EXCEPT ![g] = @ \cup {e.peer}]
                 /\ IF e.peer \in window[g] \/ e.peer \in active["sync"]
                    THEN UNCHANGED spawner
                    ELSE spawner' = [spawner EXCEPT ![g]["events"] =
                                       [pc |-> "spawn", peer |-> e.peer]]
    /\ UNCHANGED <<conn, conns, syncActive, starts, active, handlers>>

(* The dedup window of a peer passes. *)
ForgetConnect(g, p) ==
    /\ p \in window[g]
    /\ window' = [window EXCEPT ![g] = @ \ {p}]
    /\ UNCHANGED <<conn, conns, syncActive, starts, events, spawner, active,
                   handlers>>

(* A polling task wakes up and looks at a connected peer. *)
Poll(g, k, p) ==
    /\ spawner[g][k] = Idle
    /\ IF ~syncActive THEN spawner' = [spawner EXCEPT ![g][k] = Off]
       ELSE /\ conn[p] # NoConn /\ p \notin active[k]
            /\ spawner' = [spawner EXCEPT ![g][k] = [pc |-> "spawn", peer |-> p]]
    /\ UNCHANGED <<conn, conns, syncActive, starts, events, window, active,
                   handlers>>

(* The second part: if there is a connection, mark the peer and spawn the
   handler for it.  Another task may have done so since the check. *)
Spawn(g, t) ==
    /\ spawner[g][t].pc = "spawn"
    /\ LET p == spawner[g][t].peer
           h == [kind |-> KindOf(t), peer |-> p, conn |-> conn[p], pc |-> "settle"]
       IN IF conn[p] = NoConn THEN UNCHANGED <<active, handlers>>
          ELSE /\ active' = [active EXCEPT ![KindOf(t)] = @ \cup {p}]
               /\ handlers' = handlers (+) SetToBag({h})
    /\ spawner' = [spawner EXCEPT ![g][t] = Idle]
    /\ UNCHANGED <<conn, conns, syncActive, starts, events, window>>

Exit(h) ==
    /\ handlers' = handlers (-) SetToBag({h})
    /\ active' = [active EXCEPT ![h.kind] = @ \ {h.peer}]

(* Variant: as the comment says, a superseded handler leaves its mark. *)
SettleKeepsMark(h) ==
    /\ h.pc = "settle"
    /\ IF ~Open(h.peer, h.conn)
       THEN handlers' = handlers (-) SetToBag({h}) /\ UNCHANGED active
       ELSE /\ handlers' = (handlers (-) SetToBag({h}))
                             (+) SetToBag({[h EXCEPT !.pc = "accept"]})
            /\ UNCHANGED active
    /\ UNCHANGED <<conn, conns, syncActive, starts, events, window, spawner>>

(* After a short delay a handler whose connection was superseded, or that
   finds sync inactive, ends; a heartbeat handler does not wait. *)
Settle(h) ==
    /\ h.pc = "settle"
    /\ IF (h.kind = "sync" /\ ~Open(h.peer, h.conn)) \/ ~syncActive
       THEN Exit(h)
       ELSE /\ handlers' = (handlers (-) SetToBag({h}))
                             (+) SetToBag({[h EXCEPT !.pc = "accept"]})
            /\ UNCHANGED active
    /\ UNCHANGED <<conn, conns, syncActive, starts, events, window, spawner>>

(* Accepting a stream fails once the connection is closed. *)
AcceptFails(h) ==
    /\ h.pc = "accept" /\ ~Open(h.peer, h.conn)
    /\ Exit(h)
    /\ UNCHANGED <<conn, conns, syncActive, starts, events, window, spawner>>

(* A stream arrives and is handled by a task of its own; only now does the
   handler see that sync was stopped. *)
AcceptAndStop(h) ==
    /\ h.pc = "accept" /\ Open(h.peer, h.conn) /\ ~syncActive
    /\ Exit(h)
    /\ UNCHANGED <<conn, conns, syncActive, starts, events, window, spawner>>

Handler(h) == Settle(h) \/ AcceptFails(h) \/ AcceptAndStop(h)

Transport == \E p \in Peer : Connect(p) \/ AnnounceAgain(p) \/ Disconnect(p)

Spawners(g) ==
    \/ TakeEvent(g)
    \/ \E p \in Peer : ForgetConnect(g, p) \/ \E k \in Kind : Poll(g, k, p)
    \/ \E t \in Task : Spawn(g, t)

Next ==
    \/ StartSync \/ StopSync \/ Transport
    \/ \E g \in Generation : Spawners(g)
    \/ \E h \in BagToSet(handlers) : Handler(h)

(* Spawned tasks run; the transport and the caller of start_sync and
   stop_sync owe nothing.  A stream need not arrive. *)
PollAny == \E g \in Generation, p \in Peer, k \in Kind : Poll(g, k, p)
SpawnAny == \E g \in Generation, t \in Task : Spawn(g, t)
SettleAny == \E h \in BagToSet(handlers) : Settle(h) \/ AcceptFails(h)

Fairness ==
    /\ WF_handlerVars(PollAny)
    /\ WF_handlerVars(SpawnAny)
    /\ WF_handlerVars(SettleAny)

Spec == Init /\ [][Next]_handlerVars /\ Fairness

-----------------------------------------------------------------------------
(* A peer that stays connected while sync stays active is in the end served by
   a handler of each kind on its current connection, and stays so, whatever
   events were lost, repeated or suppressed and however connections were
   replaced (which happens finitely often). *)
PeersServed ==
    \A p \in Peer :
        <>[](conn[p] # NoConn /\ syncActive)
            => <>[](\A k \in Kind : \E h \in BagToSet(handlers) :
                     h.kind = k /\ h.peer = p /\ h.conn = conn[p] /\ h.pc = "accept")

-----------------------------------------------------------------------------
(***************************************************************************)
(* How changes leave a node while sync is active: the tasks that           *)
(* AutomergeBackend::start_sync spawns in                                  *)
(* peat-protocol/src/storage/automerge_backend.rs.                         *)
(*                                                                         *)
(*  - the gossip task hears of every change, local or synced in, and pushes*)
(*    the document to each connected peer but the change's source, unless  *)
(*    it pushed it to that peer within the debounce time;                  *)
(*  - the automatic sync task hears of local changes and broadcasts them   *)
(*    in batches; when its channel overran it resyncs everything, but not  *)
(*    again within the cooldown;                                           *)
(*  - a newly connected peer is pushed every document;                     *)
(*  - old connections are recycled.                                        *)
(*                                                                         *)
(* A change is its number; what a peer has is a set of changes, and a push *)
(* of a document brings the peer every change of it.  Pushes may fail.     *)
(* Durations are steps at which windows pass.                              *)
(***************************************************************************)

CONSTANTS
    Node,         \* connected peers
    Doc,
    MaxChanges,
    ChannelCap,   \* capacity of a change broadcast channel
    MaxBatch,     \* MAX_BATCH_SIZE
    MaxFaults,    \* pushes that fail and links that drop
    Recycling     \* connection_recycle_interval_secs() > 0

Local == "local"

VARIABLES
    changes,      \* sequence: the document of each change of this node
    has,          \* per peer: the changes it has
    up,           \* connected peers
    gossip,       \* [queue, lagged] of the gossip task: [doc, origin]
    local,        \* [queue, lagged] of the automatic sync task: docs
    debounced,    \* <<doc, peer>> pushed within the debounce time
    pending,      \* the batch being collected
    cooling,      \* a resync was made within the cooldown
    resync,       \* a spawned resync task has not run yet
    recent,       \* peers inside the Connected dedup window
    pushing,      \* peers whose proactive push is still to run
    faults

changeVars == <<changes, has, up, gossip, local, debounced, pending, cooling,
                resync, recent, pushing, faults>>

ChangeInit ==
    /\ changes = <<>>
    /\ has = [p \in Node |-> {}]
    /\ up = Node
    /\ gossip = [queue |-> <<>>, lagged |-> FALSE]
    /\ local = [queue |-> <<>>, lagged |-> FALSE]
    /\ debounced = {} /\ pending = <<>>
    /\ cooling = FALSE /\ resync = FALSE
    /\ recent = {} /\ pushing = {}
    /\ faults = 0

-----------------------------------------------------------------------------
(* A broadcast channel drops its oldest message when full and tells the
   receiver that it lagged. *)
Send(channel, m) ==
    IF Len(channel.queue) < ChannelCap
    THEN [channel EXCEPT !.queue = Append(@, m)]
    ELSE [queue |-> Append(Tail(channel.queue), m), lagged |-> TRUE]

(* Pushing the documents ds to the peers ps; those in bad get nothing. *)
Push(ds, ps, bad) ==
    /\ faults + Cardinality(bad) <= MaxFaults
    /\ faults' = faults + Cardinality(bad)
    /\ has' = [p \in Node |->
                 IF p \in ps \ bad
                 THEN has[p] \cup {i \in DOMAIN changes : changes[i] \in ds}
                 ELSE has[p]]

(* A document changes here, or a change of it is synced in from a peer. *)
ChangeDoc(d, origin) ==
    /\ Len(changes) < MaxChanges
    /\ origin \in up \cup {Local}
    /\ changes' = Append(changes, d)
    /\ has' = IF origin = Local THEN has
              ELSE [has EXCEPT ![origin] = @ \cup {Len(changes) + 1}]
    /\ gossip' = Send(gossip, [doc |-> d, origin |-> origin])
    /\ local' = IF origin = Local THEN Send(local, d) ELSE local
    /\ UNCHANGED <<up, debounced, pending, cooling, resync, recent, pushing,
                   faults>>

(* The gossip task takes the next change; having lagged it just goes on. *)
GossipTakes ==
    /\ gossip.queue # <<>>
    /\ IF gossip.lagged
       THEN /\ gossip' = [gossip EXCEPT !.lagged = FALSE]
            /\ UNCHANGED <<has, debounced, faults>>
       ELSE LET e == Head(gossip.queue)
                ps == {p \in up : p # e.origin /\ <<e.doc, p>> \notin debounced}
            IN /\ gossip' = [gossip EXCEPT !.queue = Tail(@)]
               /\ debounced' = debounced \cup {<<e.doc, p>> : p \in ps}
               /\ \E bad \in SUBSET ps : Push({e.doc}, ps, bad)
    /\ UNCHANGED <<changes, up, local, pending, cooling, resync, recent, pushing>>

DebouncePasses(d, p) ==
    /\ <<d, p>> \in debounced
    /\ debounced' = debounced \ {<<d, p>>}
    /\ UNCHANGED <<changes, has, up, gossip, local, pending, cooling, resync,
                   recent, pushing, faults>>

(* The pending batch is broadcast, and forgotten even if that failed. *)
Flush(batch) ==
    /\ \E bad \in SUBSET up : Push(Range(batch), up, bad)
    /\ pending' = <<>>

Collect ==
    LET d == Head(local.queue)
        batch == IF d \in Range(pending) THEN pending ELSE Append(pending, d)
    IN /\ local.queue # <<>> /\ ~local.lagged
       /\ local' = [local EXCEPT !.queue = Tail(@)]
       /\ IF Len(batch) >= MaxBatch THEN Flush(batch)
          ELSE pending' = batch /\ UNCHANGED <<has, faults>>
       /\ UNCHANGED <<changes, up, gossip, debounced, cooling, resync, recent,
                      pushing>>

(* Lagged: flush, and unless cooling down spawn a resync. *)
Lagged ==
    /\ local.lagged
    /\ local' = [local EXCEPT !.lagged = FALSE]
    /\ IF pending # <<>> THEN Flush(pending) ELSE UNCHANGED <<has, faults, pending>>
    /\ resync' = (resync \/ ~cooling)
    /\ cooling' = TRUE
    /\ UNCHANGED <<changes, up, gossip, debounced, recent, pushing>>

WindowExpires ==
    /\ pending # <<>> /\ local.queue = <<>>
    /\ Flush(pending)
    /\ UNCHANGED <<changes, up, gossip, local, debounced, cooling, resync, recent,
                   pushing>>

CooldownPasses ==
    /\ cooling
    /\ cooling' = FALSE
    /\ UNCHANGED <<changes, has, up, gossip, local, debounced, pending, resync,
                   recent, pushing, faults>>

(* The spawned resync broadcasts every stored document. *)
Resync ==
    /\ resync
    /\ resync' = FALSE
    /\ \E bad \in SUBSET up : Push(Range(changes), up, bad)
    /\ UNCHANGED <<changes, up, gossip, local, debounced, pending, cooling, recent,
                   pushing>>

-----------------------------------------------------------------------------
(* Variant: the dedup window survives a disconnect. *)
GoesDownKeepsWindow(p) ==
    /\ up' = up \ {p}
    /\ UNCHANGED recent

(* A lost connection clears the peer's dedup entry. *)
GoesDown(p) ==
    /\ up' = up \ {p}
    /\ recent' = recent \ {p}

Drop(p) ==
    /\ p \in up /\ faults < MaxFaults
    /\ faults' = faults + 1
    /\ GoesDown(p)
    /\ UNCHANGED <<changes, has, gossip, local, debounced, pending, cooling, resync,
                   pushing>>

(* Only a connection older than the interval is recycled: its proactive push
   has long run. *)
Recycle(p) ==
    /\ Recycling /\ p \in up \ pushing
    /\ GoesDown(p)
    /\ UNCHANGED <<changes, has, gossip, local, debounced, pending, cooling, resync,
                   pushing, faults>>

(* The peer reconnects; unless this is a duplicate event it is owed a push. *)
Reconnect(p) ==
    /\ p \notin up
    /\ up' = up \cup {p}
    /\ recent' = recent \cup {p}
    /\ pushing' = IF p \in recent THEN pushing ELSE pushing \cup {p}
    /\ UNCHANGED <<changes, has, gossip, local, debounced, pending, cooling, resync,
                   faults>>

DedupPasses(p) ==
    /\ p \in recent
    /\ recent' = recent \ {p}
    /\ UNCHANGED <<changes, has, up, gossip, local, debounced, pending, cooling,
                   resync, pushing, faults>>

(* The proactive push; it fails when the link is gone again. *)
PushAll(p) ==
    /\ p \in pushing
    /\ pushing' = pushing \ {p}
    /\ IF p \in up THEN \E bad \in SUBSET {p} : Push(Range(changes), {p}, bad)
       ELSE UNCHANGED <<has, faults>>
    /\ UNCHANGED <<changes, up, gossip, local, debounced, pending, cooling, resync,
                   recent>>

AutoSync == Collect \/ Lagged \/ WindowExpires \/ Resync \/ CooldownPasses

Links(p) == Drop(p) \/ Recycle(p) \/ Reconnect(p) \/ DedupPasses(p) \/ PushAll(p)

ChangeNext ==
    \/ \E d \in Doc, o \in Node \cup {Local} : ChangeDoc(d, o)
    \/ GossipTakes \/ AutoSync
    \/ \E d \in Doc, p \in Node : DebouncePasses(d, p)
    \/ \E p \in Node : Links(p)

(* Tasks run, old connections are recycled and peers reconnect; nothing
   obliges the dedup window to pass before the next reconnect. *)
ChangeFairness ==
    /\ WF_changeVars(GossipTakes) /\ WF_changeVars(AutoSync)
    /\ \A p \in Node : WF_changeVars(Recycle(p)) /\ WF_changeVars(Reconnect(p))
                         /\ WF_changeVars(PushAll(p))

ChangeSpec == ChangeInit /\ [][ChangeNext]_changeVars /\ ChangeFairness

-----------------------------------------------------------------------------
(* Once changes, failures and drops are over, every peer comes to have every
   change: debouncing, lag, cooldown and failed pushes cost time but no
   document. *)
ChangesReachPeers ==
    \A p \in Node : <>[](has[p] = DOMAIN changes)

-----------------------------------------------------------------------------
(***************************************************************************)
(* How AutomergeIrohBackend gets and keeps connections: the accept loop and*)
(* the dialling tasks of IrohPeerDiscovery::start, add_peer,               *)
(* connect_to_discovered_peers_now and IrohSyncEngine::connect_to_peer in  *)
(* peat-protocol/src/sync/automerge.rs.                                    *)
(*                                                                         *)
(* One dialling source works next to the accept loop.  The transport       *)
(* (external) keeps one connection per peer, resolves simultaneous dials by*)
(* replacing it, and refuses to dial a connected peer.  A new connection   *)
(* must pass the formation handshake before it is announced; closing it    *)
(* makes a handshake in progress fail.                                     *)
(***************************************************************************)

CONSTANTS
    Remote,            \* peers
    Initiates,         \* peers whose endpoint id is higher than ours
    MaxConnections,    \* of the periodic discovery loop
    MaxAcceptErrors,   \* MAX_CONSECUTIVE_ERRORS
    MaxDialFaults          \* dials, handshakes and links that fail, superseding accepts

Sources == {"mdns", "browse", "topology", "periodic", "now", "add_peer", "static"}
NotConnected == 0
ConnId == 1..(Cardinality(Remote) + 2)
DialIdle == [pc |-> "idle", peer |-> CHOOSE p \in Remote : TRUE, conn |-> NotConnected]

VARIABLES
    source,        \* the dialling source at work
    known,         \* peers discovered and not lost
    asked,         \* peers with an event to act on
    current,       \* transport: the connection of each peer
    authed,        \* connections that passed the handshake
    dialler,       \* the source's attempt in progress
    acceptor,      \* the accept loop's connection in handshake
    acceptErrors,  \* consecutive_errors
    broken,        \* peers whose circuit breaker is open
    failed         \* faults so far

dialVars == <<source, known, asked, current, authed, dialler, acceptor,
              acceptErrors, broken, failed>>

DialInit ==
    /\ source \in Sources
    /\ known = {} /\ asked = {} /\ broken = {} /\ authed = {}
    /\ current = [p \in Remote |-> NotConnected]
    /\ dialler = DialIdle /\ acceptor = DialIdle /\ acceptErrors = 0
    /\ failed = 0

-----------------------------------------------------------------------------
Fresh == CHOOSE c \in ConnId :
            c \notin {dialler.conn, acceptor.conn} \cup {current[p] : p \in Remote}

Connected == {p \in Remote : current[p] # NotConnected}

Faulty == failed < MaxDialFaults /\ failed' = failed + 1

(* A peer is announced: mDNS and topology act on the event alone, the browse
   task and the discovery manager remember the peer. *)
Discover(p) ==
    /\ p \notin known \/ p \notin asked
    /\ known' = known \cup {p}
    /\ asked' = asked \cup {p}
    /\ UNCHANGED <<source, current, authed, dialler, acceptor, acceptErrors, broken, failed>>

Lose(p) ==
    /\ p \in known /\ Faulty
    /\ known' = known \ {p}
    /\ UNCHANGED <<source, asked, current, authed, dialler, acceptor, acceptErrors,
                   broken>>

(* How each source goes about it: the peers it would dial, whether the
   breaker gates it, whether it waits and gives up when the accept path
   replaced its connection, and whether it disconnects the peer after a failed
   handshake.  Only one side of a pair initiates on mDNS. *)
Way(wants, gated, patient, disconnects) ==
    [wants |-> wants, gated |-> gated, patient |-> patient, disconnects |-> disconnects]

MdnsHandler == Way((asked \cap Initiates) \ Connected, TRUE, FALSE, TRUE)

(* Variant: without the reconnect watchdog. *)
BrowseByEvent == Way((asked \cap Initiates) \ Connected, TRUE, FALSE, TRUE)

(* The browse task also re-dials the peers it knows on every tick. *)
BrowseHandler == Way(((asked \cup known) \cap Initiates) \ Connected, TRUE, FALSE, TRUE)

TopologyHandler == Way(asked, TRUE, TRUE, FALSE)

(* The periodic loop fills its free slots in no particular order. *)
PeriodicLoop ==
    Way(IF Cardinality(Connected) < MaxConnections THEN known ELSE {}, TRUE, TRUE, FALSE)

ConnectToDiscoveredPeersNow == Way(known, FALSE, TRUE, FALSE)
AddPeer == Way(Remote, FALSE, FALSE, FALSE)
ConnectToPeer == Way(Remote, FALSE, TRUE, TRUE)

Source == CASE source = "mdns" -> MdnsHandler
            [] source = "browse" -> BrowseHandler
            [] source = "topology" -> TopologyHandler
            [] source = "periodic" -> PeriodicLoop
            [] source = "now" -> ConnectToDiscoveredPeersNow
            [] source = "add_peer" -> AddPeer
            [] source = "static" -> ConnectToPeer

Wants(p) == p \in Source.wants /\ ~(Source.gated /\ p \in broken)

(* Dialling: the breaker may gate it; a connected peer needs nothing; a dial
   may fail, which may open the breaker. *)
Dial(p) ==
    /\ dialler = DialIdle /\ Wants(p)
    /\ asked' = asked \ {p}
    /\ \/ /\ current[p] # NotConnected
          /\ UNCHANGED <<current, authed, dialler, broken, failed>>
       \/ /\ current[p] = NotConnected /\ Faulty
          /\ broken' \in {broken, broken \cup {p}}
          /\ UNCHANGED <<current, authed, dialler>>
       \/ /\ current[p] = NotConnected
          /\ current' = [current EXCEPT ![p] = Fresh]
          /\ authed' = authed \ {Fresh}
          /\ dialler' = [pc |-> "settle", peer |-> p, conn |-> Fresh]
          /\ UNCHANGED <<broken, failed>>
    /\ UNCHANGED <<source, known, acceptor, acceptErrors>>

(* An event for a peer that the source does not dial is spent. *)
Ignore(p) ==
    /\ dialler = DialIdle /\ p \in asked
    /\ ~Wants(p)
    /\ asked' = asked \ {p}
    /\ UNCHANGED <<source, known, current, authed, dialler, acceptor, acceptErrors,
                   broken, failed>>

BreakerCloses(p) ==
    /\ p \in broken
    /\ broken' = broken \ {p}
    /\ UNCHANGED <<source, known, asked, current, authed, dialler, acceptor,
                   acceptErrors, failed>>

DialSettle ==
    /\ dialler.pc = "settle"
    /\ dialler' = IF Source.patient /\ current[dialler.peer] # dialler.conn
                  THEN DialIdle ELSE [dialler EXCEPT !.pc = "handshake"]
    /\ UNCHANGED <<source, known, asked, current, authed, acceptor, acceptErrors,
                   broken, failed>>

(* Closing the connection of attempt a; disconnecting the peer closes whatever
   connection the transport has by now. *)
Shut(a, everything) ==
    current' = IF everything \/ current[a.peer] = a.conn
                  THEN [current EXCEPT ![a.peer] = NotConnected] ELSE current

(* The handshake of attempt a succeeds only on an open connection; then the
   peer is announced as connected. *)
Authenticate(a, everything) ==
    \/ /\ current[a.peer] = a.conn
       /\ authed' = authed \cup {a.conn}
       /\ UNCHANGED <<current, failed>>
    \/ /\ IF current[a.peer] = a.conn THEN Faulty ELSE UNCHANGED failed
       /\ Shut(a, everything)
       /\ authed' = authed \ {a.conn}

Handshake ==
    /\ dialler.pc = "handshake"
    /\ Authenticate(dialler, Source.disconnects)
    /\ dialler' = DialIdle
    /\ UNCHANGED <<source, known, asked, acceptor, acceptErrors, broken>>

(* The accept loop takes an inbound connection, which replaces another one of
   that peer (a bounded fault), and shakes hands before it accepts again. *)
Accept(p) ==
    /\ acceptor = DialIdle /\ acceptErrors < MaxAcceptErrors
    /\ Faulty
    /\ acceptErrors' = 0
    /\ current' = [current EXCEPT ![p] = Fresh]
    /\ authed' = authed \ {current[p], Fresh}
    /\ acceptor' = [pc |-> "handshake", peer |-> p, conn |-> Fresh]
    /\ UNCHANGED <<source, known, asked, dialler, broken>>

AcceptHandshake ==
    /\ acceptor.pc = "handshake"
    /\ Authenticate(acceptor, FALSE)
    /\ acceptor' = DialIdle
    /\ UNCHANGED <<source, known, asked, dialler, acceptErrors, broken>>

(* An accept error; too many in a row stop the loop for good. *)
AcceptError ==
    /\ acceptor = DialIdle /\ acceptErrors < MaxAcceptErrors /\ Faulty
    /\ acceptErrors' = acceptErrors + 1
    /\ UNCHANGED <<source, known, asked, current, authed, dialler, acceptor, broken>>

(* The link is lost or recycled, or the topology asks to disconnect. *)
LinkDown(p) ==
    /\ current[p] # NotConnected /\ Faulty
    /\ current' = [current EXCEPT ![p] = NotConnected]
    /\ authed' = authed \ {current[p]}
    /\ UNCHANGED <<source, known, asked, dialler, acceptor, acceptErrors, broken>>

Attempts == DialSettle \/ Handshake \/ AcceptHandshake

DialNext ==
    \/ Attempts \/ AcceptError
    \/ \E p \in Remote : Discover(p) \/ Lose(p) \/ Dial(p) \/ Ignore(p) \/ BreakerCloses(p)
                           \/ Accept(p) \/ LinkDown(p)

(* Attempts run to their end, a breaker closes again, and a loop over peers
   comes to each of them again and again. *)
DialFairness ==
    /\ WF_dialVars(Attempts)
    /\ \A p \in Remote : WF_dialVars(BreakerCloses(p)) /\ SF_dialVars(Dial(p))

DialSpec == DialInit /\ [][DialNext]_dialVars /\ DialFairness

-----------------------------------------------------------------------------
(* A peer that the browse task knows and may initiate to, or that the periodic
   loop knows and has room for, is connected and authenticated in the end,
   whatever dials, handshakes and links failed before. *)
KnownPeersConnect ==
    \A p \in Remote :
        <>[](/\ p \in known
             /\ \/ source = "browse" /\ p \in Initiates
                \/ source = "periodic" /\ Cardinality(Remote) <= MaxConnections)
            => <>[](current[p] # NotConnected /\ current[p] \in authed)

=============================================================================
