--------------------------- MODULE NodeReconnect ----------------------------
(* How a node keeps its peers: the supervisor of its roster, and the dialling of
   peers announced over mDNS (from mdnsVars on); two state machines. *)
EXTENDS Naturals, FiniteSetsExt, Sequences

(***************************************************************************)
(* The reconnect supervisor of an embedded node (peat-ffi): the persistent *)
(* roster of known peers (roster.rs), the per-peer dial state              *)
(* (supervisor.rs) and the passes that drive them (lib.rs).                *)
(*                                                                         *)
(* A pass reads the roster and the connected peers first and acts on what  *)
(* it read later, while the dials it spawned earlier finish on other       *)
(* threads.  Time is abstracted to the moments that matter: `ripe` holds   *)
(* the peers whose backoff delay, or whose stuck-dial limit, has passed.   *)
(* An untracked peer and a tracked `Idle` one behave alike, so `phase` is  *)
(* total.  Consecutive failures only lengthen the delay and are left out.  *)
(***************************************************************************)

CONSTANTS Peers,        \* node identifiers
          Callers,      \* "background" and the application's own calls
          Permits,      \* MAX_CONCURRENT_RECONNECT_DIALS
          MaxDials,     \* bound: dial tasks of one peer alive at once
          MaxFaults     \* bound: lost links, failed dials, failed writes, crashes

VARIABLES roster,       \* RosterStore::entries
          file,         \* roster.json
          phase,        \* Supervisor::peers
          ripe,         \* peers whose waiting time has passed
          waiting,      \* dial tasks that wait for a permit, per peer
          dialing,      \* dial tasks that hold a permit, per peer
          linked,       \* peers with a live link on some transport
          reachable,    \* peers that would answer a dial now
          pass,         \* what each caller's running pass has read
          faults

vars == <<roster, file, phase, ripe, waiting, dialing, linked, reachable, pass, faults>>

Phases == {"Idle", "Connecting", "Connected", "Backoff"}
None == [p \in Peers |-> 0]
NoPass == [c \in Callers |-> {}]
Held == MapThenSumSet(LAMBDA p : dialing[p], Peers)

TypeOK ==
    /\ roster \subseteq Peers /\ file \subseteq Peers
    /\ phase \in [Peers -> Phases] /\ ripe \subseteq Peers
    /\ waiting \in [Peers -> 0..MaxDials] /\ dialing \in [Peers -> 0..MaxDials]
    /\ linked \subseteq Peers /\ reachable \subseteq Peers
    /\ Held <= Permits /\ faults \in 0..MaxFaults

\* RosterStore::load: what the file holds, whatever the process knew before.
Load == roster' = file

Init ==
    /\ roster = {} /\ file = {} /\ phase = [p \in Peers |-> "Idle"] /\ ripe = {}
    /\ waiting = None /\ dialing = None /\ linked = {} /\ reachable = Peers
    /\ pass = NoPass /\ faults = 0

Fault == faults < MaxFaults /\ faults' = faults + 1

\* persist: a failed write or rename leaves the previous file in place.
Persist(entries) ==
    \/ file' = entries /\ UNCHANGED faults
    \/ UNCHANGED file /\ Fault

\* mark_seen: stamping a member of the roster rewrites the file.
MarkSeen(seen) ==
    IF seen \cap roster = {} THEN UNCHANGED <<file, faults>> ELSE Persist(roster)

-----------------------------------------------------------------------------
\* The supervisor's state changes.
ReconcileUp(ph, connected) ==
    [p \in Peers |-> IF p \in connected THEN "Connected" ELSE ph[p]]

Reconcile(ph, connected) ==
    [p \in Peers |-> IF p \in connected THEN "Connected"
                      ELSE IF ph[p] = "Connected" THEN "Idle" ELSE ph[p]]

Newly(ph, connected) == {p \in connected : ph[p] # "Connected"}

Eligible(ph, p) ==
    \/ ph[p] = "Idle"
    \/ ph[p] \in {"Backoff", "Connecting"} /\ p \in ripe

Retain(ph, keep) == [p \in Peers |-> IF p \in keep THEN ph[p] ELSE "Idle"]

ResetBackoffAll(ph) == [p \in Peers |-> IF ph[p] = "Backoff" THEN "Idle" ELSE ph[p]]

MarkConnected(p) == phase' = [phase EXCEPT ![p] = "Connected"] /\ ripe' = ripe \ {p}

MarkFailed(p) == phase' = [phase EXCEPT ![p] = "Backoff"] /\ ripe' = ripe \ {p}

\* mark_connecting and the spawn of the dial task, for every peer of `who`.
TryDial(ph, who) ==
    /\ phase' = [p \in Peers |-> IF p \in who THEN "Connecting" ELSE ph[p]]
    /\ ripe' = {p \in ripe \ who : phase'[p] \in {"Backoff", "Connecting"}}
    /\ waiting' = [p \in Peers |-> waiting[p] + (IF p \in who THEN 1 ELSE 0)]

Room(p) == waiting[p] + dialing[p] < MaxDials

\* backoff_ms has passed since the failure, or CONNECTING_STUCK_MS since the dial began.
WaitPasses(p) ==
    /\ phase[p] \in {"Backoff", "Connecting"} /\ p \notin ripe
    /\ ripe' = ripe \cup {p}
    /\ UNCHANGED <<roster, file, phase, waiting, dialing, linked, reachable, pass, faults>>

-----------------------------------------------------------------------------
\* peer_connected_any_transport: a measured link on any transport counts.
AnyTransport == linked

\* run_supervisor_tick, up to the read of the connected peers.
PassReads(c, ph) ==
    /\ pass[c] = {}
    /\ pass' = [pass EXCEPT ![c] = {[entries |-> roster, connected |-> AnyTransport]}]
    /\ phase' = ph
    /\ ripe' = {p \in ripe : ph[p] \in {"Backoff", "Connecting"}}
    /\ UNCHANGED <<roster, file, waiting, dialing, linked, reachable, faults>>

Tick == PassReads("background", phase)
ReconnectKnownPeers == PassReads("app", phase)
WakeReconnect == PassReads("app", ResetBackoffAll(phase))
NotifyNetworkChange == PassReads("app", ResetBackoffAll(phase))

\* The rest of the pass: reconcile, stamp, prune, dial.
PassActs(c) ==
    \E read \in pass[c] :
      LET reconciled == Reconcile(phase, read.connected)
          kept == Retain(reconciled, read.connected \cup read.entries)
          due == {p \in read.entries \ read.connected : Eligible(kept, p) /\ Room(p)}
      IN  /\ MarkSeen(Newly(phase, read.connected))
          /\ TryDial(kept, due)
          /\ pass' = [pass EXCEPT ![c] = {}]
          /\ UNCHANGED <<roster, dialing, linked, reachable>>

OnPeerObserved(p) ==
    /\ p \in roster
    /\ IF p \in linked
         THEN MarkConnected(p) /\ MarkSeen({p}) /\ UNCHANGED waiting
         ELSE /\ Eligible(phase, p) /\ Room(p)
              /\ TryDial(phase, {p}) /\ UNCHANGED <<file, faults>>
    /\ UNCHANGED <<roster, dialing, linked, reachable, pass>>

\* A spawned dial gets one of the permits.
Acquire(p) ==
    /\ waiting[p] > 0 /\ Held < Permits
    /\ waiting' = [waiting EXCEPT ![p] = @ - 1]
    /\ dialing' = [dialing EXCEPT ![p] = @ + 1]
    /\ UNCHANGED <<roster, file, phase, ripe, linked, reachable, pass, faults>>

DialSucceeds(p) ==
    /\ dialing[p] > 0 /\ p \in reachable
    /\ dialing' = [dialing EXCEPT ![p] = @ - 1]
    /\ linked' = linked \cup {p}
    /\ MarkConnected(p) /\ MarkSeen({p})
    /\ UNCHANGED <<roster, waiting, reachable, pass>>

DialFails(p) ==
    /\ dialing[p] > 0
    /\ IF p \in reachable THEN Fault ELSE UNCHANGED faults
    /\ dialing' = [dialing EXCEPT ![p] = @ - 1]
    /\ MarkFailed(p)
    /\ UNCHANGED <<roster, file, waiting, linked, reachable, pass>>

-----------------------------------------------------------------------------
RosterUpsert(p) ==
    /\ roster' = roster \cup {p} /\ Persist(roster')
    /\ UNCHANGED <<phase, ripe, waiting, dialing, linked, reachable, pass>>

RosterRemove(p) ==
    /\ p \in roster /\ roster' = roster \ {p} /\ Persist(roster')
    /\ UNCHANGED <<phase, ripe, waiting, dialing, linked, reachable, pass>>

\* connect_peer and connect_peer_nowait: a dial outside the supervisor.
ConnectPeer(p) ==
    /\ p \in reachable \ linked /\ linked' = linked \cup {p}
    /\ UNCHANGED <<roster, file, phase, ripe, waiting, dialing, reachable, pass, faults>>

DisconnectPeer(p) ==
    /\ p \in linked /\ Fault /\ linked' = linked \ {p}
    /\ UNCHANGED <<roster, file, phase, ripe, waiting, dialing, reachable, pass>>

\* The network: a peer goes away, its link with it, and comes back.
PeerLeaves(p) ==
    /\ p \in reachable /\ Fault
    /\ reachable' = reachable \ {p} /\ linked' = linked \ {p}
    /\ UNCHANGED <<roster, file, phase, ripe, waiting, dialing, pass>>

PeerReturns(p) ==
    /\ p \notin reachable /\ reachable' = reachable \cup {p}
    /\ UNCHANGED <<roster, file, phase, ripe, waiting, dialing, linked, pass, faults>>

\* The process ends and create_node starts it again on the same directory.
Restart ==
    /\ Fault /\ Load /\ UNCHANGED <<file, reachable>>
    /\ phase' = [p \in Peers |-> "Idle"] /\ ripe' = {}
    /\ waiting' = None /\ dialing' = None /\ linked' = {} /\ pass' = NoPass

Next ==
    \/ Tick \/ ReconnectKnownPeers \/ WakeReconnect \/ NotifyNetworkChange \/ Restart
    \/ \E c \in Callers : PassActs(c)
    \/ \E p \in Peers :
         \/ OnPeerObserved(p) \/ WaitPasses(p) \/ Acquire(p)
         \/ DialSucceeds(p) \/ DialFails(p) \/ ConnectPeer(p) \/ DisconnectPeer(p)
         \/ RosterUpsert(p) \/ RosterRemove(p) \/ PeerLeaves(p) \/ PeerReturns(p)

\* The background task ticks every three seconds, spawned tasks run, dials end
\* and time passes; permits go to the longest waiting task.
Fairness ==
    /\ WF_vars(Tick) /\ WF_vars(PassActs("background"))
    /\ \A p \in Peers : /\ WF_vars(WaitPasses(p)) /\ SF_vars(Acquire(p))
                         /\ WF_vars(DialSucceeds(p) \/ DialFails(p))

Spec == Init /\ [][Next]_vars /\ Fairness

\* A roster member that stays in the roster and stays reachable is connected in
\* the end and for good, whatever links, dials, writes or processes failed
\* before: a lost link makes the peer eligible again, a failed or stuck dial
\* does not keep it from being dialled, and a late failure report of an old
\* dial does not either.
RosterPeersReconnect ==
    \A p \in Peers : <>[](p \in roster /\ p \in reachable) => <>[](p \in linked)

-----------------------------------------------------------------------------
(***************************************************************************)
(* The mDNS auto-dial task of an embedded node (peat-ffi/src/lib.rs,       *)
(* run_peat_mdns_auto_dial): one loop that takes either the next browse    *)
(* event or its retry tick, collects candidates, and dials them one after  *)
(* the other, each at most once per RETRY_INTERVAL.                        *)
(*                                                                         *)
(* Events arriving while a dial is awaited stay in the channel.  `recent`  *)
(* holds the peers whose last attempt is younger than the interval; it and *)
(* the tick have the same period, so a tick may find a peer still recent.  *)
(***************************************************************************)

CONSTANTS MdnsPeers,
          MaxEvents,    \* bound: browse events
          MaxDialFaults     \* bound: dials of a present peer that fail, links lost

VARIABLES events,       \* the browse channel
          known, recent,
          candidates,   \* of this turn of the loop, still to be tried
          dialled,      \* the peer being dialled, {} for none
          joined,
          present,      \* peers whose last browse event was not PeerLost
          sent, dialFaults

mdnsVars == <<events, known, recent, candidates, dialled, joined, present, sent, dialFaults>>

MdnsTypeOK ==
    /\ events \in Seq(MdnsPeers \X BOOLEAN)
    /\ known \subseteq MdnsPeers /\ recent \subseteq MdnsPeers /\ candidates \subseteq MdnsPeers
    /\ dialled \subseteq MdnsPeers /\ joined \subseteq MdnsPeers /\ present \subseteq MdnsPeers
    /\ sent \in 0..MaxEvents /\ dialFaults \in 0..MaxDialFaults

MdnsInit ==
    /\ events = <<>> /\ known = {} /\ recent = {} /\ candidates = {} /\ dialled = {}
    /\ joined = {} /\ present = {} /\ sent = 0 /\ dialFaults = 0

AtTop == candidates = {} /\ dialled = {}
Taken == events # <<>> /\ events' = Tail(events)

\* PeerFound and PeerUpdated: remember the peer and try it now.
Found(p) ==
    /\ AtTop /\ Taken /\ Head(events) = <<p, TRUE>>
    /\ known' = known \cup {p} /\ candidates' = {p}
    /\ UNCHANGED <<recent, dialled, joined, present, sent, dialFaults>>

\* PeerLost: forget it and its last attempt.
Lost(p) ==
    /\ AtTop /\ Taken /\ Head(events) = <<p, FALSE>>
    /\ known' = known \ {p} /\ recent' = recent \ {p}
    /\ UNCHANGED <<candidates, dialled, joined, present, sent, dialFaults>>

\* The retry tick: every known peer that is not connected.
MdnsTick ==
    /\ AtTop /\ candidates' = known \ joined /\ candidates' # {}
    /\ UNCHANGED <<events, known, recent, dialled, joined, present, sent, dialFaults>>

\* One candidate: passed over when connected or tried within the interval.
PassOver(p) ==
    /\ dialled = {} /\ p \in candidates /\ (p \in joined \/ p \in recent)
    /\ candidates' = candidates \ {p}
    /\ UNCHANGED <<events, known, recent, dialled, joined, present, sent, dialFaults>>

Dial(p) ==
    /\ dialled = {} /\ p \in candidates /\ p \notin joined /\ p \notin recent
    /\ candidates' = candidates \ {p} /\ recent' = recent \cup {p} /\ dialled' = {p}
    /\ UNCHANGED <<events, known, joined, present, sent, dialFaults>>

\* dial_mdns_peer: already connected by now, connected, or failed.
DialEnds(p, up) ==
    /\ dialled = {p} /\ dialled' = {}
    /\ \/ up /\ p \in present \cup joined /\ joined' = joined \cup {p} /\ UNCHANGED dialFaults
       \/ ~up /\ p \notin joined \cup present /\ UNCHANGED <<joined, dialFaults>>
       \/ ~up /\ p \in present \ joined /\ dialFaults < MaxDialFaults /\ dialFaults' = dialFaults + 1
          /\ UNCHANGED joined
    /\ UNCHANGED <<events, known, recent, candidates, present, sent>>

IntervalPasses(p) ==
    /\ p \in recent /\ recent' = recent \ {p}
    /\ UNCHANGED <<events, known, candidates, dialled, joined, present, sent, dialFaults>>

\* The browse stream and the network.
Announce(p, found) ==
    /\ sent < MaxEvents /\ sent' = sent + 1
    /\ events' = Append(events, <<p, found>>)
    /\ present' = IF found THEN present \cup {p} ELSE present \ {p}
    /\ UNCHANGED <<known, recent, candidates, dialled, joined, dialFaults>>

LinkDrops(p) ==
    /\ p \in joined /\ dialFaults < MaxDialFaults /\ dialFaults' = dialFaults + 1
    /\ joined' = joined \ {p}
    /\ UNCHANGED <<events, known, recent, candidates, dialled, present, sent>>

MdnsNext ==
    \/ MdnsTick
    \/ \E p \in MdnsPeers : \/ Found(p) \/ Lost(p) \/ PassOver(p) \/ Dial(p)
                        \/ IntervalPasses(p) \/ LinkDrops(p)
                        \/ \E b \in BOOLEAN : DialEnds(p, b) \/ Announce(p, b)

\* tokio::select! is fair between the channel and the tick; dials end; time passes.
MdnsFairness ==
    /\ SF_mdnsVars(MdnsTick)
    /\ \A p \in MdnsPeers : /\ SF_mdnsVars(Found(p) \/ Lost(p)) /\ WF_mdnsVars(PassOver(p) \/ Dial(p))
                        /\ WF_mdnsVars(IntervalPasses(p)) /\ SF_mdnsVars(Dial(p))
                        /\ WF_mdnsVars(\E up \in BOOLEAN : DialEnds(p, up))

MdnsSpec == MdnsInit /\ [][MdnsNext]_mdnsVars /\ MdnsFairness

\* A peer the browse stream has announced, and that stays, is connected in the
\* end: the remembered-peer tick repairs a failed first dial and a dropped link,
\* although every peer waits for the dials of the others and for its interval.
AnnouncedConnect ==
    \A p \in MdnsPeers : <>[](p \in present) => <>[](p \in joined)

=============================================================================
