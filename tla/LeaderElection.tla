--------------------------- MODULE LeaderElection ---------------------------
(***************************************************************************)
(* Leader election inside a cell, peat-protocol/src/cell/                  *)
(* leader_election.rs.  Every node runs one LeaderElectionManager whose    *)
(* fields sit behind separate mutexes, so a call is a sequence of short    *)
(* critical sections and calls on the same manager interleave:             *)
(*   handler   process_election_message, run by the bus one at a time      *)
(*   monitor   check_leader_failure and send_heartbeat_if_leader           *)
(*   operator  start_election and set_as_leader                            *)
(* The message bus is the one CellBusAbstract promises: a log per sender   *)
(* that each node reads through a cursor, skipping what was lost.          *)
(*                                                                         *)
(* A node is the rank of its id, the order should_follow_leader compares.  *)
(* Time is one bit per tracker: whether the last heartbeat is recent.      *)
(***************************************************************************)
EXTENDS Naturals, Sequences, FiniteSets

CONSTANTS
    Node,           \* ranks of the node ids
    None,           \* no leader, no tracker, no argument
    MaxTasks,       \* calls in progress at once on one manager
    MaxRound,       \* bound: election rounds
    MaxLog,         \* bound: messages before start and heartbeat calls stop
    MaxOverrides    \* bound: set_as_leader calls

ASSUME ElectionAssumption ==
    /\ Node \subseteq Nat
    /\ None \notin Node
    /\ None \notin Nat
    /\ None \notin [leader_id : Node, recent : BOOLEAN]
    /\ MaxTasks \in Nat \ {0}
    /\ MaxRound \in Nat \ {0}
    /\ MaxLog \in Nat
    /\ MaxOverrides \in Nat

VARIABLES
    state,              \* ElectionState of each node
    current_round,
    current_leader,
    leader_heartbeat,   \* None or [leader_id, recent]
    log,                \* log[n]: what n has published on the bus
    cursor,             \* cursor[m][n]: last message of n that m received
    handler,            \* the calls in progress, see Task
    monitor,
    operator,
    overrides           \* set_as_leader calls so far

vars == <<state, current_round, current_leader, leader_heartbeat, log, cursor,
          handler, monitor, operator, overrides>>

Announce(r) == [type |-> "announce", round |-> r]
Heartbeat == [type |-> "heartbeat", round |-> 0]

(* A call in progress: where it stands, and the value it carries. *)
Idle == [pc |-> "idle", arg |-> None]
At(pc, arg) == [pc |-> pc, arg |-> arg]

Pcs == {"idle", "candidate", "follow", "leader", "track", "beat", "reset",
        "tracker", "round", "announce", "heartbeat"}
Task == [pc : Pcs, arg : Nat \cup {None}]

Active(n) ==
    Cardinality({t \in {"handler", "monitor", "operator"} :
        \/ t = "handler" /\ handler[n] # Idle
        \/ t = "monitor" /\ monitor[n] # Idle
        \/ t = "operator" /\ operator[n] # Idle})

TypeOK ==
    /\ state \in [Node -> {"Candidate", "Leader", "Follower"}]
    /\ current_round \in [Node -> Nat \ {0}]
    /\ current_leader \in [Node -> Node \cup {None}]
    /\ leader_heartbeat \in
          [Node -> [leader_id : Node, recent : BOOLEAN] \cup {None}]
    /\ log \in [Node -> Seq([type : {"announce", "heartbeat"}, round : Nat])]
    /\ cursor \in [Node -> [Node -> Nat]]
    /\ handler \in [Node -> Task]
    /\ monitor \in [Node -> Task]
    /\ operator \in [Node -> Task]
    /\ overrides \in 0..MaxOverrides

Init ==
    /\ state = [n \in Node |-> "Candidate"]
    /\ current_round = [n \in Node |-> 1]
    /\ current_leader = [n \in Node |-> None]
    /\ leader_heartbeat = [n \in Node |-> None]
    /\ log = [n \in Node |-> <<>>]
    /\ cursor = [m \in Node |-> [n \in Node |-> 0]]
    /\ handler = [n \in Node |-> Idle]
    /\ monitor = [n \in Node |-> Idle]
    /\ operator = [n \in Node |-> Idle]
    /\ overrides = 0

-----------------------------------------------------------------------------
(* process_election_message *)

(* Variant: a heartbeat of an unknown leader counts as its announcement. *)
ReceiveAdopting(n, m) ==
    /\ handler[n] = Idle
    /\ Active(n) < MaxTasks
    /\ \E s \in (cursor[n][m] + 1)..Len(log[m]) :
          LET msg == log[m][s] IN
          /\ cursor' = [cursor EXCEPT ![n][m] = s]
          /\ \/ /\ msg.type = "announce"
                /\ handler' = [handler EXCEPT ![n] =
                      IF msg.round < current_round[n] THEN Idle
                                                      ELSE At("candidate", m)]
             \/ /\ msg.type = "heartbeat"
                /\ handler' = [handler EXCEPT ![n] =
                      IF current_leader[n] = m THEN At("beat", m)
                                               ELSE At("candidate", m)]
    /\ UNCHANGED <<state, current_round, current_leader, leader_heartbeat, log,
                   monitor, operator, overrides>>

(* Variant: an old message may arrive again. *)
ReceiveAgain(n, m) ==
    /\ handler[n] = Idle
    /\ Active(n) < MaxTasks
    /\ \E s \in 1..Len(log[m]) :
          LET msg == log[m][s] IN
          /\ cursor' = [cursor EXCEPT ![n][m] = s]
          /\ \/ /\ msg.type = "announce"
                /\ handler' = [handler EXCEPT ![n] =
                      IF msg.round < current_round[n] THEN Idle
                                                      ELSE At("candidate", m)]
             \/ /\ msg.type = "heartbeat"
                /\ handler' = [handler EXCEPT ![n] =
                      IF current_leader[n] = m THEN At("beat", m) ELSE Idle]
    /\ UNCHANGED <<state, current_round, current_leader, leader_heartbeat, log,
                   monitor, operator, overrides>>

(* The handler takes the next message the bus lets through.  An announcement
   of an old round ends the call; so does a heartbeat of anyone but the
   current leader. *)
Receive(n, m) ==
    /\ handler[n] = Idle
    /\ Active(n) < MaxTasks
    /\ \E s \in (cursor[n][m] + 1)..Len(log[m]) :
          LET msg == log[m][s] IN
          /\ cursor' = [cursor EXCEPT ![n][m] = s]
          /\ \/ /\ msg.type = "announce"
                /\ handler' = [handler EXCEPT ![n] =
                      IF msg.round < current_round[n] THEN Idle
                                                      ELSE At("candidate", m)]
             \/ /\ msg.type = "heartbeat"
                /\ handler' = [handler EXCEPT ![n] =
                      IF current_leader[n] = m THEN At("beat", m) ELSE Idle]
    /\ UNCHANGED <<state, current_round, current_leader, leader_heartbeat, log,
                   monitor, operator, overrides>>

(* Variant: any announcement is followed. *)
ShouldFollowAnyone(n, leader) == TRUE

ShouldFollow(n, leader) == leader > n

(* Second check of handle_leader_announce: only a candidate may follow. *)
CheckCandidate(n) ==
    /\ handler[n].pc = "candidate"
    /\ handler' = [handler EXCEPT ![n] =
          IF state[n] = "Candidate" /\ ShouldFollow(n, @.arg)
          THEN At("follow", @.arg)
          ELSE Idle]
    /\ UNCHANGED <<state, current_round, current_leader, leader_heartbeat, log,
                   cursor, monitor, operator, overrides>>

BecomeFollower(n) ==
    /\ handler[n].pc = "follow"
    /\ state' = [state EXCEPT ![n] = "Follower"]
    /\ handler' = [handler EXCEPT ![n].pc = "leader"]
    /\ UNCHANGED <<current_round, current_leader, leader_heartbeat, log, cursor,
                   monitor, operator, overrides>>

RecordLeader(n) ==
    /\ handler[n].pc = "leader"
    /\ current_leader' = [current_leader EXCEPT ![n] = handler[n].arg]
    /\ handler' = [handler EXCEPT ![n].pc = "track"]
    /\ UNCHANGED <<state, current_round, leader_heartbeat, log, cursor, monitor,
                   operator, overrides>>

(* Variant: the follower does not start watching its leader. *)
TrackLeaderNot(n) ==
    /\ handler[n].pc = "track"
    /\ handler' = [handler EXCEPT ![n] = Idle]
    /\ UNCHANGED <<state, current_round, current_leader, leader_heartbeat, log,
                   cursor, monitor, operator, overrides>>

TrackLeader(n) ==
    /\ handler[n].pc = "track"
    /\ leader_heartbeat' = [leader_heartbeat EXCEPT ![n] =
                              [leader_id |-> handler[n].arg, recent |-> TRUE]]
    /\ handler' = [handler EXCEPT ![n] = Idle]
    /\ UNCHANGED <<state, current_round, current_leader, log, cursor, monitor,
                   operator, overrides>>

(* handle_heartbeat: refresh the tracker, if there is one by now. *)
RefreshTracker(n) ==
    /\ handler[n].pc = "beat"
    /\ leader_heartbeat' =
          IF leader_heartbeat[n] = None THEN leader_heartbeat
          ELSE [leader_heartbeat EXCEPT ![n].recent = TRUE]
    /\ handler' = [handler EXCEPT ![n] = Idle]
    /\ UNCHANGED <<state, current_round, current_leader, log, cursor, monitor,
                   operator, overrides>>

-----------------------------------------------------------------------------
(* check_leader_failure, send_heartbeat_if_leader *)

(* More than max_missed_heartbeats intervals pass without a heartbeat. *)
Lapse(n) ==
    /\ leader_heartbeat[n] # None
    /\ leader_heartbeat[n].recent
    /\ leader_heartbeat' = [leader_heartbeat EXCEPT ![n].recent = FALSE]
    /\ UNCHANGED <<state, current_round, current_leader, log, cursor, handler,
                   monitor, operator, overrides>>

(* Variant: the role check is inverted and only a leader looks for failures. *)
CheckLeaderFailureLeadersOnly(n) ==
    /\ state[n] = "Leader"
    /\ monitor[n] = Idle
    /\ Active(n) < MaxTasks
    /\ current_round[n] < MaxRound
    /\ leader_heartbeat[n] # None
    /\ ~leader_heartbeat[n].recent
    /\ monitor' = [monitor EXCEPT ![n] = At("reset", None)]
    /\ UNCHANGED <<state, current_round, current_leader, leader_heartbeat, log,
                   cursor, handler, operator, overrides>>

(* check_leader_failure copies the tracker and finds it too old. *)
CheckLeaderFailure(n) ==
    /\ monitor[n] = Idle
    /\ Active(n) < MaxTasks
    /\ current_round[n] < MaxRound
    /\ leader_heartbeat[n] # None
    /\ ~leader_heartbeat[n].recent
    /\ monitor' = [monitor EXCEPT ![n] = At("reset", None)]
    /\ UNCHANGED <<state, current_round, current_leader, leader_heartbeat, log,
                   cursor, handler, operator, overrides>>

(* trigger_reelection, one lock at a time. *)
ResetState(n) ==
    /\ monitor[n].pc = "reset"
    /\ state' = [state EXCEPT ![n] = "Candidate"]
    /\ monitor' = [monitor EXCEPT ![n].pc = "leader"]
    /\ UNCHANGED <<current_round, current_leader, leader_heartbeat, log, cursor,
                   handler, operator, overrides>>

ResetLeader(n) ==
    /\ monitor[n].pc = "leader"
    /\ current_leader' = [current_leader EXCEPT ![n] = None]
    /\ monitor' = [monitor EXCEPT ![n].pc = "tracker"]
    /\ UNCHANGED <<state, current_round, leader_heartbeat, log, cursor, handler,
                   operator, overrides>>

ResetTracker(n) ==
    /\ monitor[n].pc = "tracker"
    /\ leader_heartbeat' = [leader_heartbeat EXCEPT ![n] = None]
    /\ monitor' = [monitor EXCEPT ![n].pc = "round"]
    /\ UNCHANGED <<state, current_round, current_leader, log, cursor, handler,
                   operator, overrides>>

NextRound(n) ==
    /\ monitor[n].pc = "round"
    /\ current_round' = [current_round EXCEPT ![n] = @ + 1]
    /\ monitor' = [monitor EXCEPT ![n] = At("announce", current_round[n] + 1)]
    /\ UNCHANGED <<state, current_leader, leader_heartbeat, log, cursor, handler,
                   operator, overrides>>

(* send_heartbeat_if_leader reads the state, then publishes. *)
SendHeartbeatIfLeader(n) ==
    /\ monitor[n] = Idle
    /\ Active(n) < MaxTasks
    /\ Len(log[n]) < MaxLog
    /\ state[n] = "Leader"
    /\ monitor' = [monitor EXCEPT ![n] = At("heartbeat", None)]
    /\ UNCHANGED <<state, current_round, current_leader, leader_heartbeat, log,
                   cursor, handler, operator, overrides>>

(* The publish call that ends trigger_reelection or a heartbeat. *)
MonitorPublish(n) ==
    /\ \/ /\ monitor[n].pc = "announce"
          /\ log' = [log EXCEPT ![n] = Append(@, Announce(monitor[n].arg))]
       \/ /\ monitor[n].pc = "heartbeat"
          /\ log' = [log EXCEPT ![n] = Append(@, Heartbeat)]
    /\ monitor' = [monitor EXCEPT ![n] = Idle]
    /\ UNCHANGED <<state, current_round, current_leader, leader_heartbeat,
                   cursor, handler, operator, overrides>>

-----------------------------------------------------------------------------
(* start_election, set_as_leader *)

(* start_election reads the round and publishes the candidacy afterwards. *)
StartElection(n) ==
    /\ operator[n] = Idle
    /\ Active(n) < MaxTasks
    /\ Len(log[n]) < MaxLog
    /\ operator' = [operator EXCEPT ![n] = At("announce", current_round[n])]
    /\ UNCHANGED <<state, current_round, current_leader, leader_heartbeat, log,
                   cursor, handler, monitor, overrides>>

AnnounceCandidacy(n) ==
    /\ operator[n].pc = "announce"
    /\ log' = [log EXCEPT ![n] = Append(@, Announce(operator[n].arg))]
    /\ operator' = [operator EXCEPT ![n] = Idle]
    /\ UNCHANGED <<state, current_round, current_leader, leader_heartbeat,
                   cursor, handler, monitor, overrides>>

SetAsLeader(n) ==
    /\ operator[n] = Idle
    /\ Active(n) < MaxTasks
    /\ overrides < MaxOverrides
    /\ overrides' = overrides + 1
    /\ state' = [state EXCEPT ![n] = "Leader"]
    /\ operator' = [operator EXCEPT ![n] = At("leader", None)]
    /\ UNCHANGED <<current_round, current_leader, leader_heartbeat, log, cursor,
                   handler, monitor>>

SetLeaderId(n) ==
    /\ operator[n].pc = "leader"
    /\ current_leader' = [current_leader EXCEPT ![n] = n]
    /\ operator' = [operator EXCEPT ![n] = Idle]
    /\ UNCHANGED <<state, current_round, leader_heartbeat, log, cursor, handler,
                   monitor, overrides>>

-----------------------------------------------------------------------------
(* The steps that continue a call already in progress. *)
Continue(n) ==
    \/ CheckCandidate(n) \/ BecomeFollower(n) \/ RecordLeader(n)
    \/ TrackLeader(n) \/ RefreshTracker(n)
    \/ ResetState(n) \/ ResetLeader(n) \/ ResetTracker(n) \/ NextRound(n)
    \/ MonitorPublish(n) \/ AnnounceCandidacy(n) \/ SetLeaderId(n)

Next ==
    \E n \in Node :
        \/ \E m \in Node \ {n} : Receive(n, m)
        \/ Lapse(n)
        \/ CheckLeaderFailure(n)
        \/ SendHeartbeatIfLeader(n)
        \/ StartElection(n)
        \/ SetAsLeader(n)
        \/ Continue(n)

Spec == Init /\ [][Next]_vars

(* A call that has begun runs on, elections are started, messages arrive, and
   the application polls check_leader_failure, which may have to wait for the
   other calls of its node; trackers run out of time when nobody refreshes
   them. *)
FairSpec ==
    /\ Spec
    /\ \A n \in Node :
          /\ WF_vars(Continue(n))
          /\ WF_vars(StartElection(n))
          /\ WF_vars(\E m \in Node \ {n} : Receive(n, m))
          /\ SF_vars(CheckLeaderFailure(n))
          /\ WF_vars(Lapse(n))

-----------------------------------------------------------------------------
(***************************************************************************)
(* A node follows only itself (after an override) or a node with a higher  *)
(* id, at every point of every interleaving, so following has no cycles:   *)
(* no two nodes ever follow each other.                                    *)
(***************************************************************************)
FollowingClimbs ==
    \A n \in Node : current_leader[n] \in {None, n} \/ current_leader[n] > n

(***************************************************************************)
(* Whoever a node follows has announced itself on the bus, and the node    *)
(* has read that announcement.                                             *)
(***************************************************************************)
FollowedAnnounced ==
    \A n, m \in Node : current_leader[n] = m /\ m # n =>
        \E i \in 1..cursor[n][m] :
            i \in DOMAIN log[m] /\ log[m][i].type = "announce"

(***************************************************************************)
(* Between calls the fields agree: a candidate has no leader and no        *)
(* tracker, a leader names itself, and a follower names the leader it      *)
(* watches.  It needs calls on one manager that do not overlap.            *)
(***************************************************************************)
FieldsAgree ==
    \A n \in Node : Active(n) = 0 =>
        /\ state[n] = "Candidate" =>
              current_leader[n] = None /\ leader_heartbeat[n] = None
        /\ state[n] = "Leader" => current_leader[n] = n
        /\ state[n] = "Follower" =>
              /\ leader_heartbeat[n] # None
              /\ leader_heartbeat[n].leader_id = current_leader[n]

(* With one call at a time on a manager, a node follows only itself or a node
   with a higher id, so that no two nodes ever follow each other, and between
   calls its state, its leader and the leader it watches agree
   (LeaderElectionManager). *)
FollowersClimb == FollowingClimbs /\ FieldsAgree

(***************************************************************************)
(* "Automatic re-election triggered on leader failure": a follower that    *)
(* hears no heartbeat becomes a candidate again, until the bound on rounds *)
(* is reached; every leader falls silent at the bound on messages.         *)
(***************************************************************************)
FailureDetected ==
    \A n \in Node :
        (state[n] = "Follower" /\ current_round[n] < MaxRound) ~>
            (state[n] # "Follower")

(***************************************************************************)
(* "Convergence: Node with highest score becomes leader".                  *)
(***************************************************************************)
ElectionConverges == <>(\E n \in Node : state[n] = "Leader")

(* The election uses the bus only as CellBusAbstract promises. *)
Bus == INSTANCE CellBusAbstract
         WITH MaxSeq <- MaxLog + MaxRound + 1,
              published <- [n \in Node |-> Len(log[n])]

(* Every step publishes the next message of one node, delivers one a cursor has
   not passed, or leaves the bus alone, with however many calls in progress. *)
StepsAreAllowed == Bus!Next \/ UNCHANGED Bus!vars

=============================================================================
