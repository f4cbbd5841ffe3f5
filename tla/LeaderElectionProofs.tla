------------------------ MODULE LeaderElectionProofs ------------------------
(***************************************************************************)
(* The election for any set of nodes (cell/leader_election.rs): whom a     *)
(* node follows, however many calls overlap on its manager, and that its   *)
(* fields agree between calls that do not overlap.                         *)
(***************************************************************************)
EXTENDS LeaderElection, FiniteSetTheorems, TLAPS

Message == [type : {"announce", "heartbeat"}, round : Nat]

(* A call about to announce a round carries one. *)
RoundsCarried ==
    /\ \A n \in Node : monitor[n].pc = "announce" => monitor[n].arg \in Nat
    /\ \A n \in Node : operator[n].pc = "announce" => operator[n].arg \in Nat

(* m has announced itself and n has read it. *)
Announced(n, m) ==
    \E i \in 1..cursor[n][m] : i \in DOMAIN log[m] /\ log[m][i].type = "announce"

(* What handle_leader_announce carries from one critical section to the next:
   another node that announced itself, and of higher rank once that is checked. *)
HandlerInv ==
    \A n \in Node :
        handler[n].pc \in {"candidate", "follow", "leader", "track"} =>
            /\ handler[n].arg \in Node \ {n}
            /\ Announced(n, handler[n].arg)
            /\ handler[n].pc # "candidate" => handler[n].arg > n

ElectionInv ==
    /\ TypeOK
    /\ RoundsCarried
    /\ HandlerInv
    /\ FollowingClimbs
    /\ FollowedAnnounced

-----------------------------------------------------------------------------
(* A call that moves on keeps its argument. *)
LEMMA MovesOn ==
    ASSUME NEW f \in [Node -> Task], NEW n \in Node, NEW pc \in Pcs
    PROVE  [f EXCEPT ![n].pc = pc] \in [Node -> Task]
<1>1. f[n] \in Task
  OBVIOUS
<1>2. [f[n] EXCEPT !.pc = pc] \in Task
  BY <1>1, Zenon DEF Task
<1>3. [f EXCEPT ![n] = [f[n] EXCEPT !.pc = pc]] \in [Node -> Task]
  BY <1>2, Zenon
<1>4. QED
  BY <1>3, Zenon

(* A tracker that is refreshed or runs out still watches its leader. *)
LEMMA TrackerKept ==
    ASSUME NEW n \in Node, NEW b \in BOOLEAN, TypeOK, leader_heartbeat[n] # None
    PROVE  /\ [leader_heartbeat EXCEPT ![n].recent = b]
                  \in [Node -> [leader_id : Node, recent : BOOLEAN] \cup {None}]
           /\ [leader_heartbeat[n] EXCEPT !.recent = b] # None
           /\ [leader_heartbeat[n] EXCEPT !.recent = b].leader_id
                 = leader_heartbeat[n].leader_id
<1> DEFINE Tracker == [leader_id : Node, recent : BOOLEAN]
<1>1. leader_heartbeat \in [Node -> Tracker \cup {None}] /\ leader_heartbeat[n] \in Tracker
  BY Zenon DEF TypeOK
<1>2. /\ [leader_heartbeat[n] EXCEPT !.recent = b] \in Tracker
      /\ [leader_heartbeat[n] EXCEPT !.recent = b].leader_id = leader_heartbeat[n].leader_id
  BY <1>1, Zenon
<1>3. [leader_heartbeat[n] EXCEPT !.recent = b] # None
  BY <1>2, ElectionAssumption, Zenon
<1> HIDE DEF Tracker
<1>4. [leader_heartbeat EXCEPT ![n].recent = b] \in [Node -> Tracker \cup {None}]
  BY <1>1, <1>2, Zenon
<1>5. QED
  BY <1>2, <1>3, <1>4, Zenon DEF Tracker

(* Types are kept by every step. *)
LEMMA TypesKept ==
    TypeOK /\ RoundsCarried /\ HandlerInv /\ [Next]_vars => TypeOK' /\ RoundsCarried'
<1> SUFFICES ASSUME TypeOK, RoundsCarried, HandlerInv, [Next]_vars
             PROVE  TypeOK' /\ RoundsCarried'
  OBVIOUS
<1> USE ElectionAssumption
<1>1. ASSUME NEW n \in Node, NEW m \in Node \ {n}, Receive(n, m)
      PROVE  TypeOK' /\ RoundsCarried'
  <2>0. PICK s \in (cursor[n][m] + 1)..Len(log[m]), pc \in {"idle", "candidate", "beat"},
            a \in {None, m} :
          /\ cursor' = [cursor EXCEPT ![n][m] = s]
          /\ handler' = [handler EXCEPT ![n] = [pc |-> pc, arg |-> a]]
    BY <1>1, Zenon DEF Receive, At, Idle
  <2>1. handler' \in [Node -> Task]
    <3>1. [pc |-> pc, arg |-> a] \in Task
      BY Zenon DEF Task, Pcs
    <3>2. QED
      BY <2>0, <3>1, Zenon DEF TypeOK
  <2>2. cursor' \in [Node -> [Node -> Nat]]
    <3>1. cursor[n] \in [Node -> Nat] /\ log[m] \in Seq([type : {"announce", "heartbeat"}, round : Nat])
      BY Zenon DEF TypeOK
    <3>2. s \in Nat
      BY <3>1
    <3>3. [cursor[n] EXCEPT ![m] = s] \in [Node -> Nat]
      BY <3>1, <3>2, Zenon
    <3>4. QED
      BY <2>0, <3>3, Zenon DEF TypeOK
  <2>3. QED
    BY <1>1, <2>1, <2>2, Zenon DEF Receive, TypeOK, RoundsCarried
<1>2. ASSUME NEW n \in Node, CheckCandidate(n) PROVE TypeOK' /\ RoundsCarried'
  <2>1. handler' \in [Node -> Task]
    BY <1>2, Zenon DEF CheckCandidate, TypeOK, Task, Pcs, At, Idle
  <2>2. QED
    BY <1>2, <2>1, Zenon DEF CheckCandidate, TypeOK, RoundsCarried
<1>3. ASSUME NEW n \in Node, BecomeFollower(n) PROVE TypeOK' /\ RoundsCarried'
  <2>1. handler' \in [Node -> Task]
    <3>1. "leader" \in Pcs /\ handler \in [Node -> Task]
      BY Zenon DEF Pcs, TypeOK
    <3>2. [handler EXCEPT ![n].pc = "leader"] \in [Node -> Task]
      BY <3>1, MovesOn, Zenon
    <3>3. QED
      BY <1>3, <3>2, Zenon DEF BecomeFollower
  <2>2. state' \in [Node -> {"Candidate", "Leader", "Follower"}]
    BY <1>3, Zenon DEF BecomeFollower, TypeOK
  <2>3. QED
    BY <1>3, <2>1, <2>2, Zenon DEF BecomeFollower, TypeOK, RoundsCarried
<1>4. ASSUME NEW n \in Node, RecordLeader(n) PROVE TypeOK' /\ RoundsCarried'
  <2>1. handler' \in [Node -> Task]
    <3>1. "track" \in Pcs /\ handler \in [Node -> Task]
      BY Zenon DEF Pcs, TypeOK
    <3>2. [handler EXCEPT ![n].pc = "track"] \in [Node -> Task]
      BY <3>1, MovesOn, Zenon
    <3>3. QED
      BY <1>4, <3>2, Zenon DEF RecordLeader
  <2>2. current_leader' \in [Node -> Node \cup {None}]
    BY <1>4, Zenon DEF RecordLeader, TypeOK, HandlerInv
  <2>3. QED
    BY <1>4, <2>1, <2>2, Zenon DEF RecordLeader, TypeOK, RoundsCarried
<1>5. ASSUME NEW n \in Node, TrackLeader(n) PROVE TypeOK' /\ RoundsCarried'
  <2>1. handler' \in [Node -> Task]
    BY <1>5, Zenon DEF TrackLeader, TypeOK, Task, Pcs, At, Idle
  <2>2. leader_heartbeat' \in [Node -> [leader_id : Node, recent : BOOLEAN] \cup {None}]
    BY <1>5, Zenon DEF TrackLeader, TypeOK, HandlerInv
  <2>3. QED
    BY <1>5, <2>1, <2>2, Zenon DEF TrackLeader, TypeOK, RoundsCarried
<1>6. ASSUME NEW n \in Node, RefreshTracker(n) PROVE TypeOK' /\ RoundsCarried'
  <2>1. handler' \in [Node -> Task]
    BY <1>6, Zenon DEF RefreshTracker, TypeOK, Task, Pcs, At, Idle
  <2>2. leader_heartbeat' \in [Node -> [leader_id : Node, recent : BOOLEAN] \cup {None}]
    BY <1>6, TrackerKept, Zenon DEF RefreshTracker, TypeOK
  <2>3. QED
    BY <1>6, <2>1, <2>2, Zenon DEF RefreshTracker, TypeOK, RoundsCarried
<1>7. ASSUME NEW n \in Node, Lapse(n) PROVE TypeOK' /\ RoundsCarried'
  <2>1. leader_heartbeat' \in [Node -> [leader_id : Node, recent : BOOLEAN] \cup {None}]
    BY <1>7, TrackerKept, Zenon DEF Lapse, TypeOK
  <2>2. QED
    BY <1>7, <2>1, Zenon DEF Lapse, TypeOK, RoundsCarried
<1>8. ASSUME NEW n \in Node, CheckLeaderFailure(n) PROVE TypeOK' /\ RoundsCarried'
  <2>1. monitor' \in [Node -> Task]
    BY <1>8, Zenon DEF CheckLeaderFailure, TypeOK, Task, Pcs, At, Idle
  <2>2. \A p \in Node : monitor'[p].pc = "announce" => monitor'[p].arg \in Nat
    BY <1>8, Zenon DEF CheckLeaderFailure, TypeOK, RoundsCarried, Task, Pcs, At, Idle
  <2>3. QED
    BY <1>8, <2>1, <2>2, Zenon DEF CheckLeaderFailure, TypeOK, RoundsCarried
<1>9. ASSUME NEW n \in Node, ResetState(n) PROVE TypeOK' /\ RoundsCarried'
  <2>1. monitor' \in [Node -> Task]
    <3>1. "leader" \in Pcs /\ monitor \in [Node -> Task]
      BY Zenon DEF Pcs, TypeOK
    <3>2. [monitor EXCEPT ![n].pc = "leader"] \in [Node -> Task]
      BY <3>1, MovesOn, Zenon
    <3>3. QED
      BY <1>9, <3>2, Zenon DEF ResetState
  <2>2. \A p \in Node : monitor'[p].pc = "announce" => monitor'[p].arg \in Nat
    BY <1>9 DEF ResetState, TypeOK, RoundsCarried, Task, Pcs, At, Idle
  <2>3. state' \in [Node -> {"Candidate", "Leader", "Follower"}]
    BY <1>9, Zenon DEF ResetState, TypeOK
  <2>4. QED
    BY <1>9, <2>1, <2>2, <2>3, Zenon DEF ResetState, TypeOK, RoundsCarried
<1>10. ASSUME NEW n \in Node, ResetLeader(n) PROVE TypeOK' /\ RoundsCarried'
  <2>1. monitor' \in [Node -> Task]
    <3>1. "tracker" \in Pcs /\ monitor \in [Node -> Task]
      BY Zenon DEF Pcs, TypeOK
    <3>2. [monitor EXCEPT ![n].pc = "tracker"] \in [Node -> Task]
      BY <3>1, MovesOn, Zenon
    <3>3. QED
      BY <1>10, <3>2, Zenon DEF ResetLeader
  <2>2. \A p \in Node : monitor'[p].pc = "announce" => monitor'[p].arg \in Nat
    BY <1>10 DEF ResetLeader, TypeOK, RoundsCarried, Task, Pcs, At, Idle
  <2>3. current_leader' \in [Node -> Node \cup {None}]
    BY <1>10, Zenon DEF ResetLeader, TypeOK
  <2>4. QED
    BY <1>10, <2>1, <2>2, <2>3, Zenon DEF ResetLeader, TypeOK, RoundsCarried
<1>11. ASSUME NEW n \in Node, ResetTracker(n) PROVE TypeOK' /\ RoundsCarried'
  <2>1. monitor' \in [Node -> Task]
    <3>1. "round" \in Pcs /\ monitor \in [Node -> Task]
      BY Zenon DEF Pcs, TypeOK
    <3>2. [monitor EXCEPT ![n].pc = "round"] \in [Node -> Task]
      BY <3>1, MovesOn, Zenon
    <3>3. QED
      BY <1>11, <3>2, Zenon DEF ResetTracker
  <2>2. \A p \in Node : monitor'[p].pc = "announce" => monitor'[p].arg \in Nat
    BY <1>11 DEF ResetTracker, TypeOK, RoundsCarried, Task, Pcs, At, Idle
  <2>3. leader_heartbeat' \in [Node -> [leader_id : Node, recent : BOOLEAN] \cup {None}]
    BY <1>11, Zenon DEF ResetTracker, TypeOK
  <2>4. QED
    BY <1>11, <2>1, <2>2, <2>3, Zenon DEF ResetTracker, TypeOK, RoundsCarried
<1>12. ASSUME NEW n \in Node, NextRound(n) PROVE TypeOK' /\ RoundsCarried'
  <2>1. monitor' \in [Node -> Task]
    BY <1>12 DEF NextRound, TypeOK, Task, Pcs, At, Idle
  <2>2. \A p \in Node : monitor'[p].pc = "announce" => monitor'[p].arg \in Nat
    BY <1>12 DEF NextRound, TypeOK, RoundsCarried, Task, Pcs, At, Idle
  <2>3. current_round' \in [Node -> Nat \ {0}]
    <3>1. current_round[n] + 1 \in Nat \ {0}
      BY DEF TypeOK
    <3>2. QED
      BY <1>12, <3>1, Zenon DEF NextRound, TypeOK
  <2>4. QED
    BY <1>12, <2>1, <2>2, <2>3, Zenon DEF NextRound, TypeOK, RoundsCarried
<1>13. ASSUME NEW n \in Node, SendHeartbeatIfLeader(n) PROVE TypeOK' /\ RoundsCarried'
  <2>1. monitor' \in [Node -> Task]
    BY <1>13, Zenon DEF SendHeartbeatIfLeader, TypeOK, Task, Pcs, At, Idle
  <2>2. \A p \in Node : monitor'[p].pc = "announce" => monitor'[p].arg \in Nat
    BY <1>13, Zenon DEF SendHeartbeatIfLeader, TypeOK, RoundsCarried, Task, Pcs, At, Idle
  <2>3. QED
    BY <1>13, <2>1, <2>2, Zenon DEF SendHeartbeatIfLeader, TypeOK, RoundsCarried
<1>14. ASSUME NEW n \in Node, MonitorPublish(n) PROVE TypeOK' /\ RoundsCarried'
  <2>1. monitor' \in [Node -> Task]
    BY <1>14, Zenon DEF MonitorPublish, TypeOK, Task, Pcs, At, Idle
  <2>2. \A p \in Node : monitor'[p].pc = "announce" => monitor'[p].arg \in Nat
    BY <1>14, Zenon DEF MonitorPublish, TypeOK, RoundsCarried, Task, Pcs, At, Idle
  <2>3. log' \in [Node -> Seq(Message)]
    <3>1. PICK x \in Message : log' = [log EXCEPT ![n] = Append(@, x)]
      <4>1. CASE monitor[n].pc = "announce"
        <5>1. Announce(monitor[n].arg) \in Message
          BY <4>1, Zenon DEF RoundsCarried, Announce, Message
        <5>2. QED
          BY <1>14, <4>1, <5>1, Zenon DEF MonitorPublish
      <4>2. CASE monitor[n].pc = "heartbeat"
        <5>1. Heartbeat \in Message
          BY Zenon DEF Heartbeat, Message
        <5>2. QED
          BY <1>14, <4>2, <5>1, Zenon DEF MonitorPublish
      <4>3. QED
        BY <1>14, <4>1, <4>2, Zenon DEF MonitorPublish
    <3>2. log \in [Node -> Seq(Message)]
      BY Zenon DEF TypeOK, Message
    <3>3. QED
      BY <3>1, <3>2
  <2>4. QED
    BY <1>14, <2>1, <2>2, <2>3, Zenon DEF MonitorPublish, TypeOK, RoundsCarried, Message
<1>15. ASSUME NEW n \in Node, StartElection(n) PROVE TypeOK' /\ RoundsCarried'
  <2>1. operator' \in [Node -> Task]
    BY <1>15, Zenon DEF StartElection, TypeOK, Task, Pcs, At, Idle
  <2>2. \A p \in Node : operator'[p].pc = "announce" => operator'[p].arg \in Nat
    BY <1>15, Zenon DEF StartElection, TypeOK, RoundsCarried, Task, Pcs, At, Idle
  <2>3. QED
    BY <1>15, <2>1, <2>2, Zenon DEF StartElection, TypeOK, RoundsCarried
<1>16. ASSUME NEW n \in Node, AnnounceCandidacy(n) PROVE TypeOK' /\ RoundsCarried'
  <2>1. operator' \in [Node -> Task]
    BY <1>16, Zenon DEF AnnounceCandidacy, TypeOK, Task, Pcs, At, Idle
  <2>2. \A p \in Node : operator'[p].pc = "announce" => operator'[p].arg \in Nat
    BY <1>16, Zenon DEF AnnounceCandidacy, TypeOK, RoundsCarried, Task, Pcs, At, Idle
  <2>3. log' \in [Node -> Seq([type : {"announce", "heartbeat"}, round : Nat])]
    BY <1>16 DEF AnnounceCandidacy, TypeOK, RoundsCarried, Announce
  <2>4. QED
    BY <1>16, <2>1, <2>2, <2>3, Zenon DEF AnnounceCandidacy, TypeOK, RoundsCarried
<1>17. ASSUME NEW n \in Node, SetAsLeader(n) PROVE TypeOK' /\ RoundsCarried'
  <2>1. operator' \in [Node -> Task]
    BY <1>17, Zenon DEF SetAsLeader, TypeOK, Task, Pcs, At, Idle
  <2>2. \A p \in Node : operator'[p].pc = "announce" => operator'[p].arg \in Nat
    BY <1>17, Zenon DEF SetAsLeader, TypeOK, RoundsCarried, Task, Pcs, At, Idle
  <2>3. state' \in [Node -> {"Candidate", "Leader", "Follower"}]
    BY <1>17, Zenon DEF SetAsLeader, TypeOK
  <2>4. QED
    <3>0. overrides' \in 0..MaxOverrides
      BY <1>17 DEF SetAsLeader, TypeOK
    <3>1. TypeOK'
      BY <1>17, <2>1, <2>3, <3>0, Zenon DEF SetAsLeader, TypeOK
    <3>2. RoundsCarried'
      BY <1>17, <2>2, Zenon DEF SetAsLeader, RoundsCarried
    <3>3. QED
      BY <3>1, <3>2, Zenon
<1>18. ASSUME NEW n \in Node, SetLeaderId(n) PROVE TypeOK' /\ RoundsCarried'
  <2>1. operator' \in [Node -> Task]
    BY <1>18, Zenon DEF SetLeaderId, TypeOK, Task, Pcs, At, Idle
  <2>2. \A p \in Node : operator'[p].pc = "announce" => operator'[p].arg \in Nat
    BY <1>18, Zenon DEF SetLeaderId, TypeOK, RoundsCarried, Task, Pcs, At, Idle
  <2>3. current_leader' \in [Node -> Node \cup {None}]
    BY <1>18, Zenon DEF SetLeaderId, TypeOK
  <2>4. QED
    BY <1>18, <2>1, <2>2, <2>3, Zenon DEF SetLeaderId, TypeOK, RoundsCarried
<1>19. CASE UNCHANGED vars
  BY <1>19, Zenon DEF vars, TypeOK, RoundsCarried
<1>20. QED
  BY <1>1, <1>2, <1>3, <1>4, <1>5, <1>6, <1>7, <1>8, <1>9, <1>10, <1>11, <1>12, <1>13, <1>14, <1>15, <1>16, <1>17, <1>18, <1>19, Zenon DEF Next, Continue

-----------------------------------------------------------------------------
(* The bus only grows, as it does in CellBusAbstract: what was published stays
   published, what was read stays read. *)
LEMMA BusGrows ==
    ASSUME TypeOK, TypeOK', RoundsCarried, Next
    PROVE  /\ \/ log' = log
              \/ \E p \in Node, x \in Message : log' = [log EXCEPT ![p] = Append(@, x)]
           /\ \/ cursor' = cursor
              \/ \E p, q \in Node : \E s \in (cursor[p][q] + 1)..Len(log[q]) :
                    cursor' = [cursor EXCEPT ![p][q] = s]
<1>1. ASSUME NEW n \in Node, MonitorPublish(n)
      PROVE  /\ \E x \in Message : log' = [log EXCEPT ![n] = Append(@, x)]
             /\ cursor' = cursor
  <2>1. monitor[n].pc = "announce" => Announce(monitor[n].arg) \in Message
    BY Zenon DEF RoundsCarried, Announce, Message
  <2>2. Heartbeat \in Message
    BY Zenon DEF Heartbeat, Message
  <2>3. QED
    BY <1>1, <2>1, <2>2, Zenon DEF MonitorPublish
<1>2. ASSUME NEW n \in Node, AnnounceCandidacy(n)
      PROVE  /\ \E x \in Message : log' = [log EXCEPT ![n] = Append(@, x)]
             /\ cursor' = cursor
  <2>1. Announce(operator[n].arg) \in Message
    BY <1>2, Zenon DEF AnnounceCandidacy, RoundsCarried, Announce, Message
  <2>2. QED
    BY <1>2, <2>1, Zenon DEF AnnounceCandidacy
<1>3. ASSUME NEW n \in Node, NEW m \in Node \ {n}, Receive(n, m)
      PROVE  /\ log' = log
             /\ \E s \in (cursor[n][m] + 1)..Len(log[m]) :
                   cursor' = [cursor EXCEPT ![n][m] = s]
  BY <1>3, Zenon DEF Receive
<1>4. ASSUME NEW n \in Node,
             \/ Lapse(n) \/ CheckLeaderFailure(n) \/ SendHeartbeatIfLeader(n)
             \/ StartElection(n) \/ SetAsLeader(n)
             \/ CheckCandidate(n) \/ BecomeFollower(n) \/ RecordLeader(n)
             \/ TrackLeader(n) \/ RefreshTracker(n)
             \/ ResetState(n) \/ ResetLeader(n) \/ ResetTracker(n) \/ NextRound(n)
             \/ SetLeaderId(n)
      PROVE  log' = log /\ cursor' = cursor
  BY <1>4, Zenon DEF Lapse, CheckLeaderFailure, SendHeartbeatIfLeader, StartElection,
        SetAsLeader, CheckCandidate, BecomeFollower, RecordLeader, TrackLeader,
        RefreshTracker, ResetState, ResetLeader, ResetTracker, NextRound, SetLeaderId
<1>5. QED
  BY <1>1, <1>2, <1>3, <1>4, Zenon DEF Next, Continue

(* So an announcement that was read stays one that was read. *)
LEMMA AnnouncedStays ==
    ASSUME TypeOK, TypeOK', RoundsCarried, Next,
           NEW n \in Node, NEW m \in Node, Announced(n, m)
    PROVE  Announced(n, m)'
<1>1. PICK i \in 1..cursor[n][m] : i \in DOMAIN log[m] /\ log[m][i].type = "announce"
  BY Zenon DEF Announced
<1>2. /\ cursor[n][m] \in Nat /\ cursor'[n][m] \in Nat
      /\ log[m] \in Seq(Message) /\ log'[m] \in Seq(Message)
  BY Zenon DEF TypeOK, Message
<1>3. i \in DOMAIN log'[m] /\ log'[m][i] = log[m][i]
  <2>1. CASE log' = log
    BY <1>1, <2>1, Zenon
  <2>2. ASSUME NEW p \in Node, NEW x \in Message, log' = [log EXCEPT ![p] = Append(@, x)]
        PROVE  i \in DOMAIN log'[m] /\ log'[m][i] = log[m][i]
    <3>1. log'[m] = log[m] \/ log'[m] = Append(log[m], x)
      BY <2>2, Zenon DEF TypeOK
    <3>2. QED
      BY <1>1, <1>2, <3>1
  <2>3. QED
    BY <2>1, <2>2, BusGrows, Zenon
<1>4. cursor[n][m] <= cursor'[n][m]
  <2>1. CASE cursor' = cursor
    BY <1>2, <2>1
  <2>2. ASSUME NEW p \in Node, NEW q \in Node, NEW s \in (cursor[p][q] + 1)..Len(log[q]),
               cursor' = [cursor EXCEPT ![p][q] = s]
        PROVE  cursor[n][m] <= cursor'[n][m]
    <3>1. cursor[p][q] \in Nat /\ cursor \in [Node -> [Node -> Nat]]
      BY Zenon DEF TypeOK
    <3>2. cursor'[n][m] = IF p = n /\ q = m THEN s ELSE cursor[n][m]
      BY <2>2, <3>1, Zenon
    <3>3. Len(log[q]) \in Nat
      BY DEF TypeOK
    <3>4. s \in Nat /\ cursor[p][q] < s
      <4>1. \A a, b \in Nat : \A x \in (a + 1)..b : x \in Nat /\ a < x
        OBVIOUS
      <4>2. QED
        BY <3>1, <3>3, <4>1, Zenon
    <3>5. CASE p = n /\ q = m
      BY <3>2, <3>4, <3>5, <1>2
    <3>6. CASE ~(p = n /\ q = m)
      <4>1. cursor'[n][m] = cursor[n][m]
        BY <3>2, <3>6, Zenon
      <4>2. QED
        BY <4>1, <1>2
    <3>7. QED
      BY <3>5, <3>6, Zenon
  <2>3. QED
    BY <2>1, <2>2, BusGrows, Zenon
<1>5. i \in 1..cursor'[n][m]
  BY <1>1, <1>2, <1>4
<1>6. QED
  BY <1>1, <1>3, <1>5, Zenon DEF Announced

-----------------------------------------------------------------------------
(* The announcement at hand is taken from one critical section to the next. *)
LEMMA HandlerInvKept ==
    ElectionInv /\ TypeOK' /\ Next => HandlerInv'
<1> SUFFICES ASSUME ElectionInv, TypeOK', Next PROVE HandlerInv'
  OBVIOUS
<1>0. TypeOK /\ RoundsCarried /\ HandlerInv
  BY Zenon DEF ElectionInv
<1>1. \A n, m \in Node : Announced(n, m) => Announced(n, m)'
  BY <1>0, AnnouncedStays, Zenon
<1>2. ASSUME handler' = handler PROVE HandlerInv'
  BY <1>0, <1>1, <1>2, Zenon DEF HandlerInv
<1>3. ASSUME NEW n \in Node, NEW t \in Task, handler' = [handler EXCEPT ![n] = t],
             t.pc \in {"candidate", "follow", "leader", "track"} =>
                /\ t.arg \in Node \ {n}
                /\ Announced(n, t.arg)'
                /\ t.pc # "candidate" => t.arg > n
      PROVE  HandlerInv'
  <2>1. handler'[n] = t /\ \A p \in Node \ {n} : handler'[p] = handler[p]
    BY <1>0, <1>3, Zenon DEF TypeOK
  <2>2. QED
    BY <1>0, <1>1, <1>3, <2>1, Zenon DEF HandlerInv
<1>4. ASSUME NEW n \in Node, NEW m \in Node \ {n}, Receive(n, m) PROVE HandlerInv'
  <2>1. PICK s \in (cursor[n][m] + 1)..Len(log[m]), t \in {Idle, At("candidate", m), At("beat", m)} :
          /\ cursor' = [cursor EXCEPT ![n][m] = s]
          /\ handler' = [handler EXCEPT ![n] = t]
          /\ t = At("candidate", m) => log[m][s].type = "announce"
          /\ log' = log
    BY <1>4, Zenon DEF Receive, At, Idle
  <2>2. t \in Task
    BY ElectionAssumption DEF Task, Pcs, At, Idle
  <2>3. t.pc \in {"candidate", "follow", "leader", "track"} => t = At("candidate", m)
    BY DEF At, Idle
  <2>4. ASSUME t = At("candidate", m)
        PROVE  t.pc = "candidate" /\ t.arg = m /\ Announced(n, m)'
    <3>1. log[m] \in Seq(Message) /\ cursor[n][m] \in Nat
      BY <1>0 DEF TypeOK, Message
    <3>2. s \in Nat /\ s > 0 /\ s \in DOMAIN log[m]
      BY <3>1
    <3>3. cursor'[n][m] = s
      BY <1>0, <2>1 DEF TypeOK
    <3>4. log[m][s].type = "announce" /\ log' = log
      BY <2>1, <2>4, Zenon
    <3>5. Announced(n, m)'
      BY <3>2, <3>3, <3>4 DEF Announced
    <3>6. QED
      BY <2>4, <3>5, Zenon DEF At
  <2>5. QED
    BY <1>3, <2>1, <2>2, <2>3, <2>4, Zenon
<1>5. ASSUME NEW n \in Node, CheckCandidate(n) PROVE HandlerInv'
  <2>1. PICK m \in Node \ {n} : handler[n].arg = m /\ Announced(n, m)
    BY <1>0, <1>5, Zenon DEF CheckCandidate, HandlerInv
  <2>2. PICK t \in {Idle, At("follow", m)} :
          /\ handler' = [handler EXCEPT ![n] = t]
          /\ t # Idle => m > n
    BY <1>5, <2>1, Zenon DEF CheckCandidate, ShouldFollow
  <2>3. t \in Task
    BY <2>1, ElectionAssumption DEF Task, Pcs, At, Idle
  <2>4. t.pc \in {"candidate", "follow", "leader", "track"} => t.arg = m /\ t # Idle
    BY DEF At, Idle
  <2>5. Announced(n, m)'
    BY <1>1, <2>1, Zenon
  <2>6. QED
    BY <1>3, <2>1, <2>2, <2>3, <2>4, <2>5, Zenon
<1>6. ASSUME NEW n \in Node, BecomeFollower(n) \/ RecordLeader(n) PROVE HandlerInv'
  <2>1. PICK m \in Node \ {n} : handler[n].arg = m /\ Announced(n, m) /\ m > n
    BY <1>0, <1>6, Zenon DEF BecomeFollower, RecordLeader, HandlerInv
  <2>2. PICK pc \in {"leader", "track"} : handler' = [handler EXCEPT ![n].pc = pc]
    BY <1>6, Zenon DEF BecomeFollower, RecordLeader
  <2> DEFINE t == [handler[n] EXCEPT !.pc = pc]
  <2>3. t \in Task /\ t.arg = m
    <3>1. handler[n] \in Task
      BY <1>0, Zenon DEF TypeOK
    <3>2. QED
      BY <2>1, <3>1, Zenon DEF Task, Pcs
  <2>4. handler' = [handler EXCEPT ![n] = t]
    BY <2>2, Zenon
  <2>5. PICK u \in Task : u.arg = m /\ handler' = [handler EXCEPT ![n] = u]
    BY <2>3, <2>4, Zenon
  <2>6. Announced(n, m)'
    BY <1>1, <2>1, Zenon
  <2>7. QED
    BY <1>3, <2>1, <2>5, <2>6, Zenon
<1>7. ASSUME NEW n \in Node, TrackLeader(n) \/ RefreshTracker(n) PROVE HandlerInv'
  <2>1. Idle \in Task /\ Idle.pc = "idle"
    BY Zenon DEF Idle, Task, Pcs
  <2>2. handler' = [handler EXCEPT ![n] = Idle]
    BY <1>7, Zenon DEF TrackLeader, RefreshTracker
  <2>3. QED
    BY <1>3, <2>1, <2>2, Zenon
<1>8. ASSUME NEW n \in Node,
             \/ Lapse(n) \/ CheckLeaderFailure(n) \/ SendHeartbeatIfLeader(n)
             \/ StartElection(n) \/ SetAsLeader(n)
             \/ ResetState(n) \/ ResetLeader(n) \/ ResetTracker(n) \/ NextRound(n)
             \/ MonitorPublish(n) \/ AnnounceCandidacy(n) \/ SetLeaderId(n)
      PROVE  HandlerInv'
  <2>1. handler' = handler
    BY <1>8, Zenon DEF Lapse, CheckLeaderFailure, SendHeartbeatIfLeader, StartElection,
         SetAsLeader, ResetState, ResetLeader, ResetTracker, NextRound, MonitorPublish,
         AnnounceCandidacy, SetLeaderId
  <2>2. QED
    BY <1>2, <2>1, Zenon
<1>9. QED
  BY <1>4, <1>5, <1>6, <1>7, <1>8, Zenon DEF Next, Continue

(* Only an announcement that passed both checks, an override and a reset change
   the leader. *)
LEMMA LeadersKept ==
    ElectionInv /\ TypeOK' /\ Next => FollowingClimbs' /\ FollowedAnnounced'
<1> SUFFICES ASSUME ElectionInv, TypeOK', Next
             PROVE  FollowingClimbs' /\ FollowedAnnounced'
  OBVIOUS
<1>0. /\ TypeOK /\ RoundsCarried /\ HandlerInv
      /\ \A p \in Node : current_leader[p] \in {None, p} \/ current_leader[p] > p
      /\ \A p, q \in Node : current_leader[p] = q /\ q # p => Announced(p, q)
  BY Zenon DEF ElectionInv, FollowingClimbs, FollowedAnnounced, Announced
<1>1. \A n, m \in Node : Announced(n, m) => Announced(n, m)'
  BY <1>0, AnnouncedStays, Zenon
<1>2. SUFFICES
        /\ \A p \in Node : current_leader'[p] \in {None, p} \/ current_leader'[p] > p
        /\ \A p, q \in Node : current_leader'[p] = q /\ q # p => Announced(p, q)'
  BY Zenon DEF FollowingClimbs, FollowedAnnounced, Announced
<1>3. CASE current_leader' = current_leader
  BY <1>0, <1>1, <1>3, Zenon
<1>4. ASSUME NEW n \in Node, NEW m \in Node \cup {None},
             current_leader' = [current_leader EXCEPT ![n] = m],
             m \in {None, n} \/ (m > n /\ Announced(n, m))
      PROVE  /\ \A p \in Node : current_leader'[p] \in {None, p} \/ current_leader'[p] > p
             /\ \A p, q \in Node : current_leader'[p] = q /\ q # p => Announced(p, q)'
  <2>1. \A p \in Node : current_leader'[p] = IF p = n THEN m ELSE current_leader[p]
    BY <1>0, <1>4, Zenon DEF TypeOK
  <2>2. QED
    BY <1>0, <1>1, <1>4, <2>1, ElectionAssumption
<1>5. ASSUME NEW n \in Node, RecordLeader(n)
      PROVE  \E m \in Node : /\ m > n /\ Announced(n, m)
                             /\ current_leader' = [current_leader EXCEPT ![n] = m]
  BY <1>0, <1>5, Zenon DEF RecordLeader, HandlerInv
<1>6. ASSUME NEW n \in Node, ResetLeader(n) \/ SetLeaderId(n)
      PROVE  \E m \in {None, n} : current_leader' = [current_leader EXCEPT ![n] = m]
  BY <1>6, Zenon DEF ResetLeader, SetLeaderId
<1>7. ASSUME NEW n \in Node,
             \/ \E m \in Node \ {n} : Receive(n, m)
             \/ Lapse(n) \/ CheckLeaderFailure(n) \/ SendHeartbeatIfLeader(n)
             \/ StartElection(n) \/ SetAsLeader(n)
             \/ CheckCandidate(n) \/ BecomeFollower(n) \/ TrackLeader(n) \/ RefreshTracker(n)
             \/ ResetState(n) \/ ResetTracker(n) \/ NextRound(n)
             \/ MonitorPublish(n) \/ AnnounceCandidacy(n)
      PROVE  current_leader' = current_leader
  BY <1>7, Zenon DEF Receive, Lapse, CheckLeaderFailure, SendHeartbeatIfLeader, StartElection,
       SetAsLeader, CheckCandidate, BecomeFollower, TrackLeader, RefreshTracker,
       ResetState, ResetTracker, NextRound, MonitorPublish, AnnounceCandidacy
<1>8. QED
  BY <1>3, <1>4, <1>5, <1>6, <1>7 DEF Next, Continue

(* The invariant of the election holds throughout. *)
LEMMA ElectionInvariant ==
    Spec => []ElectionInv
<1>1. Init => ElectionInv
  <2> SUFFICES ASSUME Init PROVE ElectionInv
    OBVIOUS
  <2>1. Idle \in Task /\ Idle.pc = "idle"
    BY Zenon DEF Idle, Task, Pcs
  <2>2. TypeOK
    BY <2>1, ElectionAssumption DEF Init, TypeOK
  <2>3. RoundsCarried /\ HandlerInv
    BY <2>1, Zenon DEF Init, RoundsCarried, HandlerInv
  <2>4. FollowingClimbs /\ FollowedAnnounced
    BY ElectionAssumption, Zenon DEF Init, FollowingClimbs, FollowedAnnounced
  <2>5. QED
    BY <2>2, <2>3, <2>4, Zenon DEF ElectionInv
<1>2. ElectionInv /\ [Next]_vars => ElectionInv'
  <2> SUFFICES ASSUME ElectionInv, [Next]_vars PROVE ElectionInv'
    OBVIOUS
  <2>1. TypeOK' /\ RoundsCarried'
    BY TypesKept, Zenon DEF ElectionInv
  <2>2. CASE Next
    BY <2>1, <2>2, HandlerInvKept, LeadersKept, Zenon DEF ElectionInv
  <2>3. CASE UNCHANGED vars
    BY <2>1, <2>3 DEF ElectionInv, vars, HandlerInv, FollowingClimbs, FollowedAnnounced,
         Announced
  <2>4. QED
    BY <2>2, <2>3, Zenon
<1>3. QED
  BY <1>1, <1>2, PTL DEF Spec

(* handle_leader_announce and set_as_leader: a node follows itself or a node of
   higher rank, however many calls overlap on its manager. *)
THEOREM FollowingClimbsHolds ==
    Spec => []FollowingClimbs
<1>1. ElectionInv => FollowingClimbs
  BY Zenon DEF ElectionInv
<1>2. QED
  BY <1>1, ElectionInvariant, PTL

(* handle_leader_announce: whoever a node follows has announced itself and the
   node has read it, however many calls overlap on its manager. *)
THEOREM FollowedAnnouncedHolds ==
    Spec => []FollowedAnnounced
<1>1. ElectionInv => FollowedAnnounced
  BY Zenon DEF ElectionInv
<1>2. QED
  BY <1>1, ElectionInvariant, PTL

-----------------------------------------------------------------------------
(* One call at a time *)

(* The fields agree, as FieldsAgree asks of a node between calls. *)
AgreeAt(n) ==
    /\ state[n] = "Candidate" => current_leader[n] = None /\ leader_heartbeat[n] = None
    /\ state[n] = "Leader" => current_leader[n] = n
    /\ state[n] = "Follower" =>
          /\ leader_heartbeat[n] # None
          /\ leader_heartbeat[n].leader_id = current_leader[n]

(* At most one call is in progress; the fields agree except where it stands
   between two critical sections that change them, and there the first of
   them has been changed. *)
SerialAt(n) ==
    /\ handler[n] # Idle => monitor[n] = Idle /\ operator[n] = Idle
    /\ monitor[n] # Idle => operator[n] = Idle
    /\ \/ AgreeAt(n)
       \/ handler[n].pc \in {"leader", "track"}
       \/ monitor[n].pc \in {"leader", "tracker"}
       \/ operator[n].pc = "leader"
    /\ handler[n].pc = "follow" => state[n] = "Candidate"
    /\ handler[n].pc = "leader" => state[n] = "Follower"
    /\ handler[n].pc = "track" =>
          state[n] = "Follower" /\ current_leader[n] = handler[n].arg
    /\ monitor[n].pc \in {"leader", "tracker"} => state[n] = "Candidate"
    /\ monitor[n].pc = "tracker" => current_leader[n] = None
    /\ operator[n].pc = "leader" => state[n] = "Leader"

SerialInv == \A n \in Node : SerialAt(n)

(* A manager is free when none of its three calls is in progress. *)
LEMMA FreeIsIdle ==
    ASSUME NEW n
    PROVE  Active(n) < 1 => handler[n] = Idle /\ monitor[n] = Idle /\ operator[n] = Idle
<1> DEFINE Calls == {"handler", "monitor", "operator"}
           S == {t \in Calls :
                   \/ t = "handler" /\ handler[n] # Idle
                   \/ t = "monitor" /\ monitor[n] # Idle
                   \/ t = "operator" /\ operator[n] # Idle}
<1>1. IsFiniteSet(Calls)
  <2>1. IsFiniteSet({"handler"}) /\ IsFiniteSet({"monitor"}) /\ IsFiniteSet({"operator"})
    BY FS_Singleton, Zenon
  <2>2. IsFiniteSet({"handler"} \cup {"monitor"})
    BY <2>1, FS_Union, Zenon
  <2>3. IsFiniteSet(({"handler"} \cup {"monitor"}) \cup {"operator"})
    BY <2>1, <2>2, FS_Union, Zenon
  <2>4. Calls = ({"handler"} \cup {"monitor"}) \cup {"operator"}
    OBVIOUS
  <2>5. QED
    BY <2>3, <2>4, Zenon
<1>2. IsFiniteSet(S)
  BY <1>1, FS_Subset, Zenon
<1>3. Cardinality(S) \in Nat /\ (Cardinality(S) = 0 <=> S = {})
  BY <1>2, FS_EmptySet, FS_CardinalityType, Zenon
<1>4. Active(n) = Cardinality(S)
  BY Zenon DEF Active
<1>5. Active(n) < 1 => S = {}
  BY <1>3, <1>4
<1>6. QED
  BY <1>5, Zenon

(* Every step of a call keeps the fields of its own node in order, *)
LEMMA SerialStep ==
    ASSUME MaxTasks = 1, TypeOK, HandlerInv, NEW n \in Node, SerialAt(n),
           \/ \E m \in Node \ {n} : Receive(n, m)
           \/ Lapse(n) \/ CheckLeaderFailure(n) \/ SendHeartbeatIfLeader(n)
           \/ StartElection(n) \/ SetAsLeader(n) \/ Continue(n)
    PROVE  SerialAt(n)'
<1> USE DEF SerialAt, AgreeAt
<1>0. Idle.pc = "idle"
  BY Zenon DEF Idle
<1>1. ASSUME NEW m \in Node \ {n}, Receive(n, m) PROVE SerialAt(n)'
  <2>1. handler[n] = Idle /\ monitor[n] = Idle /\ operator[n] = Idle
    BY <1>1, FreeIsIdle, Zenon DEF Receive
  <2>2. PICK t \in {Idle, At("candidate", m), At("beat", m)} :
          handler' = [handler EXCEPT ![n] = t]
    BY <1>1, Zenon DEF Receive
  <2>3. handler'[n] = t /\ t.pc \in {"idle", "candidate", "beat"}
    BY <2>2 DEF TypeOK, At, Idle
  <2>4. QED
    BY <1>0, <1>1, <2>1, <2>3, Zenon DEF Receive
<1>2. ASSUME CheckLeaderFailure(n) PROVE SerialAt(n)'
  <2>1. handler[n] = Idle /\ monitor[n] = Idle /\ operator[n] = Idle
    BY <1>2, FreeIsIdle, Zenon DEF CheckLeaderFailure
  <2>2. monitor'[n].pc = "reset"
    BY <1>2, Zenon DEF CheckLeaderFailure, TypeOK, At
  <2>3. QED
    BY <1>0, <1>2, <2>1, <2>2, Zenon DEF CheckLeaderFailure, TypeOK
<1>3. ASSUME SendHeartbeatIfLeader(n) PROVE SerialAt(n)'
  <2>1. handler[n] = Idle /\ monitor[n] = Idle /\ operator[n] = Idle
    BY <1>3, FreeIsIdle, Zenon DEF SendHeartbeatIfLeader
  <2>2. monitor'[n].pc = "heartbeat"
    BY <1>3, Zenon DEF SendHeartbeatIfLeader, TypeOK, At
  <2>3. QED
    BY <1>0, <1>3, <2>1, <2>2, Zenon DEF SendHeartbeatIfLeader, TypeOK
<1>4. ASSUME StartElection(n) PROVE SerialAt(n)'
  <2>1. handler[n] = Idle /\ monitor[n] = Idle /\ operator[n] = Idle
    BY <1>4, FreeIsIdle, Zenon DEF StartElection
  <2>2. operator'[n].pc = "announce"
    BY <1>4, Zenon DEF StartElection, TypeOK, At
  <2>3. QED
    BY <1>0, <1>4, <2>1, <2>2, Zenon DEF StartElection, TypeOK
<1>5. ASSUME SetAsLeader(n) PROVE SerialAt(n)'
  <2>1. handler[n] = Idle /\ monitor[n] = Idle /\ operator[n] = Idle
    BY <1>5, FreeIsIdle, Zenon DEF SetAsLeader
  <2>2. operator'[n].pc = "leader"
    BY <1>5, Zenon DEF SetAsLeader, TypeOK, At
  <2>3. QED
    BY <1>0, <1>5, <2>1, <2>2, Zenon DEF SetAsLeader, TypeOK
<1>6. ASSUME CheckCandidate(n) PROVE SerialAt(n)'
  BY <1>0, <1>6, Zenon DEF CheckCandidate, TypeOK, At
<1>7. ASSUME BecomeFollower(n) PROVE SerialAt(n)'
  BY <1>0, <1>7 DEF BecomeFollower, TypeOK, At
<1>8. ASSUME RecordLeader(n) PROVE SerialAt(n)'
  BY <1>0, <1>8 DEF RecordLeader, TypeOK, At
<1>9. ASSUME TrackLeader(n) PROVE SerialAt(n)'
  <2>1. handler[n].arg \in Node /\ handler[n].pc = "track" /\ handler'[n] = Idle
    BY <1>9, Zenon DEF TrackLeader, HandlerInv, TypeOK
  <2>2. [leader_id |-> handler[n].arg, recent |-> TRUE] # None
    <3>1. [leader_id |-> handler[n].arg, recent |-> TRUE]
            \in [leader_id : Node, recent : BOOLEAN]
      BY <2>1, Zenon
    <3>2. QED
      BY <3>1, ElectionAssumption, Zenon
  <2>3. leader_heartbeat'[n] = [leader_id |-> handler[n].arg, recent |-> TRUE]
    BY <1>9, Zenon DEF TrackLeader, TypeOK
  <2>4. QED
    BY <1>0, <1>9, <2>1, <2>2, <2>3 DEF TrackLeader
<1>10. ASSUME RefreshTracker(n) PROVE SerialAt(n)'
  <2>1. \/ leader_heartbeat'[n] = leader_heartbeat[n]
        \/ /\ leader_heartbeat[n] # None /\ leader_heartbeat'[n] # None
           /\ leader_heartbeat'[n].leader_id = leader_heartbeat[n].leader_id
    BY <1>10, TrackerKept, Zenon DEF RefreshTracker, TypeOK
  <2>2. handler'[n] = Idle /\ handler[n].pc = "beat"
    BY <1>10, Zenon DEF RefreshTracker, TypeOK
  <2>3. QED
    BY <1>0, <1>10, <2>1, <2>2, Zenon DEF RefreshTracker
<1>11. ASSUME Lapse(n) PROVE SerialAt(n)'
  <2>1. /\ leader_heartbeat'[n] # None
        /\ leader_heartbeat'[n].leader_id = leader_heartbeat[n].leader_id
    BY <1>11, TrackerKept, Zenon DEF Lapse, TypeOK
  <2>2. leader_heartbeat[n] # None
    BY <1>11, Zenon DEF Lapse
  <2>3. QED
    BY <1>11, <2>1, <2>2, Zenon DEF Lapse
<1>12. ASSUME ResetState(n) PROVE SerialAt(n)'
  <2>1. handler[n] = Idle /\ monitor[n] # Idle /\ operator[n] = Idle
    BY <1>0, <1>12, Zenon DEF ResetState
  <2>2. monitor'[n].pc = "leader" /\ state'[n] = "Candidate"
    BY <1>12 DEF ResetState, TypeOK, Task
  <2>3. QED
    BY <1>0, <1>12, <2>1, <2>2, Zenon DEF ResetState
<1>13. ASSUME ResetLeader(n) PROVE SerialAt(n)'
  BY <1>0, <1>13 DEF ResetLeader, TypeOK, At
<1>14. ASSUME ResetTracker(n) PROVE SerialAt(n)'
  BY <1>0, <1>14, Zenon DEF ResetTracker, TypeOK, At
<1>15. ASSUME NextRound(n) PROVE SerialAt(n)'
  BY <1>0, <1>15, Zenon DEF NextRound, TypeOK, At
<1>16. ASSUME MonitorPublish(n) PROVE SerialAt(n)'
  BY <1>0, <1>16, Zenon DEF MonitorPublish, TypeOK, At
<1>17. ASSUME AnnounceCandidacy(n) PROVE SerialAt(n)'
  BY <1>0, <1>17, Zenon DEF AnnounceCandidacy, TypeOK, At
<1>18. ASSUME SetLeaderId(n) PROVE SerialAt(n)'
  BY <1>0, <1>18, Zenon DEF SetLeaderId, TypeOK, At
<1>19. QED
  BY <1>1, <1>2, <1>3, <1>4, <1>5, <1>6, <1>7, <1>8, <1>9, <1>10, <1>11, <1>12, <1>13, <1>14, <1>15, <1>16, <1>17, <1>18, Zenon DEF Continue

(* and leaves the other nodes alone. *)
LEMMA OthersUntouched ==
    ASSUME TypeOK, NEW n \in Node, NEW p \in Node, p # n, SerialAt(p),
           \/ \E m \in Node \ {n} : Receive(n, m)
           \/ Lapse(n) \/ CheckLeaderFailure(n) \/ SendHeartbeatIfLeader(n)
           \/ StartElection(n) \/ SetAsLeader(n) \/ Continue(n)
    PROVE  SerialAt(p)'
<1> DEFINE Same ==
             /\ state'[p] = state[p] /\ current_leader'[p] = current_leader[p]
             /\ leader_heartbeat'[p] = leader_heartbeat[p] /\ handler'[p] = handler[p]
             /\ monitor'[p] = monitor[p] /\ operator'[p] = operator[p]
<1> SUFFICES Same
  BY Zenon DEF SerialAt, AgreeAt
<1>1. ASSUME \E m \in Node \ {n} : Receive(n, m) PROVE Same
  BY <1>1, Zenon DEF TypeOK, Receive
<1>2. ASSUME CheckCandidate(n) \/ BecomeFollower(n) \/ RecordLeader(n) PROVE Same
  BY <1>2, Zenon DEF TypeOK, CheckCandidate, BecomeFollower, RecordLeader
<1>3. ASSUME TrackLeader(n) \/ RefreshTracker(n) \/ Lapse(n) PROVE Same
  BY <1>3, Zenon DEF TypeOK, TrackLeader, RefreshTracker, Lapse
<1>4. ASSUME CheckLeaderFailure(n) \/ SendHeartbeatIfLeader(n) \/ MonitorPublish(n) PROVE Same
  BY <1>4, Zenon DEF TypeOK, CheckLeaderFailure, SendHeartbeatIfLeader, MonitorPublish
<1>5. ASSUME ResetState(n) \/ ResetLeader(n) \/ ResetTracker(n) \/ NextRound(n) PROVE Same
  BY <1>5, Zenon DEF TypeOK, ResetState, ResetLeader, ResetTracker, NextRound
<1>6. ASSUME StartElection(n) \/ AnnounceCandidacy(n) \/ SetAsLeader(n) \/ SetLeaderId(n)
      PROVE  Same
  BY <1>6, Zenon DEF TypeOK, StartElection, AnnounceCandidacy, SetAsLeader, SetLeaderId
<1> HIDE DEF Same
<1>7. QED
  BY <1>1, <1>2, <1>3, <1>4, <1>5, <1>6, Zenon DEF Continue

(* With one call at a time on a manager its state, its leader and the leader it
   watches agree between calls (LeaderElectionManager's four mutexes). *)
THEOREM FieldsAgreeHolds ==
    ASSUME MaxTasks = 1
    PROVE  Spec => []FieldsAgree
<1>1. Init => SerialInv
  <2> SUFFICES ASSUME Init, NEW n \in Node PROVE SerialAt(n)
    BY Zenon DEF SerialInv
  <2>1. /\ state[n] = "Candidate" /\ current_leader[n] = None /\ leader_heartbeat[n] = None
        /\ handler[n] = Idle /\ monitor[n] = Idle /\ operator[n] = Idle
    BY Zenon DEF Init
  <2>2. Idle.pc = "idle"
    BY Zenon DEF Idle
  <2>3. QED
    BY <2>1, <2>2, Zenon DEF SerialAt, AgreeAt
<1>2. ElectionInv /\ SerialInv /\ [Next]_vars => SerialInv'
  <2> SUFFICES ASSUME ElectionInv, SerialInv, [Next]_vars, NEW p \in Node
               PROVE  SerialAt(p)'
    BY Zenon DEF SerialInv
  <2>1. TypeOK /\ HandlerInv /\ SerialAt(p)
    BY Zenon DEF ElectionInv, SerialInv
  <2>2. CASE Next
    <3>1. PICK n \in Node :
            \/ \E m \in Node \ {n} : Receive(n, m)
            \/ Lapse(n) \/ CheckLeaderFailure(n) \/ SendHeartbeatIfLeader(n)
            \/ StartElection(n) \/ SetAsLeader(n) \/ Continue(n)
      BY <2>2, Zenon DEF Next
    <3>2. QED
      BY <2>1, <3>1, SerialStep, OthersUntouched, Zenon
  <2>3. CASE UNCHANGED vars
    BY <2>1, <2>3, Zenon DEF vars, SerialAt, AgreeAt
  <2>4. QED
    BY <2>2, <2>3, Zenon
<1>3. SerialInv => FieldsAgree
  <2> SUFFICES ASSUME SerialInv, NEW n \in Node, Active(n) = 0 PROVE AgreeAt(n)
    BY Zenon DEF FieldsAgree, AgreeAt
  <2>1. handler[n] = Idle /\ monitor[n] = Idle /\ operator[n] = Idle
    BY FreeIsIdle
  <2>2. QED
    BY <2>1 DEF SerialInv, SerialAt, Idle
<1>4. QED
  BY <1>1, <1>2, <1>3, ElectionInvariant, PTL DEF Spec

(* With one call at a time on a manager, whom a node follows and whom it watches
   agree between calls, and following only ever climbs. *)
THEOREM FollowersClimbHolds ==
    ASSUME MaxTasks = 1
    PROVE  Spec => []FollowersClimb
<1>1. FollowingClimbs /\ FieldsAgree => FollowersClimb
  BY Zenon DEF FollowersClimb
<1>2. QED
  BY <1>1, FollowingClimbsHolds, FieldsAgreeHolds, PTL
-----------------------------------------------------------------------------
(* The election on the bus.  What a node publishes is bounded: calls that start
   with fewer than MaxLog messages published, at most one of each kind at a
   time, and one announcement for every round the node has gone on to. *)
One(b) == IF b THEN 1 ELSE 0

(* messages n's calls are about to publish *)
Due(n) == One(monitor[n].pc \in {"heartbeat", "announce"}) + One(operator[n].pc = "announce")

BudgetAt(n) ==
    /\ current_round[n] <= MaxRound
    /\ monitor[n].pc \in {"reset", "leader", "tracker", "round"} => current_round[n] < MaxRound
    /\ Len(log[n]) + Due(n) <= MaxLog + current_round[n]

BudgetInv == \A n \in Node : BudgetAt(n)

(* What one node does leaves the budget of the others alone. *)
LEMMA BudgetElsewhere ==
    ASSUME TypeOK, BudgetInv, NEW n \in Node, NEW k \in Node \ {n},
           \/ \E m \in Node \ {n} : Receive(n, m)
           \/ Lapse(n) \/ CheckLeaderFailure(n) \/ SendHeartbeatIfLeader(n)
           \/ StartElection(n) \/ SetAsLeader(n) \/ Continue(n)
    PROVE  BudgetAt(k)'
<1>1. /\ current_round'[k] = current_round[k] /\ log'[k] = log[k]
      /\ monitor'[k] = monitor[k] /\ operator'[k] = operator[k]
  BY Zenon DEF TypeOK, Receive, Lapse, CheckLeaderFailure, SendHeartbeatIfLeader, StartElection,
     SetAsLeader, Continue, CheckCandidate, BecomeFollower, RecordLeader, TrackLeader,
     RefreshTracker, ResetState, ResetLeader, ResetTracker, NextRound, MonitorPublish,
     AnnounceCandidacy, SetLeaderId
<1>2. QED
  BY <1>1, Zenon DEF BudgetInv, BudgetAt, Due

(* The budget of the node that acts, call by call. *)
LEMMA BudgetHere ==
    ASSUME TypeOK, BudgetInv, NEW n \in Node,
           \/ \E m \in Node \ {n} : Receive(n, m)
           \/ Lapse(n) \/ CheckLeaderFailure(n) \/ SendHeartbeatIfLeader(n)
           \/ StartElection(n) \/ SetAsLeader(n) \/ Continue(n)
    PROVE  BudgetAt(n)'
<1>0. /\ current_round[n] \in Nat \ {0} /\ MaxRound \in Nat /\ MaxLog \in Nat
      /\ log[n] \in Seq(Message) /\ Len(log[n]) \in Nat
      /\ current_round[n] <= MaxRound
      /\ Len(log[n]) + Due(n) <= MaxLog + current_round[n]
  <2>1. log[n] \in Seq(Message)
    BY Zenon DEF TypeOK, Message
  <2>2. Len(log[n]) \in Nat
    BY <2>1
  <2>3. QED
    BY <2>1, <2>2, ElectionAssumption, Zenon DEF TypeOK, BudgetInv, BudgetAt
<1> DEFINE Quiet == {"reset", "leader", "tracker", "round"}
<1>00. monitor[n].pc \in Quiet => current_round[n] < MaxRound
  BY Zenon DEF BudgetInv, BudgetAt
<1> HIDE DEF Quiet
<1>1. CASE /\ current_round'[n] = current_round[n] /\ log'[n] = log[n]
           /\ monitor'[n] = monitor[n] /\ operator'[n] = operator[n]
  BY <1>1, Zenon DEF BudgetInv, BudgetAt, Due
<1>2. CASE CheckLeaderFailure(n)
  <2>1. /\ current_round[n] < MaxRound /\ current_round' = current_round /\ log' = log
        /\ operator' = operator /\ monitor'[n].pc = "reset" /\ monitor[n].pc = "idle"
    <3>1. /\ current_round[n] < MaxRound /\ current_round' = current_round /\ log' = log
          /\ operator' = operator /\ monitor'[n] = At("reset", None) /\ monitor[n] = Idle
      BY <1>2, Zenon DEF CheckLeaderFailure, TypeOK
    <3>2. QED
      BY <3>1 DEF At, Idle
  <2>2. Due(n)' = Due(n)
    BY <2>1 DEF Due, One
  <2>3. QED
    BY <1>0, <2>1, <2>2, Zenon DEF BudgetAt
<1>3. CASE SendHeartbeatIfLeader(n)
  <2>1. /\ Len(log[n]) < MaxLog /\ current_round' = current_round /\ log' = log
        /\ operator' = operator /\ monitor'[n].pc = "heartbeat"
    BY <1>3, Zenon DEF SendHeartbeatIfLeader, TypeOK, At
  <2>2. Due(n)' \in 0..2
    BY DEF Due, One
  <2>3. Len(log[n]) + Due(n)' <= MaxLog + current_round[n]
    BY <1>0, <2>1, <2>2
  <2>4. QED
    BY <1>0, <2>1, <2>3, Zenon DEF BudgetAt
<1>4. CASE StartElection(n)
  <2>1. /\ Len(log[n]) < MaxLog /\ current_round' = current_round /\ log' = log
        /\ monitor' = monitor
    BY <1>4, Zenon DEF StartElection
  <2>2. Due(n)' \in 0..2
    BY DEF Due, One
  <2>3. Len(log[n]) + Due(n)' <= MaxLog + current_round[n]
    BY <1>0, <2>1, <2>2
  <2>4. QED
    BY <1>0, <1>00, <2>1, <2>3, Zenon DEF BudgetAt, Quiet
<1>5. CASE SetAsLeader(n) \/ SetLeaderId(n)
  <2>1. /\ current_round' = current_round /\ log' = log /\ monitor' = monitor
        /\ operator[n].pc # "announce" /\ operator'[n].pc # "announce"
    <3>1. /\ current_round' = current_round /\ log' = log /\ monitor' = monitor
          /\ operator[n] = Idle \/ operator[n].pc = "leader"
          /\ operator'[n] \in {At("leader", None), Idle}
      BY <1>5, Zenon DEF SetAsLeader, SetLeaderId, TypeOK
    <3>2. QED
      BY <3>1 DEF At, Idle
  <2>2. Due(n)' = Due(n)
    BY <2>1 DEF Due, One
  <2>3. QED
    BY <1>0, <1>00, <2>1, <2>2, Zenon DEF BudgetAt, Quiet
<1>6. CASE ResetState(n) \/ ResetLeader(n) \/ ResetTracker(n)
  <2>1. /\ current_round' = current_round /\ log' = log /\ operator' = operator
        /\ monitor[n].pc \in Quiet /\ monitor'[n].pc \in Quiet
    <3>1. monitor \in [Node -> Task] /\ monitor[n] \in Task
      BY Zenon DEF TypeOK
    <3>2. PICK pc \in Quiet : monitor' = [monitor EXCEPT ![n].pc = pc]
      BY <1>6, Zenon DEF ResetState, ResetLeader, ResetTracker, Quiet
    <3>3. monitor'[n] = [monitor[n] EXCEPT !.pc = pc]
      BY <3>1, <3>2, Zenon
    <3>4. monitor'[n].pc = pc
      BY <3>1, <3>3, Zenon DEF Task
    <3>5. QED
      BY <1>6, <3>4, Zenon DEF ResetState, ResetLeader, ResetTracker, Quiet
  <2>2. Due(n)' = Due(n)
    BY <2>1 DEF Due, One, Quiet
  <2>3. QED
    BY <1>0, <1>00, <2>1, <2>2, Zenon DEF BudgetAt
<1>7. CASE NextRound(n)
  <2>1. /\ current_round'[n] = current_round[n] + 1 /\ log' = log /\ operator' = operator
        /\ monitor[n].pc = "round" /\ monitor'[n].pc = "announce"
    BY <1>7, Zenon DEF NextRound, TypeOK, At
  <2>2. Due(n)' = Due(n) + 1 /\ Due(n) \in Nat
    BY <2>1 DEF Due, One
  <2>3. current_round[n] < MaxRound
    BY <1>00, <2>1, Zenon DEF Quiet
  <2>4. current_round'[n] <= MaxRound
    BY <1>0, <2>1, <2>3
  <2>5. Len(log[n]) + Due(n)' <= MaxLog + current_round'[n]
    BY <1>0, <2>1, <2>2
  <2>6. QED
    BY <2>1, <2>4, <2>5, Zenon DEF BudgetAt
<1>8. CASE MonitorPublish(n)
  <2>1. /\ current_round' = current_round /\ operator' = operator
        /\ monitor[n].pc \in {"heartbeat", "announce"} /\ monitor'[n].pc = "idle"
    BY <1>8, Zenon DEF MonitorPublish, TypeOK, Idle
  <2>2. \E msg : log'[n] = Append(log[n], msg)
    BY <1>8, Zenon DEF MonitorPublish, TypeOK
  <2>3. Len(log'[n]) = Len(log[n]) + 1
    BY <1>0, <2>2
  <2>4. Due(n) = Due(n)' + 1 /\ Due(n)' \in Nat
    BY <2>1 DEF Due, One
  <2>5. Len(log'[n]) + Due(n)' <= MaxLog + current_round[n]
    BY <1>0, <2>3, <2>4
  <2>6. QED
    BY <1>0, <2>1, <2>5, Zenon DEF BudgetAt
<1>9. CASE AnnounceCandidacy(n)
  <2>1. /\ current_round' = current_round /\ monitor' = monitor
        /\ operator[n].pc = "announce" /\ operator'[n].pc = "idle"
    BY <1>9, Zenon DEF AnnounceCandidacy, TypeOK, Idle
  <2>2. \E msg : log'[n] = Append(log[n], msg)
    BY <1>9, Zenon DEF AnnounceCandidacy, TypeOK
  <2>3. Len(log'[n]) = Len(log[n]) + 1
    BY <1>0, <2>2
  <2>4. Due(n) = Due(n)' + 1 /\ Due(n)' \in Nat
    BY <2>1 DEF Due, One
  <2>5. Len(log'[n]) + Due(n)' <= MaxLog + current_round[n]
    BY <1>0, <2>3, <2>4
  <2>6. QED
    BY <1>0, <1>00, <2>1, <2>5, Zenon DEF BudgetAt, Quiet
<1>10. CASE \/ \E m \in Node \ {n} : Receive(n, m)
            \/ Lapse(n) \/ CheckCandidate(n) \/ BecomeFollower(n) \/ RecordLeader(n)
            \/ TrackLeader(n) \/ RefreshTracker(n)
  BY <1>1, <1>10, Zenon DEF Receive, Lapse, CheckCandidate, BecomeFollower, RecordLeader,
     TrackLeader, RefreshTracker
<1>11. QED
  BY <1>2, <1>3, <1>4, <1>5, <1>6, <1>7, <1>8, <1>9, <1>10, Zenon DEF Continue

(* Every step keeps the log within its budget. *)
LEMMA BudgetKept ==
    ASSUME TypeOK, BudgetInv, [Next]_vars
    PROVE  BudgetInv'
<1>1. CASE UNCHANGED vars
  BY <1>1, Zenon DEF vars, BudgetInv, BudgetAt, Due
<1>2. CASE Next
  BY <1>2, BudgetHere, BudgetElsewhere, Zenon DEF Next, BudgetInv
<1>3. QED
  BY <1>1, <1>2

(* What the election does to the bus. *)
LEMMA StepOnBus ==
    ASSUME ElectionInv, BudgetInv, [Next]_vars
    PROVE  StepsAreAllowed
<1>0. ASSUME NEW k \in Node PROVE Len(log[k]) \in Nat
  <2>1. log[k] \in Seq(Message)
    BY Zenon DEF ElectionInv, TypeOK, Message
  <2>2. QED
    BY <2>1
<1>1. CASE UNCHANGED <<log, cursor>>
  BY <1>1, Zenon DEF StepsAreAllowed, Bus!vars
<1>2. ASSUME NEW n \in Node, NEW m \in Node \ {n}, Receive(n, m)
      PROVE  StepsAreAllowed
  <2>1. PICK s \in (cursor[n][m] + 1)..Len(log[m]) : cursor' = [cursor EXCEPT ![n][m] = s]
    BY <1>2, Zenon DEF Receive
  <2>2. log' = log
    BY <1>2, Zenon DEF Receive
  <2>3. [k \in Node |-> Len(log[k])][m] = Len(log[m])
    BY Zenon
  <2>4. Bus!Deliver(n, m)
    BY <2>1, <2>2, <2>3, Zenon DEF Bus!Deliver
  <2>5. QED
    BY <2>4, Zenon DEF StepsAreAllowed, Bus!Next
<1>3. ASSUME NEW n \in Node, NEW msg, log' = [log EXCEPT ![n] = Append(@, msg)],
             cursor' = cursor, Due(n) >= 1
      PROVE  StepsAreAllowed
  <2>1. Len(log[n]) < MaxLog + MaxRound + 1
    <3>1. /\ Len(log[n]) + Due(n) <= MaxLog + current_round[n] /\ current_round[n] <= MaxRound
          /\ current_round[n] \in Nat
      BY Zenon DEF BudgetInv, BudgetAt, ElectionInv, TypeOK
    <3>2. Due(n) \in Nat
      BY DEF Due, One
    <3>3. QED
      BY <1>0, <1>3, <3>1, <3>2, ElectionAssumption
  <2>2. \A k \in Node : log[k] \in Seq(Message)
    BY Zenon DEF ElectionInv, TypeOK, Message
  <2>3. log \in [Node -> Seq(Message)]
    BY Zenon DEF ElectionInv, TypeOK, Message
  <2>4. [k \in Node |-> Len(log'[k])]
          = [[k \in Node |-> Len(log[k])] EXCEPT ![n] = Len(log[n]) + 1]
    <3>1. log'[n] = Append(log[n], msg) /\ \A k \in Node \ {n} : log'[k] = log[k]
      BY <1>3, <2>3, Zenon
    <3>2. Len(log'[n]) = Len(log[n]) + 1
      BY <2>2, <3>1
    <3>3. QED
      BY <3>1, <3>2
  <2>5. Bus!Publish(n)
    BY <1>3, <2>1, <2>4 DEF Bus!Publish
  <2>6. QED
    BY <2>5, Zenon DEF StepsAreAllowed, Bus!Next
<1>4. ASSUME NEW n \in Node, MonitorPublish(n)
      PROVE  StepsAreAllowed
  <2>1. cursor' = cursor /\ \E msg : log' = [log EXCEPT ![n] = Append(@, msg)]
    BY <1>4, Zenon DEF MonitorPublish
  <2>2. monitor[n].pc \in {"heartbeat", "announce"}
    BY <1>4, Zenon DEF MonitorPublish
  <2>3. Due(n) >= 1
    BY <2>2 DEF Due, One
  <2>4. QED
    BY <1>3, <2>1, <2>3, Zenon
<1>5. ASSUME NEW n \in Node, AnnounceCandidacy(n)
      PROVE  StepsAreAllowed
  <2>1. cursor' = cursor /\ \E msg : log' = [log EXCEPT ![n] = Append(@, msg)]
    BY <1>5, Zenon DEF AnnounceCandidacy
  <2>2. operator[n].pc = "announce"
    BY <1>5, Zenon DEF AnnounceCandidacy
  <2>3. Due(n) >= 1
    BY <2>2 DEF Due, One
  <2>4. QED
    BY <1>3, <2>1, <2>3, Zenon
<1>6. \/ UNCHANGED <<log, cursor>>
      \/ \E n \in Node : \/ \E m \in Node \ {n} : Receive(n, m)
                         \/ MonitorPublish(n) \/ AnnounceCandidacy(n)
  BY Zenon DEF Next, vars, Lapse, CheckLeaderFailure, SendHeartbeatIfLeader, StartElection,
     SetAsLeader, Continue, CheckCandidate, BecomeFollower, RecordLeader, TrackLeader,
     RefreshTracker, ResetState, ResetLeader, ResetTracker, NextRound, SetLeaderId
<1>7. QED
  BY <1>1, <1>2, <1>4, <1>5, <1>6, Zenon

(* The log stays within its budget throughout. *)
LEMMA BudgetInvariant == Spec => []BudgetInv
<1>1. Init => BudgetInv
  <2> SUFFICES ASSUME Init, NEW n \in Node PROVE BudgetAt(n)
    BY Zenon DEF BudgetInv
  <2>1. /\ current_round[n] = 1 /\ log[n] = <<>>
        /\ monitor[n] = Idle /\ operator[n] = Idle
    BY Zenon DEF Init
  <2>2. Due(n) = 0
    BY <2>1 DEF Due, One, Idle
  <2>3. QED
    BY <2>1, <2>2, ElectionAssumption DEF BudgetAt, Idle
<1>2. TypeOK /\ BudgetInv /\ [Next]_vars => BudgetInv'
  BY BudgetKept
<1>3. ElectionInv => TypeOK
  BY Zenon DEF ElectionInv
<1>4. QED
  BY <1>1, <1>2, <1>3, ElectionInvariant, PTL DEF Spec

(* The manager uses the bus as CellBusAbstract promises it: with however many
   calls in progress on a node, every step publishes the next message of one
   node, delivers one its reader has not passed, or leaves the bus alone. *)
THEOREM StepsAreAllowedHolds ==
    Spec => [][StepsAreAllowed]_vars
<1>1. ElectionInv /\ BudgetInv /\ [Next]_vars => [StepsAreAllowed]_vars
  BY StepOnBus
<1>2. QED
  BY <1>1, ElectionInvariant, BudgetInvariant, PTL DEF Spec

(* So the election implements the abstract bus, with the logs of the nodes for
   what was published. *)
THEOREM ElectionImplementsBus ==
    Spec => Bus!Spec
<1>1. Init => Bus!Init
  BY DEF Init, Bus!Init
<1>2. ElectionInv /\ BudgetInv /\ [Next]_vars => [Bus!Next]_(Bus!vars)
  BY StepOnBus, Zenon DEF StepsAreAllowed
<1>3. QED
  BY <1>1, <1>2, ElectionInvariant, BudgetInvariant, PTL DEF Spec, Bus!Spec
=============================================================================
