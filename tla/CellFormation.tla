--------------------------- MODULE CellFormation ----------------------------
EXTENDS Integers, FiniteSets, FiniteSetsExt, Sequences

(***************************************************************************)
(* How a cell combines the capabilities of its members, peat-protocol/src/ *)
(* cell/capability_aggregation.rs.  A member is the part of NodeConfig and *)
(* NodeState the aggregation reads:                                        *)
(*   [operational, authority, capabilities]                                *)
(* capabilities is a sequence of [type, confidence]; one type may occur    *)
(* more than once.  Confidence is given in percent and computed in units   *)
(* of 1/One, fine enough for the averages of up to five contributors and   *)
(* the penalties to be exact.                                              *)
(***************************************************************************)

Percent == 6000
One == 100 * Percent

(* Option<AuthorityLevel>, in its order; Autonomous is no authority at all. *)
Autonomous == 0
Observer == 2
Advisor == 3
Supervisor == 4
Commander == 5

CapabilityType ==
    {"Communication", "Sensor", "Compute", "Payload", "Mobility", "Emergent"}

CappedAtOne(x) == IF x > One THEN One ELSE x

(* The entries of type t among the operational members: <<node, index>>. *)
Contributions(members, t) ==
    UNION {{<<n, i>> : i \in {j \in DOMAIN members[n].capabilities :
                                members[n].capabilities[j].type = t}} :
             n \in {m \in DOMAIN members : members[m].operational}}

RedundancyBonus(count) ==
    CASE count = 1 -> 0
      [] count = 2 -> 5 * Percent
      [] count \in 3..4 -> 10 * Percent
      [] OTHER -> 15 * Percent

AuthorityBonus(authority) ==
    CASE authority = Commander -> 10 * Percent
      [] authority = Supervisor -> 5 * Percent
      [] authority = Advisor -> 3 * Percent
      [] OTHER -> 0

CheckOversightRequirement(t, authority) ==
    \/ t = "Payload" /\ authority # Commander
    \/ t = "Communication" /\ authority \in {Autonomous, Observer}

(* aggregate_capability_type with AggregatedCapability::new *)
AggregateCapabilityType(members, t) ==
    LET entries == Contributions(members, t)
        count == Cardinality(entries)
        confidence(e) == members[e[1]].capabilities[e[2]].confidence * Percent
        average == MapThenSumSet(confidence, entries) \div count
        base == CappedAtOne(average + RedundancyBonus(count))
        authority == Max({members[e[1]].authority : e \in entries})
    IN [confidence |-> CappedAtOne(base + AuthorityBonus(authority)),
        contributor_count |-> count,
        contributors |-> {e[1] : e \in entries},
        max_authority |-> authority,
        requires_oversight |-> CheckOversightRequirement(t, authority)]

AggregateCapabilities(members) ==
    [t \in {u \in CapabilityType : Contributions(members, u) # {}} |->
        AggregateCapabilityType(members, t)]

-----------------------------------------------------------------------------
(* What the cell reads off the aggregated capabilities *)

IsMissionReady(cap) ==
    /\ cap.confidence >= (IF cap.requires_oversight THEN 80 ELSE 70) * Percent
    /\ cap.contributor_count > 0
    /\ cap.requires_oversight => cap.max_authority # Autonomous

Penalty(authority) ==
    CASE authority = Commander -> 100
      [] authority = Supervisor -> 85
      [] authority = Advisor -> 70
      [] authority = Observer -> 60
      [] OTHER -> 50

EffectiveConfidence(cap) ==
    CappedAtOne(IF cap.requires_oversight
                THEN (cap.confidence * Penalty(cap.max_authority)) \div 100
                ELSE cap.confidence)

Weight(t) ==
    CASE t = "Communication" -> 30
      [] t = "Sensor" -> 25
      [] t = "Compute" -> 20
      [] t = "Payload" -> 15
      [] t = "Mobility" -> 10
      [] OTHER -> 5

CalculateReadinessScore(caps) ==
    LET weighted(t) == EffectiveConfidence(caps[t]) * Weight(t)
    IN IF DOMAIN caps = {} THEN 0
       ELSE MapThenSumSet(weighted, DOMAIN caps)
              \div MapThenSumSet(Weight, DOMAIN caps)

IdentifyGaps(caps, required) ==
    {t \in required : t \notin DOMAIN caps \/ ~IsMissionReady(caps[t])}

NeedsHumanApproval(caps) == \E t \in DOMAIN caps : caps[t].requires_oversight

-----------------------------------------------------------------------------
(***************************************************************************)
(* The formation of a cell, peat-protocol/src/cell/coordinator.rs: one     *)
(* CellCoordinator decides from the members, their roles and the elected   *)
(* leader whether the cell may enter the hierarchical phase, and asks a    *)
(* human operator when an aggregated capability requires oversight.        *)
(*                                                                         *)
(* The caller hands members and leader to every check; between two calls   *)
(* they change freely, which the Join, Leave, AssignRole and leader steps  *)
(* of the environment say.                                                 *)
(***************************************************************************)

CONSTANTS
    Node,
    Profile,            \* what a member may look like to the aggregation
    min_size,
    min_readiness,      \* in percent
    required_capabilities,
    None,
    MaxTime             \* bound: clock readings

FormationAssumption ==
    /\ min_size \in Nat
    /\ min_readiness \in 0..100
    /\ required_capabilities \subseteq CapabilityType
    /\ None \notin Nat
    /\ MaxTime \in Nat

VARIABLES
    members,            \* function from the current members to Profile
    roles,              \* members that have a role
    leader,             \* whether a leader is elected
    status,
    human_approved,
    formation_start,
    formation_complete, \* None or the second of completion
    now,
    checked,            \* nothing has changed since the last check
    approvals           \* approve_formation succeeded since the last reset

environment == <<members, roles, leader>>
coordinator == <<status, human_approved, formation_start, formation_complete>>
vars == <<environment, coordinator, now, checked, approvals>>

capabilities == AggregateCapabilities(members)

TypeOK ==
    /\ DOMAIN members \subseteq Node
    /\ \A n \in DOMAIN members : members[n] \in Profile
    /\ roles \subseteq DOMAIN members
    /\ leader \in BOOLEAN
    /\ status \in {"Forming", "AwaitingApproval", "Ready", "Failed"}
    /\ human_approved \in BOOLEAN
    /\ formation_start \in Nat
    /\ formation_complete \in Nat \cup {None}
    /\ now \in 0..MaxTime
    /\ checked \in BOOLEAN
    /\ approvals \in BOOLEAN

(* CellCoordinator::new, before anybody joined *)
Init ==
    /\ members = <<>>
    /\ roles = {}
    /\ leader = FALSE
    /\ status = "Forming"
    /\ human_approved = FALSE
    /\ formation_start = 0
    /\ formation_complete = None
    /\ now = 0
    /\ checked = FALSE
    /\ approvals = FALSE

-----------------------------------------------------------------------------
(* The caller's view of the cell *)

(* A node joins, or reports new capabilities, health or operators. *)
Join(n) ==
    /\ \E p \in Profile :
          members' = [m \in DOMAIN members \cup {n} |->
                        IF m = n THEN p ELSE members[m]]
    /\ checked' = FALSE
    /\ UNCHANGED <<roles, leader, coordinator, now, approvals>>

Leave(n) ==
    /\ n \in DOMAIN members
    /\ members' = [m \in DOMAIN members \ {n} |-> members[m]]
    /\ roles' = roles \ {n}
    /\ checked' = FALSE
    /\ UNCHANGED <<leader, coordinator, now, approvals>>

AssignRole(n) ==
    /\ n \in DOMAIN members \ roles
    /\ roles' = roles \cup {n}
    /\ checked' = FALSE
    /\ UNCHANGED <<members, leader, coordinator, now, approvals>>

LeaderChange ==
    /\ leader' = ~leader
    /\ checked' = FALSE
    /\ UNCHANGED <<members, roles, coordinator, now, approvals>>

Tick ==
    /\ now < MaxTime
    /\ now' = now + 1
    /\ UNCHANGED <<environment, coordinator, checked, approvals>>

-----------------------------------------------------------------------------
(* CellCoordinator *)

Complete(time) ==
    formation_complete' = IF formation_complete = None THEN time
                                                       ELSE formation_complete

(* Variant: the capabilities are checked when the cell first completes only. *)
CheckFormationCompleteOnce ==
    LET large == Cardinality(DOMAIN members) >= min_size
        settled == leader /\ roles = DOMAIN members
        capable == \/ formation_complete # None
                   \/ /\ IdentifyGaps(capabilities, required_capabilities) = {}
                      /\ CalculateReadinessScore(capabilities)
                           >= min_readiness * Percent
        cleared == NeedsHumanApproval(capabilities) => human_approved
    IN /\ \/ ~large /\ status' = "Failed" /\ UNCHANGED formation_complete
          \/ large /\ ~settled /\ UNCHANGED <<status, formation_complete>>
          \/ /\ large /\ settled /\ ~capable
             /\ status' = "Failed"
             /\ UNCHANGED formation_complete
          \/ /\ large /\ settled /\ capable /\ ~cleared
             /\ status' = "AwaitingApproval"
             /\ UNCHANGED formation_complete
          \/ /\ large /\ settled /\ capable /\ cleared
             /\ status' = "Ready"
             /\ Complete(now)
       /\ checked' = TRUE
       /\ UNCHANGED <<environment, human_approved, formation_start, now,
                      approvals>>

(* Without a leader or with a role missing the call returns false and leaves
   the status as it is; the other criteria set it. *)
CheckFormationComplete ==
    LET large == Cardinality(DOMAIN members) >= min_size
        settled == leader /\ roles = DOMAIN members
        capable == /\ IdentifyGaps(capabilities, required_capabilities) = {}
                   /\ CalculateReadinessScore(capabilities)
                        >= min_readiness * Percent
        cleared == NeedsHumanApproval(capabilities) => human_approved
    IN /\ \/ ~large /\ status' = "Failed" /\ UNCHANGED formation_complete
          \/ large /\ ~settled /\ UNCHANGED <<status, formation_complete>>
          \/ /\ large /\ settled /\ ~capable
             /\ status' = "Failed"
             /\ UNCHANGED formation_complete
          \/ /\ large /\ settled /\ capable /\ ~cleared
             /\ status' = "AwaitingApproval"
             /\ UNCHANGED formation_complete
          \/ /\ large /\ settled /\ capable /\ cleared
             /\ status' = "Ready"
             /\ Complete(now)
       /\ checked' = TRUE
       /\ UNCHANGED <<environment, human_approved, formation_start, now,
                      approvals>>

ApproveFormation ==
    /\ status = "AwaitingApproval"
    /\ human_approved' = TRUE
    /\ status' = "Ready"
    /\ Complete(now)
    /\ approvals' = TRUE
    /\ UNCHANGED <<environment, formation_start, now, checked>>

RejectFormation ==
    /\ status = "AwaitingApproval"
    /\ status' = "Failed"
    /\ UNCHANGED <<environment, human_approved, formation_start,
                   formation_complete, now, checked, approvals>>

(* Variant: the approval outlives the attempt it was given for. *)
ResetKeepingApproval ==
    /\ status' = "Forming"
    /\ formation_complete' = None
    /\ formation_start' = now
    /\ approvals' = FALSE
    /\ UNCHANGED <<environment, human_approved, now, checked>>

(* Variant: the completion time of the previous attempt is kept. *)
ResetKeepingCompletion ==
    /\ status' = "Forming"
    /\ human_approved' = FALSE
    /\ formation_start' = now
    /\ approvals' = FALSE
    /\ UNCHANGED <<environment, formation_complete, now, checked>>

Reset ==
    /\ status' = "Forming"
    /\ human_approved' = FALSE
    /\ formation_complete' = None
    /\ formation_start' = now
    /\ approvals' = FALSE
    /\ UNCHANGED <<environment, now, checked>>

CanTransitionToHierarchical == status = "Ready"

Next ==
    \/ \E n \in Node : Join(n) \/ Leave(n) \/ AssignRole(n)
    \/ LeaderChange
    \/ Tick
    \/ CheckFormationComplete
    \/ ApproveFormation
    \/ RejectFormation
    \/ Reset

Spec == Init /\ [][Next]_vars

-----------------------------------------------------------------------------
(* When the cell the last check looked at has leader and roles, contains a
   capability that requires oversight, and is let through, a human approved
   since the last reset: the approval of an earlier attempt never counts. *)
HumanInTheLoop ==
    ( /\ checked /\ CanTransitionToHierarchical
      /\ leader /\ roles = DOMAIN members
      /\ NeedsHumanApproval(capabilities) )
    => approvals

(* formation_duration subtracts unsigned numbers: a recorded completion is
   never earlier than the start of its own attempt, and a Ready cell has one. *)
DurationDefined ==
    /\ formation_complete # None => formation_start <= formation_complete
    /\ status = "Ready" => formation_complete # None

(* When the coordinator has looked at the present cell, and leader and roles
   are there, a Ready cell meets the remaining criteria: neither an approval
   nor an earlier Ready hides a failed check. *)
CriteriaMet ==
    checked /\ leader /\ roles = DOMAIN members /\ CanTransitionToHierarchical
    => /\ Cardinality(DOMAIN members) >= min_size
       /\ IdentifyGaps(capabilities, required_capabilities) = {}
       /\ CalculateReadinessScore(capabilities) >= min_readiness * Percent

(* A cell that may enter the hierarchical phase has earned it: its criteria
   are met, a human has approved where one must, and its formation took a time
   that is defined. *)
ReadyIsEarned == TypeOK /\ CriteriaMet /\ HumanInTheLoop /\ DurationDefined
=============================================================================
