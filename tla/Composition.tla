---------------------------- MODULE Composition -----------------------------
EXTENDS Integers, Sequences, FiniteSets, SequencesExt

(* Operational domains and what each type of sensor can do in them
   (models/domain.rs).  A DomainSet is a set of the three domains; Unspecified
   is in none of them and matches any. *)

AllDomains == {"Subsurface", "Surface", "Air"}

\* Domain::parse, on lower-case names
Parse(name) ==
    CASE name \in {"subsurface", "sub", "underwater", "underground"} -> {"Subsurface"}
      [] name \in {"surface", "sfc", "ground", "sea"} -> {"Surface"}
      [] name \in {"air", "airborne", "aerial", "sky"} -> {"Air"}
      [] OTHER -> {}

\* DomainSet::contains
Matches(domains, domain) == domain \in domains \cup {"Unspecified"}

OperatingDomains(type) ==
    CASE type \in {"ElectroOptical", "Infrared", "Radar", "Mad"} -> {"Surface", "Air"}
      [] type = "Sonar" -> {"Subsurface", "Surface"}
      [] type \in {"Acoustic", "Sigint"} -> AllDomains

DetectionDomains(type) ==
    CASE type \in {"ElectroOptical", "Infrared", "Radar"} -> {"Surface", "Air"}
      [] type = "Sonar" -> {"Subsurface", "Surface"}
      [] type \in {"Acoustic", "Sigint"} -> AllDomains
      [] type = "Mad" -> {"Subsurface"}

\* DetectionCheck::check
CanDetect(sensorDomain, type, target) ==
    Matches(OperatingDomains(type), sensorDomain) /\ Matches(DetectionDomains(type), target)

-----------------------------------------------------------------------------
(* The capability composition engine (composition/) of a cell: the cell's list
   of capabilities grows in the order the nodes advertise them, and the engine
   applies its rules to the list.  A capability has a kind, a confidence in
   tenths, a sensor type or marker (tag), numeric metadata (meta, by key), keys
   whose value is not a number (text) and explicit detection domains.  A
   composed confidence is a fraction <<numerator, denominator>>. *)

CONSTANTS Library,      \* the capabilities nodes may advertise, as records
          Contexts,     \* per composition, the authority levels of the nodes' operators
          MaxCaps       \* capabilities a cell's list holds

VARIABLES caps, context, composed, adopted

vars == <<caps, context, composed, adopted>>

Unbounded == 1000       \* f64::INFINITY

\* Capability::new of a composed capability, and its CompositionResult
Composed(pattern, conf, from, value, limit) ==
    [pattern |-> pattern, conf |-> conf, from |-> {c.id : c \in from}, value |-> value, limit |-> limit]
Confidence(c) == <<c.conf, 10>>

OfKind(list, kind) == SelectSeq(list, LAMBDA c : c.kind = kind)
Has(c, key) == key \in DOMAIN c.meta \cup c.text
Amount(c, key) == IF key \in DOMAIN c.meta THEN c.meta[key] ELSE 0
Numbers(s, key) == {c.meta[key] : c \in {d \in s : key \in DOMAIN d.meta}}
Total(s, key) == MapThenSumSet(LAMBDA c : Amount(c, key), s)

Mean(s) == <<MapThenSumSet(LAMBDA c : c.conf, s), 10 * Cardinality(s)>>

\* 1 - the product of (1 - c.conf)
Reliability(s) ==
    LET power == 10 ^ Cardinality(s)
    IN  <<power - FoldSet(LAMBDA c, p : (10 - c.conf) * p, 1, s), power>>

\* Iterator::max_by keeps the last of the greatest, min_by the first of the least.
BestFirst(list) == Head(list)   \* mutant: the first of the kind
Best(list) ==
    list[CHOOSE i \in DOMAIN list : \A j \in DOMAIN list \ {i} :
            list[j].conf < list[i].conf \/ (list[j].conf = list[i].conf /\ j < i)]
Least(list, key) ==
    list[CHOOSE i \in DOMAIN list : \A j \in DOMAIN list \ {i} :
            Amount(list[i], key) < Amount(list[j], key) \/ (Amount(list[i], key) = Amount(list[j], key) /\ i < j)]
Greatest(list, key) ==
    list[CHOOSE i \in DOMAIN list : \A j \in DOMAIN list \ {i} :
            Amount(list[j], key) < Amount(list[i], key) \/ (Amount(list[j], key) = Amount(list[i], key) /\ j < i)]
Weakest(s) == <<Min({c.conf : c \in s}), 10>>

-----------------------------------------------------------------------------
(* Additive rules: a sum, at the mean confidence. *)

Additive(pattern, s, key) ==
    IF Cardinality(s) < 2 THEN {} ELSE {Composed(pattern, Mean(s), s, Total(s, key), "")}

SensorCoverage(list) == Additive("sensor_coverage", Range(OfKind(list, "Sensor")), "coverage_area")
PayloadCapacity(list) == Additive("payload_capacity", Range(OfKind(list, "Payload")), "lift_capacity")
CommunicationBandwidth(list) ==
    Additive("communication_bandwidth", Range(OfKind(list, "Communication")), "bandwidth")

(* Redundant rules. *)

\* The default threshold is 0.6.
DetectionReliability(list) ==
    LET s == {c \in Range(OfKind(list, "Sensor")) : c.conf >= 6}
    IN  IF Cardinality(s) < 2 THEN {}
        ELSE {Composed("detection_reliability", Reliability(s), s, Total(s, "coverage_area"), "")}

\* The overlap of n sensors is taken to be 0.2 + (n - 1) * 0.1; a fifth of it is added.
ContinuousCoverage(list) ==
    LET s == {c \in Range(OfKind(list, "Sensor")) : Has(c, "coverage_area")}
        n == Cardinality(s)
        boosted == 10 * Mean(s)[1] + 2 * n * (n + 1)
    IN  IF n < 2 THEN {}
        ELSE {Composed("continuous_coverage", <<Min({boosted, 100 * n}), 100 * n>>, s,
                       Total(s, "coverage_area"), "")}

FaultTolerance(list) ==
    LET s == Range(OfKind(list, "Communication"))
    IN  IF Cardinality(s) < 3 THEN {}
        ELSE {Composed("fault_tolerance", Reliability(s), s, Cardinality(s), "")}

(* Constraint rules: the team is held to its most limited member.  A member
   whose figure is not a number counts as zero in the search for that member,
   and not at all in the figure of the team. *)

Constrained(pattern, list, conf, value, limit) ==
    IF Len(list) < 2 THEN {} ELSE {Composed(pattern, conf, Range(list), value, limit.id)}
Lowest(list, key) == Min(Numbers(Range(list), key) \cup {Unbounded})

TeamSpeedConstraint(list) ==
    LET team == SelectSeq(OfKind(list, "Mobility"), LAMBDA c : Has(c, "max_speed"))
        slowest == Least(team, "max_speed")
    IN  Constrained("team_speed", team, Confidence(slowest), Lowest(team, "max_speed"), slowest)

\* The default rule is without mesh.
CommunicationRangeConstraint(list) ==
    LET team == SelectSeq(OfKind(list, "Communication"), LAMBDA c : Has(c, "range"))
    IN  Constrained("communication_range", team, Mean(Range(team)),
                    Lowest(team, "range"), Least(team, "range"))
CommunicationRangeMesh(list) ==
    LET team == SelectSeq(OfKind(list, "Communication"), LAMBDA c : Has(c, "range"))
    IN  Constrained("communication_range_mesh", team, Mean(Range(team)),
                    Max(Numbers(Range(team), "range") \cup {0}), Greatest(team, "range"))

MissionDurationConstraint(list) ==
    LET team == SelectSeq(list, LAMBDA c : Has(c, "endurance_minutes"))
        limiting == Least(team, "endurance_minutes")
    IN  Constrained("mission_duration", team, Confidence(limiting),
                    Lowest(team, "endurance_minutes"), limiting)

(* Emergent rules: applies_to looks for components at the threshold, compose
   then picks the components without looking at it again. *)

Qualified(list, kind, tag, threshold) ==
    \E c \in Range(OfKind(list, kind)) : c.conf >= threshold /\ (tag = "any" \/ c.tag = tag)

Chain(pattern, s) == {Composed(pattern, Weakest(s), s, 0, "")}

IsrChain(list) ==
    IF \A kind \in {"Sensor", "Compute", "Communication"} : Qualified(list, kind, "any", 7)
    THEN Chain("isr_chain", {Best(OfKind(list, kind)) : kind \in {"Sensor", "Compute", "Communication"}})
    ELSE {}

\* The first camera and the first lidar of the list.
Tagged(list, kind, tag) == SelectSeq(OfKind(list, kind), LAMBDA c : c.tag = tag)
Mapping3d(list) ==
    IF /\ Qualified(list, "Sensor", "camera", 7) /\ Qualified(list, "Sensor", "lidar", 7)
       /\ Qualified(list, "Compute", "any", 7)
    THEN Chain("3d_mapping", {Head(Tagged(list, "Sensor", "camera")), Head(Tagged(list, "Sensor", "lidar")),
                              Best(OfKind(list, "Compute"))})
    ELSE {}

\* An Emergent capability marked isr_capable makes the rule apply; only an isr_chain is composed.
StrikeChainApplies(list) ==
    /\ Qualified(list, "Emergent", "isr_chain", 8) \/ Qualified(list, "Emergent", "isr_capable", 8)
    /\ Qualified(list, "Payload", "strike_capable", 8)
    /\ Qualified(list, "Sensor", "any", 8)
StrikeChain(list) ==
    IF StrikeChainApplies(list) /\ Tagged(list, "Emergent", "isr_chain") # <<>>
    THEN Chain("strike_chain", {Head(Tagged(list, "Emergent", "isr_chain")),
                                Best(Tagged(list, "Payload", "strike_capable")), Best(OfKind(list, "Sensor"))})
    ELSE {}

\* AuthorityLevel, Observer to Commander, and its score in tenths
Commander == 4
Score(level) == CASE level = 0 -> 0 [] level = 1 -> 1 [] level = 2 -> 3 [] level = 3 -> 5 [] level = 4 -> 8
MaxAuthority(levels) == Max(Range(levels) \cup {0})

\* The limit names the first node whose operator has the authority.
AuthorizationCoverage(list, levels) ==
    LET comms == OfKind(list, "Communication")
        able == {i \in DOMAIN levels : levels[i] >= Commander}
        conf == 4 * Best(comms).conf + 6 * Score(MaxAuthority(levels))
    IN  IF comms = <<>> \/ able = {} THEN {}
        ELSE {Composed("authorization_coverage", <<Min({conf, 100}), 100>>, {Best(comms)},
                       Min(able), "")}

\* get_sensor_domains
SensorType(tag) ==
    CASE tag \in {"electro_optical", "eo", "camera"} -> {"ElectroOptical"}
      [] tag \in {"infrared", "ir", "thermal"} -> {"Infrared"}
      [] tag \in {"radar", "rad"} -> {"Radar"}
      [] tag \in {"sonar", "son"} -> {"Sonar"}
      [] tag \in {"acoustic", "aco"} -> {"Acoustic"}
      [] tag \in {"sigint", "sig", "signals_intelligence"} -> {"Sigint"}
      [] tag \in {"mad", "magnetic"} -> {"Mad"}
      [] OTHER -> {}
SensorDomains(c) ==
    CASE c.kind # "Sensor" -> {}
      [] c.kind = "Sensor" /\ SensorType(c.tag) # {} -> UNION {DetectionDomains(t) : t \in SensorType(c.tag)}
      [] c.kind = "Sensor" /\ SensorType(c.tag) = {} /\ c.explicit -> UNION {Parse(d) : d \in c.domains}
      [] OTHER -> {"Surface", "Air"}

\* The default rule asks for two domains, at 0.7.
Covering(list) == {c \in Range(list) : c.conf >= 7 /\ SensorDomains(c) # {}}
MultiDomainCoverage(list) ==
    LET s == Covering(list)
        covered == UNION {SensorDomains(c) : c \in s}
    IN  IF Cardinality(covered) < 2 THEN {}
        ELSE {Composed("multi_domain_coverage",
                       <<Min({10 * Weakest(s)[1] + 5 * Cardinality(covered), 100}), 100>>, s,
                       Cardinality(covered), "")}

-----------------------------------------------------------------------------
(* CompositionEngine::compose_all over the default rules. *)
ComposeAll(list, levels) ==
    UNION {SensorCoverage(list), PayloadCapacity(list), CommunicationBandwidth(list),
           DetectionReliability(list), ContinuousCoverage(list), FaultTolerance(list),
           TeamSpeedConstraint(list), CommunicationRangeConstraint(list), CommunicationRangeMesh(list),
           MissionDurationConstraint(list), IsrChain(list), Mapping3d(list), StrikeChain(list),
           AuthorizationCoverage(list, levels)}
    \cup MultiDomainCoverage(list)

Init == caps = <<>> /\ context \in Contexts /\ composed = {} /\ adopted = FALSE

\* A node advertises a capability.
Advertise(c) ==
    /\ Len(caps) < MaxCaps /\ c \notin Range(caps)
    /\ caps' = Append(caps, c) /\ composed' = {}
    /\ UNCHANGED <<context, adopted>>

Compose == caps # <<>> /\ composed' = ComposeAll(caps, context) /\ UNCHANGED <<caps, context, adopted>>

\* The cell's composed ISR chain joins its capabilities, where StrikeChainRule looks for it
\* (no rule looks at any other composed capability).
Adopt ==
    /\ ~adopted /\ adopted' = TRUE
    /\ \E r \in composed :
          /\ r.pattern = "isr_chain"
          /\ caps' = Append(caps, [id |-> "isr", kind |-> "Emergent", conf |-> r.conf[1], tag |-> "isr_chain",
                                   meta |-> <<>>, text |-> {}, explicit |-> FALSE, domains |-> {}])
    /\ composed' = {} /\ UNCHANGED context

Next == (\E c \in Library : Advertise(c)) \/ Compose \/ Adopt

Spec == Init /\ [][Next]_vars

-----------------------------------------------------------------------------
Contributors(r) == {c \in Range(caps) : c.id \in r.from}
Outline(results, but) == {<<r.pattern, r.conf, r.value>> : r \in {q \in results : q.pattern \notin but}}
Swapped(list, i) == [list EXCEPT ![i] = list[i + 1], ![i + 1] = list[i]]

\* The patterns whose outcome rests on the order of this list: a second camera, lidar or ISR
\* chain to find first, or two equally limited members of different confidence.
Tied(list, key) == \E c, d \in Range(list) : c # d /\ c.conf # d.conf /\ Has(c, key) /\ Has(d, key)
                                             /\ Amount(c, key) = Amount(d, key)
Crowded(list, kind, tag) == Len(Tagged(list, kind, tag)) > 1
OrderBound(list) ==
    (IF Crowded(list, "Sensor", "camera") \/ Crowded(list, "Sensor", "lidar") THEN {"3d_mapping"} ELSE {})
    \cup (IF Crowded(list, "Emergent", "isr_chain") THEN {"strike_chain"} ELSE {})
    \cup (IF Tied(list, "max_speed") THEN {"team_speed"} ELSE {})
    \cup (IF Tied(list, "endurance_minutes") THEN {"mission_duration"} ELSE {})

\* Two nodes that hold a cell's capabilities in different orders compose the same
\* capabilities, at the same confidence and figure (every order is a state here, so neighbours
\* changing places is enough).
OrderDoesNotMatter ==
    composed # {} =>
        \A i \in 1..(Len(caps) - 1) :
            Outline(ComposeAll(Swapped(caps, i), context), OrderBound(caps)) = Outline(composed, OrderBound(caps))

\* The member a constraint names as limiting has the figure given for the team, as long as
\* every member's figure is a number (TeamSpeedConstraintRule and its kin compute the two apart).
LimitIsTheMembers ==
    \A r \in composed : \A c \in Contributors(r) : \A key \in {"max_speed", "range", "endurance_minutes"} :
        /\ r.limit = c.id
        /\ r.pattern \in (CASE key = "max_speed" -> {"team_speed"}
                            [] key = "endurance_minutes" -> {"mission_duration"}
                            [] key = "range" -> {"communication_range", "communication_range_mesh"})
        /\ \A d \in Contributors(r) : key \notin d.text
        => Amount(c, key) = r.value

\* A domain MultiDomainCoverageRule reports is one that a contributing sensor detects from some
\* domain it can work in, by DetectionCheck, if the sensor's type is known.
CoverageIsDetectable ==
    \A r \in composed : r.pattern = "multi_domain_coverage" =>
        \A c \in Contributors(r) : \A d \in SensorDomains(c) : \A type \in SensorType(c.tag) :
            \E platform \in AllDomains : CanDetect(platform, type, d)

=============================================================================
