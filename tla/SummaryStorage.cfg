SPECIFICATION Spec
CONSTANTS
    Node <- MCNode
    CapabilityType <- MCCapabilityType
    Capabilities <- MCCapabilities
    Readiness <- MCReadiness
    NoPosition = NoPosition
    Unit <- MCUnit
    TierOf <- MCTierOf
    Below <- MCBelow
    NodeState <- MCNodeState
    FirstState <- MCFirstState
    Task = {t1, t2}
    Absent = Absent
    MaxPublishes = 5
    MaxIncidents = 1
SYMMETRY SymmetryOfTasks
CONSTRAINT OverlapOnOneDocument
CHECK_DEADLOCK FALSE
INVARIANTS SummaryTellsBasis SummaryIsComplete
PROPERTY NeverOlder
