SPECIFICATION FairSpec
CONSTANTS
    Node <- NodesDef
    Leader = "leader"
    Cell = "cell"
    None = None
    Own <- OwnDef
    Above <- AboveDef
    MaxCalls = 2
    MaxIssues = 2
    MaxRestarts = 1
INVARIANTS
    
    ExecutionIsTracked
PROPERTIES
    RoutedIsExecuted
CHECK_DEADLOCK FALSE
