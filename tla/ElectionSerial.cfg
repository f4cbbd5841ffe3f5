CONSTANTS
    None = None
    Node = {1, 2}
    MaxTasks = 1
    MaxRound = 3
    MaxLog = 3
    MaxOverrides = 2
SPECIFICATION FairSpec
INVARIANT FollowersClimb
PROPERTIES FailureDetected
CHECK_DEADLOCK FALSE
