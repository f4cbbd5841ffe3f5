CONSTANTS
    None = None
    Node = {1, 2, 3}
    MaxTasks = 1
    MaxRound = 2
    MaxLog = 1
    MaxOverrides = 0
SPECIFICATION FairSpec
PROPERTIES ElectionConverges
CHECK_DEADLOCK FALSE
