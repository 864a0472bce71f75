SPECIFICATION Spec
CONSTANTS
    rootA = rootA
    rootB = rootB
    Roots = {rootA}
    MaxProcesses = 1
    Scenarios <- LeavingToHostOnly
CHECK_DEADLOCK FALSE
INVARIANTS
    RoomSharesItsFolder
