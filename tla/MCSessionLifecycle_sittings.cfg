SPECIFICATION FairSpec
CONSTANTS
    rootA = rootA
    rootB = rootB
    Roots = {rootA, rootB}
    MaxProcesses = 3
    Scenarios <- Sittings
CHECK_DEADLOCK FALSE
INVARIANTS
    TypeOK
    NoRoomIsForgotten
    ProcessesAgree
    RoomSharesItsFolderUnlessHasty
    HostsCloseTheirRooms
PROPERTIES
    RequestsAreTaken
