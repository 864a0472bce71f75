SPECIFICATION FairSpec
CONSTANTS
    rootA = rootA
    rootB = rootB
    fileA = fileA
    rules = rules
    Roots = {rootA, rootB}
    Files = {rules, fileA}
    RulesFile = rules
    MaxSessions = 2
    Scenarios <- Hosting
CHECK_DEADLOCK FALSE
INVARIANTS
    TypeOK
    SettledUnlessStale
    ReadForThisSession
PROPERTIES
    NeverAnOlderReading
    ListingSettles
