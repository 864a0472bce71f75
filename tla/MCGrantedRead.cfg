SPECIFICATION Spec
CONSTANTS
  Dirs <- MCDirs
  Files <- MCFiles
  Links <- MCLinks
  Root = "root"
  Outside <- MCOutside
  Target <- MCTarget
  Content <- MCContent
  Rule <- MCRule
  Names <- MCNames
  Segments <- MCSegments
  Leaf = "f"
  Trees <- MCTrees
  Slots <- MCSlots
  MaxMoves = 2
INVARIANTS TypeOK ServedFromTheFolder StandingRuleBinds MissingMeansAbsent
CHECK_DEADLOCK FALSE
