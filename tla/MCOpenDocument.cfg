CONSTANT Scenarios <- MCScenarios
SPECIFICATION Spec
INVARIANTS TypeOK KeystrokesAreCountedUnlessLate OpenedWithTheText HoldsAreOpen MarkIsKnown
PROPERTIES DeletionStands
CHECK_DEADLOCK FALSE
