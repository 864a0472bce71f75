CONSTANT Scenarios <- MCScenarios
SPECIFICATION Spec
INVARIANT KeystrokesAreCounted
CHECK_DEADLOCK FALSE
