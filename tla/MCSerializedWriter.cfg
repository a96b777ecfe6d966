SPECIFICATION Spec
CONSTANT Ops = {o1, o2, o3}
INVARIANTS WrittenInOrder VerdictMatchesWire
PROPERTIES CancelStopsWrite EveryCallReturns ImplementsChannel
CHECK_DEADLOCK FALSE
