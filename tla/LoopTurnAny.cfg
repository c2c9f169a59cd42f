SPECIFICATION Spec
CONSTANTS
  MaxMsgs = 3
  MaxLosses = 1
  MaxStops = 1
  Features = {"tardy"}
  Faults = {"lost", "refuse"}
CHECK_DEADLOCK FALSE

INVARIANTS OneTurn RunsOnce Kept InOrder
PROPERTIES ImplementsLedger
