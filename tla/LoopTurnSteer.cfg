SPECIFICATION Spec
CONSTANTS
  MaxMsgs = 2
  MaxLosses = 0
  MaxStops = 0
  Features = {"steer"}
  Faults = {}
CHECK_DEADLOCK FALSE

INVARIANTS SteerHeard
