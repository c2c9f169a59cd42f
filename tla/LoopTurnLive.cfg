SPECIFICATION FairSpec
CONSTANTS
  MaxMsgs = 2
  MaxLosses = 0
  MaxStops = 1
  Features = {"steer", "twice", "leave"}
  Faults = {"gateway", "slow", "crash", "reject"}
CHECK_DEADLOCK FALSE

PROPERTIES Served
