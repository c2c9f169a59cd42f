SPECIFICATION FairSpec
CONSTANTS
  MaxMsgs = 3
  MaxLosses = 0
  MaxStops = 0
  Features = {"leave"}
  Faults = {}
CHECK_DEADLOCK FALSE

PROPERTIES AlwaysServed
