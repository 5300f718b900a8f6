\* The modem answers after it was given up, again and again.
SPECIFICATION Spec
CONSTANTS
  AtFamilies = {"PLS8"}
  NetTypes = {"AUTO"}
  SameTypes = TRUE
  Csq = 0
  Roaming = TRUE
  Cards = {"PIN"}
  Counters = {"SPIC"}
  MaxRetry = 5
  LowRetry = 2
  ApnRetry = 1
  Slow = {"PLS8"}
  MaxChanges = 0
  MaxWire = 4
  MaxTty = 4
INVARIANT PinIsSpared
CHECK_DEADLOCK FALSE
