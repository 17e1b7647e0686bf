CHECK_DEADLOCK FALSE
SPECIFICATION FairSpec
CONSTANTS
  None = None
  Events = {1, 2}
  Dispatchers = {w1, w2}
  MaxAttempts = 2
  BatchSize = 2
  MaxFaults = 1
  MaxSends = 2
  MaxDropped = 1
INVARIANTS TypeOK DuplicatesNeedFaults
PROPERTIES ImplementsDelivery
