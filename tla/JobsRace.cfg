SPECIFICATION MCFairSpec
CONSTANTS
  None = None
  r1 = r1
  r2 = r2
  e1 = e1
  e2 = e2
  w1 = w1
  w2 = w2
  Workers = {w1, w2}
  Records = {r1, r2}
  Contents = {e1}
  Legacy = {}
  MaxFaults = 1
INVARIANTS TypeOK JobsAreServed
PROPERTIES DuplicateStaysBlocked OpenJobIsFinished
