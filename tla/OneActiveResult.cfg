SPECIFICATION Spec
CONSTANTS
  Records = {r1, r2}
  Evidence = {e1, e2}
  Dims = {d1}
  Clients = {c1}
  e1 = e1
  e2 = e2
  Verdicts <- MCVerdicts
  RankFloors <- MCFloors
  InitialConfidence = 2
  MaxConfidence = 4
  MaxDelta = 1
  None = None
SYMMETRY MCSymmetry
INVARIANT OneActiveResult
