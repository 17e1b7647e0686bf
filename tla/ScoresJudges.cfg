SPECIFICATION Spec
CONSTANTS
  Records = {r1, r2}
  Evidence = {e1}
  Dims = {d1, d2}
  Clients = {c1, c2}
  e1 = e1
  e2 = e2
  Verdicts <- MCJudgedVerdicts
  RankFloors <- MCFloors
  InitialConfidence = 4
  MaxConfidence = 8
  MaxDelta = 1
  None = None
SYMMETRY MCSymmetry
INVARIANTS
  FlaggedNeedsPass
  ConfidenceIsAccounted
PROPERTIES
  DecisionIsFinal
