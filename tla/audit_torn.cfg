CONSTANTS
  w1 = w1
  w2 = w2
  AEA = AEA
  IAA = IAA
  c1 = c1
  c2 = c2
  Workers = {w1}
  Cards = {c1, c2}
  Actors = {AEA, IAA}
  Observations <- Sample
  NoOne = NoOne
  None = None
  Torn = Torn
  LineFeed = LineFeed
  MaxSubmissions = 3
SYMMETRY WorkerSymmetry
SPECIFICATION Spec
INVARIANT AckedSurvives
CHECK_DEADLOCK FALSE
