CONSTANTS
  Pcs = {p1, p2}
  Data = {d1, d2}
  MaxSteps = 3
  Options <- SomeOptions
SPECIFICATION Spec
CHECK_DEADLOCK FALSE
INVARIANTS TypeOK NoDeviationMissed NoFalseAlarm CauseIsFirstDeviation
PROPERTY ComparisonEnds
