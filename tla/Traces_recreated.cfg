CONSTANTS
  Pcs = {p1, p2}
  Data = {d1, d2}
  MaxSteps = 2
  Options <- SomeOptions
SPECIFICATION Spec
CHECK_DEADLOCK FALSE
INVARIANT RecreatedTraceAgrees
