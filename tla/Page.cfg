SPECIFICATION Spec
CONSTANTS
  Paths = {p, q}
  Keys = {a, b}
  Values = {v, w}
  Names = {f, g}
  None = None
  MaxStimuli = 8
SYMMETRY Symmetry
INVARIANTS
  RouteIsTold
  FeatureIsShown
CHECK_DEADLOCK FALSE
