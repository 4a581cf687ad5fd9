SPECIFICATION Spec
CONSTANTS
  f = f
  g = g
  Features = {f, g}
  FirstTexts <- MCFirstTexts
  MaxStarts = 1
  Nothing = Nothing
  Commands = {k1, k2}
  MaxAsks = 2
  MaxHides = 1
SYMMETRY Symmetry
INVARIANTS
  WishesCome
  ViewIsCurrent
  BackendIsCurrent
CHECK_DEADLOCK FALSE
