SPECIFICATION Spec
CONSTANTS
  Segments = {events, system}
  Events = events
  System = system
  ClassFeature = f
  OwnFeature = g
  Depth = 2
  MaxResolvers = 2
  MaxAsks = 1
  Nothing = Nothing
INVARIANTS
  ServedUnlessHidden
  RefusedForNames
  RunsWithItsFeatures
CHECK_DEADLOCK FALSE
