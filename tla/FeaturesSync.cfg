\* One page, three edits, two faults.
SPECIFICATION FairSpec
CONSTANTS
  Clients = {c1}
  MaxEdits = 3
  MaxFaults = 2
  c1 = c1
INVARIANTS
  WireInOrder
  NothingFromBeforeOpening
  GoesBackAtMostOnce
PROPERTIES
  PagesImplementView
  NotificationsArrive
  WrittenIsLoaded
CHECK_DEADLOCK FALSE
