\* The race of the initial query and the subscription, without any fault.
SPECIFICATION FairSpec
CONSTANTS
  Clients = {c1}
  MaxEdits = 2
  MaxFaults = 0
  c1 = c1
PROPERTIES
  PagesConverge
CHECK_DEADLOCK FALSE
