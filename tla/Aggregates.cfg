SPECIFICATION AggregatesSpec
CONSTANTS
  t1 = t1
  t2 = t2
  r1 = r1
  h1 = h1
  t3 = t3
  T1 = T1
  Tenants = {t1, t2, t3}
  Configured = {t1, t2}
  Requests = {r1}
  EventHandlers = {h1}
  Types = {T1}
  Nothing = Nothing
  Limit = 1
  MaxEvents = 2
SYMMETRY Symmetry
INVARIANTS
  DatabaseOfOneTenant
  UndisturbedRequests
  RulesKept
  EventsOfOwnTenant
  ConnectedOnce
CHECK_DEADLOCK FALSE
