SPECIFICATION Spec
CONSTANTS
  t1 = t1
  t2 = t2
  t3 = t3
  r1 = r1
  r2 = r2
  h1 = h1
  Tenants = {t1, t2, t3}
  Configured = {t1, t2}
  Requests = {r1, r2}
  EventHandlers = {h1}
  Types = {}
  Nothing = Nothing
SYMMETRY Symmetry
INVARIANT RequestSeesItsOwnTenant
CHECK_DEADLOCK FALSE
