SPECIFICATION Spec
CONSTANTS
  m1 = m1
  m2 = m2
  m3 = m3
  k1 = k1
  k2 = k2
  a1 = a1
  editor = editor
  dev = dev
  t1 = t1
  NoFile = NoFile
  Microservices = {m1, m2, m3}
  Tenants = {dev, t1}
  Development = dev
  Connects = {k1}
  TenantCommands = {a1}
  Editor = editor
  FirstTenants <- MCFirstTenants
  Bare = {m2}
  Present = {m1, m2}
  MaxGestures = 1
  MaxHides = 1
INVARIANTS
  HorizonsConsented
  ConsentsHaveHorizons
  DrawnIsConnected
  ViewIsCurrent
PROPERTIES
  KeepsConnections
  HandPlacesStay
CHECK_DEADLOCK FALSE
