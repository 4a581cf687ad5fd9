SPECIFICATION DocumentsSpec
CONSTANTS
  t1 = t1
  r1 = r1
  h1 = h1
  T1 = T1
  T2 = T2
  ours = ours
  id = id
  other = other
  Tenants = {t1}
  Configured = {t1}
  Requests = {r1}
  EventHandlers = {h1}
  Types = {T1, T2}
  Nothing = Nothing
  Properties = {id, other}
  GuidCustomType = GuidCustomType
  CustomTypes = {GuidCustomType, ours}
  Decorations <- MCDecorations
  Guids <- MCGuids
  Contents <- MCContents
  MaxDocuments = 1
INVARIANTS
  UndisturbedDocuments
  ReadsWhatWasWritten
  FailedReads
CHECK_DEADLOCK FALSE
