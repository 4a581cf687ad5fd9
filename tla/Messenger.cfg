SPECIFICATION Spec
CONSTANTS
  portal = portal
  left = left
  right = right
  inner = inner
  NoDocument = NoDocument
  Windows <- MCWindows
  Top = portal
  Parent <- MCParent
  MaxOpens = 5
  MaxMessages = 2
INVARIANTS
  ExactDelivery
  NoEchoStorm
  InnerFirst
  KnowsOwnFrames
CHECK_DEADLOCK FALSE
