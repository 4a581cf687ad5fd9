SPECIFICATION Spec
CONSTANTS
  portal = portal
  left = left
  right = right
  inner = inner
  NoDocument = NoDocument
  Windows <- MCWindows
  Top = portal
  Parent <- MCParent
  MaxOpens = 4
  MaxMessages = 1
INVARIANT BubblesUp
CHECK_DEADLOCK FALSE
