CONSTANTS
  d1 = d1
  d2 = d2
  once = once
  many = many
  c1 = c1
  c2 = c2
  Devices <- MCDevices
  SingleUse <- MCSingleUse
  Reusable <- MCReusable
  Codes <- MCCodes
  Calls <- MCCalls
  MaxAttempts = 2
  MaxEvents = 1
SPECIFICATION Spec
SYMMETRY Symmetry
CHECK_DEADLOCK FALSE
INVARIANTS OnlyInvitedJoin MaterialOpens
