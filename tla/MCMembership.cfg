CONSTANTS
  f = f
  m1 = m1
  m2 = m2
  Founder = f
  Members <- MCMembers
  Ways <- MCWays
  Roles <- MCRoles
  MaxIncidents = 3
  MaxSerial = 3
  MaxVersion = 2
SPECIFICATION FairSpec
CHECK_DEADLOCK FALSE
INVARIANTS CertificatesUsable
PROPERTIES MembersAdmitted RevocationsKnown
