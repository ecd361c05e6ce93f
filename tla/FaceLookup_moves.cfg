\* Look-ups and moves that interleave, without overwrite_target, between devices
\* with the two names that a look-up asks.
SPECIFICATION LookupSpec
CONSTANTS
  host = host
  recv = recv
  n0 = n0
  n1 = n1
  m1 = m1
  m2 = m2
  p = p
  f = f
  r1 = r1
  None = None
  Devices <- HostAndRecv
  Movers <- TwoMovers
  Profiles <- OneProfile
  Faces <- OneFace
  MayOverwrite = FALSE
  PutsFail = TRUE
  GetsFail = FALSE
  Readers <- OneReader
  Host = host
  Recv = recv
  Single <- TwoNumbers
INVARIANTS LookupTypeOK NeverLost NotFoundIsTrue
