\* The same between the two devices of the repository's .env, 2400130 and 2400131.
SPECIFICATION LookupSpec
CONSTANTS
  host = host
  recv = recv
  n0 = n0
  n1 = n1
  m1 = m1
  m2 = m2
  p = p
  f = f
  r1 = r1
  None = None
  Devices <- TwoNumbers
  Movers <- TwoMovers
  Profiles <- OneProfile
  Faces <- OneFace
  MayOverwrite = FALSE
  PutsFail = FALSE
  GetsFail = FALSE
  Readers <- OneReader
  Host = host
  Recv = recv
  Single <- TwoNumbers
INVARIANT NotFoundIsTrue
