\* One move at a time, with every option and every failure.
SPECIFICATION Spec
CONSTANTS
  d1 = d1
  d2 = d2
  m1 = m1
  m2 = m2
  p = p
  q = q
  f = f
  g = g
  None = None
  Devices <- TwoDevices
  Movers <- OneMover
  Profiles <- TwoProfiles
  Faces <- TwoFaces
  MayOverwrite = TRUE
  PutsFail = TRUE
  GetsFail = TRUE
INVARIANTS TypeOK NeverLost ArrivesAsRead
PROPERTIES DeletesOnlyCopied
