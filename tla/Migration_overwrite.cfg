\* Two moves in opposite directions with overwrite_target; nothing fails.
SPECIFICATION Spec
CONSTANTS
  d1 = d1
  d2 = d2
  m1 = m1
  m2 = m2
  p = p
  q = q
  f = f
  g = g
  None = None
  Devices <- TwoDevices
  Movers <- TwoMovers
  Profiles <- OneProfile
  Faces <- OneFace
  MayOverwrite = TRUE
  PutsFail = FALSE
  GetsFail = FALSE
INVARIANTS NeverLost
