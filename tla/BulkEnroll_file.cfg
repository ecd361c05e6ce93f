\* One file, with failures everywhere, while other requests use the device.
SPECIFICATION BulkFairSpec
CONSTANTS
  a = a
  b = b
  p = p
  q = q
  f = f
  g = g
  None = None
  Ids <- TwoIds
  Profiles <- TwoProfiles
  Faces <- TwoFaces
  Owner <- OfEach
  PutsFail = TRUE
  GetsFail = FALSE
  Files <- SmallFiles
  Every = 2
  DbFails = TRUE
  LogsInfo = TRUE
  Crashes = TRUE
  MaxRequests = 1
INVARIANTS BulkTypeOK FaceBelongs ReportTrue KeepsExisting
PROPERTIES IsJob RunnerEnds
CHECK_DEADLOCK FALSE
