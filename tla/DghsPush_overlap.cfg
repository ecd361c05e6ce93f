\* Two overlapping pushes, the manual one with a filter or a start time of its
\* own; enumerations may break off, oldest first.  The manual push may stall.
SPECIFICATION FairSpec
CONSTANTS
  u1 = u1
  u2 = u2
  sched = sched
  manual = manual
  NoUser = NoUser
  None = None
  Users <- OneUser
  Pushers <- Both
  Scheduled <- JustSched
  Requests <- FewRequests
  DefaultDays = 1
  BatchSize = 1
  BstShift = 0
  LocalShift = 0
  QueryShift = 0
  NewestFirst = FALSE
  LossyListing = TRUE
  MaxNow = 1
  MaxLog = 2
INVARIANTS TypeOK NoUnexplainedGap MarkerIsAccepted
PROPERTIES IsCursor Delivered
CHECK_DEADLOCK FALSE
