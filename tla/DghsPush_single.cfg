\* One push at a time with every kind of request; the marker runs ahead of the
\* device's clock and the device compares it on the same scale.
SPECIFICATION Spec
CONSTANTS
  u1 = u1
  u2 = u2
  sched = sched
  manual = manual
  NoUser = NoUser
  None = None
  Users <- MCUsers
  Pushers <- JustManual
  Scheduled <- Nobody
  Requests <- MCRequests
  DefaultDays = 1
  BatchSize = 2
  BstShift = 1
  LocalShift = 2
  QueryShift = 1
  NewestFirst = TRUE
  LossyListing = FALSE
  MaxNow = 1
  MaxLog = 3
INVARIANTS NoUnexplainedGap CompleteRun
PROPERTIES ResendsNothingOlder
CHECK_DEADLOCK FALSE
