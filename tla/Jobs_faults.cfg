\* Jobs of every kind, two of them with database failures, and crashes.
SPECIFICATION FairSpec
CONSTANTS
  Jobs <- EveryKind
  Kind <- OwnKind
  Flaky <- TwoKinds
  LogsInfo = TRUE
  Crashes = TRUE
INVARIANTS TypeOK EndIsRecorded
PROPERTIES FinalStands JobsEnd
CHECK_DEADLOCK FALSE
