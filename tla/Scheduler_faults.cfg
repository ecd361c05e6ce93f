\* Triggers, pauses, pushes that fail, a job with database failures, restarts.
SPECIFICATION FairSpec
CONSTANTS
  host = host
  recv = recv
  j1 = j1
  j2 = j2
  j3 = j3
  None = None
  Order <- HostThenRecv
  Jobs <- ThreeJobs
  Flaky <- OneJob
  Crashes = TRUE
INVARIANTS TypeOK Sequential LastRunTrue IdleShowsNoRun
PROPERTIES EveryDeviceTried PauseHeeded RunsEnd JobsImplemented
CHECK_DEADLOCK FALSE
