\* The jobs of files and exports, when nothing fails.
SPECIFICATION Spec
CONSTANTS
  Jobs <- FileAndExport
  Kind <- OwnKind
  Flaky <- NoKind
  LogsInfo = TRUE
  Crashes = FALSE
PROPERTIES FinalStays
CHECK_DEADLOCK FALSE
