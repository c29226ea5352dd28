\* Fair scheduling; the log files and the first input file may not open, and
\* any thread creation but the requester's may fail.
CONSTANTS
  Requesters = {r1}
  Resolvers = {s1, s2}
  Main = main
  ReqLogger = reqlog
  ResLogger = reslog
  Handler = handler
  None = none
  CommandLines <- ProperUse
  ARRAY_SIZE = 2
  Lines <- FlakyFirst
  Blank = ""
  Unopenable = {}
  Flaky = {1}
  OpenFails = TRUE
  AllocFails = FALSE
  CreateFails = {reqlog, reslog, s1, s2}
  StuckOnDestroyed = FALSE
  Interrupted = {}
SPECIFICATION FairSpec
PROPERTIES
  Ends
  WorkShrinks
  EveryHostLogged
CHECK_DEADLOCK FALSE
