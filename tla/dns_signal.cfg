\* A signal to main, a requester or a log thread; the program may then hang.
CONSTANTS
  Requesters = {r1}
  Resolvers = {s1}
  Main = main
  ReqLogger = reqlog
  ResLogger = reslog
  Handler = handler
  None = none
  CommandLines <- ProperUse
  ARRAY_SIZE = 2
  Lines <- ShortFiles
  Blank = ""
  Unopenable = {}
  Flaky = {}
  OpenFails = FALSE
  AllocFails = FALSE
  CreateFails = {}
  StuckOnDestroyed = TRUE
  Interrupted = {main, r1, reqlog}
SPECIFICATION FairSpec
INVARIANTS
  OneUnrecordedAtMost
  ExitsDrained
  NoDeadlock
PROPERTIES
  JoinInterruptedExits
  ImplementsHostLookup
CHECK_DEADLOCK FALSE
