\* A signal may leave the program hanging.
CONSTANTS
  Requesters = {r1}
  Resolvers = {s1}
  Main = main
  ReqLogger = reqlog
  ResLogger = reslog
  Handler = handler
  None = none
  CommandLines <- ProperUse
  ARRAY_SIZE = 2
  Lines <- ShortFiles
  Blank = ""
  Unopenable = {}
  Flaky = {}
  OpenFails = FALSE
  AllocFails = FALSE
  CreateFails = {}
  StuckOnDestroyed = FALSE
  Interrupted = {main, r1, s1, reqlog, reslog}
SPECIFICATION FairSpec
PROPERTY SignalEnds
CHECK_DEADLOCK FALSE
