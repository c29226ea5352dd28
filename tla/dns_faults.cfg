\* Every call that can fail may fail, and a destroyed mutex may hang.
CONSTANTS
  Requesters = {r1, r2}
  Resolvers = {s1, s2}
  Main = main
  ReqLogger = reqlog
  ResLogger = reslog
  Handler = handler
  None = none
  CommandLines <- AnyUse
  ARRAY_SIZE = 2
  Lines <- ShortFiles
  Blank = ""
  Unopenable = {}
  Flaky = {1, 2}
  OpenFails = TRUE
  AllocFails = TRUE
  CreateFails = {r1, r2, s1, s2, reqlog, reslog}
  StuckOnDestroyed = TRUE
  Interrupted = {}
SPECIFICATION Spec
SYMMETRY Symmetry
INVARIANTS
  ResolvedOnce
  NothingRefused
  ReadersExact
  StatsAgree
  NoDeadlock
CHECK_DEADLOCK FALSE
