\* A queue is destroyed before its getters have finished with it.
CONSTANTS
  Requesters = {r1, r2}
  Resolvers = {s1, s2}
  Main = main
  ReqLogger = reqlog
  ResLogger = reslog
  Handler = handler
  None = none
  CommandLines <- ProperUse
  ARRAY_SIZE = 2
  Lines <- ShortFiles
  Blank = ""
  Unopenable = {}
  Flaky = {}
  OpenFails = FALSE
  AllocFails = FALSE
  CreateFails = {}
  StuckOnDestroyed = FALSE
  Interrupted = {}
SPECIFICATION Spec
INVARIANT GettersFinishBeforeDestroy
