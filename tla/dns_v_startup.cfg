\* More files than the filename queue and one requester take.
CONSTANTS
  Requesters = {r1}
  Resolvers = {s1}
  Main = main
  ReqLogger = reqlog
  ResLogger = reslog
  Handler = handler
  None = none
  CommandLines <- ProperUse
  ARRAY_SIZE = 2
  Lines <- ThreeFiles
  Blank = ""
  Unopenable = {}
  Flaky = {}
  OpenFails = FALSE
  AllocFails = FALSE
  CreateFails = {}
  StuckOnDestroyed = FALSE
  Interrupted = {}
SPECIFICATION FairSpec
PROPERTIES
  EveryHostLogged
CHECK_DEADLOCK FALSE
