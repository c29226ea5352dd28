\* Two threads of each kind, no faults.
CONSTANTS
  Requesters = {r1, r2}
  Resolvers = {s1, s2}
  Main = main
  ReqLogger = reqlog
  ResLogger = reslog
  Handler = handler
  None = none
  CommandLines <- ProperUse
  ARRAY_SIZE = 2
  Lines <- TwoFiles
  Blank = ""
  Unopenable = {}
  Flaky = {}
  OpenFails = FALSE
  AllocFails = FALSE
  CreateFails = {}
  StuckOnDestroyed = FALSE
  Interrupted = {}
SPECIFICATION Spec
SYMMETRY Symmetry
INVARIANTS
  TypeOK
  ResolvedOnce
  RequestedOnceInOrder
  NothingRefused
PROPERTY ImplementsHostLookup
