\* One array_free while a putter and two getters run; its waits may return 0
\* with no signal; a destroyed mutex is acquired or fails at once.
CONSTANTS
  Putters = {p1}
  Getters = {g1, g2}
  Freers = {f1}
  Items = {v1, v2}
  None = None
  ARRAY_SIZE = 3
  SpuriousWakeups = TRUE
  DestroyedLock = {"acquired", "error"}
SPECIFICATION FairSpec
PROPERTIES
  FreeReturns
  AcceptedIsConsumed
  GettersStop
