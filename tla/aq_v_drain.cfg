\* As aq_live, with spurious wakeups of array_free.
CONSTANTS
  Putters = {p1}
  Getters = {g1, g2}
  Freers = {f1}
  Items = {v1, v2}
  None = None
  ARRAY_SIZE = 2
  SpuriousWakeups = TRUE
  DestroyedLock = {"acquired", "error", "stuck"}
SPECIFICATION Spec
INVARIANT DrainedAtDestroy
