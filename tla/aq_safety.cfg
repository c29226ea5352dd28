\* Puts, gets, shutdown and a second array_free, of several threads each.
CONSTANTS
  Putters = {p1, p2}
  Getters = {g1, g2, g3}
  Freers = {f1, f2}
  Items = {v1, v2, v3, v4}
  None = None
  ARRAY_SIZE = 3
  SpuriousWakeups = FALSE
  DestroyedLock = {"acquired", "error", "stuck"}
SPECIFICATION Spec
SYMMETRY Symmetry
INVARIANTS
  TypeOK
  LockDiscipline
  OneOwner
  ActiveGettersExact
  NoLostNotEmpty
  NoLostNotFull
  DrainedAtDestroy
PROPERTY ImplementsBoundedQueue
