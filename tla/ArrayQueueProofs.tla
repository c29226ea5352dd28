-------------------------- MODULE ArrayQueueProofs --------------------------
(* Invariants of ArrayQueue, for every number of threads, every set of      *)
(* strings and every ring size.                                             *)
EXTENDS ArrayQueue, FiniteSetTheorems, TLAPS

(* The next index of the ring is an index of the ring.                      *)
LEMMA SuccInSlots == \A i \in Slots : Succ(i) \in Slots
  BY SizeAssumption DEF Slots, Succ

(* A signal wakes sleepers and puts nobody to sleep.                        *)
LEMMA SignalledSubset ==
  ASSUME NEW cond, NEW after \in Signalled(cond)
  PROVE  after \subseteq cond
  BY DEF Signalled

-----------------------------------------------------------------------------
(* Type correctness.  The invariant is inductive as it stands.              *)

(* A thread that goes to a place of its own role leaves the counters typed. *)
LEMMA GotoType ==
  ASSUME PcType, NEW t \in Threads, NEW l, Goto(t, l),
         t \in Putters => l \in PutterPC,
         t \in Getters => l \in GetterPC,
         t \in Freers => l \in FreerPC
  PROVE  PcType'
<1> DEFINE Places == PutterPC \cup GetterPC \cup FreerPC
<1>1. l \in Places
  BY DEF Threads
<1>2. pc' \in [Threads -> Places]
  <2> HIDE DEF Places
  <2>1. QED
    BY <1>1 DEF PcType, Goto, Places
<1>3. QED
  BY <1>2 DEF PcType, Goto, Threads

(* pthread_mutex_lock leaves lock a thread or None, and the thread at l or  *)
(* stuck.                                                                   *)
LEMMA AcquireType ==
  ASSUME TypeOK, NEW t \in Threads, NEW l, Acquire(t, l),
         t \in Putters => l \in PutterPC,
         t \in Getters => l \in GetterPC,
         t \in Freers => l \in FreerPC
  PROVE  PcType' /\ lock' \in Threads \cup {None}
<1>1. PcType /\ lock' \in Threads \cup {None}
  BY DEF Acquire, TypeOK
<1>2. "stuck" \in PutterPC /\ "stuck" \in GetterPC /\ "stuck" \in FreerPC
  BY DEF PutterPC, GetterPC, FreerPC
<1>3. CASE Goto(t, l)
  BY <1>1, <1>3, GotoType
<1>4. CASE Goto(t, "stuck")
  BY <1>1, <1>2, <1>4, GotoType
<1>5. QED
  BY <1>1, <1>3, <1>4 DEF Acquire

LEMMA InitType == Init => TypeOK
<1> SUFFICES ASSUME Init PROVE TypeOK
  OBVIOUS
<1>1. /\ storeString \in [Slots -> Items \cup {None}]
      /\ head \in Slots
      /\ tail \in Slots
      /\ shutdown \in BOOLEAN
      /\ active_getters \in Int
      /\ lock \in Threads \cup {None}
      /\ destroyed \in BOOLEAN
  <2>1. 0 \in Slots
    BY SizeAssumption DEF Slots
  <2>2. storeString \in [Slots -> Items \cup {None}]
    BY DEF Init
  <2>3. shutdown \in BOOLEAN /\ destroyed \in BOOLEAN
    BY Zenon DEF Init
  <2>4. active_getters \in Int /\ lock \in Threads \cup {None}
    BY DEF Init
  <2>5. QED
    BY <2>1, <2>2, <2>3, <2>4 DEF Init
<1>2. PcType
  BY DEF Init, PcType, Threads, PutterPC, GetterPC, FreerPC
<1>3. /\ hand \in [Putters \cup Getters -> Items \cup {None}]
      /\ result \in [Freers -> {"0", "ETIMEDOUT"}]
      /\ seen \in [Getters -> Slots]
  BY SizeAssumption DEF Init, Slots
<1>4. /\ not_empty \subseteq Getters
      /\ not_full \subseteq Putters
      /\ all_getters_done \subseteq Freers
      /\ array_emptied \subseteq Freers
      /\ pending \subseteq Items
      /\ refused \subseteq Items \cup {None}
      /\ consumed \subseteq Items \cup {None}
  BY DEF Init
<1>5. QED
  BY <1>1, <1>2, <1>3, <1>4 DEF TypeOK

LEMMA PutType ==
  ASSUME TypeOK, NEW p \in Putters, Put(p)
  PROVE  TypeOK'
<1>1. /\ p \in Threads /\ p \notin Getters /\ p \notin Freers
      /\ {"idle", "p_lock", "p_check", "p_wait"} \subseteq PutterPC
  BY ThreadsAssumption DEF Threads, PutterPC
<1>2. ASSUME NEW v \in Items, PutCall(p, v) PROVE TypeOK'
  <2>1. PcType'
    BY <1>1, <1>2, GotoType DEF TypeOK, PutCall
  <2>2. QED
    BY <2>1, <1>2 DEF TypeOK, PutCall, ring, conds
<1>3. CASE PutLock(p)
  <2>1. PcType' /\ lock' \in Threads \cup {None}
    BY <1>1, <1>3, AcquireType DEF PutLock
  <2>2. QED
    BY <2>1, <1>3 DEF TypeOK, PutLock, ring, conds, outside
<1>4. CASE PutShutdown(p)
  <2>1. PcType'
    BY <1>1, <1>4, GotoType DEF TypeOK, PutShutdown, UnlockRefused
  <2>2. refused' \subseteq Items \cup {None}
    BY <1>4 DEF TypeOK, PutShutdown, UnlockRefused
  <2>3. QED
    BY <2>1, <2>2, <1>4 DEF TypeOK, PutShutdown, UnlockRefused, Release, ring, conds
<1>5. CASE PutWait(p)
  <2>1. PcType'
    BY <1>1, <1>5, GotoType DEF TypeOK, PutWait
  <2>2. QED
    BY <2>1, <1>5 DEF TypeOK, PutWait, Release, ring, outside
<1>6. CASE PutStore(p)
  <2>1. PcType'
    BY <1>1, <1>6, GotoType DEF TypeOK, PutStore
  <2>2. QED
    BY <2>1, <1>6, SuccInSlots, SignalledSubset
    DEF TypeOK, PutStore, SignalNotEmpty, Release, outside
<1>7. QED
  BY <1>2, <1>3, <1>4, <1>5, <1>6 DEF Put

LEMMA GetType ==
  ASSUME TypeOK, NEW g \in Getters, Get(g)
  PROVE  TypeOK'
<1>1. /\ g \in Threads /\ g \notin Putters /\ g \notin Freers
      /\ {"idle", "g_lock", "g_check", "g_wait", "g_take", "g_see", "g_advance",
          "g_leave", "done"} \subseteq GetterPC
  BY ThreadsAssumption DEF Threads, GetterPC
<1>2. CASE GetEnter(g)
  <2>1. PcType'
    BY <1>1, <1>2, GotoType DEF TypeOK, GetEnter
  <2>2. QED
    BY <2>1, <1>2 DEF TypeOK, GetEnter, ring, conds, outside
<1>3. CASE GetLock(g)
  <2>1. PcType' /\ lock' \in Threads \cup {None}
    BY <1>1, <1>3, AcquireType DEF GetLock
  <2>2. QED
    BY <2>1, <1>3 DEF TypeOK, GetLock, ring, conds, outside
<1>4. CASE GetWait(g)
  <2>1. PcType'
    BY <1>1, <1>4, GotoType DEF TypeOK, GetWait
  <2>2. QED
    BY <2>1, <1>4 DEF TypeOK, GetWait, Release, ring, outside
<1>5. CASE GetShutdown(g)
  <2>1. PcType'
    BY <1>1, <1>5, GotoType DEF TypeOK, GetShutdown
  <2>2. all_getters_done' \subseteq Freers
    BY <1>5, SignalledSubset DEF TypeOK, GetShutdown
  <2>3. QED
    BY <2>1, <2>2, <1>5 DEF TypeOK, GetShutdown, Release, ring, outside
<1>6. CASE GetRemove(g)
  <2>1. PcType'
    BY <1>1, <1>6, GotoType DEF TypeOK, GetRemove
  <2>2. array_emptied' \subseteq Freers /\ not_full' \subseteq Putters
    BY <1>6, SignalledSubset DEF TypeOK, GetRemove, SignalNotFull
  <2>3. head' \in Slots /\ hand' \in [Putters \cup Getters -> Items \cup {None}]
    BY <1>6, SuccInSlots DEF TypeOK, GetRemove
  <2>4. QED
    BY <2>1, <2>2, <2>3, <1>6 DEF TypeOK, GetRemove, Release, outside
<1>7. CASE GetLeave(g)
  <2>1. PcType'
    BY <1>1, <1>7, GotoType DEF TypeOK, GetLeave, Uncounted
  <2>2. consumed' \subseteq Items \cup {None}
    BY <1>1, <1>7 DEF TypeOK, GetLeave, Uncounted
  <2>3. QED
    BY <2>1, <2>2, <1>7 DEF TypeOK, GetLeave, Uncounted, ring, conds
<1>8. CASE GetPass(g) \/ GetTake(g) \/ GetSee(g)
  <2>1. PcType'
    BY <1>1, <1>8, GotoType DEF TypeOK, GetPass, GetTake, GetSee
  <2>2. /\ hand' \in [Putters \cup Getters -> Items \cup {None}]
        /\ seen' \in [Getters -> Slots]
    BY <1>8 DEF TypeOK, GetPass, GetTake, GetSee
  <2>3. QED
    BY <2>1, <2>2, <1>8 DEF TypeOK, GetPass, GetTake, GetSee, ring, conds, outside
<1>9. CASE GetAdvance(g)
  <2>1. PcType'
    BY <1>1, <1>9, GotoType DEF TypeOK, GetAdvance
  <2>2. array_emptied' \subseteq Freers /\ not_full' \subseteq Putters
    BY <1>9, SignalledSubset DEF TypeOK, GetAdvance, SignalNotFull
  <2>3. head' \in Slots
    <3>1. seen[g] \in Slots
      BY DEF TypeOK
    <3> QED
      BY <1>9, <3>1, SuccInSlots DEF GetAdvance
  <2>4. QED
    BY <2>1, <2>2, <2>3, <1>9 DEF TypeOK, GetAdvance, Release, outside
<1>10. QED
  BY <1>2, <1>3, <1>4, <1>5, <1>6, <1>7, <1>8, <1>9 DEF Get, GetUnlocked

LEMMA FreeType ==
  ASSUME TypeOK, NEW f \in Freers, Free(f)
  PROVE  TypeOK'
<1>1. /\ f \in Threads /\ f \notin Putters /\ f \notin Getters
      /\ {"f_lock", "f_mark", "f_drainwait", "f_drain", "f_wake", "f_count",
          "f_countwait", "f_unlock", "f_destroy", "done"} \subseteq FreerPC
  BY ThreadsAssumption DEF Threads, FreerPC
<1>2. ASSUME AwaitEmptied(f)
      PROVE  /\ PcType'
             /\ lock' \in Threads \cup {None}
             /\ not_empty' \subseteq Getters
             /\ not_full' \subseteq Putters
             /\ all_getters_done' \subseteq Freers
             /\ array_emptied' \subseteq Freers
             /\ result' \in [Freers -> {"0", "ETIMEDOUT"}]
  <2>1. PcType'
    BY <1>1, <1>2, GotoType DEF TypeOK, AwaitEmptied
  <2>2. QED
    BY <2>1, <1>2 DEF TypeOK, AwaitEmptied, Release
<1>3. CASE FreeCall(f)
  <2>1. PcType'
    BY <1>1, <1>3, GotoType DEF TypeOK, FreeCall
  <2>2. QED
    BY <2>1, <1>3 DEF TypeOK, FreeCall, ring, conds, outside
<1>4. CASE FreeLock(f)
  <2>1. \E l \in FreerPC : Acquire(f, l)
    BY <1>1, <1>4 DEF FreeLock
  <2>2. PcType' /\ lock' \in Threads \cup {None}
    BY <1>1, <2>1, AcquireType
  <2>3. QED
    BY <2>2, <1>4 DEF TypeOK, FreeLock, ring, conds, outside
<1>5. CASE FreeMark(f)
  <2>1. ASSUME Empty PROVE PcType'
    BY <1>1, <1>5, <2>1, GotoType DEF TypeOK, FreeMark
  <2>2. QED
    BY <2>1, <1>2, <1>5 DEF TypeOK, FreeMark, conds, outside
<1>6. CASE FreeDrain(f)
  <2>1. ASSUME Goto(f, "f_wake") PROVE PcType'
    BY <1>1, <2>1, GotoType DEF TypeOK
  <2>2. QED
    BY <2>1, <1>2, <1>6 DEF TypeOK, FreeDrain, DrainEnds, ring, conds, outside
<1>7. CASE FreeWake(f)
  <2>1. PcType'
    BY <1>1, <1>7, GotoType DEF TypeOK, FreeWake
  <2>2. QED
    BY <2>1, <1>7 DEF TypeOK, FreeWake, ring, outside
<1>8. CASE FreeCount(f)
  <2>1. Goto(f, "f_countwait") \/ Goto(f, "f_unlock")
    BY <1>8 DEF FreeCount
  <2>2. PcType'
    BY <1>1, <2>1, GotoType DEF TypeOK
  <2>3. QED
    BY <2>2, <1>8 DEF TypeOK, FreeCount, Release, ring, outside
<1>9. CASE FreeUnlock(f)
  <2>1. PcType'
    BY <1>1, <1>9, GotoType DEF TypeOK, FreeUnlock
  <2>2. QED
    BY <2>1, <1>9 DEF TypeOK, FreeUnlock, Release, ring, conds, outside
<1>10. CASE FreeDestroy(f)
  <2>1. PcType'
    BY <1>1, <1>10, GotoType DEF TypeOK, FreeDestroy
  <2>2. QED
    BY <2>1, <1>10 DEF TypeOK, FreeDestroy, ring, conds, outside
<1>11. CASE SpuriousWakeup(f)
  BY <1>11 DEF TypeOK, SpuriousWakeup, PcType, ring, outside
<1>12. QED
  BY <1>3, <1>4, <1>5, <1>6, <1>7, <1>8, <1>9, <1>10, <1>11 DEF Free

LEMMA TimeoutType ==
  ASSUME TypeOK, NEW t \in Threads, Timeout(t)
  PROVE  TypeOK'
  BY DEF TypeOK, PcType, Timeout, ring, outside

LEMMA StutterType == TypeOK /\ UNCHANGED vars => TypeOK'
  BY DEF TypeOK, PcType, vars, ring, conds, outside

(* TypeOK holds of every behaviour: ring indices stay in the ring, and only *)
(* getters sleep on not_empty, putters on not_full, freers on the other two.*)
THEOREM TypeCorrect == Spec => []TypeOK
<1>1. TypeOK /\ [Next]_vars => TypeOK'
  BY PutType, GetType, FreeType, TimeoutType, StutterType DEF Next, Terminated
<1>2. QED
  BY InitType, <1>1, PTL DEF Spec

-----------------------------------------------------------------------------
(* The mutex.  LockDiscipline is inductive beside TypeOK: a step takes the  *)
(* mutex and enters a critical section, gives it up and leaves one, or does *)
(* neither; after the destruction nothing is claimed.                       *)

LEMMA DestroyedForGood == ASSUME Next PROVE destroyed => destroyed'
  BY DEF Next, Put, Get, Free, Terminated, vars, PutCall, PutLock, PutShutdown, UnlockRefused,
     PutWait, PutStore, GetEnter, GetLock, GetWait, GetShutdown, GetRemove,
     GetLeave, GetUnlocked, GetPass, GetTake, GetSee, GetAdvance, Uncounted, FreeCall, FreeLock,
     FreeMark, FreeDrain, DrainEnds, FreeWake, FreeCount, FreeUnlock, FreeDestroy, Timeout,
     SpuriousWakeup

LEMMA LockTaken ==
  ASSUME TypeOK, LockDiscipline, NEW t \in Threads, NEW l \in CriticalPC,
         Acquire(t, l), ~destroyed
  PROVE  \A u \in Threads : pc'[u] \in CriticalPC <=> lock' = u
<1>1. lock = None /\ lock' = t /\ pc' = [pc EXCEPT ![t] = l]
  BY DEF Acquire, Goto
<1>2. \A u \in Threads : pc[u] \notin CriticalPC
  BY <1>1, ThreadsAssumption DEF LockDiscipline, InCritical
<1>3. QED
  BY <1>1, <1>2 DEF TypeOK, PcType

LEMMA LockGivenUp ==
  ASSUME TypeOK, LockDiscipline, NEW t \in Threads, NEW l, l \notin CriticalPC,
         InCritical(t), Release(t), Goto(t, l), ~destroyed
  PROVE  \A u \in Threads : pc'[u] \in CriticalPC <=> lock' = u
<1>1. lock = t /\ lock' = None /\ pc' = [pc EXCEPT ![t] = l]
  BY DEF Release, Goto, LockDiscipline
<1>2. \A u \in Threads : u # t => pc[u] \notin CriticalPC
  BY <1>1 DEF LockDiscipline, InCritical
<1>3. QED
  BY <1>1, <1>2, ThreadsAssumption DEF TypeOK, PcType

LEMMA LockUntouched ==
  ASSUME TypeOK, LockDiscipline, NEW t \in Threads, NEW l, Goto(t, l),
         InCritical(t) <=> l \in CriticalPC, lock' = lock, ~destroyed
  PROVE  \A u \in Threads : pc'[u] \in CriticalPC <=> lock' = u
  BY DEF TypeOK, PcType, Goto, LockDiscipline, InCritical

LEMMA PutLockDiscipline ==
  ASSUME TypeOK, LockDiscipline, NEW p \in Putters, Put(p), ~destroyed
  PROVE  \A u \in Threads : pc'[u] \in CriticalPC <=> lock' = u
<1>1. p \in Threads
  BY DEF Threads
<1>2. ASSUME NEW v \in Items, PutCall(p, v)
      PROVE  \A u \in Threads : pc'[u] \in CriticalPC <=> lock' = u
  BY <1>1, <1>2, LockUntouched DEF PutCall, InCritical, CriticalPC
<1>3. CASE PutLock(p)
  <2>1. "p_check" \in CriticalPC
    BY DEF CriticalPC
  <2>2. QED
    BY <1>1, <1>3, <2>1, LockTaken DEF PutLock
<1>4. CASE PutShutdown(p) \/ PutWait(p) \/ PutStore(p)
  <2>1. /\ InCritical(p) /\ Release(p)
        /\ Goto(p, "idle") \/ Goto(p, "p_wait")
    BY <1>4 DEF PutShutdown, UnlockRefused, PutWait, PutStore, InCritical, CriticalPC
  <2>2. "idle" \notin CriticalPC /\ "p_wait" \notin CriticalPC
    BY DEF CriticalPC
  <2>3. QED
    BY <1>1, <2>1, <2>2, LockGivenUp
<1>5. QED
  BY <1>2, <1>3, <1>4 DEF Put

LEMMA GetLockDiscipline ==
  ASSUME TypeOK, LockDiscipline, NEW g \in Getters, Get(g), ~destroyed
  PROVE  \A u \in Threads : pc'[u] \in CriticalPC <=> lock' = u
<1>1. g \in Threads
  BY DEF Threads
<1>2. CASE GetEnter(g) \/ GetLeave(g)
  <2>1. /\ ~InCritical(g) /\ lock' = lock
        /\ Goto(g, "g_lock") \/ Goto(g, "idle")
    BY <1>2 DEF GetEnter, GetLeave, Uncounted, InCritical, CriticalPC
  <2>2. "g_lock" \notin CriticalPC /\ "idle" \notin CriticalPC
    BY DEF CriticalPC
  <2>3. QED
    BY <1>1, <2>1, <2>2, LockUntouched
<1>3. CASE GetLock(g)
  <2>1. "g_check" \in CriticalPC
    BY DEF CriticalPC
  <2>2. QED
    BY <1>1, <1>3, <2>1, LockTaken DEF GetLock
<1>4. CASE GetWait(g) \/ GetShutdown(g) \/ GetRemove(g) \/ GetAdvance(g)
  <2>1. /\ InCritical(g) /\ Release(g)
        /\ Goto(g, "g_wait") \/ Goto(g, "done") \/ Goto(g, "g_leave")
    BY <1>4 DEF GetWait, GetShutdown, GetRemove, GetAdvance, InCritical, CriticalPC
  <2>2. {"g_wait", "done", "g_leave"} \cap CriticalPC = {}
    BY DEF CriticalPC
  <2>3. QED
    BY <1>1, <2>1, <2>2, LockGivenUp
<1>5. CASE GetPass(g) \/ GetTake(g) \/ GetSee(g)
  <2>1. PICK l \in {"g_take", "g_see", "g_advance"} : Goto(g, l)
    BY <1>5 DEF GetPass, GetTake, GetSee
  <2>2. InCritical(g) /\ l \in CriticalPC /\ lock' = lock
    BY <1>5 DEF GetPass, GetTake, GetSee, InCritical, CriticalPC
  <2>3. QED
    BY <1>1, <2>1, <2>2, LockUntouched
<1>6. QED
  BY <1>2, <1>3, <1>4, <1>5 DEF Get, GetUnlocked

LEMMA FreeLockDiscipline ==
  ASSUME TypeOK, LockDiscipline, NEW f \in Freers, Free(f), ~destroyed,
         ~destroyed'
  PROVE  \A u \in Threads : pc'[u] \in CriticalPC <=> lock' = u
<1>1. f \in Threads
  BY DEF Threads
<1>2. {"f_mark", "f_drain", "f_wake", "f_count", "f_unlock"} \subseteq CriticalPC
  BY DEF CriticalPC
<1>3. {"f_lock", "f_drainwait", "f_countwait", "f_destroy"}
        \cap CriticalPC = {}
  BY DEF CriticalPC
<1>4. CASE FreeCall(f)
  BY <1>1, <1>3, <1>4, LockUntouched DEF FreeCall, InCritical, CriticalPC
<1>5. CASE FreeLock(f)
  <2>1. \E l \in CriticalPC : Acquire(f, l)
    BY <1>2, <1>5 DEF FreeLock
  <2>2. QED
    BY <1>1, <2>1, LockTaken
<1>6. CASE FreeMark(f) \/ FreeDrain(f)
  <2>1. InCritical(f)
    BY <1>2, <1>6 DEF FreeMark, FreeDrain, DrainEnds, InCritical
  <2>2. \/ Goto(f, "f_wake") /\ lock' = lock
        \/ Goto(f, "f_drainwait") /\ Release(f)
    BY <1>6 DEF FreeMark, FreeDrain, DrainEnds, AwaitEmptied
  <2>3. QED
    BY <1>1, <1>2, <1>3, <2>1, <2>2, LockUntouched, LockGivenUp
<1>7. CASE FreeWake(f) \/ FreeCount(f)
  <2>1. InCritical(f)
    BY <1>2, <1>7 DEF FreeWake, FreeCount, InCritical
  <2>2. \/ (Goto(f, "f_count") \/ Goto(f, "f_unlock")) /\ lock' = lock
        \/ Goto(f, "f_countwait") /\ Release(f)
    BY <1>7 DEF FreeWake, FreeCount
  <2>3. QED
    BY <1>1, <1>2, <1>3, <2>1, <2>2, LockUntouched, LockGivenUp
<1>8. CASE FreeUnlock(f)
  <2>1. InCritical(f) /\ Release(f) /\ Goto(f, "f_destroy")
    BY <1>2, <1>8 DEF FreeUnlock, InCritical
  <2>2. QED
    BY <1>1, <1>3, <2>1, LockGivenUp
<1>9. CASE FreeDestroy(f)
  BY <1>9 DEF FreeDestroy
<1>10. CASE SpuriousWakeup(f)
  BY <1>10 DEF SpuriousWakeup, LockDiscipline, InCritical
<1>11. QED
  BY <1>4, <1>5, <1>6, <1>7, <1>8, <1>9, <1>10 DEF Free

(* While the mutex exists, a thread runs between pthread_mutex_lock and the *)
(* matching unlock or wait exactly if it owns the mutex: every return of    *)
(* array_put, array_get and array_free gives it back, none runs without it. *)
THEOREM LockCorrect == Spec => []LockDiscipline
<1>1. Init => LockDiscipline
  BY ThreadsAssumption DEF Init, LockDiscipline, InCritical, CriticalPC
<1>2. TypeOK /\ LockDiscipline /\ [Next]_vars => LockDiscipline'
  <2> SUFFICES ASSUME TypeOK, LockDiscipline, [Next]_vars, ~destroyed'
               PROVE  \A u \in Threads : pc'[u] \in CriticalPC <=> lock' = u
    BY DEF LockDiscipline, InCritical
  <2>1. CASE UNCHANGED vars
    BY <2>1 DEF vars, LockDiscipline, InCritical
  <2>2. ASSUME Next PROVE ~destroyed
    BY <2>2, DestroyedForGood
  <2>3. ASSUME NEW t \in Threads, Timeout(t), ~destroyed
        PROVE  \A u \in Threads : pc'[u] \in CriticalPC <=> lock' = u
    BY <2>3 DEF Timeout, LockDiscipline, InCritical
  <2>4. CASE Next
    BY <2>1, <2>2, <2>3, <2>4, PutLockDiscipline, GetLockDiscipline,
       FreeLockDiscipline
    DEF Next, Terminated
  <2>5. QED
    BY <2>1, <2>4
<1>3. QED
  BY <1>1, <1>2, TypeCorrect, PTL DEF Spec

-----------------------------------------------------------------------------
(* The drain.  "Shut down and empty" cannot be undone, since array_put      *)
(* looks at shutdown after every wait; and a freer past its drain loop, or  *)
(* woken from it by a signal, has seen it.  Without spurious wakeups only   *)
(* array_get's signal makes pthread_cond_timedwait return 0.                *)

Drained == shutdown /\ Empty
PastDrain == {"f_wake", "f_count", "f_countwait", "f_unlock", "f_destroy", "done"}

FreerDrain(f) ==
  /\ pc[f] \in {"f_drainwait", "f_drain"} => shutdown
  /\ pc[f] \in PastDrain => Drained
  /\ pc[f] = "f_drain" /\ result[f] = "0" => Drained
  /\ pc[f] = "f_drainwait" /\ f \notin array_emptied /\ result[f] = "0"
       => Drained

(* Nobody removes a string without the mutex: that takes a destroyed queue   *)
(* with strings in it.                                                      *)
NoneUnlocked == \A g \in Getters : pc[g] \notin UnlockedPC

DrainInv ==
  /\ destroyed => Drained
  /\ \A f \in Freers : FreerDrain(f)
  /\ NoneUnlocked

LEMMA NeverUnlocked ==
  ASSUME LockDiscipline, DrainInv
  PROVE  \A g \in Getters : ~GetUnlocked(g)
<1> SUFFICES ASSUME NEW g \in Getters, GetUnlocked(g) PROVE FALSE
  OBVIOUS
<1>1. CASE GetPass(g)
  <2>1. InCritical(g) /\ lock # g /\ g \in Threads /\ ~Empty
    BY <1>1 DEF GetPass, InCritical, CriticalPC, Threads
  <2>2. destroyed
    BY <2>1 DEF LockDiscipline
  <2> QED
    BY <2>1, <2>2 DEF DrainInv, Drained
<1>2. CASE GetTake(g) \/ GetSee(g) \/ GetAdvance(g)
  BY <1>2 DEF GetTake, GetSee, GetAdvance, DrainInv, NoneUnlocked, UnlockedPC
<1> QED
  BY <1>1, <1>2 DEF GetUnlocked

LEMMA UnlockedStep ==
  ASSUME TypeOK, LockDiscipline, DrainInv, Next
  PROVE  NoneUnlocked'
<1>1. ASSUME NEW t, NEW l, Goto(t, l), l \notin UnlockedPC PROVE NoneUnlocked'
  BY <1>1 DEF Goto, TypeOK, PcType, DrainInv, NoneUnlocked
<1>2. ASSUME UNCHANGED pc PROVE NoneUnlocked'
  BY <1>2 DEF DrainInv, NoneUnlocked
<1>3. ASSUME NEW p \in Putters, Put(p) PROVE NoneUnlocked'
  <2>1. \E l \in PutterPC : Goto(p, l)
    BY <1>3 DEF Put, PutCall, PutLock, PutShutdown, UnlockRefused, PutWait, PutStore, Acquire,
         PutterPC
  <2> QED
    BY <1>1, <2>1 DEF PutterPC, UnlockedPC
<1>4. ASSUME NEW g \in Getters, Get(g) PROVE NoneUnlocked'
  <2>1. \E l \in {"idle", "g_lock", "g_check", "g_wait", "g_leave", "done", "stuck"} : Goto(g, l)
    BY <1>4, NeverUnlocked
    DEF Get, GetEnter, GetLock, GetWait, GetShutdown, GetRemove, GetLeave, Uncounted, Acquire
  <2> QED
    BY <1>1, <2>1 DEF UnlockedPC
<1>5. ASSUME NEW f \in Freers, Free(f) PROVE NoneUnlocked'
  <2>1. UNCHANGED pc \/ \E l \in FreerPC : Goto(f, l)
    BY <1>5 DEF Free, FreeCall, FreeLock, FreeMark, FreeDrain, DrainEnds, FreeWake, FreeCount,
         FreeUnlock, FreeDestroy, SpuriousWakeup, AwaitEmptied, Acquire, FreerPC
  <2> QED
    BY <1>1, <1>2, <2>1 DEF FreerPC, UnlockedPC
<1>6. ASSUME NEW t \in Threads, Timeout(t) PROVE NoneUnlocked'
  BY <1>2, <1>6 DEF Timeout
<1> QED
  BY <1>2, <1>3, <1>4, <1>5, <1>6 DEF Next, Terminated, vars

LEMMA DrainedStays ==
  ASSUME Next, LockDiscipline, DrainInv
  PROVE  (shutdown => shutdown') /\ (Drained => Drained')
  BY NeverUnlocked
  DEF Next, Put, Get, Free, Terminated, vars, ring, conds, PutCall, PutLock,
     PutShutdown, UnlockRefused, PutWait, PutStore, GetEnter, GetLock, GetWait, GetShutdown,
     GetRemove, GetLeave, Uncounted, FreeCall, FreeLock, FreeMark, FreeDrain, DrainEnds, FreeWake,
     FreeCount, FreeUnlock, FreeDestroy, Timeout, SpuriousWakeup, Drained, Empty

(* A step of another thread leaves a freer its place and its result, and    *)
(* does not wake it from the drain unless the ring has just become empty.   *)
LEMMA OthersDrain ==
  ASSUME DrainInv, shutdown => shutdown', Drained => Drained',
         NEW f \in Freers, pc'[f] = pc[f], result'[f] = result[f],
         \/ f \in array_emptied' <=> f \in array_emptied
         \/ pc[f] = "f_drainwait" => Drained'
  PROVE  FreerDrain(f)'
  BY DEF DrainInv, FreerDrain

LEMMA PutDrain ==
  ASSUME TypeOK, LockDiscipline, DrainInv, Next, NEW p \in Putters, Put(p)
  PROVE  DrainInv'
<1>1. /\ destroyed' = destroyed
      /\ array_emptied' = array_emptied
      /\ result' = result
  <2>1. ASSUME NEW v \in Items, PutCall(p, v)
        PROVE  destroyed' = destroyed /\ conds' = conds /\ result' = result
    BY <2>1 DEF PutCall
  <2>2. CASE PutLock(p)
    BY <2>2 DEF PutLock, conds
  <2>3. CASE PutShutdown(p)
    BY <2>3 DEF PutShutdown, UnlockRefused, conds
  <2>4. CASE PutWait(p)
    BY <2>4 DEF PutWait
  <2>5. CASE PutStore(p)
    BY <2>5 DEF PutStore
  <2>6. QED
    BY <2>1, <2>2, <2>3, <2>4, <2>5 DEF Put, conds
<1>2. \A f \in Freers : pc'[f] = pc[f]
  <2>1. \E l : Goto(p, l)
    BY DEF Put, PutCall, PutLock, PutShutdown, UnlockRefused, PutWait, PutStore, Acquire
  <2>2. QED
    BY <2>1, ThreadsAssumption DEF Goto, TypeOK, PcType, Threads
<1>3. \A f \in Freers : FreerDrain(f)'
  BY <1>1, <1>2, DrainedStays, OthersDrain
<1>4. QED
  BY <1>1, <1>3, DrainedStays, UnlockedStep DEF DrainInv

LEMMA GetDrain ==
  ASSUME TypeOK, LockDiscipline, DrainInv, Next, NEW g \in Getters, Get(g)
  PROVE  DrainInv'
<1>1. destroyed' = destroyed /\ result' = result
  <2>1. CASE GetEnter(g) \/ GetLock(g) \/ GetWait(g)
    BY <2>1 DEF GetEnter, GetLock, GetWait
  <2>2. CASE GetShutdown(g) \/ GetRemove(g) \/ GetLeave(g)
    BY <2>2 DEF GetShutdown, GetRemove, GetLeave, Uncounted
  <2>3. QED
    BY <2>1, <2>2, NeverUnlocked DEF Get
<1>2. \A f \in Freers : pc'[f] = pc[f]
  <2>1. \E l : Goto(g, l)
    BY NeverUnlocked DEF Get, GetEnter, GetLock, GetWait, GetShutdown, GetRemove, GetLeave, Uncounted,
       Acquire
  <2>2. QED
    BY <2>1, ThreadsAssumption DEF Goto, TypeOK, PcType, Threads
<1>3. array_emptied' = array_emptied \/ Empty'
  BY NeverUnlocked DEF Get, GetEnter, GetLock, GetWait, GetShutdown, GetRemove, GetLeave, Uncounted,
     conds, Empty
<1>4. ASSUME NEW f \in Freers PROVE FreerDrain(f)'
  <2>1. pc[f] = "f_drainwait" => shutdown
    BY DEF DrainInv, FreerDrain
  <2>2. QED
    BY <1>1, <1>2, <1>3, <2>1, DrainedStays, OthersDrain DEF Drained
<1>5. QED
  BY <1>1, <1>4, DrainedStays, UnlockedStep DEF DrainInv

LEMMA TimeoutDrain ==
  ASSUME TypeOK, LockDiscipline, DrainInv, Next, NEW t \in Threads, Timeout(t)
  PROVE  DrainInv'
<1>1. destroyed' = destroyed /\ pc' = pc
  BY DEF Timeout
<1>2. ASSUME NEW f \in Freers PROVE FreerDrain(f)'
  <2>1. CASE f = t
    <3>1. result'[f] = "ETIMEDOUT"
      BY <2>1 DEF Timeout, TypeOK
    <3>2. pc[f] = "f_drain" => shutdown
      BY DEF DrainInv, FreerDrain
    <3>3. QED
      BY <1>1, <2>1, <3>1, DrainedStays DEF DrainInv, FreerDrain
  <2>2. CASE f # t
    <3>1. result'[f] = result[f] /\ (f \in array_emptied' <=> f \in array_emptied)
      BY <2>2 DEF Timeout, TypeOK
    <3>2. QED
      BY <1>1, <3>1, DrainedStays, OthersDrain
  <2>3. QED
    BY <2>1, <2>2
<1>3. QED
  BY <1>1, <1>2, DrainedStays, UnlockedStep DEF DrainInv

LEMMA FreeDrainInv ==
  ASSUME TypeOK, LockDiscipline, DrainInv, Next, ~SpuriousWakeups, NEW f \in Freers, Free(f)
  PROVE  DrainInv'
<1> USE DEF PastDrain
<1>1. ASSUME NEW e \in Freers, e # f PROVE FreerDrain(e)'
  <2>1. pc' = pc \/ (\E l : Goto(f, l))
    BY DEF Free, FreeCall, FreeLock, FreeMark, FreeDrain, DrainEnds, FreeWake, FreeCount,
       FreeUnlock, FreeDestroy, SpuriousWakeup, AwaitEmptied, Acquire
  <2>2. pc'[e] = pc[e]
    BY <1>1, <2>1 DEF Goto, TypeOK, PcType, Threads
  <2>3. CASE AwaitEmptied(f)
    BY <1>1, <2>2, <2>3, DrainedStays, OthersDrain DEF AwaitEmptied, TypeOK
  <2>4. CASE array_emptied' = array_emptied /\ result'[e] = result[e]
    BY <2>2, <2>4, DrainedStays, OthersDrain
  <2>5. CASE FreeCount(f)
    BY <1>1, <2>4, <2>5 DEF FreeCount, TypeOK
  <2>6. CASE FreeMark(f) \/ FreeDrain(f)
    BY <2>3, <2>4, <2>6 DEF FreeMark, FreeDrain, DrainEnds, conds
  <2>7. CASE FreeCall(f) \/ FreeLock(f) \/ FreeWake(f)
    BY <2>4, <2>7 DEF FreeCall, FreeLock, FreeWake, conds
  <2>8. CASE FreeUnlock(f) \/ FreeDestroy(f)
    BY <2>4, <2>8 DEF FreeUnlock, FreeDestroy, conds
  <2>9. QED
    BY <2>5, <2>6, <2>7, <2>8 DEF Free, SpuriousWakeup
<1>2. f \in Threads /\ \A l : Goto(f, l) => pc'[f] = l
  BY DEF Goto, TypeOK, PcType, Threads
<1>3. ASSUME AwaitEmptied(f), shutdown' PROVE FreerDrain(f)'
  BY <1>2, <1>3 DEF AwaitEmptied, FreerDrain
<1>4. CASE FreeCall(f)
  <2>1. destroyed' = destroyed /\ pc'[f] = "f_lock"
    BY <1>2, <1>4 DEF FreeCall
  <2>2. FreerDrain(f)'
    BY <2>1 DEF FreerDrain
  <2>3. QED
    BY <1>1, <2>1, <2>2, DrainedStays, UnlockedStep DEF DrainInv
<1>5. CASE FreeLock(f)
  <2>1. destroyed' = destroyed /\ result' = result /\ array_emptied' = array_emptied
    BY <1>5 DEF FreeLock, conds
  <2>2. \/ pc'[f] \in {"f_mark", "stuck"}
        \/ /\ pc[f] = "f_drainwait" /\ f \notin array_emptied
           /\ pc'[f] = "f_drain"
        \/ pc[f] = "f_countwait" /\ pc'[f] \in {"f_unlock", "f_count"}
    BY <1>2, <1>5 DEF FreeLock, Acquire
  <2>3. FreerDrain(f)'
    BY <2>1, <2>2, DrainedStays DEF DrainInv, FreerDrain
  <2>4. QED
    BY <1>1, <2>1, <2>3, DrainedStays, UnlockedStep DEF DrainInv
<1>6. CASE FreeMark(f)
  <2>1. shutdown' /\ destroyed' = destroyed /\ head' = head /\ tail' = tail
    BY <1>6 DEF FreeMark
  <2>2. FreerDrain(f)'
    <3>1. CASE Empty
      BY <1>2, <1>6, <2>1, <3>1 DEF FreeMark, FreerDrain, Drained, Empty
    <3>2. CASE ~Empty
      BY <1>3, <1>6, <2>1, <3>2 DEF FreeMark
    <3>3. QED
      BY <3>1, <3>2
  <2>3. QED
    BY <1>1, <2>1, <2>2, DrainedStays, UnlockedStep DEF DrainInv
<1>7. CASE FreeDrain(f)
  <2>1. destroyed' = destroyed /\ shutdown /\ shutdown'
    BY <1>7, DrainedStays DEF FreeDrain, DrainEnds, DrainInv, FreerDrain
  <2>2. FreerDrain(f)'
    <3>1. CASE result[f] = "0" \/ Empty
      <4>1. Drained'
        BY <1>7, <2>1, <3>1, DrainedStays
        DEF FreeDrain, DrainEnds, DrainInv, FreerDrain, Drained
      <4>2. QED
        BY <1>2, <1>7, <2>1, <3>1, <4>1 DEF FreeDrain, DrainEnds, FreerDrain
    <3>2. CASE ~(result[f] = "0" \/ Empty)
      BY <1>3, <1>7, <2>1, <3>2 DEF FreeDrain, DrainEnds
    <3>3. QED
      BY <3>1, <3>2
  <2>3. QED
    BY <1>1, <2>1, <2>2, DrainedStays, UnlockedStep DEF DrainInv
<1>8. CASE FreeWake(f) \/ FreeCount(f) \/ FreeUnlock(f) \/ FreeDestroy(f)
  <2>1. pc[f] \in PastDrain /\ pc'[f] \in PastDrain
    BY <1>2, <1>8 DEF FreeWake, FreeCount, FreeUnlock, FreeDestroy
  <2>2. Drained'
    BY <2>1, DrainedStays DEF DrainInv, FreerDrain
  <2>3. QED
    BY <1>1, <2>1, <2>2, UnlockedStep DEF DrainInv, FreerDrain
<1>9. CASE SpuriousWakeup(f)
  BY <1>9 DEF SpuriousWakeup
<1>10. QED
  BY <1>4, <1>5, <1>6, <1>7, <1>8, <1>9 DEF Free

LEMMA DrainInit == Init => DrainInv
  BY DEF Init, DrainInv, FreerDrain, PastDrain, Threads, NoneUnlocked, UnlockedPC

LEMMA DrainStep ==
  ASSUME ~SpuriousWakeups, TypeOK, LockDiscipline, DrainInv, [Next]_vars
  PROVE  DrainInv'
<1>1. CASE UNCHANGED vars
  BY <1>1 DEF vars, ring, conds, DrainInv, FreerDrain, Drained, Empty, NoneUnlocked
<1>2. CASE Next
  BY <1>1, <1>2, PutDrain, GetDrain, FreeDrainInv, TimeoutDrain
  DEF Next, Terminated
<1> QED
  BY <1>1, <1>2

(* array.c:131: if no wait returns 0 by itself, a queue is destroyed only   *)
(* when it is shut down and empty, so no accepted string is left in it.     *)
THEOREM DrainCorrect ==
  ASSUME ~SpuriousWakeups
  PROVE  Spec => []DrainedAtDestroy
<1>1. DrainInv => DrainedAtDestroy
  BY DEF DrainInv, Drained, DrainedAtDestroy
<1> QED
  BY <1>1, DrainInit, DrainStep, TypeCorrect, LockCorrect, PTL DEF Spec

-----------------------------------------------------------------------------
(* The count of active getters.                                             *)

ActiveSet == {g \in Getters : InsideGet(g)}

LEMMA ActiveSetFinite ==
  IsFiniteSet(ActiveSet) /\ Cardinality(ActiveSet) \in Nat
<1>1. ActiveSet \subseteq Getters
  BY DEF ActiveSet
<1> QED
  BY <1>1, FiniteAssumption, FS_Subset, FS_CardinalityType

(* A step that leaves the count alone and takes no getter in or out.        *)
LEMMA CountKept ==
  ASSUME ActiveGettersExact, UNCHANGED active_getters,
         \A g \in Getters : InsideGet(g)' <=> InsideGet(g)
  PROVE  ActiveGettersExact'
<1>1. ActiveSet' = ActiveSet
  BY DEF ActiveSet
<1> QED
  BY <1>1 DEF ActiveSet, ActiveGettersExact

LEMMA OthersDoNotCount ==
  ASSUME TypeOK, ActiveGettersExact, NEW t \in Putters \cup Freers,
         UNCHANGED active_getters, UNCHANGED pc \/ \E l : Goto(t, l)
  PROVE  ActiveGettersExact'
<1>1. \A g \in Getters : pc'[g] = pc[g]
  BY ThreadsAssumption DEF TypeOK, PcType, Goto, Threads
<1> QED
  BY <1>1, CountKept DEF InsideGet

LEMMA GetterMoves ==
  ASSUME TypeOK, NEW g \in Getters, NEW l, Goto(g, l)
  PROVE  /\ pc'[g] = l
         /\ \A h \in Getters \ {g} : pc'[h] = pc[h]
BY DEF TypeOK, PcType, Goto, Threads

LEMMA GetCounts ==
  ASSUME TypeOK, ActiveGettersExact, NEW g \in Getters, Get(g)
  PROVE  ActiveGettersExact'
<1>1. CASE GetEnter(g)
  <2>1. pc[g] = "idle" /\ pc'[g] = "g_lock" /\ \A h \in Getters \ {g} : pc'[h] = pc[h]
    BY <1>1, GetterMoves DEF GetEnter
  <2>2. g \notin ActiveSet /\ ActiveSet' = ActiveSet \cup {g}
    BY <2>1 DEF ActiveSet, InsideGet
  <2>3. Cardinality(ActiveSet') = Cardinality(ActiveSet) + 1
    BY <2>2, ActiveSetFinite, FS_AddElement
  <2> QED
    BY <1>1, <2>3 DEF GetEnter, ActiveGettersExact, ActiveSet
<1>2. CASE GetLock(g) \/ GetWait(g) \/ GetRemove(g) \/ GetUnlocked(g)
  <2> USE DEF GetUnlocked, GetPass, GetTake, GetSee, GetAdvance
  <2>1. PICK l \in {"g_check", "g_wait", "g_leave", "stuck"} \cup UnlockedPC : Goto(g, l)
    BY <1>2 DEF GetLock, GetWait, GetRemove, Acquire, UnlockedPC
  <2>2. /\ pc[g] \in {"g_lock", "g_check", "g_wait"} \cup UnlockedPC
        /\ UNCHANGED active_getters
    BY <1>2 DEF GetLock, GetWait, GetRemove, UnlockedPC
  <2>3. pc'[g] = l /\ \A h \in Getters \ {g} : pc'[h] = pc[h]
    BY <2>1, GetterMoves
  <2> QED
    BY <2>2, <2>3, CountKept DEF InsideGet, UnlockedPC
<1>3. CASE GetShutdown(g) \/ GetLeave(g)
  <2>1. PICK l \in {"idle", "done"} : Goto(g, l)
    BY <1>3 DEF GetShutdown, GetLeave, Uncounted
  <2>2. pc[g] \in {"g_check", "g_leave"} /\ active_getters' = active_getters - 1
    BY <1>3 DEF GetShutdown, GetLeave, Uncounted
  <2>3. pc'[g] = l /\ \A h \in Getters \ {g} : pc'[h] = pc[h]
    BY <2>1, GetterMoves
  <2>4. g \in ActiveSet /\ ActiveSet' = ActiveSet \ {g}
    BY <2>2, <2>3 DEF ActiveSet, InsideGet
  <2>5. Cardinality(ActiveSet') = Cardinality(ActiveSet) - 1
    BY <2>4, ActiveSetFinite, FS_RemoveElement
  <2> QED
    BY <2>2, <2>5 DEF ActiveGettersExact, ActiveSet
<1> QED
  BY <1>1, <1>2, <1>3 DEF Get

LEMMA CountStep ==
  ASSUME TypeOK, ActiveGettersExact, [Next]_vars
  PROVE  ActiveGettersExact'
<1>1. ASSUME NEW p \in Putters, Put(p) PROVE ActiveGettersExact'
  <2>1. UNCHANGED active_getters /\ \E l : Goto(p, l)
    BY <1>1 DEF Put, PutCall, PutLock, Acquire, PutShutdown, UnlockRefused, PutWait, PutStore
  <2> QED
    BY <2>1, OthersDoNotCount
<1>2. ASSUME NEW g \in Getters, Get(g) PROVE ActiveGettersExact'
  BY <1>2, GetCounts
<1>3. ASSUME NEW f \in Freers, Free(f) PROVE ActiveGettersExact'
  <2>1. UNCHANGED active_getters
    BY <1>3 DEF Free, FreeCall, FreeLock, FreeMark, FreeDrain, DrainEnds, FreeWake, FreeCount,
                FreeUnlock, FreeDestroy, SpuriousWakeup
  <2>2. UNCHANGED pc \/ \E l : Goto(f, l)
    BY <1>3 DEF Free, FreeCall, FreeLock, FreeMark, FreeDrain, DrainEnds, FreeWake, FreeCount,
                FreeUnlock, FreeDestroy, SpuriousWakeup, Acquire, AwaitEmptied
  <2> QED
    BY <2>1, <2>2, OthersDoNotCount
<1>4. CASE UNCHANGED <<active_getters, pc>>
  BY <1>4, CountKept DEF InsideGet
<1> QED
  BY <1>1, <1>2, <1>3, <1>4 DEF Next, Timeout, Terminated, vars

LEMMA CountInit == Init => ActiveGettersExact
<1> SUFFICES ASSUME Init PROVE ActiveGettersExact
  OBVIOUS
<1>1. {g \in Getters : InsideGet(g)} = {}
  BY DEF Init, InsideGet, Threads
<1> QED
  BY <1>1, FS_EmptySet DEF Init, ActiveGettersExact

(* active_getters, which is incremented before the mutex is taken and, on   *)
(* the successful path, decremented after it is given up, is the number of  *)
(* threads inside array_get.                                                *)
THEOREM ActiveGettersCorrect == Spec => []ActiveGettersExact
BY TypeCorrect, CountInit, CountStep, PTL DEF Spec
=============================================================================
