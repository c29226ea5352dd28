----------------------------- MODULE ArrayQueue -----------------------------
(***************************************************************************)
(* The circular queue of array.c with its mutex, its four condition        *)
(* variables, its shutdown flag and its count of active getters.           *)
(*                                                                         *)
(* A thread is a program counter and the string it holds.  The grain is    *)
(* the C code's own: an atomic operation outside the mutex is a step, so   *)
(* is taking the mutex, and so is what a thread does from taking the mutex *)
(* to giving it up (in a return or in pthread_cond_timedwait).  A thread   *)
(* asleep in pthread_cond_timedwait is a member of that condition          *)
(* variable's set; a signal or the timeout takes it out, and it then       *)
(* competes for the mutex again.                                           *)
(*                                                                         *)
(* array_free destroys the mutex.  What a later pthread_mutex_lock does is *)
(* undefined: DestroyedLock is the set of outcomes considered.  A getter   *)
(* that goes on without the mutex removes a string one access at a time.   *)
(*                                                                         *)
(* Operators marked "mutant" are no part of the model: each is a wrong     *)
(* version of the definition after it, there to show that some property    *)
(* notices the difference.                                                 *)
(***************************************************************************)
EXTENDS Integers, FiniteSets

CONSTANTS
  Putters,          (* threads that call array_put                         *)
  Getters,          (* threads that call array_get until ARRAY_SHUTDOWN    *)
  Freers,           (* threads that call array_free, once each             *)
  Items,            (* the strings put, all different                      *)
  None,             (* no thread, no item: the NULL pointer                *)
  ARRAY_SIZE,       (* slots of the ring; one always stays empty           *)
  SpuriousWakeups,  (* may a timed wait return 0 without a signal          *)
  DestroyedLock     (* outcomes of locking a destroyed mutex: "acquired",  *)
                    (* "error" (returns without the mutex), "stuck"        *)

Threads == Putters \cup Getters \cup Freers

ASSUME ThreadsAssumption ==
  /\ Putters \cap Getters = {}
  /\ Putters \cap Freers = {}
  /\ Getters \cap Freers = {}
  /\ None \notin Threads
  /\ None \notin Items
ASSUME FiniteAssumption == IsFiniteSet(Getters) /\ IsFiniteSet(Putters)
ASSUME SizeAssumption == ARRAY_SIZE \in Nat /\ ARRAY_SIZE >= 2
ASSUME WakeupAssumption == SpuriousWakeups \in BOOLEAN
ASSUME LockAssumption == DestroyedLock \subseteq {"acquired", "error", "stuck"}

VARIABLES
  storeString, head, tail, shutdown,   (* struct array, under its lock     *)
  active_getters,                      (* atomic_int                       *)
  lock,                                (* owner of the mutex               *)
  not_empty, not_full, all_getters_done, array_emptied,  (* sleepers       *)
  destroyed,                           (* mutex and conditions destroyed   *)
  pc, hand, result,                    (* per thread                       *)
  seen,                                (* the head an unlocked getter read *)
  pending, refused, consumed           (* strings outside the queue        *)

ring  == <<storeString, head, tail, shutdown>>
conds == <<not_empty, not_full, all_getters_done, array_emptied>>
outside == <<pending, refused, consumed>>
vars  == <<ring, active_getters, lock, conds, destroyed, pc, hand, result,
           seen, outside>>

Slots == 0 .. ARRAY_SIZE - 1
SuccUnwrapped(i) == i + 1                     (* mutant: no modulus        *)
Succ(i) == (i + 1) % ARRAY_SIZE
Empty == head = tail
FullUnwrapped == tail + 1 = head              (* mutant: no modulus        *)
Full == Succ(tail) = head

Goto(t, l) == pc' = [pc EXCEPT ![t] = l]

-----------------------------------------------------------------------------
(* pthread_mutex_lock, pthread_mutex_unlock and pthread_cond_signal, as     *)
(* array.c uses them.                                                       *)

(* Taking the mutex; l is where the thread goes on.  On a destroyed mutex   *)
(* the thread may own it, may go on without it, or may hang.                *)
Acquire(t, l) ==
  \/ /\ lock = None
     /\ destroyed => "acquired" \in DestroyedLock
     /\ lock' = t
     /\ Goto(t, l)
  \/ /\ destroyed
     /\ "error" \in DestroyedLock
     /\ UNCHANGED lock
     /\ Goto(t, l)
  \/ /\ destroyed
     /\ "stuck" \in DestroyedLock
     /\ UNCHANGED lock
     /\ Goto(t, "stuck")

Release(t) == lock' = IF lock = t THEN None ELSE lock

(* A set of sleepers after a signal: one of them is woken, if there is one. *)
Signalled(cond) ==
  IF cond = {} THEN {cond} ELSE {cond \ {t} : t \in cond}

Asleep == not_empty \cup not_full \cup all_getters_done \cup array_emptied

-----------------------------------------------------------------------------
(* array_put                                                                *)

PutCall(p, v) ==
  /\ pc[p] = "idle"
  /\ v \in pending
  /\ pending' = pending \ {v}
  /\ hand' = [hand EXCEPT ![p] = v]
  /\ Goto(p, "p_lock")
  /\ UNCHANGED <<ring, active_getters, lock, conds, destroyed, result,
                 seen, refused, consumed>>

(* Entering, or coming back from the wait on not_full.                      *)
PutLock(p) ==
  /\ pc[p] = "p_lock" \/ (pc[p] = "p_wait" /\ p \notin not_full)
  /\ Acquire(p, "p_check")
  /\ UNCHANGED <<ring, active_getters, conds, destroyed, hand, result, seen,
                 outside>>

UnlockForgotten(p) == UNCHANGED lock          (* mutant: no unlock         *)
UnlockRefused(p) == Release(p)

(* The caller keeps the string of a refused put and frees it.               *)
PutShutdown(p) ==
  /\ pc[p] = "p_check"
  /\ shutdown
  /\ UnlockRefused(p)
  /\ refused' = refused \cup {hand[p]}
  /\ hand' = [hand EXCEPT ![p] = None]
  /\ Goto(p, "idle")
  /\ UNCHANGED <<ring, active_getters, conds, destroyed, result, seen,
                 pending, consumed>>

PutWait(p) ==
  /\ pc[p] = "p_check"
  /\ ~shutdown
  /\ Full
  /\ not_full' = not_full \cup {p}
  /\ Release(p)
  /\ Goto(p, "p_wait")
  /\ UNCHANGED <<ring, active_getters, not_empty, all_getters_done,
                 array_emptied, destroyed, hand, result, seen, outside>>

SignalIfEmpty ==                              (* mutant: only if it was    *)
  IF Empty THEN not_empty' \in Signalled(not_empty) ELSE UNCHANGED not_empty
SignalNotEmpty == not_empty' \in Signalled(not_empty)

PutStore(p) ==
  /\ pc[p] = "p_check"
  /\ ~shutdown
  /\ ~Full
  /\ storeString' = [storeString EXCEPT ![tail] = hand[p]]
  /\ tail' = Succ(tail)
  /\ SignalNotEmpty
  /\ Release(p)
  /\ hand' = [hand EXCEPT ![p] = None]
  /\ Goto(p, "idle")
  /\ UNCHANGED <<head, shutdown, active_getters, not_full, all_getters_done,
                 array_emptied, destroyed, result, seen, outside>>

-----------------------------------------------------------------------------
(* array_get                                                                *)

(* The getter is counted before it asks for the mutex.                      *)
GetEnter(g) ==
  /\ pc[g] = "idle"
  /\ active_getters' = active_getters + 1
  /\ Goto(g, "g_lock")
  /\ UNCHANGED <<ring, lock, conds, destroyed, hand, result, seen,
                 outside>>

GetLock(g) ==
  /\ pc[g] = "g_lock" \/ (pc[g] = "g_wait" /\ g \notin not_empty)
  /\ Acquire(g, "g_check")
  /\ UNCHANGED <<ring, active_getters, conds, destroyed, hand, result, seen,
                 outside>>

GetWait(g) ==
  /\ pc[g] = "g_check"
  /\ ~shutdown
  /\ Empty
  /\ not_empty' = not_empty \cup {g}
  /\ Release(g)
  /\ Goto(g, "g_wait")
  /\ UNCHANGED <<ring, active_getters, not_full, all_getters_done,
                 array_emptied, destroyed, hand, result, seen, outside>>

ShutdownAtOnce == shutdown                    (* mutant: items may remain  *)
ToldShutdown == shutdown /\ Empty

(* ARRAY_SHUTDOWN: the two places of array_get that return it do the same.  *)
GetShutdown(g) ==
  /\ pc[g] = "g_check"
  /\ ToldShutdown
  /\ active_getters' = active_getters - 1
  /\ all_getters_done' \in IF active_getters - 1 = 0
                           THEN Signalled(all_getters_done)
                           ELSE {all_getters_done}
  /\ Release(g)
  /\ Goto(g, "done")
  /\ UNCHANGED <<ring, not_empty, not_full, array_emptied, destroyed, hand,
                 result, seen, outside>>

SignalIfFull ==                               (* mutant: only if it was    *)
  IF Full THEN not_full' \in Signalled(not_full) ELSE UNCHANGED not_full
SignalNotFull == not_full' \in Signalled(not_full)

GetRemove(g) ==
  /\ pc[g] = "g_check"
  /\ lock = g
  /\ ~Empty
  /\ hand' = [hand EXCEPT ![g] = storeString[head]]
  /\ head' = Succ(head)
  /\ array_emptied' \in IF head' = tail THEN Signalled(array_emptied)
                                        ELSE {array_emptied}
  /\ SignalNotFull
  /\ Release(g)
  /\ Goto(g, "g_leave")
  /\ UNCHANGED <<storeString, tail, shutdown, active_getters, not_empty,
                 all_getters_done, destroyed, result, seen, outside>>

(* The same without the mutex, on a destroyed queue that still holds        *)
(* strings: what array.c:93, 106 and 107 read and write are steps of their  *)
(* own, between which other getters take theirs.                            *)
GetPass(g) ==
  /\ pc[g] = "g_check"
  /\ lock # g
  /\ ~Empty
  /\ Goto(g, "g_take")
  /\ UNCHANGED <<ring, active_getters, lock, conds, destroyed, hand, result,
                 seen, outside>>

GetTake(g) ==
  /\ pc[g] = "g_take"
  /\ hand' = [hand EXCEPT ![g] = storeString[head]]
  /\ Goto(g, "g_see")
  /\ UNCHANGED <<ring, active_getters, lock, conds, destroyed, result, seen,
                 outside>>

GetSee(g) ==
  /\ pc[g] = "g_see"
  /\ seen' = [seen EXCEPT ![g] = head]
  /\ Goto(g, "g_advance")
  /\ UNCHANGED <<ring, active_getters, lock, conds, destroyed, hand, result,
                 outside>>

(* The test for an empty ring (110) may see the head of another getter.     *)
GetAdvance(g) ==
  /\ pc[g] = "g_advance"
  /\ head' = Succ(seen[g])
  /\ array_emptied' \in {array_emptied} \cup Signalled(array_emptied)
  /\ SignalNotFull
  /\ Release(g)
  /\ Goto(g, "g_leave")
  /\ UNCHANGED <<storeString, tail, shutdown, active_getters, not_empty,
                 all_getters_done, destroyed, hand, result, seen, outside>>

GetUnlocked(g) == GetPass(g) \/ GetTake(g) \/ GetSee(g) \/ GetAdvance(g)

StaysCounted == UNCHANGED active_getters      (* mutant: never uncounted   *)
Uncounted == active_getters' = active_getters - 1

(* The successful getter is uncounted after the mutex is given up, and      *)
(* signals nobody.  Its caller uses and frees the string.                   *)
GetLeave(g) ==
  /\ pc[g] = "g_leave"
  /\ Uncounted
  /\ consumed' = consumed \cup {hand[g]}
  /\ hand' = [hand EXCEPT ![g] = None]
  /\ Goto(g, "idle")
  /\ UNCHANGED <<ring, lock, conds, destroyed, result, seen, pending, refused>>

-----------------------------------------------------------------------------
(* array_free                                                               *)

FreeCall(f) ==
  /\ pc[f] = "idle"
  /\ Goto(f, "f_lock")
  /\ UNCHANGED <<ring, active_getters, lock, conds, destroyed, hand, result,
                 seen, outside>>

FreeLock(f) ==
  /\ \/ pc[f] = "f_lock" /\ Acquire(f, "f_mark")
     \/ pc[f] = "f_drainwait" /\ f \notin array_emptied /\ Acquire(f, "f_drain")
     \/ pc[f] = "f_countwait" /\ f \notin all_getters_done
        /\ Acquire(f, IF result[f] = "0" THEN "f_unlock" ELSE "f_count")
  /\ UNCHANGED <<ring, active_getters, conds, destroyed, hand, result, seen,
                 outside>>

(* Broadcast not_empty and not_full, then wait on array_emptied.            *)
AwaitEmptied(f) ==
  /\ not_empty' = {}
  /\ not_full' = {}
  /\ array_emptied' = array_emptied \cup {f}
  /\ result' = [result EXCEPT ![f] = "0"]
  /\ Release(f)
  /\ Goto(f, "f_drainwait")
  /\ UNCHANGED all_getters_done

FreeMark(f) ==
  /\ pc[f] = "f_mark"
  /\ shutdown' = TRUE
  /\ IF Empty THEN Goto(f, "f_wake") /\ UNCHANGED <<lock, conds, result>>
              ELSE AwaitEmptied(f)
  /\ UNCHANGED <<storeString, head, tail, active_getters, destroyed, hand,
                 seen, outside>>

DrainedOnce(f) == TRUE                        (* mutant: if, not while     *)
DrainEnds(f) == result[f] = "0" \/ Empty

(* After the wait: result 0 ends it whatever the queue holds.               *)
FreeDrain(f) ==
  /\ pc[f] = "f_drain"
  /\ IF DrainEnds(f)
     THEN Goto(f, "f_wake") /\ UNCHANGED <<lock, conds, result>>
     ELSE AwaitEmptied(f)
  /\ UNCHANGED <<ring, active_getters, destroyed, hand, seen, outside>>

FreeWake(f) ==
  /\ pc[f] = "f_wake"
  /\ not_empty' = {}
  /\ not_full' = {}
  /\ Goto(f, "f_count")
  /\ UNCHANGED <<ring, active_getters, lock, all_getters_done, array_emptied,
                 destroyed, hand, result, seen, outside>>

FreeCount(f) ==
  /\ pc[f] = "f_count"
  /\ IF active_getters > 0
     THEN /\ all_getters_done' = all_getters_done \cup {f}
          /\ result' = [result EXCEPT ![f] = "0"]
          /\ Release(f)
          /\ Goto(f, "f_countwait")
     ELSE /\ Goto(f, "f_unlock")
          /\ UNCHANGED <<lock, all_getters_done, result>>
  /\ UNCHANGED <<ring, active_getters, not_empty, not_full, array_emptied,
                 destroyed, hand, seen, outside>>

FreeUnlock(f) ==
  /\ pc[f] = "f_unlock"
  /\ Release(f)
  /\ Goto(f, "f_destroy")
  /\ UNCHANGED <<ring, active_getters, conds, destroyed, hand, result, seen,
                 outside>>

FreeDestroy(f) ==
  /\ pc[f] = "f_destroy"
  /\ destroyed' = TRUE
  /\ Goto(f, "done")
  /\ UNCHANGED <<ring, active_getters, lock, conds, hand, result, seen, outside>>

-----------------------------------------------------------------------------
(* The end of a timed wait without a signal.  array_put and array_get do    *)
(* not look at what pthread_cond_timedwait returned; array_free does.       *)

Timeout(t) ==
  /\ t \in Asleep
  /\ not_empty' = not_empty \ {t}
  /\ not_full' = not_full \ {t}
  /\ all_getters_done' = all_getters_done \ {t}
  /\ array_emptied' = array_emptied \ {t}
  /\ result' = IF t \in Freers THEN [result EXCEPT ![t] = "ETIMEDOUT"]
                               ELSE result
  /\ UNCHANGED <<ring, active_getters, lock, destroyed, pc, hand, seen, outside>>

SpuriousWakeup(f) ==
  /\ SpuriousWakeups
  /\ f \in all_getters_done \cup array_emptied
  /\ all_getters_done' = all_getters_done \ {f}
  /\ array_emptied' = array_emptied \ {f}
  /\ UNCHANGED <<ring, active_getters, lock, not_empty, not_full, destroyed,
                 pc, hand, result, seen, outside>>

-----------------------------------------------------------------------------
(* array_init, before any thread uses the queue.                            *)
Init ==
  /\ storeString = [i \in Slots |-> None]
  /\ head = 0
  /\ tail = 0
  /\ shutdown = FALSE
  /\ active_getters = 0
  /\ lock = None
  /\ not_empty = {}
  /\ not_full = {}
  /\ all_getters_done = {}
  /\ array_emptied = {}
  /\ destroyed = FALSE
  /\ pc = [t \in Threads |-> "idle"]
  /\ hand = [t \in Putters \cup Getters |-> None]
  /\ result = [f \in Freers |-> "0"]
  /\ seen = [g \in Getters |-> 0]
  /\ pending = Items
  /\ refused = {}
  /\ consumed = {}

Put(p) ==
  \/ \E v \in Items : PutCall(p, v)
  \/ PutLock(p) \/ PutShutdown(p) \/ PutWait(p) \/ PutStore(p)

Get(g) ==
  \/ GetEnter(g) \/ GetLock(g) \/ GetWait(g) \/ GetShutdown(g)
  \/ GetRemove(g) \/ GetLeave(g) \/ GetUnlocked(g)

Free(f) ==
  \/ FreeCall(f) \/ FreeLock(f) \/ FreeMark(f) \/ FreeDrain(f) \/ FreeWake(f)
  \/ FreeCount(f) \/ FreeUnlock(f) \/ FreeDestroy(f) \/ SpuriousWakeup(f)

(* Every thread has returned for good: nothing is left to happen.           *)
Terminated ==
  /\ \A t \in Getters \cup Freers : pc[t] \in {"done", "stuck"}
  /\ \A p \in Putters : pc[p] = "stuck" \/ (pc[p] = "idle" /\ pending = {})
  /\ UNCHANGED vars

Next ==
  \/ \E p \in Putters : Put(p)
  \/ \E g \in Getters : Get(g)
  \/ \E f \in Freers : Free(f)
  \/ \E t \in Threads : Timeout(t)
  \/ Terminated

Spec == Init /\ [][Next]_vars

(* A timed wait ends, a thread that is running goes on, a getter calls      *)
(* again, and a thread that keeps asking for the mutex gets it some time.   *)
(* Nothing makes a client put an item or call array_free.                   *)
Fairness ==
  /\ \A t \in Threads : WF_vars(Timeout(t))
  /\ \A p \in Putters :
       SF_vars(PutLock(p)) /\ WF_vars(PutShutdown(p) \/ PutWait(p) \/ PutStore(p))
  /\ \A g \in Getters :
       /\ SF_vars(GetLock(g))
       /\ WF_vars(GetEnter(g) \/ GetWait(g) \/ GetShutdown(g) \/ GetRemove(g)
                    \/ GetLeave(g) \/ GetUnlocked(g))
  /\ \A f \in Freers :
       /\ SF_vars(FreeLock(f))
       /\ WF_vars(FreeMark(f) \/ FreeDrain(f) \/ FreeWake(f) \/ FreeCount(f)
                    \/ FreeUnlock(f) \/ FreeDestroy(f))

FairSpec == Spec /\ Fairness

-----------------------------------------------------------------------------
(* What the ring holds, oldest first.                                       *)
Count == (tail + ARRAY_SIZE - head) % ARRAY_SIZE
Contents == [i \in 1 .. Count |-> storeString[(head + i - 1) % ARRAY_SIZE]]

PutterPC == {"idle", "p_lock", "p_check", "p_wait", "stuck"}
UnlockedPC == {"g_take", "g_see", "g_advance"}
GetterPC == {"idle", "g_lock", "g_check", "g_wait", "g_take", "g_see", "g_advance",
             "g_leave", "done", "stuck"}
FreerPC  == {"idle", "f_lock", "f_mark", "f_drainwait", "f_drain", "f_wake",
             "f_count", "f_countwait", "f_unlock", "f_destroy", "done", "stuck"}

PcType ==
  /\ pc \in [Threads -> PutterPC \cup GetterPC \cup FreerPC]
  /\ \A p \in Putters : pc[p] \in PutterPC
  /\ \A g \in Getters : pc[g] \in GetterPC
  /\ \A f \in Freers : pc[f] \in FreerPC

CriticalPC == {"p_check", "g_check", "g_take", "g_see", "g_advance",
               "f_mark", "f_drain", "f_wake", "f_count", "f_unlock"}
InCritical(t) == pc[t] \in CriticalPC
InsideGet(g) ==
  pc[g] \in {"g_lock", "g_check", "g_wait", "g_take", "g_see", "g_advance", "g_leave",
            "stuck"}

(* The type invariant: where each thread can be, who can sleep on which     *)
(* condition variable, and the ring's indices within the ring.              *)
TypeOK ==
  /\ storeString \in [Slots -> Items \cup {None}]
  /\ head \in Slots
  /\ tail \in Slots
  /\ shutdown \in BOOLEAN
  /\ active_getters \in Int
  /\ lock \in Threads \cup {None}
  /\ not_empty \subseteq Getters
  /\ not_full \subseteq Putters
  /\ all_getters_done \subseteq Freers
  /\ array_emptied \subseteq Freers
  /\ destroyed \in BOOLEAN
  /\ PcType
  /\ hand \in [Putters \cup Getters -> Items \cup {None}]
  /\ result \in [Freers -> {"0", "ETIMEDOUT"}]
  /\ seen \in [Getters -> Slots]
  /\ pending \subseteq Items
  /\ refused \subseteq Items \cup {None}
  /\ consumed \subseteq Items \cup {None}

(* Until array_free destroys it the mutex is owned exactly while its owner  *)
(* is between pthread_mutex_lock and the matching unlock or wait: no return *)
(* of array_put, array_get or array_free keeps it, and none runs without it.*)
LockDiscipline ==
  ~destroyed => \A t \in Threads : InCritical(t) <=> lock = t

(* Every malloc'd string has exactly one owner: the client that has not put *)
(* it yet, a thread, one slot of the ring, the putter that was refused, or  *)
(* the getter that used it.  Two owners would be a double free, none a leak.*)
OneOwner ==
  \A v \in Items :
    Cardinality({v} \cap pending) + Cardinality({v} \cap refused)
      + Cardinality({v} \cap consumed)
      + Cardinality({t \in Putters \cup Getters : hand[t] = v})
      + Cardinality({i \in 1 .. Count : Contents[i] = v}) = 1

(* active_getters is the number of threads inside array_get, on every path  *)
(* through it: array_free relies on it to know when it may destroy.         *)
ActiveGettersExact ==
  active_getters = Cardinality({g \in Getters : InsideGet(g)})

(* One pthread_cond_signal per put is enough: while some getter sleeps on   *)
(* not_empty, as many getters are already awake and bound to look at the    *)
(* ring as it holds items.  No getter depends on its timeout for an item.   *)
NoLostNotEmpty ==
  not_empty # {} =>
    Count <= Cardinality({g \in Getters : pc[g] \in {"g_check", "g_wait"}} \ not_empty)

(* The same for not_full: while some putter sleeps, as many putters are     *)
(* awake as the ring has free slots.                                        *)
NoLostNotFull ==
  not_full # {} =>
    ARRAY_SIZE - 1 - Count
      <= Cardinality({p \in Putters : pc[p] \in {"p_check", "p_wait"}} \ not_full)

(* array.c:131, "Wait for queue to be processed before completing shutdown":*)
(* a destroyed queue is shut down and empty, so that a thread that still    *)
(* comes to it, with or without the mutex, can only be told ARRAY_SHUTDOWN. *)
DrainedAtDestroy == destroyed => shutdown /\ Empty

(* The queue is the bounded FIFO queue that closes: see BoundedQueue.       *)
BQ == INSTANCE BoundedQueue WITH
        Capacity <- ARRAY_SIZE - 1,
        items    <- Contents,
        closed   <- shutdown,
        released <- destroyed,
        finished <- {g \in Getters : pc[g] = "done"}

ImplementsBoundedQueue == BQ!Spec

(* array_free returns, whatever the clients do meanwhile: the queue is      *)
(* drained and every sleeper it needs wakes up.                             *)
FreeReturns == \A f \in Freers : pc[f] = "f_lock" ~> pc[f] = "done"

(* Two getters advance head at once, one of them without the mutex.         *)
Race ==
  \E g, u \in Getters :
    g # u /\ pc[g] \in UnlockedPC /\ (pc[u] \in UnlockedPC \/ lock = u)

(* Every string that array_put accepted is handed to a getter, also when    *)
(* the queue is shut down while the string waits in it; and also when       *)
(* array_free was deceived by a spurious wakeup and destroyed the queue     *)
(* around it, unless two getters then race for the head (array.c:106).      *)
AcceptedIsConsumed ==
  \A v \in Items :
    ~destroyed /\ (\E i \in 1 .. Count : Contents[i] = v)
      ~> v \in consumed \/ Race

(* After shutdown every getter is eventually told ARRAY_SHUTDOWN; with such *)
(* a race head may step over tail, and never meet it.                       *)
GettersStop == shutdown ~> ((\A g \in Getters : pc[g] = "done") \/ Race)
=============================================================================
