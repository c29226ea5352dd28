------------------------- MODULE ArrayQueueCorrect -------------------------
(***************************************************************************)
(* What the queue promises, for every ring size and every number of        *)
(* threads.  The ring is a sequence: ArrayQueue implements BoundedQueue.   *)
(* Every string has one owner.  No wakeup is lost: one pthread_cond_signal *)
(* for each put and each get, and the two broadcasts of array_free, leave  *)
(* no thread asleep that only its own timeout would save.                  *)
(***************************************************************************)
EXTENDS ArrayQueueProofs, DataLemmas

(* The modulus as a case distinction, which is how the provers take it.     *)
LEMMA ModOnce ==
  \A a \in 0 .. 2 * ARRAY_SIZE - 1 :
    a % ARRAY_SIZE = IF a < ARRAY_SIZE THEN a ELSE a - ARRAY_SIZE
  BY SizeAssumption

LEMMA SuccIs ==
  \A i \in Slots : Succ(i) = IF i = ARRAY_SIZE - 1 THEN 0 ELSE i + 1
  BY SizeAssumption, ModOnce DEF Slots, Succ

LEMMA CountIs ==
  \A h, t \in Slots :
    (t + ARRAY_SIZE - h) % ARRAY_SIZE = IF t >= h THEN t - h
                                                  ELSE t + ARRAY_SIZE - h
<1> SUFFICES ASSUME NEW h \in Slots, NEW t \in Slots
             PROVE  (t + ARRAY_SIZE - h) % ARRAY_SIZE
                      = IF t >= h THEN t - h ELSE t + ARRAY_SIZE - h
  OBVIOUS
<1> DEFINE a == t + ARRAY_SIZE - h
<1>1. a \in 0 .. 2 * ARRAY_SIZE - 1
  BY SizeAssumption DEF Slots
<1>2. a % ARRAY_SIZE = IF a < ARRAY_SIZE THEN a ELSE a - ARRAY_SIZE
  <2> HIDE DEF a
  <2> QED
    BY <1>1, ModOnce
<1> QED
  BY <1>2, SizeAssumption DEF Slots

(* The slot of the i-th oldest string, when the oldest is in slot h.        *)
SlotOf(h, i) == IF h + i - 1 < ARRAY_SIZE THEN h + i - 1
                                          ELSE h + i - 1 - ARRAY_SIZE

LEMMA SlotIs ==
  \A h \in Slots, i \in 1 .. ARRAY_SIZE :
    (h + i - 1) % ARRAY_SIZE = SlotOf(h, i) /\ SlotOf(h, i) \in Slots
<1> SUFFICES ASSUME NEW h \in Slots, NEW i \in 1 .. ARRAY_SIZE
             PROVE  (h + i - 1) % ARRAY_SIZE = SlotOf(h, i) /\ SlotOf(h, i) \in Slots
  OBVIOUS
<1> DEFINE a == h + i - 1
<1>1. a \in 0 .. 2 * ARRAY_SIZE - 1
  BY SizeAssumption DEF Slots
<1>2. a % ARRAY_SIZE = IF a < ARRAY_SIZE THEN a ELSE a - ARRAY_SIZE
  <2> HIDE DEF a
  <2> QED
    BY <1>1, ModOnce
<1> QED
  BY <1>2, SizeAssumption DEF Slots, SlotOf

RingType ==
  head \in Slots /\ tail \in Slots /\ storeString \in [Slots -> Items \cup {None}]

(* The queue holds from 0 to ARRAY_SIZE - 1 strings.                        *)
LEMMA RingShape ==
  ASSUME RingType
  PROVE  /\ Count \in 0 .. ARRAY_SIZE - 1
         /\ Empty <=> Count = 0
         /\ Full <=> Count = ARRAY_SIZE - 1
<1>1. Count = IF tail >= head THEN tail - head ELSE tail + ARRAY_SIZE - head
  BY CountIs DEF RingType, Count
<1>2. Count \in 0 .. ARRAY_SIZE - 1 /\ (Empty <=> Count = 0)
  BY <1>1, SizeAssumption DEF RingType, Slots, Empty
<1>3. Full <=> Count = ARRAY_SIZE - 1
  BY <1>1, SuccIs, SizeAssumption DEF RingType, Slots, Full
<1> QED
  BY <1>2, <1>3

LEMMA ContentsShape ==
  ASSUME RingType
  PROVE  /\ Contents = [i \in 1 .. Count |-> storeString[SlotOf(head, i)]]
         /\ Contents \in Seq(Items \cup {None})
         /\ Len(Contents) = Count
<1>1. Count \in Nat /\ \A i \in 1 .. Count : i \in 1 .. ARRAY_SIZE
  BY RingShape, SizeAssumption
<1>2. \A i \in 1 .. Count : (head + i - 1) % ARRAY_SIZE = SlotOf(head, i)
                            /\ SlotOf(head, i) \in Slots
  BY <1>1, SlotIs DEF RingType
<1>3. Contents = [i \in 1 .. Count |-> storeString[SlotOf(head, i)]]
  BY <1>2 DEF Contents
<1>4. \A i \in 1 .. Count : storeString[SlotOf(head, i)] \in Items \cup {None}
  BY <1>2 DEF RingType
<1> QED
  BY <1>1, <1>3, <1>4

(* array_put: the string joins at the end.                                  *)
LEMMA StoreAppends ==
  ASSUME RingType, ~Full, NEW v \in Items \cup {None},
         storeString' = [storeString EXCEPT ![tail] = v],
         tail' = Succ(tail), UNCHANGED head
  PROVE  Count' = Count + 1 /\ Contents' = Append(Contents, v)
<1>1. RingType' /\ Count < ARRAY_SIZE - 1 /\ Count \in Nat
  BY RingShape, SuccInSlots, SizeAssumption DEF RingType
<1>2. Count = (IF tail >= head THEN tail - head ELSE tail + ARRAY_SIZE - head)
      /\ Count' = (IF tail' >= head' THEN tail' - head' ELSE tail' + ARRAY_SIZE - head')
  BY <1>1, CountIs DEF RingType, Count
<1>3. Count' = Count + 1
  BY <1>1, <1>2, SuccIs, SizeAssumption DEF RingType, Slots
<1>4. \A i \in 1 .. Count : SlotOf(head, i) # tail /\ SlotOf(head, i) \in Slots
  BY <1>1, <1>2, SizeAssumption DEF RingType, Slots, SlotOf
<1>5. SlotOf(head, Count + 1) = tail
  BY <1>1, <1>2, SizeAssumption DEF RingType, Slots, SlotOf
<1>6. Contents' = [i \in 1 .. Count' |-> storeString'[SlotOf(head', i)]]
  <2>1. \A i \in 1 .. Count' : i \in 1 .. ARRAY_SIZE
    BY <1>1, <1>3, SizeAssumption
  <2>2. \A i \in 1 .. Count' : (head' + i - 1) % ARRAY_SIZE = SlotOf(head', i)
    BY <1>1, <2>1, SlotIs DEF RingType
  <2> QED
    BY <2>2 DEF Contents
<1>7. /\ Contents = [i \in 1 .. Count |-> storeString[SlotOf(head, i)]]
      /\ Contents \in Seq(Items \cup {None}) /\ Len(Contents) = Count
  BY ContentsShape
<1> DEFINE app == Append(Contents, v)
<1>8. app = [i \in 1 .. Count + 1 |-> IF i <= Count THEN Contents[i] ELSE v]
  BY <1>1, <1>7
<1>9. \A i \in 1 .. Count + 1 :
        storeString'[SlotOf(head, i)] = IF i <= Count THEN Contents[i] ELSE v
  <2> SUFFICES ASSUME NEW i \in 1 .. Count + 1
               PROVE  storeString'[SlotOf(head, i)]
                        = IF i <= Count THEN Contents[i] ELSE v
    OBVIOUS
  <2>1. CASE i <= Count
    BY <1>1, <1>4, <1>7, <2>1 DEF RingType
  <2>2. CASE i = Count + 1
    BY <1>1, <1>5, <2>2 DEF RingType
  <2> QED
    BY <1>1, <2>1, <2>2
<1> QED
  BY <1>3, <1>6, <1>8, <1>9

(* array_get: the oldest string leaves.                                     *)
LEMMA RemoveTakesHead ==
  ASSUME RingType, ~Empty, head' = Succ(head), UNCHANGED <<tail, storeString>>
  PROVE  /\ Count' = Count - 1
         /\ Contents # <<>>
         /\ storeString[head] = Head(Contents)
         /\ Contents' = Tail(Contents)
<1>1. RingType' /\ Count > 0 /\ Count \in Nat /\ Count < ARRAY_SIZE
  BY RingShape, SuccInSlots, SizeAssumption DEF RingType
<1>2. Count = (IF tail >= head THEN tail - head ELSE tail + ARRAY_SIZE - head)
      /\ Count' = (IF tail' >= head' THEN tail' - head' ELSE tail' + ARRAY_SIZE - head')
  BY <1>1, CountIs DEF RingType, Count
<1>3. Count' = Count - 1
  BY <1>1, <1>2, SuccIs, SizeAssumption DEF RingType, Slots, Empty
<1>4. \A i \in 1 .. Count - 1 : SlotOf(head', i) = SlotOf(head, i + 1)
  BY <1>1, <1>2, SuccIs, SizeAssumption DEF RingType, Slots, SlotOf
<1>5. SlotOf(head, 1) = head
  BY SizeAssumption DEF RingType, Slots, SlotOf
<1>6. Contents' = [i \in 1 .. Count' |-> storeString'[SlotOf(head', i)]]
  <2>1. \A i \in 1 .. Count' : i \in 1 .. ARRAY_SIZE
    BY <1>1, <1>3, SizeAssumption
  <2>2. \A i \in 1 .. Count' : (head' + i - 1) % ARRAY_SIZE = SlotOf(head', i)
    BY <1>1, <2>1, SlotIs DEF RingType
  <2> QED
    BY <2>2 DEF Contents
<1>7. /\ Contents = [i \in 1 .. Count |-> storeString[SlotOf(head, i)]]
      /\ Contents \in Seq(Items \cup {None}) /\ Len(Contents) = Count
  BY ContentsShape
<1>8. Contents # <<>> /\ Head(Contents) = storeString[head]
  BY <1>1, <1>5, <1>7
<1>9. Tail(Contents) = [i \in 1 .. Count - 1 |-> Contents[i + 1]]
  BY <1>1, <1>7, <1>8
<1>10. \A i \in 1 .. Count - 1 : Contents[i + 1] = storeString[SlotOf(head', i)]
  BY <1>1, <1>4, <1>7
<1> QED
  BY <1>3, <1>6, <1>8, <1>9, <1>10

LEMMA RingKept ==
  ASSUME UNCHANGED <<storeString, head, tail>>
  PROVE  Count' = Count /\ Contents' = Contents /\ (Empty' <=> Empty)
  BY DEF Count, Contents, Empty

-----------------------------------------------------------------------------
(* Which steps move a string, close the queue or destroy it.  That nobody   *)
(* removes one without the mutex is what the drain invariant is for: here,  *)
(* and as long as strings are followed, no wait returns 0 by itself.        *)

LEMMA DrainAlways ==
  ASSUME ~SpuriousWakeups
  PROVE  Spec => []DrainInv
  BY DrainInit, DrainStep, TypeCorrect, LockCorrect, PTL DEF Spec

Quiet ==
  /\ UNCHANGED <<storeString, head, tail, shutdown, destroyed, hand, outside>>
  /\ \A p \in Putters : pc'[p] = "idle" <=> pc[p] = "idle"
  /\ \A g \in Getters : \A l \in {"g_leave", "done"} : pc'[g] = l <=> pc[g] = l

Moving ==
  \/ \E p \in Putters : \/ \E v \in Items : PutCall(p, v)
                        \/ PutShutdown(p) \/ PutStore(p)
  \/ \E g \in Getters : GetShutdown(g) \/ GetRemove(g) \/ GetLeave(g)
  \/ \E f \in Freers : FreeMark(f) \/ FreeDestroy(f)

(* A thread that goes from one place to another leaves the others alone.    *)
LEMMA ThreadMoves ==
  ASSUME TypeOK, NEW t \in Threads, NEW l, Goto(t, l)
  PROVE  \A u \in Threads : pc'[u] = IF u = t THEN l ELSE pc[u]
  BY DEF TypeOK, PcType, Goto

LEMMA QuietSteps ==
  ASSUME TypeOK, LockDiscipline, DrainInv, [Next]_vars
  PROVE  Quiet \/ Moving
<1> DEFINE kept == UNCHANGED <<storeString, head, tail, shutdown, destroyed, hand,
                               outside>>
<1>1. ASSUME NEW t \in Threads, NEW l, Goto(t, l), kept,
             t \in Putters => pc[t] # "idle" /\ l # "idle",
             t \in Getters => {pc[t], l} \cap {"g_leave", "done"} = {}
      PROVE  Quiet
  BY <1>1, ThreadMoves DEF Quiet, Threads
<1>2. ASSUME kept, UNCHANGED pc PROVE Quiet
  BY <1>2 DEF Quiet
<1>3. ASSUME NEW p \in Putters, PutLock(p) \/ PutWait(p) PROVE Quiet
  <2>1. p \in Threads /\ p \notin Getters
    BY ThreadsAssumption DEF Threads
  <2>2. PICK l \in {"p_check", "p_wait", "stuck"} : Goto(p, l)
    BY <1>3 DEF PutLock, PutWait, Acquire
  <2>3. kept /\ pc[p] \in {"p_lock", "p_wait", "p_check"}
    BY <1>3 DEF PutLock, PutWait, ring
  <2> QED
    BY <1>1, <2>1, <2>2, <2>3
<1>4. ASSUME NEW g \in Getters, GetEnter(g) \/ GetLock(g) \/ GetWait(g) PROVE Quiet
  <2>1. g \in Threads /\ g \notin Putters
    BY ThreadsAssumption DEF Threads
  <2>2. PICK l \in {"g_lock", "g_check", "g_wait", "stuck"} : Goto(g, l)
    BY <1>4 DEF GetEnter, GetLock, GetWait, Acquire
  <2>3. kept /\ pc[g] \in {"idle", "g_lock", "g_wait", "g_check"}
    BY <1>4 DEF GetEnter, GetLock, GetWait, ring
  <2> QED
    BY <1>1, <2>1, <2>2, <2>3
<1>5. ASSUME NEW f \in Freers,
             \/ FreeCall(f) \/ FreeLock(f) \/ FreeDrain(f) \/ FreeWake(f)
             \/ FreeCount(f) \/ FreeUnlock(f) \/ SpuriousWakeup(f)
      PROVE  Quiet
  <2>1. f \in Threads /\ f \notin Putters /\ f \notin Getters
    BY ThreadsAssumption DEF Threads
  <2>2. kept
    BY <1>5 DEF FreeCall, FreeLock, FreeDrain, FreeWake, FreeCount, FreeUnlock,
                SpuriousWakeup, ring
  <2>3. UNCHANGED pc \/ \E l : Goto(f, l)
    BY <1>5 DEF FreeCall, FreeLock, FreeDrain, FreeWake, FreeCount, FreeUnlock,
                SpuriousWakeup, Acquire, AwaitEmptied
  <2> QED
    BY <1>1, <1>2, <2>1, <2>2, <2>3
<1>6. ASSUME UNCHANGED vars \/ \E t \in Threads : Timeout(t) PROVE Quiet
  BY <1>2, <1>6 DEF vars, Timeout, ring
<1> QED
  BY <1>3, <1>4, <1>5, <1>6, NeverUnlocked DEF Next, Put, Get, Free, Terminated, Moving

-----------------------------------------------------------------------------
(* Who holds a string: a putter from its call to the end of it, a getter    *)
(* from the removal until it has used it, and every occupied slot.          *)

RingStays == Count' = Count /\ Contents' = Contents

HandsFull ==
  /\ \A p \in Putters : hand[p] = None <=> pc[p] = "idle"
  /\ \A g \in Getters : hand[g] # None <=> pc[g] = "g_leave"
SlotsFull == \A i \in 1 .. Count : Contents[i] \in Items
Holding == HandsFull /\ SlotsFull

LEMMA TypeRing == TypeOK => RingType
  BY DEF TypeOK, RingType

LEMMA HandSet ==
  ASSUME TypeOK, NEW t \in Putters \cup Getters, NEW v,
         hand' = [hand EXCEPT ![t] = v]
  PROVE  \A u \in Putters \cup Getters : hand'[u] = IF u = t THEN v ELSE hand[u]
  BY DEF TypeOK

LEMMA RolesAreThreads ==
  /\ Putters \subseteq Threads /\ Getters \subseteq Threads /\ Freers \subseteq Threads
  /\ Putters \cap Getters = {} /\ Putters \cap Freers = {} /\ Getters \cap Freers = {}
  /\ None \notin Items
  BY ThreadsAssumption DEF Threads

LEMMA HandsMove ==
  ASSUME TypeOK, HandsFull, NEW t \in Putters \cup Getters, NEW v, NEW l,
         hand' = [hand EXCEPT ![t] = v], Goto(t, l),
         t \in Putters => (v = None <=> l = "idle"),
         t \in Getters => (v # None <=> l = "g_leave")
  PROVE  HandsFull'
<1>1. \A u \in Putters \cup Getters : hand'[u] = IF u = t THEN v ELSE hand[u]
  BY HandSet
<1>2. \A u \in Putters \cup Getters : pc'[u] = IF u = t THEN l ELSE pc[u]
  BY ThreadMoves, RolesAreThreads
<1> QED
  BY <1>1, <1>2 DEF HandsFull

LEMMA PutStoreAppends ==
  ASSUME TypeOK, NEW p \in Putters, PutStore(p)
  PROVE  Count' = Count + 1 /\ Contents' = Append(Contents, hand[p])
<1>1. RingType /\ hand[p] \in Items \cup {None}
  BY TypeRing DEF TypeOK
<1> QED
  BY <1>1, StoreAppends DEF PutStore

LEMMA GetRemoveTakesHead ==
  ASSUME TypeOK, NEW g \in Getters, GetRemove(g)
  PROVE  /\ Count' = Count - 1
         /\ Contents # <<>>
         /\ hand' = [hand EXCEPT ![g] = Head(Contents)]
         /\ Contents' = Tail(Contents)
<1>1. RingType
  BY TypeRing
<1> QED
  BY <1>1, RemoveTakesHead DEF GetRemove

(* The steps other than PutStore and GetRemove leave the ring alone.        *)
LEMMA OthersKeepRing ==
  /\ \A p \in Putters : /\ \A v \in Items : PutCall(p, v) => RingStays
                        /\ PutShutdown(p) => RingStays
  /\ \A g \in Getters : GetShutdown(g) \/ GetLeave(g) => RingStays
  /\ \A f \in Freers : FreeMark(f) \/ FreeDestroy(f) => RingStays
  BY RingKept DEF RingStays, PutCall, PutShutdown, GetShutdown, GetLeave, FreeMark,
                  FreeDestroy, ring

LEMMA HoldingStep ==
  ASSUME TypeOK, LockDiscipline, DrainInv, Holding, [Next]_vars
  PROVE  Holding'
<1>1. CASE Quiet
  BY <1>1, RingKept DEF Quiet, Holding, HandsFull, SlotsFull
<1>2. ASSUME NEW p \in Putters,
             (\E v \in Items : PutCall(p, v)) \/ PutShutdown(p)
      PROVE  Holding'
  <2>1. RingStays
    BY <1>2, OthersKeepRing
  <2>2. PICK v \in Items \cup {None}, l \in {"p_lock", "idle"} :
          /\ hand' = [hand EXCEPT ![p] = v] /\ Goto(p, l)
          /\ v = None <=> l = "idle"
    BY <1>2, RolesAreThreads DEF PutCall, PutShutdown
  <2> QED
    BY <2>1, <2>2, HandsMove, RolesAreThreads DEF Holding, SlotsFull, RingStays
<1>3. ASSUME NEW p \in Putters, PutStore(p) PROVE Holding'
  <2>1. Count' = Count + 1 /\ Contents' = Append(Contents, hand[p])
    BY <1>3, PutStoreAppends
  <2>2. hand[p] \in Items
    BY <1>3 DEF PutStore, Holding, HandsFull, TypeOK
  <2>3. Contents \in Seq(Items \cup {None}) /\ Len(Contents) = Count
    BY TypeRing, ContentsShape
  <2>4. SlotsFull'
    BY <2>1, <2>2, <2>3 DEF Holding, SlotsFull
  <2>5. hand' = [hand EXCEPT ![p] = None] /\ Goto(p, "idle")
    BY <1>3 DEF PutStore
  <2>6. HandsFull'
    BY <2>5, HandsMove, RolesAreThreads DEF Holding
  <2> QED
    BY <2>4, <2>6 DEF Holding
<1>4. ASSUME NEW g \in Getters, GetShutdown(g) \/ GetLeave(g)
      PROVE  Holding'
  <2>1. RingStays
    BY <1>4, OthersKeepRing
  <2>2. CASE GetShutdown(g)
    <3>1. UNCHANGED hand /\ Goto(g, "done") /\ pc[g] = "g_check"
      BY <2>2 DEF GetShutdown
    <3> QED
      BY <2>1, <3>1, ThreadMoves, RolesAreThreads
      DEF Holding, HandsFull, SlotsFull, RingStays
  <2>3. CASE GetLeave(g)
    <3>1. hand' = [hand EXCEPT ![g] = None] /\ Goto(g, "idle")
      BY <2>3 DEF GetLeave
    <3> QED
      BY <2>1, <3>1, HandsMove, RolesAreThreads DEF Holding, SlotsFull, RingStays
  <2> QED
    BY <1>4, <2>2, <2>3
<1>5. ASSUME NEW g \in Getters, GetRemove(g) PROVE Holding'
  <2>1. /\ Count' = Count - 1 /\ Contents # <<>> /\ Contents' = Tail(Contents)
        /\ hand' = [hand EXCEPT ![g] = Head(Contents)]
    BY <1>5, GetRemoveTakesHead
  <2>2. Contents \in Seq(Items \cup {None}) /\ Len(Contents) = Count
    BY TypeRing, ContentsShape
  <2>3. Head(Contents) \in Items /\ SlotsFull'
    BY <2>1, <2>2 DEF Holding, SlotsFull
  <2>4. Goto(g, "g_leave")
    BY <1>5 DEF GetRemove
  <2>5. HandsFull'
    BY <2>1, <2>3, <2>4, HandsMove, RolesAreThreads DEF Holding
  <2> QED
    BY <2>3, <2>5 DEF Holding
<1>6. ASSUME NEW f \in Freers, FreeMark(f) \/ FreeDestroy(f)
      PROVE  Holding'
  <2>1. RingStays
    BY <1>6, OthersKeepRing
  <2>2. UNCHANGED hand /\ \E l : Goto(f, l)
    BY <1>6 DEF FreeMark, FreeDestroy, AwaitEmptied
  <2> QED
    BY <2>1, <2>2, ThreadMoves, RolesAreThreads
    DEF Holding, HandsFull, SlotsFull, RingStays
<1> QED
  BY <1>1, <1>2, <1>3, <1>4, <1>5, <1>6, QuietSteps DEF Moving

LEMMA HoldingInit == Init => Holding
<1> SUFFICES ASSUME Init PROVE Holding
  OBVIOUS
<1>1. RingType /\ Empty
  BY SizeAssumption DEF Init, RingType, Slots, Empty
<1>2. Count = 0
  BY <1>1, RingShape
<1> QED
  BY <1>2, RolesAreThreads DEF Init, Holding, HandsFull, SlotsFull

LEMMA HoldingAlways ==
  ASSUME ~SpuriousWakeups
  PROVE  Spec => []Holding
  BY HoldingInit, HoldingStep, TypeCorrect, LockCorrect, DrainAlways, PTL DEF Spec

-----------------------------------------------------------------------------
(* The owner of a string.  Counting owners is not inductive by itself: that *)
(* a string leaves a thread or the ring when it is moved needs that it was  *)
(* in no second hand and no second slot.  Stated with quantifiers, the      *)
(* count follows at the end.                                                *)

Handed(v) == \E t \in Putters \cup Getters : hand[t] = v
Queued(v) == v \in Range(Contents)

ExactlyOne(a, b, c, d, e) ==
  \/ a /\ ~b /\ ~c /\ ~d /\ ~e
  \/ ~a /\ b /\ ~c /\ ~d /\ ~e
  \/ ~a /\ ~b /\ c /\ ~d /\ ~e
  \/ ~a /\ ~b /\ ~c /\ d /\ ~e
  \/ ~a /\ ~b /\ ~c /\ ~d /\ e

HandsDiffer ==
  \A t, u \in Putters \cup Getters : hand[t] \in Items /\ hand[t] = hand[u] => t = u

SoleOwner ==
  /\ HandsDiffer
  /\ IsInjective(Contents)
  /\ \A v \in Items : ExactlyOne(v \in pending, v \in refused, v \in consumed,
                                 Handed(v), Queued(v))

(* A thread with empty hands takes a string nobody has in hand ...          *)
LEMMA HandTakes ==
  ASSUME TypeOK, HandsDiffer, NEW t \in Putters \cup Getters, hand[t] = None,
         NEW v \in Items, ~Handed(v), hand' = [hand EXCEPT ![t] = v]
  PROVE  HandsDiffer' /\ \A w \in Items : Handed(w)' <=> Handed(w) \/ w = v
<1>1. \A u \in Putters \cup Getters : hand'[u] = IF u = t THEN v ELSE hand[u]
  BY HandSet
<1> QED
  BY <1>1, RolesAreThreads DEF HandsDiffer, Handed

(* ... and gives it away.                                                   *)
LEMMA HandGives ==
  ASSUME TypeOK, HandsDiffer, NEW t \in Putters \cup Getters, hand[t] \in Items,
         hand' = [hand EXCEPT ![t] = None]
  PROVE  HandsDiffer' /\ \A w \in Items : Handed(w)' <=> Handed(w) /\ w # hand[t]
<1>1. \A u \in Putters \cup Getters : hand'[u] = IF u = t THEN None ELSE hand[u]
  BY HandSet
<1> QED
  BY <1>1, RolesAreThreads DEF HandsDiffer, Handed

LEMMA OwnerStep ==
  ASSUME TypeOK, LockDiscipline, DrainInv, Holding, SoleOwner, [Next]_vars
  PROVE  SoleOwner'
<1>0. Contents \in Seq(Items \cup {None})
  BY TypeRing, ContentsShape
<1>1. ASSUME RingStays, UNCHANGED <<hand, outside>> PROVE SoleOwner'
  BY <1>1 DEF SoleOwner, HandsDiffer, Handed, Queued, RingStays, outside
<1>2. CASE Quiet
  BY <1>1, <1>2, RingKept DEF Quiet, RingStays
<1>3. ASSUME NEW p \in Putters, NEW v \in Items, PutCall(p, v) PROVE SoleOwner'
  <2>1. RingStays
    BY <1>3, OthersKeepRing
  <2>2. hand[p] = None /\ ~Handed(v)
    BY <1>3 DEF PutCall, Holding, HandsFull, SoleOwner, ExactlyOne
  <2>3. HandsDiffer' /\ \A w \in Items : Handed(w)' <=> Handed(w) \/ w = v
    BY <1>3, <2>2, HandTakes DEF PutCall, SoleOwner
  <2>4. v \in pending /\ pending' = pending \ {v} /\ UNCHANGED <<refused, consumed>>
    BY <1>3 DEF PutCall
  <2> QED
    BY <2>1, <2>3, <2>4 DEF SoleOwner, ExactlyOne, Queued, RingStays
<1>4. ASSUME NEW p \in Putters, PutShutdown(p) PROVE SoleOwner'
  <2>1. RingStays
    BY <1>4, OthersKeepRing
  <2>2. hand[p] \in Items
    BY <1>4 DEF PutShutdown, Holding, HandsFull, TypeOK
  <2>3. HandsDiffer' /\ \A w \in Items : Handed(w)' <=> Handed(w) /\ w # hand[p]
    BY <1>4, <2>2, HandGives DEF PutShutdown, SoleOwner
  <2>4. refused' = refused \cup {hand[p]} /\ UNCHANGED <<pending, consumed>>
        /\ Handed(hand[p])
    BY <1>4 DEF PutShutdown, Handed
  <2> QED
    BY <2>1, <2>3, <2>4 DEF SoleOwner, ExactlyOne, Queued, RingStays
<1>5. ASSUME NEW p \in Putters, PutStore(p) PROVE SoleOwner'
  <2>1. Contents' = Append(Contents, hand[p])
    BY <1>5, PutStoreAppends
  <2>2. hand[p] \in Items /\ Handed(hand[p])
    BY <1>5 DEF PutStore, Holding, HandsFull, TypeOK, Handed
  <2>3. HandsDiffer' /\ \A w \in Items : Handed(w)' <=> Handed(w) /\ w # hand[p]
    BY <1>5, <2>2, HandGives DEF PutStore, SoleOwner
  <2>4. hand[p] \notin Range(Contents)
    BY <2>2 DEF SoleOwner, ExactlyOne, Queued
  <2>5. /\ IsInjective(Contents')
        /\ \A w : w \in Range(Contents') <=> w \in Range(Contents) \/ w = hand[p]
    BY <1>0, <2>1, <2>2, <2>4, AppendElements DEF SoleOwner
  <2>6. UNCHANGED outside
    BY <1>5 DEF PutStore
  <2> QED
    BY <2>2, <2>3, <2>5, <2>6 DEF SoleOwner, ExactlyOne, Queued, outside
<1>6. ASSUME NEW g \in Getters, GetShutdown(g) PROVE SoleOwner'
  BY <1>1, <1>6, OthersKeepRing DEF GetShutdown
<1>7. ASSUME NEW g \in Getters, GetRemove(g) PROVE SoleOwner'
  <2>1. /\ Contents # <<>> /\ Contents' = Tail(Contents)
        /\ hand' = [hand EXCEPT ![g] = Head(Contents)]
    BY <1>7, GetRemoveTakesHead
  <2>2. /\ IsInjective(Contents') /\ Head(Contents) \in Range(Contents)
        /\ \A w : w \in Range(Contents') <=> w \in Range(Contents) /\ w # Head(Contents)
    BY <1>0, <2>1, TailElements DEF SoleOwner
  <2>3. Head(Contents) \in Items
    BY <1>0, <2>1, TypeRing, ContentsShape DEF Holding, SlotsFull
  <2>4. hand[g] = None /\ ~Handed(Head(Contents))
    BY <1>7, <2>2, <2>3 DEF GetRemove, Holding, HandsFull, SoleOwner, ExactlyOne, Queued
  <2>5. HandsDiffer' /\ \A w \in Items : Handed(w)' <=> Handed(w) \/ w = Head(Contents)
    BY <2>1, <2>3, <2>4, HandTakes DEF SoleOwner
  <2>6. UNCHANGED outside
    BY <1>7 DEF GetRemove
  <2> QED
    BY <2>2, <2>5, <2>6 DEF SoleOwner, ExactlyOne, Queued, outside
<1>8. ASSUME NEW g \in Getters, GetLeave(g) PROVE SoleOwner'
  <2>1. RingStays
    BY <1>8, OthersKeepRing
  <2>2. hand[g] \in Items /\ Handed(hand[g])
    BY <1>8 DEF GetLeave, Holding, HandsFull, TypeOK, Handed
  <2>3. HandsDiffer' /\ \A w \in Items : Handed(w)' <=> Handed(w) /\ w # hand[g]
    BY <1>8, <2>2, HandGives DEF GetLeave, SoleOwner
  <2>4. consumed' = consumed \cup {hand[g]} /\ UNCHANGED <<pending, refused>>
    BY <1>8 DEF GetLeave
  <2> QED
    BY <2>1, <2>2, <2>3, <2>4 DEF SoleOwner, ExactlyOne, Queued, RingStays
<1>9. ASSUME NEW f \in Freers, FreeMark(f) \/ FreeDestroy(f) PROVE SoleOwner'
  BY <1>1, <1>9, OthersKeepRing DEF FreeMark, FreeDestroy
<1> QED
  BY <1>2, <1>3, <1>4, <1>5, <1>6, <1>7, <1>8, <1>9, QuietSteps DEF Moving

LEMMA OwnerInit == Init => SoleOwner
<1> SUFFICES ASSUME Init PROVE SoleOwner
  OBVIOUS
<1>1. RingType /\ Empty
  BY SizeAssumption DEF Init, RingType, Slots, Empty
<1>2. Contents \in Seq(Items \cup {None}) /\ Len(Contents) = 0
  BY <1>1, RingShape, ContentsShape
<1>3. IsInjective(Contents) /\ \A v : v \notin Range(Contents)
  BY <1>2 DEF IsInjective, Range
<1> QED
  BY <1>3, RolesAreThreads
  DEF Init, SoleOwner, HandsDiffer, Handed, Queued, ExactlyOne

(* The count of owners, from the statement with quantifiers.                *)
LEMMA OneOfFive ==
  ASSUME NEW A, NEW B, NEW C, NEW D, NEW E,
         \A a, b \in A : a = b, \A a, b \in B : a = b, \A a, b \in C : a = b,
         \A a, b \in D : a = b, \A a, b \in E : a = b,
         ExactlyOne(A # {}, B # {}, C # {}, D # {}, E # {})
  PROVE  Cardinality(A) + Cardinality(B) + Cardinality(C) + Cardinality(D)
           + Cardinality(E) = 1
<1>1. /\ Cardinality(A) = IF A = {} THEN 0 ELSE 1
      /\ Cardinality(B) = IF B = {} THEN 0 ELSE 1
      /\ Cardinality(C) = IF C = {} THEN 0 ELSE 1
      /\ Cardinality(D) = IF D = {} THEN 0 ELSE 1
      /\ Cardinality(E) = IF E = {} THEN 0 ELSE 1
  BY AtMostOne
<1> QED
  BY <1>1 DEF ExactlyOne

LEMMA OwnerCounts ==
  ASSUME TypeOK, SoleOwner
  PROVE  OneOwner
<1> SUFFICES
      ASSUME NEW v \in Items
      PROVE  Cardinality({v} \cap pending) + Cardinality({v} \cap refused)
               + Cardinality({v} \cap consumed)
               + Cardinality({t \in Putters \cup Getters : hand[t] = v})
               + Cardinality({i \in 1 .. Count : Contents[i] = v}) = 1
  BY DEF OneOwner
<1> DEFINE hands == {t \in Putters \cup Getters : hand[t] = v}
           slots == {i \in 1 .. Count : Contents[i] = v}
<1>1. Contents \in Seq(Items \cup {None}) /\ Len(Contents) = Count
  BY TypeRing, ContentsShape
<1>2. DOMAIN Contents = 1 .. Count
  BY <1>1
<1>3. (hands # {} <=> Handed(v)) /\ (slots # {} <=> Queued(v))
  BY <1>2 DEF Handed, Queued, Range
<1>4. (\A t, u \in hands : t = u) /\ (\A i, j \in slots : i = j)
  BY <1>2 DEF SoleOwner, HandsDiffer, IsInjective
<1>5. ExactlyOne({v} \cap pending # {}, {v} \cap refused # {}, {v} \cap consumed # {},
                 hands # {}, slots # {})
  BY <1>3 DEF SoleOwner, ExactlyOne
<1> HIDE DEF hands, slots
<1>6. Cardinality({v} \cap pending) + Cardinality({v} \cap refused)
        + Cardinality({v} \cap consumed) + Cardinality(hands) + Cardinality(slots) = 1
  BY <1>4, <1>5, OneOfFive
<1> QED
  BY <1>6 DEF hands, slots

(* Every string given to array_put has one owner at any moment: no          *)
(* interleaving of puts, gets, refusals, waits and shutdown frees one twice *)
(* or leaks one, provided no wait returns 0 by itself.  It would deceive    *)
(* array_free (array.c:145) into destroying the mutex around a string, and  *)
(* two getters that go on without it can take the same one (array.c:106).   *)
THEOREM OwnerCorrect ==
  ASSUME ~SpuriousWakeups
  PROVE  Spec => []OneOwner
<1>1. Spec => []SoleOwner
  BY OwnerInit, OwnerStep, TypeCorrect, LockCorrect, DrainAlways, HoldingAlways, PTL
  DEF Spec
<1> QED
  BY <1>1, OwnerCounts, TypeCorrect, PTL

-----------------------------------------------------------------------------
(* Every step is a step of the bounded queue, or changes nothing it knows.  *)

LEMMA RefinedInit == Init => BQ!Init
<1> SUFFICES ASSUME Init PROVE BQ!Init
  OBVIOUS
<1>1. RingType /\ Empty
  BY SizeAssumption DEF Init, RingType, Slots, Empty
<1>2. Contents \in Seq(Items \cup {None}) /\ Len(Contents) = 0
  BY <1>1, RingShape, ContentsShape
<1>3. Contents = <<>>
  BY <1>2
<1>4. {g \in Getters : pc[g] = "done"} = {}
  BY RolesAreThreads DEF Init
<1> QED
  BY <1>3, <1>4 DEF Init, BQ!Init

LEMMA RefinedPut ==
  ASSUME TypeOK, Holding, NEW p \in Putters,
         (\E v \in Items : PutCall(p, v)) \/ PutShutdown(p) \/ PutStore(p)
  PROVE  BQ!Next
<1>1. \A l : Goto(p, l) =>
         {g \in Getters : pc'[g] = "done"} = {g \in Getters : pc[g] = "done"}
  BY ThreadMoves, RolesAreThreads
<1>2. ASSUME NEW v \in Items, PutCall(p, v) PROVE BQ!Offer(p, v)
  <2>1. RingStays
    BY <1>2, OthersKeepRing
  <2> QED
    BY <1>1, <1>2, <2>1 DEF PutCall, Holding, HandsFull, RingStays, ring, BQ!Offer
<1>3. CASE PutShutdown(p)
  <2>1. RingStays
    BY <1>3, OthersKeepRing
  <2>2. BQ!Refuse(p)
    BY <1>1, <1>3, <2>1
    DEF PutShutdown, Holding, HandsFull, RingStays, ring, BQ!Refuse
  <2> QED
    BY <2>2 DEF BQ!Next
<1>4. CASE PutStore(p)
  <2>1. Contents' = Append(Contents, hand[p])
    BY <1>4, PutStoreAppends
  <2>2. Len(Contents) < ARRAY_SIZE - 1
    <3>1. Count \in 0 .. ARRAY_SIZE - 1 /\ Count # ARRAY_SIZE - 1 /\ Len(Contents) = Count
      BY <1>4, TypeRing, RingShape, ContentsShape DEF PutStore
    <3> QED
      BY <3>1, SizeAssumption
  <2>3. BQ!Put(p)
    BY <1>1, <1>4, <2>1, <2>2 DEF PutStore, Holding, HandsFull, BQ!Put
  <2> QED
    BY <2>3 DEF BQ!Next
<1> QED
  BY <1>2, <1>3, <1>4 DEF BQ!Next

LEMMA RefinedGet ==
  ASSUME TypeOK, Holding, NEW g \in Getters,
         GetShutdown(g) \/ GetRemove(g) \/ GetLeave(g)
  PROVE  BQ!Next
<1> DEFINE told == {h \in Getters : pc[h] = "done"}
<1>1. CASE GetShutdown(g)
  <2>1. RingStays /\ shutdown /\ Empty /\ pc[g] = "g_check" /\ Goto(g, "done")
    BY <1>1, OthersKeepRing DEF GetShutdown, ToldShutdown
  <2>2. Contents = <<>>
    <3>1. Contents \in Seq(Items \cup {None}) /\ Len(Contents) = 0
      BY <2>1, TypeRing, RingShape, ContentsShape
    <3> QED
      BY <3>1
  <2>3. told' = told \cup {g}
    BY <2>1, ThreadMoves, RolesAreThreads
  <2>4. BQ!Finish(g)
    BY <1>1, <2>1, <2>2, <2>3
    DEF GetShutdown, Holding, HandsFull, RingStays, ring, BQ!Finish
  <2> QED
    BY <2>4 DEF BQ!Next
<1>2. CASE GetRemove(g)
  <2>1. /\ Contents # <<>> /\ Contents' = Tail(Contents)
        /\ hand' = [hand EXCEPT ![g] = Head(Contents)]
    BY <1>2, GetRemoveTakesHead
  <2>2. told' = told
    BY <1>2, ThreadMoves, RolesAreThreads DEF GetRemove
  <2>3. BQ!Get(g)
    BY <1>2, <2>1, <2>2 DEF GetRemove, Holding, HandsFull, BQ!Get
  <2> QED
    BY <2>3 DEF BQ!Next
<1>3. CASE GetLeave(g)
  <2>1. RingStays
    BY <1>3, OthersKeepRing
  <2>2. told' = told
    BY <1>3, ThreadMoves, RolesAreThreads DEF GetLeave
  <2>3. BQ!Use(g)
    BY <1>3, <2>1, <2>2 DEF GetLeave, Holding, HandsFull, RingStays, ring, BQ!Use
  <2> QED
    BY <2>3 DEF BQ!Next
<1> QED
  BY <1>1, <1>2, <1>3

LEMMA RefinedFree ==
  ASSUME TypeOK, DrainInv, NEW f \in Freers, FreeMark(f) \/ FreeDestroy(f)
  PROVE  BQ!Next
<1>1. RingStays
  BY OthersKeepRing
<1>2. {g \in Getters : pc'[g] = "done"} = {g \in Getters : pc[g] = "done"}
  <2>1. \E l : Goto(f, l)
    BY DEF FreeMark, FreeDestroy, AwaitEmptied
  <2> QED
    BY <2>1, ThreadMoves, RolesAreThreads
<1>3. CASE FreeMark(f)
  BY <1>1, <1>2, <1>3 DEF FreeMark, RingStays, BQ!Close, BQ!Next
<1>4. CASE FreeDestroy(f)
  <2>1. shutdown /\ Empty
    BY <1>4 DEF FreeDestroy, DrainInv, FreerDrain, PastDrain, Drained
  <2>2. Contents = <<>>
    <3>1. Contents \in Seq(Items \cup {None}) /\ Len(Contents) = 0
      BY <2>1, TypeRing, RingShape, ContentsShape
    <3> QED
      BY <3>1
  <2>3. BQ!Release
    BY <1>1, <1>2, <1>4, <2>1, <2>2 DEF FreeDestroy, RingStays, ring, BQ!Release
  <2> QED
    BY <2>3 DEF BQ!Next
<1> QED
  BY <1>3, <1>4

LEMMA RefinedStep ==
  ASSUME TypeOK, LockDiscipline, Holding, DrainInv, [Next]_vars
  PROVE  [BQ!Next]_BQ!vars
<1>1. CASE Quiet
  <2>1. {g \in Getters : pc'[g] = "done"} = {g \in Getters : pc[g] = "done"}
    BY <1>1 DEF Quiet
  <2> QED
    BY <1>1, <2>1, RingKept DEF Quiet, BQ!vars
<1> QED
  BY <1>1, QuietSteps, RefinedPut, RefinedGet, RefinedFree DEF Moving

(* Whatever the interleaving of puts, gets, timeouts and calls of           *)
(* array_free, the ring behaves as a bounded FIFO queue that closes: nothing*)
(* is lost, doubled or reordered, a closed queue takes nothing, a getter is *)
(* told "shutdown" and the mutex destroyed only when nothing is left.       *)
THEOREM RefinementCorrect ==
  ASSUME ~SpuriousWakeups
  PROVE  Spec => ImplementsBoundedQueue
  BY RefinedInit, RefinedStep, TypeCorrect, LockCorrect, DrainAlways, HoldingAlways, PTL
  DEF Spec, ImplementsBoundedQueue, BQ!Spec

-----------------------------------------------------------------------------
(* Wakeups.  Signals are never missed, with or without spurious wakeups.    *)

(* Who sleeps is in the wait of its own function.                           *)
Sleepers ==
  /\ \A g \in not_empty : pc[g] = "g_wait"
  /\ \A p \in not_full : pc[p] = "p_wait"

(* What array_free has done for the sleepers when it is at a given place.   *)
BeforeMarkPC == {"idle", "f_lock", "f_mark", "stuck"}
BeforeWakePC == BeforeMarkPC \cup {"f_wake"}
Awakened == not_empty = {} /\ not_full = {}

Woken ==
  /\ \A f \in Freers : pc[f] \notin BeforeMarkPC => shutdown
  /\ \A f \in Freers : pc[f] \notin BeforeWakePC => Awakened
  /\ destroyed => shutdown /\ Awakened
  /\ shutdown => Awakened \/ \E f \in Freers : pc[f] = "f_wake"
  /\ destroyed \/ NoneUnlocked

(* A getter without the mutex has come to a destroyed queue: nobody sleeps. *)
LEMMA UnlockedAwake ==
  ASSUME LockDiscipline, Woken, NEW g \in Getters, GetUnlocked(g)
  PROVE  destroyed /\ Awakened
<1>1. CASE GetPass(g)
  <2>1. InCritical(g) /\ lock # g /\ g \in Threads
    BY <1>1 DEF GetPass, InCritical, CriticalPC, Threads
  <2> QED
    BY <2>1 DEF LockDiscipline, Woken
<1>2. CASE GetTake(g) \/ GetSee(g) \/ GetAdvance(g)
  BY <1>2 DEF GetTake, GetSee, GetAdvance, Woken, NoneUnlocked, UnlockedPC
<1> QED
  BY <1>1, <1>2 DEF GetUnlocked

(* The only way to the places without the mutex is through GetUnlocked.     *)
LEMMA UnlockedOnly ==
  ASSUME TypeOK, NEW t \in Threads, NEW l, Goto(t, l), l \notin UnlockedPC, NoneUnlocked
  PROVE  NoneUnlocked'
  BY DEF Goto, TypeOK, PcType, NoneUnlocked

-----------------------------------------------------------------------------
(* What one step of each role does to the sleepers.                         *)

LEMMA PutSleeps ==
  ASSUME TypeOK, Sleepers, NEW p \in Putters, Put(p)
  PROVE  /\ not_empty' \subseteq not_empty
         /\ \/ not_full' = not_full
            \/ not_full' = not_full \cup {p} /\ pc'[p] = "p_wait" /\ ~shutdown
         /\ p \notin not_full
         /\ UNCHANGED <<shutdown, destroyed>>
         /\ \A u \in Threads \ {p} : pc'[u] = pc[u]
<1>1. PICK l : Goto(p, l)
  BY DEF Put, PutCall, PutLock, PutShutdown, PutWait, PutStore, Acquire
<1>2. \A u \in Threads : pc'[u] = IF u = p THEN l ELSE pc[u]
  BY <1>1, ThreadMoves, RolesAreThreads
<1>3. p \notin not_full
  BY DEF Put, PutCall, PutLock, PutShutdown, PutWait, PutStore, Sleepers
<1>4. UNCHANGED <<shutdown, destroyed>>
  BY DEF Put, PutCall, PutLock, PutShutdown, PutWait, PutStore, ring
<1>5. not_empty' \subseteq not_empty
  BY SignalledSubset
  DEF Put, PutCall, PutLock, PutShutdown, PutWait, PutStore, SignalNotEmpty, conds
<1>6. \/ not_full' = not_full
      \/ not_full' = not_full \cup {p} /\ Goto(p, "p_wait") /\ ~shutdown
  BY DEF Put, PutCall, PutLock, PutShutdown, PutWait, PutStore, conds
<1>7. Goto(p, "p_wait") => pc'[p] = "p_wait"
  BY ThreadMoves, RolesAreThreads
<1> QED
  BY <1>2, <1>3, <1>4, <1>5, <1>6, <1>7

LEMMA GetSleeps ==
  ASSUME TypeOK, Sleepers, NEW g \in Getters, Get(g)
  PROVE  /\ not_full' \subseteq not_full
         /\ \/ not_empty' = not_empty
            \/ not_empty' = not_empty \cup {g} /\ pc'[g] = "g_wait" /\ ~shutdown
         /\ g \notin not_empty
         /\ UNCHANGED <<shutdown, destroyed>>
         /\ \A u \in Threads \ {g} : pc'[u] = pc[u]
<1> USE DEF GetUnlocked, GetPass, GetTake, GetSee, GetAdvance
<1>1. PICK l : Goto(g, l)
  BY DEF Get, GetEnter, GetLock, GetWait, GetShutdown, GetRemove, GetLeave, Acquire
<1>2. \A u \in Threads : pc'[u] = IF u = g THEN l ELSE pc[u]
  BY <1>1, ThreadMoves, RolesAreThreads
<1>3. g \notin not_empty
  BY DEF Get, GetEnter, GetLock, GetWait, GetShutdown, GetRemove, GetLeave, Sleepers
<1>4. UNCHANGED <<shutdown, destroyed>>
  BY DEF Get, GetEnter, GetLock, GetWait, GetShutdown, GetRemove, GetLeave, ring
<1>5. not_full' \subseteq not_full
  BY SignalledSubset
  DEF Get, GetEnter, GetLock, GetWait, GetShutdown, GetRemove, GetLeave, SignalNotFull,
      conds
<1>6. \/ not_empty' = not_empty
      \/ not_empty' = not_empty \cup {g} /\ Goto(g, "g_wait") /\ ~shutdown
  BY DEF Get, GetEnter, GetLock, GetWait, GetShutdown, GetRemove, GetLeave, conds
<1>7. Goto(g, "g_wait") => pc'[g] = "g_wait"
  BY ThreadMoves, RolesAreThreads
<1> QED
  BY <1>2, <1>3, <1>4, <1>5, <1>6, <1>7

LEMMA FreeWakes ==
  ASSUME TypeOK, Woken, NEW f \in Freers, Free(f)
  PROVE  /\ not_empty' \subseteq not_empty /\ not_full' \subseteq not_full
         /\ UNCHANGED <<storeString, head, tail>>
         /\ shutdown => shutdown'
         /\ pc'[f] \notin BeforeMarkPC => shutdown'
         /\ pc'[f] \notin BeforeWakePC => Awakened'
         /\ destroyed' => destroyed \/ pc'[f] = "done"
         /\ shutdown' # shutdown \/ pc[f] = "f_wake" => pc'[f] = "f_wake" \/ Awakened'
         /\ \A u \in Threads \ {f} : pc'[u] = pc[u]
<1>1. \A l : Goto(f, l) => \A u \in Threads : pc'[u] = IF u = f THEN l ELSE pc[u]
  BY ThreadMoves, RolesAreThreads
<1>2. f \in Threads
  BY RolesAreThreads
<1>3. CASE FreeCall(f)
  BY <1>1, <1>2, <1>3 DEF FreeCall, BeforeMarkPC, BeforeWakePC, ring, conds
<1>4. CASE FreeLock(f)
  BY <1>1, <1>2, <1>4
  DEF FreeLock, Acquire, Woken, Awakened, BeforeMarkPC, BeforeWakePC, ring, conds
<1>5. CASE AwaitEmptied(f) /\ (FreeMark(f) \/ FreeDrain(f))
  BY <1>1, <1>2, <1>5
  DEF AwaitEmptied, FreeMark, FreeDrain, DrainEnds, Woken, Awakened, BeforeMarkPC,
      BeforeWakePC, ring
<1>6. CASE Goto(f, "f_wake") /\ UNCHANGED conds /\ (FreeMark(f) \/ FreeDrain(f))
  BY <1>1, <1>2, <1>6
  DEF FreeMark, FreeDrain, DrainEnds, Woken, BeforeMarkPC, BeforeWakePC, ring, conds
<1>7. CASE FreeWake(f)
  BY <1>1, <1>2, <1>7
  DEF FreeWake, Woken, Awakened, BeforeMarkPC, BeforeWakePC, ring
<1>8. CASE FreeCount(f) \/ FreeUnlock(f) \/ FreeDestroy(f) \/ SpuriousWakeup(f)
  BY <1>1, <1>2, <1>8
  DEF FreeCount, FreeUnlock, FreeDestroy, SpuriousWakeup, Woken, Awakened,
      BeforeMarkPC, BeforeWakePC, ring, conds
<1> QED
  BY <1>3, <1>4, <1>5, <1>6, <1>7, <1>8 DEF Free, FreeMark, FreeDrain

LEMMA SleepStep ==
  ASSUME TypeOK, LockDiscipline, Sleepers, Woken, [Next]_vars
  PROVE  Sleepers' /\ Woken'
<1>0. not_empty \subseteq Getters /\ not_full \subseteq Putters
  BY DEF TypeOK
<1>1. ASSUME NEW p \in Putters, Put(p) PROVE Sleepers' /\ Woken'
  <2>1. /\ not_empty' \subseteq not_empty
        /\ \/ not_full' = not_full
           \/ not_full' = not_full \cup {p} /\ pc'[p] = "p_wait" /\ ~shutdown
        /\ p \notin not_full
        /\ UNCHANGED <<shutdown, destroyed>>
        /\ \A u \in Threads \ {p} : pc'[u] = pc[u]
    BY <1>1, PutSleeps
  <2>2. Sleepers'
    BY <1>0, <2>1, RolesAreThreads DEF Sleepers
  <2>3. Awakened /\ shutdown => Awakened'
    BY <2>1 DEF Awakened
  <2>4. \A f \in Freers : pc'[f] = pc[f]
    BY <2>1, RolesAreThreads
  <2>5. (shutdown' <=> shutdown) /\ (destroyed' <=> destroyed)
    BY <2>1
  <2>6. Woken'
    <3>1. NoneUnlocked => NoneUnlocked'
      BY <2>1, RolesAreThreads DEF NoneUnlocked
    <3> QED
      BY <2>3, <2>4, <2>5, <3>1 DEF Woken, BeforeWakePC
  <2> QED
    BY <2>2, <2>6
<1>2. ASSUME NEW g \in Getters, Get(g) PROVE Sleepers' /\ Woken'
  <2>1. /\ not_full' \subseteq not_full
        /\ \/ not_empty' = not_empty
           \/ not_empty' = not_empty \cup {g} /\ pc'[g] = "g_wait" /\ ~shutdown
        /\ g \notin not_empty
        /\ UNCHANGED <<shutdown, destroyed>>
        /\ \A u \in Threads \ {g} : pc'[u] = pc[u]
    BY <1>2, GetSleeps
  <2>2. Sleepers'
    BY <1>0, <2>1, RolesAreThreads DEF Sleepers
  <2>3. Awakened /\ shutdown => Awakened'
    BY <2>1 DEF Awakened
  <2>4. \A f \in Freers : pc'[f] = pc[f]
    BY <2>1, RolesAreThreads
  <2>5. (shutdown' <=> shutdown) /\ (destroyed' <=> destroyed)
    BY <2>1
  <2>6. Woken'
    <3>1. destroyed \/ NoneUnlocked'
      <4>1. CASE GetUnlocked(g)
        BY <4>1, UnlockedAwake
      <4>2. CASE ~GetUnlocked(g)
        <5>1. PICK l \in {"idle", "g_lock", "g_check", "g_wait", "g_leave", "done", "stuck"} :
                Goto(g, l)
          BY <1>2, <4>2
          DEF Get, GetEnter, GetLock, GetWait, GetShutdown, GetRemove, GetLeave, Acquire
        <5>2. l \notin UnlockedPC
          BY DEF UnlockedPC
        <5> QED
          BY <5>1, <5>2, UnlockedOnly, RolesAreThreads DEF Woken
      <4> QED
        BY <4>1, <4>2
    <3> QED
      BY <2>3, <2>4, <2>5, <3>1 DEF Woken, BeforeWakePC
  <2> QED
    BY <2>2, <2>6
<1>3. ASSUME NEW f \in Freers, Free(f) PROVE Sleepers' /\ Woken'
  <2>1. /\ not_empty' \subseteq not_empty /\ not_full' \subseteq not_full
        /\ shutdown => shutdown'
        /\ pc'[f] \notin BeforeMarkPC => shutdown'
        /\ pc'[f] \notin BeforeWakePC => Awakened'
        /\ destroyed' => destroyed \/ pc'[f] = "done"
        /\ shutdown' # shutdown \/ pc[f] = "f_wake" => pc'[f] = "f_wake" \/ Awakened'
        /\ \A u \in Threads \ {f} : pc'[u] = pc[u]
    BY <1>3, FreeWakes
  <2>2. Sleepers'
    BY <1>0, <2>1, RolesAreThreads DEF Sleepers
  <2>3. Awakened => Awakened'
    BY <2>1 DEF Awakened
  <2>4. "done" \notin BeforeMarkPC /\ "done" \notin BeforeWakePC
    BY DEF BeforeMarkPC, BeforeWakePC
  <2>5. destroyed' \/ NoneUnlocked'
    <3>1. \A g \in Getters : pc'[g] = pc[g]
      BY <2>1, RolesAreThreads
    <3>2. destroyed => destroyed'
      BY <1>3 DEF Free, FreeCall, FreeLock, FreeMark, FreeDrain, FreeWake, FreeCount,
                  FreeUnlock, FreeDestroy, SpuriousWakeup
    <3> QED
      BY <3>1, <3>2 DEF Woken, NoneUnlocked
  <2> QED
    BY <2>1, <2>2, <2>3, <2>4, <2>5, RolesAreThreads DEF Woken, TypeOK
<1>4. CASE UNCHANGED <<pc, shutdown, destroyed>> /\ not_empty' \subseteq not_empty
           /\ not_full' \subseteq not_full
  BY <1>4 DEF Sleepers, Woken, Awakened, NoneUnlocked
<1>5. UNCHANGED vars \/ (\E t \in Threads : Timeout(t)) =>
        /\ UNCHANGED <<pc, shutdown, destroyed>> /\ not_empty' \subseteq not_empty
        /\ not_full' \subseteq not_full
  BY DEF vars, Timeout, ring, conds
<1> QED
  BY <1>1, <1>2, <1>3, <1>4, <1>5 DEF Next, Terminated

LEMMA SleepAlways == Spec => [](Sleepers /\ Woken)
<1>1. Init => Sleepers /\ Woken
  BY RolesAreThreads
  DEF Init, Sleepers, Woken, Awakened, BeforeMarkPC, BeforeWakePC, NoneUnlocked, UnlockedPC
<1> QED
  BY <1>1, SleepStep, TypeCorrect, LockCorrect, PTL DEF Spec

-----------------------------------------------------------------------------
(* The getters awake and bound to look at the ring, and the putters.        *)

Lookers == {g \in Getters : pc[g] \in {"g_check", "g_wait"}} \ not_empty
Storers == {p \in Putters : pc[p] \in {"p_check", "p_wait"}} \ not_full

LEMMA LookersFinite ==
  /\ IsFiniteSet(Lookers) /\ Cardinality(Lookers) \in Nat
  /\ IsFiniteSet(Storers) /\ Cardinality(Storers) \in Nat
<1>1. Lookers \subseteq Getters /\ Storers \subseteq Putters
  BY DEF Lookers, Storers
<1> QED
  BY <1>1, FiniteAssumption, FS_Subset, FS_CardinalityType

(* More awake and no more to do.                                            *)
LEMMA MoreLook ==
  ASSUME TypeOK, TypeOK', NoLostNotEmpty, not_empty' # {} => not_empty # {},
         Lookers \subseteq Lookers', UNCHANGED Count
  PROVE  NoLostNotEmpty'
<1>1. Cardinality(Lookers) \in Nat /\ Cardinality(Lookers') \in Nat
      /\ Cardinality(Lookers) <= Cardinality(Lookers')
  <2>1. Lookers' \subseteq Getters
    BY DEF Lookers
  <2>2. IsFiniteSet(Lookers')
    BY <2>1, FiniteAssumption, FS_Subset
  <2> QED
    BY <2>2, FS_Subset, FS_CardinalityType
<1>2. Count \in Int
  BY TypeRing, RingShape
<1> QED
  BY <1>1, <1>2 DEF NoLostNotEmpty, Lookers

LEMMA MoreStore ==
  ASSUME TypeOK, TypeOK', NoLostNotFull, not_full' # {} => not_full # {},
         Storers \subseteq Storers', UNCHANGED Count
  PROVE  NoLostNotFull'
<1>1. Cardinality(Storers) \in Nat /\ Cardinality(Storers') \in Nat
      /\ Cardinality(Storers) <= Cardinality(Storers')
  <2>1. Storers' \subseteq Putters
    BY DEF Storers
  <2>2. IsFiniteSet(Storers')
    BY <2>1, FiniteAssumption, FS_Subset
  <2> QED
    BY <2>2, FS_Subset, FS_CardinalityType
<1>2. Count \in Int
  BY TypeRing, RingShape
<1> QED
  BY <1>1, <1>2, SizeAssumption DEF NoLostNotFull, Storers

(* A signal on a condition variable somebody sleeps on wakes one of them.   *)
LEMMA SignalWakesOne ==
  ASSUME NEW cond, NEW after \in Signalled(cond), cond # {}
  PROVE  \E t \in cond : after = cond \ {t}
  BY DEF Signalled

(* The steps that neither store nor remove a string keep what it holds.     *)
LEMMA OthersKeepCount ==
  /\ \A p \in Putters : Put(p) => PutStore(p) \/ Count' = Count
  /\ \A g \in Getters : Get(g) => GetRemove(g) \/ GetUnlocked(g) \/ Count' = Count
  /\ \A f \in Freers : Free(f) => Count' = Count
  /\ \A t \in Threads : Timeout(t) => Count' = Count
  /\ UNCHANGED vars => Count' = Count
<1>1. \A p \in Putters : Put(p) => PutStore(p) \/ UNCHANGED <<storeString, head, tail>>
  BY DEF Put, PutCall, PutLock, PutShutdown, PutWait, ring
<1>2. \A g \in Getters : Get(g) => \/ GetRemove(g) \/ GetUnlocked(g)
                                  \/ UNCHANGED <<storeString, head, tail>>
  BY DEF Get, GetEnter, GetLock, GetWait, GetShutdown, GetLeave, ring
<1>3. \A f \in Freers : Free(f) => UNCHANGED <<storeString, head, tail>>
  BY DEF Free, FreeCall, FreeLock, FreeMark, FreeDrain, FreeWake, FreeCount, FreeUnlock,
         FreeDestroy, SpuriousWakeup, ring
<1>4. (\E t \in Threads : Timeout(t)) \/ UNCHANGED vars
        => UNCHANGED <<storeString, head, tail>>
  BY DEF Timeout, vars, ring
<1> QED
  BY <1>1, <1>2, <1>3, <1>4, RingKept

(* The lock is not taken in the last moment before the broadcast.           *)
LEMMA NobodyElseInside ==
  ASSUME TypeOK, LockDiscipline, Woken, shutdown, NEW t \in Threads \ Freers, InCritical(t)
  PROVE  Awakened
<1>1. SUFFICES ASSUME ~Awakened PROVE FALSE
  OBVIOUS
<1>2. ~destroyed /\ \E f \in Freers : pc[f] = "f_wake"
  BY <1>1 DEF Woken
<1>3. PICK f \in Freers : lock = f
  BY <1>2, RolesAreThreads DEF LockDiscipline, InCritical, CriticalPC
<1> QED
  BY <1>2, <1>3 DEF LockDiscipline

LEMMA NotEmptyStep ==
  ASSUME TypeOK, TypeOK', LockDiscipline, Sleepers, Woken, NoLostNotEmpty, [Next]_vars
  PROVE  NoLostNotEmpty'
<1>0. Count \in Nat /\ not_empty \subseteq Getters
  BY TypeRing, RingShape DEF TypeOK
<1>1. ASSUME UNCHANGED <<Count, not_empty>>, \A g \in Getters : pc'[g] = pc[g]
      PROVE  NoLostNotEmpty'
  <2>1. Lookers \subseteq Lookers'
    BY <1>1 DEF Lookers
  <2> QED
    BY <1>1, <2>1, MoreLook
<1>2. ASSUME NEW p \in Putters, Put(p) PROVE NoLostNotEmpty'
  <2>1. \A g \in Getters : pc'[g] = pc[g]
    BY <1>2, PutSleeps, RolesAreThreads
  <2>2. CASE PutStore(p) /\ not_empty # {}
    <3>1. Count' = Count + 1
      BY <2>2, PutStoreAppends
    <3>2. PICK t \in not_empty : not_empty' = not_empty \ {t}
      BY <2>2, SignalWakesOne DEF PutStore, SignalNotEmpty
    <3>3. t \in Getters /\ t \notin Lookers /\ Lookers' = Lookers \cup {t}
      BY <1>0, <2>1, <3>2 DEF Lookers, Sleepers
    <3>4. Cardinality(Lookers') = Cardinality(Lookers) + 1
      BY <3>3, LookersFinite, FS_AddElement
    <3> QED
      BY <1>0, <2>2, <3>1, <3>4, LookersFinite DEF NoLostNotEmpty, Lookers
  <2>3. CASE PutStore(p) /\ not_empty = {}
    BY <2>3 DEF PutStore, SignalNotEmpty, Signalled, NoLostNotEmpty
  <2>4. CASE ~PutStore(p)
    <3>1. Count' = Count
      BY <1>2, <2>4, OthersKeepCount
    <3>2. not_empty' = not_empty
      BY <1>2, <2>4 DEF Put, PutCall, PutLock, PutShutdown, PutWait, conds
    <3> QED
      BY <1>1, <2>1, <3>1, <3>2
  <2> QED
    BY <2>2, <2>3, <2>4
<1>3. ASSUME NEW g \in Getters, Get(g) PROVE NoLostNotEmpty'
  <2>0. \A h \in Getters \ {g} : pc'[h] = pc[h]
    BY <1>3, GetSleeps, RolesAreThreads
  <2>1. CASE GetEnter(g) \/ GetLeave(g)
    <3>1. UNCHANGED <<not_empty, Count>> /\ g \notin Lookers
      <4>1. ~GetRemove(g) /\ ~GetUnlocked(g)
        BY <2>1 DEF GetEnter, GetLeave, GetRemove, GetUnlocked, GetPass, GetTake, GetSee,
                    GetAdvance
      <4> QED
        BY <1>3, <2>1, <4>1, OthersKeepCount DEF GetEnter, GetLeave, Lookers, conds
    <3>2. Lookers \subseteq Lookers'
      BY <2>0, <3>1 DEF Lookers
    <3> QED
      BY <3>1, <3>2, MoreLook
  <2>2. CASE GetLock(g)
    <3>1. UNCHANGED <<not_empty, Count>>
      <4>1. ~GetRemove(g) /\ ~GetUnlocked(g)
        BY <2>2 DEF GetLock, GetRemove, GetUnlocked, GetPass, GetTake, GetSee, GetAdvance
      <4> QED
        BY <1>3, <2>2, <4>1, OthersKeepCount DEF GetLock, conds
    <3>2. CASE Goto(g, "g_check")
      <4>1. pc'[g] = "g_check" /\ g \notin not_empty
        BY <1>3, <3>2, GetSleeps, GetterMoves
      <4>2. Lookers \subseteq Lookers'
        BY <2>0, <3>1, <4>1 DEF Lookers
      <4> QED
        BY <3>1, <4>2, MoreLook
    <3>3. CASE destroyed
      BY <3>1, <3>3 DEF Woken, Awakened, NoLostNotEmpty
    <3> QED
      BY <2>2, <3>2, <3>3 DEF GetLock, Acquire
  <2>3. CASE GetWait(g) \/ GetShutdown(g)
    <3>1. Count' = 0
      <4>1. Empty /\ ~GetRemove(g) /\ ~GetUnlocked(g)
        BY <2>3 DEF GetWait, GetShutdown, ToldShutdown, GetRemove, GetUnlocked, GetPass,
                    GetTake, GetSee, GetAdvance
      <4>2. Count = 0
        BY <4>1, TypeRing, RingShape
      <4> QED
        BY <1>3, <4>1, <4>2, OthersKeepCount
    <3>2. Lookers' \subseteq Getters
      BY DEF Lookers
    <3>3. Cardinality(Lookers') \in Nat
      BY <3>2, FiniteAssumption, FS_Subset, FS_CardinalityType
    <3> QED
      BY <3>1, <3>3 DEF NoLostNotEmpty, Lookers
  <2>4. CASE GetRemove(g)
    <3>1. Count' = Count - 1
      BY <2>4, GetRemoveTakesHead
    <3>2. not_empty' = not_empty /\ g \in Lookers /\ pc'[g] = "g_leave"
      BY <1>3, <2>4, GetSleeps, GetterMoves DEF GetRemove, Lookers
    <3>3. Lookers' = Lookers \ {g}
      BY <2>0, <3>2 DEF Lookers
    <3>4. Cardinality(Lookers') = Cardinality(Lookers) - 1
      BY <3>2, <3>3, LookersFinite, FS_RemoveElement
    <3> QED
      BY <1>0, <3>1, <3>2, <3>4, LookersFinite DEF NoLostNotEmpty, Lookers
  <2>5. CASE GetUnlocked(g)
    <3>1. shutdown /\ not_empty = {}
      BY <2>5, UnlockedAwake DEF Woken, Awakened
    <3>2. not_empty' = {}
      BY <2>5, <3>1 DEF GetUnlocked, GetPass, GetTake, GetSee, GetAdvance, conds
    <3> QED
      BY <3>2 DEF NoLostNotEmpty
  <2> QED
    BY <1>3, <2>1, <2>2, <2>3, <2>4, <2>5 DEF Get
<1>4. ASSUME NEW f \in Freers, Free(f) PROVE NoLostNotEmpty'
  <2>1. Count' = Count /\ \A g \in Getters : pc'[g] = pc[g]
    BY <1>4, OthersKeepCount, FreeWakes, RolesAreThreads
  <2>2. not_empty' = {} \/ not_empty' = not_empty
    BY <1>4 DEF Free, FreeCall, FreeLock, FreeMark, FreeDrain, FreeWake, FreeCount,
                FreeUnlock, FreeDestroy, SpuriousWakeup, AwaitEmptied, conds
  <2> QED
    BY <1>1, <2>1, <2>2 DEF NoLostNotEmpty
<1>5. ASSUME NEW t \in Threads, Timeout(t) PROVE NoLostNotEmpty'
  <2>1. Count' = Count /\ pc' = pc /\ not_empty' \subseteq not_empty
    BY <1>5, OthersKeepCount DEF Timeout
  <2>2. Lookers \subseteq Lookers'
    BY <2>1 DEF Lookers
  <2> QED
    BY <2>1, <2>2, MoreLook
<1>6. CASE UNCHANGED vars
  BY <1>1, <1>6, OthersKeepCount DEF vars, conds
<1> QED
  BY <1>2, <1>3, <1>4, <1>5, <1>6 DEF Next, Terminated

LEMMA NotFullStep ==
  ASSUME TypeOK, TypeOK', LockDiscipline, Sleepers, Woken, NoLostNotFull, [Next]_vars
  PROVE  NoLostNotFull'
<1>0. Count \in Nat /\ not_full \subseteq Putters /\ ARRAY_SIZE \in Nat
  BY TypeRing, RingShape, SizeAssumption DEF TypeOK
<1>1. ASSUME UNCHANGED <<Count, not_full>>, \A p \in Putters : pc'[p] = pc[p]
      PROVE  NoLostNotFull'
  <2>1. Storers \subseteq Storers'
    BY <1>1 DEF Storers
  <2> QED
    BY <1>1, <2>1, MoreStore
<1>2. ASSUME NEW p \in Putters, Put(p) PROVE NoLostNotFull'
  <2>0. \A q \in Putters \ {p} : pc'[q] = pc[q]
    BY <1>2, PutSleeps, RolesAreThreads
  <2>1. ASSUME NEW v \in Items, PutCall(p, v) PROVE NoLostNotFull'
    <3>1. UNCHANGED <<not_full, Count>> /\ p \notin Storers
      <4>1. ~PutStore(p)
        BY <2>1 DEF PutCall, PutStore
      <4> QED
        BY <1>2, <2>1, <4>1, OthersKeepCount DEF PutCall, Storers, conds
    <3>2. Storers \subseteq Storers'
      BY <2>0, <3>1 DEF Storers
    <3> QED
      BY <3>1, <3>2, MoreStore
  <2>2. CASE PutLock(p)
    <3>1. UNCHANGED <<not_full, Count>>
      <4>1. ~PutStore(p)
        BY <2>2 DEF PutLock, PutStore
      <4> QED
        BY <1>2, <2>2, <4>1, OthersKeepCount DEF PutLock, conds
    <3>2. CASE Goto(p, "p_check")
      <4>1. pc'[p] = "p_check" /\ p \notin not_full
        BY <1>2, <3>2, PutSleeps, ThreadMoves, RolesAreThreads
      <4>2. Storers \subseteq Storers'
        BY <2>0, <3>1, <4>1 DEF Storers
      <4> QED
        BY <3>1, <4>2, MoreStore
    <3>3. CASE destroyed
      BY <3>1, <3>3 DEF Woken, Awakened, NoLostNotFull
    <3> QED
      BY <2>2, <3>2, <3>3 DEF PutLock, Acquire
  <2>3. CASE PutShutdown(p)
    <3>1. Awakened
      <4>1. shutdown /\ InCritical(p) /\ p \in Threads \ Freers
        BY <2>3, RolesAreThreads DEF PutShutdown, InCritical, CriticalPC
      <4> QED
        BY <4>1, NobodyElseInside
    <3> QED
      BY <2>3, <3>1 DEF PutShutdown, conds, Awakened, NoLostNotFull
  <2>4. CASE PutWait(p)
    <3>1. Count' = ARRAY_SIZE - 1
      <4>1. Full /\ ~PutStore(p)
        BY <2>4 DEF PutWait, PutStore
      <4>2. Count = ARRAY_SIZE - 1
        BY <4>1, TypeRing, RingShape
      <4> QED
        BY <1>2, <4>1, <4>2, OthersKeepCount
    <3>2. Storers' \subseteq Putters
      BY DEF Storers
    <3>3. Cardinality(Storers') \in Nat
      BY <3>2, FiniteAssumption, FS_Subset, FS_CardinalityType
    <3> QED
      BY <1>0, <3>1, <3>3 DEF NoLostNotFull, Storers
  <2>5. CASE PutStore(p)
    <3>1. Count' = Count + 1
      BY <2>5, PutStoreAppends
    <3>2. not_full' = not_full /\ p \in Storers /\ pc'[p] = "idle"
      BY <1>2, <2>5, PutSleeps, ThreadMoves, RolesAreThreads DEF PutStore, Storers
    <3>3. Storers' = Storers \ {p}
      BY <2>0, <3>2 DEF Storers
    <3>4. Cardinality(Storers') = Cardinality(Storers) - 1
      BY <3>2, <3>3, LookersFinite, FS_RemoveElement
    <3> QED
      BY <1>0, <3>1, <3>2, <3>4, LookersFinite DEF NoLostNotFull, Storers
  <2> QED
    BY <1>2, <2>1, <2>2, <2>3, <2>4, <2>5 DEF Put
<1>3. ASSUME NEW g \in Getters, Get(g) PROVE NoLostNotFull'
  <2>1. \A p \in Putters : pc'[p] = pc[p]
    BY <1>3, GetSleeps, RolesAreThreads
  <2>2. CASE GetRemove(g) /\ not_full # {}
    <3>1. Count' = Count - 1
      BY <2>2, GetRemoveTakesHead
    <3>2. PICK t \in not_full : not_full' = not_full \ {t}
      BY <2>2, SignalWakesOne DEF GetRemove, SignalNotFull
    <3>3. t \in Putters /\ t \notin Storers /\ Storers' = Storers \cup {t}
      BY <1>0, <2>1, <3>2 DEF Storers, Sleepers
    <3>4. Cardinality(Storers') = Cardinality(Storers) + 1
      BY <3>3, LookersFinite, FS_AddElement
    <3> QED
      BY <1>0, <2>2, <3>1, <3>4, LookersFinite DEF NoLostNotFull, Storers
  <2>3. CASE GetRemove(g) /\ not_full = {}
    BY <2>3 DEF GetRemove, SignalNotFull, Signalled, NoLostNotFull
  <2>4. CASE GetUnlocked(g)
    <3>1. not_full' \subseteq not_full /\ not_full = {}
      BY <1>3, <2>4, UnlockedAwake, GetSleeps DEF Awakened
    <3> QED
      BY <3>1 DEF NoLostNotFull
  <2>5. CASE ~GetRemove(g) /\ ~GetUnlocked(g)
    <3>1. Count' = Count
      BY <1>3, <2>5, OthersKeepCount
    <3>2. not_full' = not_full
      BY <1>3, <2>5 DEF Get, GetEnter, GetLock, GetWait, GetShutdown, GetLeave, conds
    <3> QED
      BY <1>1, <2>1, <3>1, <3>2
  <2> QED
    BY <2>2, <2>3, <2>4, <2>5
<1>4. ASSUME NEW f \in Freers, Free(f) PROVE NoLostNotFull'
  <2>1. Count' = Count /\ \A p \in Putters : pc'[p] = pc[p]
    BY <1>4, OthersKeepCount, FreeWakes, RolesAreThreads
  <2>2. not_full' = {} \/ not_full' = not_full
    BY <1>4 DEF Free, FreeCall, FreeLock, FreeMark, FreeDrain, FreeWake, FreeCount,
                FreeUnlock, FreeDestroy, SpuriousWakeup, AwaitEmptied, conds
  <2> QED
    BY <1>1, <2>1, <2>2 DEF NoLostNotFull
<1>5. ASSUME NEW t \in Threads, Timeout(t) PROVE NoLostNotFull'
  <2>1. Count' = Count /\ pc' = pc /\ not_full' \subseteq not_full
    BY <1>5, OthersKeepCount DEF Timeout
  <2>2. Storers \subseteq Storers'
    BY <2>1 DEF Storers
  <2> QED
    BY <2>1, <2>2, MoreStore
<1>6. CASE UNCHANGED vars
  BY <1>1, <1>6, OthersKeepCount DEF vars, conds
<1> QED
  BY <1>2, <1>3, <1>4, <1>5, <1>6 DEF Next, Terminated

(* While a getter sleeps on not_empty, as many getters are awake and bound  *)
(* to look at the ring as it holds strings: one signal per put is enough,   *)
(* although a put also signals when the ring was not empty before.          *)
THEOREM NotEmptyCorrect == Spec => []NoLostNotEmpty
<1>1. Init => NoLostNotEmpty
  BY DEF Init, NoLostNotEmpty
<1> QED
  BY <1>1, NotEmptyStep, SleepAlways, LockCorrect, TypeCorrect, PTL DEF Spec

(* While a putter sleeps on not_full, as many putters are awake as the ring *)
(* has free slots; a refused putter leaves without passing the signal on,   *)
(* which is sound because shutdown has then woken every sleeper.            *)
THEOREM NotFullCorrect == Spec => []NoLostNotFull
<1>1. Init => NoLostNotFull
  BY DEF Init, NoLostNotFull
<1> QED
  BY <1>1, NotFullStep, SleepAlways, LockCorrect, TypeCorrect, PTL DEF Spec

=============================================================================
