--------------------------- MODULE GetTimeoutProofs --------------------------
(***************************************************************************)
(* The deadlines of GetTimeout, for every clock and every unit of time:    *)
(* the model checker only sees twenty nanoseconds to the second.    *)
(***************************************************************************)
EXTENDS GetTimeout, TLAPS

LEMMA UnitType == NsPerSec \in Nat /\ NsPerSec > 0
BY UnitAssumption DEF NsPerSec

LEMMA NsOf ==
  ASSUME NEW s \in Int, NEW n \in Int
  PROVE  /\ Ns([sec |-> s, nsec |-> n]) \in Int
         /\ Ns([sec |-> s, nsec |-> n]) = s * NsPerSec + n
BY UnitType DEF Ns

(* Up to a second fits an int, and is at most one carry.                    *)
LEMMA ProductBound ==
  ASSUME NEW m \in 0 .. MsPerSec
  PROVE  m * NsPerMs \in 0 .. NsPerSec /\ IntProducts(m) = {m * NsPerMs}
<1>1. m * NsPerMs \in Nat
  BY UnitAssumption
<1>2. (MsPerSec - m) * NsPerMs \in Nat
  BY UnitAssumption
<1>3. (MsPerSec - m) * NsPerMs = NsPerSec - m * NsPerMs
  BY UnitAssumption DEF NsPerSec
<1>4. m * NsPerMs <= NsPerSec
  BY <1>1, <1>2, <1>3, UnitType
<1> QED
  BY <1>1, <1>4, UnitAssumption, UnitType DEF IntProducts

(* array.c: right as long as the carry is 0 or 1.                          *)
LEMMA ArrayTimeoutRight ==
  ASSUME NEW t \in Times, NEW p \in Int, t.nsec + p \in 0 .. 2 * NsPerSec - 1
  PROVE  /\ ArrayTimeout(t, p) \in Times /\ Valid(ArrayTimeout(t, p))
         /\ Ns(ArrayTimeout(t, p)) = Ns(t) + p
<1> DEFINE n == t.nsec + p
<1>1. t.sec \in Int /\ t.nsec \in 0 .. NsPerSec - 1 /\ t = [sec |-> t.sec, nsec |-> t.nsec]
  BY DEF Times
<1>2. n \in Int /\ 0 <= n /\ n < 2 * NsPerSec
  BY <1>1, UnitType
<1>3. Ns(t) = t.sec * NsPerSec + t.nsec
  BY DEF Ns
<1>4. (t.sec + 1) * NsPerSec = t.sec * NsPerSec + NsPerSec
  BY <1>1, UnitType
<1>5. CASE n >= NsPerSec
  <2>1. ArrayTimeout(t, p) = [sec |-> t.sec + 1, nsec |-> n - NsPerSec]
    BY <1>5 DEF ArrayTimeout
  <2>2. Ns(ArrayTimeout(t, p)) = (t.sec + 1) * NsPerSec + (n - NsPerSec)
    BY <2>1, <1>1, <1>2, NsOf, UnitType
  <2>3. ArrayTimeout(t, p) \in Times /\ Valid(ArrayTimeout(t, p))
    BY <2>1, <1>1, <1>2, <1>5, UnitType DEF Valid, Times
  <2> QED
    BY <2>2, <2>3, <1>1, <1>2, <1>3, <1>4, UnitType
<1>6. CASE ~(n >= NsPerSec)
  <2>1. ArrayTimeout(t, p) = [sec |-> t.sec, nsec |-> n]
    BY <1>6 DEF ArrayTimeout
  <2>2. Ns(ArrayTimeout(t, p)) = t.sec * NsPerSec + n
    BY <2>1, <1>1, <1>2, NsOf
  <2>3. ArrayTimeout(t, p) \in Times /\ Valid(ArrayTimeout(t, p))
    BY <2>1, <1>1, <1>2, <1>6, UnitType DEF Valid, Times
  <2> QED
    BY <2>2, <2>3, <1>1, <1>2, <1>3, UnitType
<1> QED
  BY <1>5, <1>6

(* array.c: a valid deadline that did not overflow needed a carry of 0 or 1.*)
LEMMA ArrayTimeoutValid ==
  ASSUME NEW t \in Times, NEW p \in Int, Valid(ArrayTimeout(t, p))
  PROVE  t.nsec + p \in 0 .. 2 * NsPerSec - 1
<1> DEFINE n == t.nsec + p
<1>1. n \in Int
  BY UnitType DEF Times
<1>2. CASE n >= NsPerSec
  BY <1>1, <1>2, UnitType DEF ArrayTimeout, Valid
<1>3. CASE ~(n >= NsPerSec)
  BY <1>1, <1>3, UnitType DEF ArrayTimeout, Valid
<1> QED
  BY <1>2, <1>3

(* A time has one timespec.                                                 *)
LEMMA OneTimespec ==
  ASSUME NEW a \in Times, NEW b \in Times, Ns(a) = Ns(b)
  PROVE  a = b
<1>1. /\ a.sec \in Int /\ a.nsec \in 0 .. NsPerSec - 1 /\ a = [sec |-> a.sec, nsec |-> a.nsec]
      /\ b.sec \in Int /\ b.nsec \in 0 .. NsPerSec - 1 /\ b = [sec |-> b.sec, nsec |-> b.nsec]
  BY DEF Times
<1>2. a.sec * NsPerSec + a.nsec = b.sec * NsPerSec + b.nsec
  BY DEF Ns
<1>3. ASSUME NEW i \in Int, NEW j \in Int, NEW k \in 0 .. NsPerSec - 1,
             NEW l \in 0 .. NsPerSec - 1, i * NsPerSec + k = j * NsPerSec + l
      PROVE  ~(i < j)
  <2>1. SUFFICES ASSUME i < j PROVE FALSE
    OBVIOUS
  <2>2. (j - i - 1) * NsPerSec \in Nat
    BY <2>1, UnitType
  <2>3. (j - i - 1) * NsPerSec = j * NsPerSec - i * NsPerSec - NsPerSec
    BY UnitType
  <2>4. i * NsPerSec \in Int /\ j * NsPerSec \in Int
    BY UnitType
  <2> QED
    BY <1>3, <2>2, <2>3, <2>4, UnitType
<1>4. ~(a.sec < b.sec) /\ ~(b.sec < a.sec)
  BY <1>1, <1>2, <1>3
<1>5. a.sec = b.sec
  BY <1>1, <1>4
<1>6. ASSUME NEW c \in Int, NEW k \in Int, NEW l \in Int, c + k = c + l
      PROVE  k = l
  BY <1>6
<1>7. a.nsec = b.nsec
  <2>1. b.sec * NsPerSec \in Int /\ a.nsec \in Int /\ b.nsec \in Int
    BY <1>1, UnitType
  <2>2. b.sec * NsPerSec + a.nsec = b.sec * NsPerSec + b.nsec
    BY <1>2, <1>5
  <2> QED
    BY <1>6, <2>1, <2>2
<1> QED
  BY <1>1, <1>5, <1>7

(* C's quotient and remainder.                                              *)
LEMMA Division ==
  ASSUME NEW n \in Int
  PROVE  /\ Quotient(n) \in Int
         /\ Remainder(n) \in Int
         /\ n = Quotient(n) * NsPerSec + Remainder(n)
         /\ -NsPerSec < Remainder(n) /\ Remainder(n) < NsPerSec
<1>1. ASSUME NEW k \in Nat
      PROVE  /\ k \div NsPerSec \in Int
             /\ k = NsPerSec * (k \div NsPerSec) + (k % NsPerSec)
             /\ k % NsPerSec \in 0 .. NsPerSec - 1
  BY UnitType
<1>2. CASE n >= 0
  <2>1. Quotient(n) = n \div NsPerSec
    BY <1>2 DEF Quotient
  <2> QED
    BY <1>1, <1>2, <2>1, UnitType DEF Remainder
<1>3. CASE ~(n >= 0)
  <2>1. Quotient(n) = -((-n) \div NsPerSec) /\ -n \in Nat
    BY <1>3 DEF Quotient
  <2>2. Quotient(n) * NsPerSec = -(NsPerSec * ((-n) \div NsPerSec))
    BY <1>1, <2>1, UnitType
  <2> QED
    BY <1>1, <2>1, <2>2, UnitType DEF Remainder
<1> QED
  BY <1>2, <1>3

(* turnin/array.c: right for every number of milliseconds.                  *)
LEMMA TurninTimeoutRight ==
  ASSUME NEW t \in Times, NEW m \in Int
  PROVE  TurninTimeout(t, m) \in Times /\ Deadline(TurninTimeout(t, m), t, m)
<1> DEFINE n == t.nsec + m * NsPerMs
           q == Quotient(n)
           r == Remainder(n)
<1>1. t.sec \in Int /\ t.nsec \in Int /\ m * NsPerMs \in Int /\ n \in Int
  BY UnitAssumption, UnitType DEF Times
<1>2. /\ q \in Int /\ r \in Int
      /\ n = q * NsPerSec + r
      /\ -NsPerSec < r /\ r < NsPerSec
  BY <1>1, Division
<1> HIDE DEF q, r
<1>3. Ns(t) = t.sec * NsPerSec + t.nsec
  BY DEF Ns
<1>4. (t.sec + q) * NsPerSec = t.sec * NsPerSec + q * NsPerSec
  BY <1>1, <1>2, UnitType
<1>5. (t.sec + q - 1) * NsPerSec = (t.sec + q) * NsPerSec - NsPerSec
  BY <1>1, <1>2, UnitType
<1>6. CASE r < 0
  <2>1. TurninTimeout(t, m) = [sec |-> t.sec + q - 1, nsec |-> r + NsPerSec]
    BY <1>6 DEF TurninTimeout, q, r
  <2>2. Ns(TurninTimeout(t, m)) = (t.sec + q - 1) * NsPerSec + (r + NsPerSec)
    BY <2>1, <1>1, <1>2, NsOf, UnitType
  <2>3. TurninTimeout(t, m) \in Times /\ Valid(TurninTimeout(t, m))
    BY <2>1, <1>1, <1>2, <1>6, UnitType DEF Valid, Times
  <2>4. Ns(TurninTimeout(t, m)) = t.sec * NsPerSec + (q * NsPerSec + r)
    BY <2>2, <1>1, <1>2, <1>4, <1>5, UnitType
  <2>5. Ns(TurninTimeout(t, m)) = Ns(t) + m * NsPerMs
    BY <2>4, <1>1, <1>2, <1>3, UnitType
  <2> QED
    BY <2>3, <2>5 DEF Deadline
<1>7. CASE ~(r < 0)
  <2>1. TurninTimeout(t, m) = [sec |-> t.sec + q, nsec |-> r]
    BY <1>7 DEF TurninTimeout, q, r
  <2>2. Ns(TurninTimeout(t, m)) = (t.sec + q) * NsPerSec + r
    BY <2>1, <1>1, <1>2, NsOf
  <2>3. TurninTimeout(t, m) \in Times /\ Valid(TurninTimeout(t, m))
    BY <2>1, <1>1, <1>2, <1>7, UnitType DEF Valid, Times
  <2> QED
    BY <2>2, <2>3, <1>1, <1>2, <1>3, <1>4, UnitType DEF Deadline
<1> QED
  BY <1>6, <1>7

(* The two functions agree exactly while array.c's one carry is enough.     *)
LEMMA OneCarryAgrees ==
  ASSUME NEW t \in Times, NEW m \in Int
  PROVE  ArrayTimeout(t, m * NsPerMs) = TurninTimeout(t, m)
           <=> t.nsec + m * NsPerMs \in 0 .. 2 * NsPerSec - 1
<1> DEFINE p == m * NsPerMs
<1>1. p \in Int /\ TurninTimeout(t, m) \in Times
      /\ Valid(TurninTimeout(t, m)) /\ Ns(TurninTimeout(t, m)) = Ns(t) + p
  BY UnitAssumption, TurninTimeoutRight DEF Deadline
<1> HIDE DEF p
<1>2. ArrayTimeout(t, p) = TurninTimeout(t, m) => t.nsec + p \in 0 .. 2 * NsPerSec - 1
  BY <1>1, ArrayTimeoutValid
<1>3. ASSUME t.nsec + p \in 0 .. 2 * NsPerSec - 1
      PROVE  ArrayTimeout(t, p) = TurninTimeout(t, m)
  <2>1. ArrayTimeout(t, p) \in Times /\ Ns(ArrayTimeout(t, p)) = Ns(t) + p
    BY <1>1, <1>3, ArrayTimeoutRight
  <2> QED
    BY <1>1, <2>1, OneTimespec
<1> QED
  BY <1>2, <1>3 DEF p

-----------------------------------------------------------------------------
TypeInv ==
  /\ now \in Times
  /\ start \in Times
  /\ ms \in Int

LEMMA StepType ==
  ASSUME TypeInv, [Next]_vars
  PROVE  TypeInv'
<1>1. CASE Tick
  <2>1. now' \in Times
    BY <1>1, UnitType DEF Tick, TypeInv, Times
  <2> QED
    BY <1>1, <2>1 DEF Tick, TypeInv
<1>2. ASSUME NEW m \in Milliseconds, TimedWait(m)
      PROVE  TypeInv'
  BY <1>2, UnitAssumption DEF TimedWait, TypeInv
<1>3. CASE UNCHANGED vars
  BY <1>3 DEF vars, TypeInv
<1> QED
  BY <1>1, <1>2, <1>3 DEF Next, ClockEnds

LEMMA InitRight ==
  ASSUME Init
  PROVE  TypeInv /\ DeadlineRight /\ TurninRight
<1>1. now \in Times /\ Valid(now) /\ Ns(now) \in Int
  BY UnitType DEF Init, Times, Valid, Ns
<1>2. Deadline(now, now, 0)
  BY <1>1, UnitAssumption DEF Deadline
<1> QED
  BY <1>1, <1>2 DEF Init, TypeInv, DeadlineRight, TurninRight

LEMMA StepRight ==
  ASSUME TypeInv, DeadlineRight, TurninRight, [Next]_vars
  PROVE  DeadlineRight' /\ TurninRight'
<1>1. ASSUME NEW m \in Milliseconds, TimedWait(m)
      PROVE  DeadlineRight' /\ TurninRight'
  <2>1. now \in Times /\ m \in Int /\ start' = now /\ ms' = m
    BY <1>1, UnitAssumption DEF TimedWait, TypeInv
  <2>2. TurninRight'
    BY <1>1, <2>1, TurninTimeoutRight DEF TimedWait, TurninRight
  <2>3. ASSUME m \in 0 .. MsPerSec
        PROVE  Deadline(timeout', now, m)
    <3>1. timeout' = ArrayTimeout(now, m * NsPerMs) /\ m * NsPerMs \in 0 .. NsPerSec
      BY <1>1, <2>3, ProductBound DEF TimedWait
    <3>2. m * NsPerMs \in Int /\ now.nsec + m * NsPerMs \in 0 .. 2 * NsPerSec - 1
      BY <2>1, <3>1, UnitType DEF Times
    <3> QED
      BY <3>1, <3>2, <2>1, ArrayTimeoutRight DEF Deadline
  <2> QED
    BY <2>1, <2>2, <2>3 DEF DeadlineRight
<1>2. ASSUME UNCHANGED <<start, ms, timeout, turnin>>
      PROVE  DeadlineRight' /\ TurninRight'
  BY <1>2 DEF DeadlineRight, TurninRight
<1> QED
  BY <1>1, <1>2 DEF Next, Tick, ClockEnds, vars

(* Whenever array.c waits, for at most a second, its deadline is a valid    *)
(* timespec exactly that far ahead, whatever time the clock shows.          *)
THEOREM DeadlineCorrect == Spec => []DeadlineRight
<1>1. Init => TypeInv /\ DeadlineRight /\ TurninRight
  BY InitRight
<1>2. TypeInv /\ DeadlineRight /\ TurninRight /\ [Next]_vars
        => (TypeInv /\ DeadlineRight /\ TurninRight)'
  BY StepType, StepRight
<1> QED
  BY <1>1, <1>2, PTL DEF Spec

(* turnin/array.c's deadline is right for any number of milliseconds.       *)
THEOREM TurninCorrect == Spec => []TurninRight
<1>1. Init => TypeInv /\ DeadlineRight /\ TurninRight
  BY InitRight
<1>2. TypeInv /\ DeadlineRight /\ TurninRight /\ [Next]_vars
        => (TypeInv /\ DeadlineRight /\ TurninRight)'
  BY StepType, StepRight
<1> QED
  BY <1>1, <1>2, PTL DEF Spec

(* Short of overflow, array.c and turnin/array.c give the same deadline     *)
(* exactly when the sum of nanoseconds needs a carry of 0 or 1.             *)
THEOREM DifferCorrect == Spec => []DifferBeyondOneCarry
<1>1. Init => TypeInv /\ DifferBeyondOneCarry
  <2> SUFFICES ASSUME Init PROVE DifferBeyondOneCarry
    BY InitRight
  <2>1. now \in Times /\ start = now /\ timeout = now /\ turnin = now /\ ms = 0
    BY InitRight DEF Init, TypeInv
  <2>2. ms * NsPerMs = 0 /\ start.nsec \in 0 .. NsPerSec - 1
    BY <2>1, UnitAssumption DEF Times
  <2> QED
    BY <2>1, <2>2, UnitType DEF DifferBeyondOneCarry
<1>2. TypeInv /\ DifferBeyondOneCarry /\ [Next]_vars => DifferBeyondOneCarry'
  <2> SUFFICES ASSUME TypeInv, DifferBeyondOneCarry, [Next]_vars
               PROVE  DifferBeyondOneCarry'
    OBVIOUS
  <2>1. ASSUME NEW m \in Milliseconds, TimedWait(m)
        PROVE  DifferBeyondOneCarry'
    <3>1. now \in Times /\ m \in Int /\ start' = now /\ ms' = m
          /\ turnin' = TurninTimeout(now, m)
      BY <2>1, UnitAssumption DEF TimedWait, TypeInv
    <3>2. IntProducts(m) = {m * NsPerMs} => timeout' = ArrayTimeout(now, m * NsPerMs)
      BY <2>1 DEF TimedWait
    <3> QED
      BY <3>1, <3>2, OneCarryAgrees DEF DifferBeyondOneCarry
  <2>2. CASE UNCHANGED <<start, ms, timeout, turnin>>
    BY <2>2 DEF DifferBeyondOneCarry
  <2> QED
    BY <2>1, <2>2 DEF Next, Tick, ClockEnds, vars
<1>3. TypeInv /\ [Next]_vars => TypeInv'
  BY StepType
<1> QED
  BY <1>1, <1>2, <1>3, PTL DEF Spec
=============================================================================
