------------------------------ MODULE GetTimeout -----------------------------
(***************************************************************************)
(* get_timeout, in array.c and in turnin/array.c: the deadline of a timed  *)
(* wait is the time of day plus some milliseconds, as a struct timespec.   *)
(* array.c multiplies in an int and carries at most one second;            *)
(* turnin/array.c multiplies in a long long and divides.                   *)
(*                                                                         *)
(* A product that does not fit an int is undefined in C: it may wrap, or   *)
(* the compiler may have used a wider register.  The fields of a timespec  *)
(* are 64 bits wide and do not overflow here.  Every caller of the code    *)
(* passes 100; the functions are examined for all values.                  *)
(***************************************************************************)
EXTENDS Integers

CONSTANTS
  NsPerMs, MsPerSec,   (* 1000000 and 1000; smaller for TLC                *)
  IntMax,              (* the largest int                                  *)
  Milliseconds,        (* what get_timeout is called with                  *)
  LastSec              (* bound: the clock is not followed further         *)

NsPerSec == MsPerSec * NsPerMs

ASSUME UnitAssumption ==
  /\ NsPerMs \in Nat \ {0} /\ MsPerSec \in Nat \ {0}
  /\ IntMax \in Nat /\ NsPerSec <= IntMax
  /\ Milliseconds \subseteq Int

Times == [sec : Int, nsec : 0 .. NsPerSec - 1]     (* what a clock shows    *)
Ns(ts) == ts.sec * NsPerSec + ts.nsec
Valid(ts) == 0 <= ts.nsec /\ ts.nsec < NsPerSec
Deadline(ts, now, ms) == Valid(ts) /\ Ns(ts) = Ns(now) + ms * NsPerMs

(* The int product, and what it may be when it does not fit.                *)
Wrapped(p) == ((p + IntMax + 1) % (2 * IntMax + 2)) - (IntMax + 1)
IntProducts(ms) ==
  LET p == ms * NsPerMs IN
  IF -IntMax - 1 <= p /\ p <= IntMax THEN {p} ELSE {p, Wrapped(p)}

ArrayTimeoutLate(now, product) ==             (* mutant: > for >=          *)
  LET nsec == now.nsec + product IN
  IF nsec > NsPerSec THEN [sec |-> now.sec + 1, nsec |-> nsec - NsPerSec]
                     ELSE [sec |-> now.sec, nsec |-> nsec]
ArrayTimeout(now, product) ==
  LET nsec == now.nsec + product IN
  IF nsec >= NsPerSec THEN [sec |-> now.sec + 1, nsec |-> nsec - NsPerSec]
                      ELSE [sec |-> now.sec, nsec |-> nsec]

(* C's division rounds towards zero.                                        *)
Quotient(n)  == IF n >= 0 THEN n \div NsPerSec ELSE -((-n) \div NsPerSec)
Remainder(n) == n - Quotient(n) * NsPerSec

TurninTimeoutRaw(now, ms) ==                  (* mutant: sign not repaired *)
  LET nsec == now.nsec + ms * NsPerMs IN
  [sec |-> now.sec + Quotient(nsec), nsec |-> Remainder(nsec)]
TurninTimeout(now, ms) ==
  LET nsec == now.nsec + ms * NsPerMs IN
  IF Remainder(nsec) < 0
  THEN [sec |-> now.sec + Quotient(nsec) - 1, nsec |-> Remainder(nsec) + NsPerSec]
  ELSE [sec |-> now.sec + Quotient(nsec), nsec |-> Remainder(nsec)]

-----------------------------------------------------------------------------
VARIABLES
  now,        (* CLOCK_REALTIME                                            *)
  start, ms,  (* when it called get_timeout, and with what                 *)
  timeout,    (* the deadline it got                                       *)
  turnin      (* the one it would have got from turnin/array.c             *)

vars == <<now, start, ms, timeout, turnin>>

Init ==
  /\ \E n \in 0 .. NsPerSec - 1 : now = [sec |-> 0, nsec |-> n]
  /\ start = now
  /\ ms = 0
  /\ timeout = now
  /\ turnin = now

Tick ==
  /\ now.sec <= LastSec
  /\ now' = IF now.nsec + 1 = NsPerSec THEN [sec |-> now.sec + 1, nsec |-> 0]
                                       ELSE [now EXCEPT !.nsec = @ + 1]
  /\ UNCHANGED <<start, ms, timeout, turnin>>

(* The deadline with which pthread_cond_timedwait is called.                *)
TimedWait(m) ==
  /\ start' = now
  /\ ms' = m
  /\ \E product \in IntProducts(m) : timeout' = ArrayTimeout(now, product)
  /\ turnin' = TurninTimeout(now, m)
  /\ UNCHANGED now

ClockEnds == now.sec > LastSec /\ UNCHANGED vars

Next ==
  \/ Tick
  \/ \E m \in Milliseconds : TimedWait(m)
  \/ ClockEnds

Spec == Init /\ [][Next]_vars

-----------------------------------------------------------------------------
(* array.c's deadline is a valid timespec, exactly so many milliseconds     *)
(* ahead, for anything from 0 to 1000 ms: one that is not makes             *)
(* pthread_cond_timedwait return at once (EINVAL), and the loops of         *)
(* array_put and array_get (array.c:39, 71) busy.                           *)
DeadlineRight == ms \in 0 .. MsPerSec => Deadline(timeout, start, ms)

(* That of turnin/array.c is, for any number of milliseconds.               *)
TurninRight == Deadline(turnin, start, ms)

(* Short of overflow the two differ exactly when the carry is not 0 or 1.   *)
DifferBeyondOneCarry ==
  IntProducts(ms) = {ms * NsPerMs} =>
    (timeout = turnin <=> start.nsec + ms * NsPerMs \in 0 .. 2 * NsPerSec - 1)
=============================================================================
