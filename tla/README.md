# Verification of the multi-threaded DNS resolver

TLA+ models of this repository's C code, TLC runs that check them on small
instances, and TLAPS proofs about the queue, the threads, the sequential program and the
timeouts. Line numbers refer to the files under `src/`.

## 1. The system

| component | state | operations |
|---|---|---|
| queue (`array.c`, `array.h`) | ring `storeString`, `head`, `tail`, `shutdown`, atomic `active_getters`, one mutex, four condition variables | `array_init`, `array_put`, `array_get`, `array_free` |
| requesters (`dnsthreaded.c:48`) | the open file, `files_serviced`, shared `active_file_readers` | take a filename, read lines, put each in two queues; the last one frees those queues |
| resolvers (`dnsthreaded.c:256`) | the hostname in hand, `hosts_resolved` | take a hostname, `getaddrinfo`, put one log line |
| two log threads (`dnsthreaded.c:228`, `:242`) | their log file | take a line, write it |
| `main` (`dnsthreaded.c:283`) | thread tables, position in `argv` | count files, start threads, queue filenames, free queues, join |
| `handle_signal` (`dnsthreaded.c:181`) | none | frees the four queues inside whatever thread was interrupted, exits |
| `get_timeout` (`array.c:7`) | none | wall clock plus milliseconds |
| `dnssimple.c` | one log file | the same work in one thread |
| `test.c` | `items_produced`, `items_consumed`, `consumed_items` | 100 producers and 10 consumers on one queue |
| `turnin/` | | a copy; other `get_timeout`, `ARRAY_SIZE` 256 instead of 8 |

    main --filename--> requesters --hostname--> resolvers
                          |                        |
                    requester_log            resolver_log
                          v                        v
                  requester logger          resolver logger

The threads share nothing but the four queues and `active_file_readers`.
Strings are passed by pointer: who puts gives the string away, who gets frees it.

What is hard here, and the properties that say it is right:

- **Interleaving on the ring.** A string must have one owner at all times
  (`OneOwner`), the queue must be FIFO and refuse puts once shut down
  (`ImplementsBoundedQueue`), and the mutex must be held on exactly the right
  paths (`LockDiscipline`).
- **One signal per event.** Lost wakeups would be hidden by the 100 ms timeouts;
  `NoLostNotEmpty` and `NoLostNotFull` say that no signal is ever missing.
- **Shutdown while in use.** `array_free` sets `shutdown`, drains, waits for the
  getters it can see, and destroys the mutex. `DrainedAtDestroy`,
  `ActiveGettersExact`, `FreeReturns`, `AcceptedIsConsumed`, `GettersStop`;
  `GettersFinishBeforeDestroy` does not hold (section 6).
- **Order of the shutdowns.** A queue must be shut down only when nobody will put
  into it again (`NothingRefused`), by the last requester (`ReadersExact`) and by
  `main` in the right order, and everything must end (`Ends`): the program is never
  kept busy for ever (`WorkShrinks`), and while it runs some thread can go on
  (`NoDeadlock`), whatever has failed before.
- **Shutdown by a signal.** `handle_signal` calls `array_free` inside an interrupted
  thread while the others go on. If it gets as far as `exit` nothing is left in a
  queue (`ExitsDrained`) and the logs agree but for one line
  (`OneUnrecordedAtMost`); when `main` was waiting in a join it always gets there
  (`JoinInterruptedExits`), and in general it does not (`SignalEnds`, section 6).
- **End to end.** Every hostname is logged exactly once (`ResolvedOnce`,
  `EveryHostLogged`) and in file order (`RequestedOnceInOrder`); the printed
  statistics agree with the logs (`StatsAgree`); both programs keep one promise
  (`ImplementsHostLookup`).
- **Time.** A deadline must be a valid `timespec` as far ahead as asked
  (`DeadlineRight`, `TurninRight`, `DifferBeyondOneCarry`).
- **Failure.** `fopen`, `strdup`, `malloc` and `pthread_create` may fail anywhere.

`PROJECT.json` lists each hazard at its line with the property that covers it.

## 2. Modules

| module | what it is |
|---|---|
| `BoundedQueue` | abstract: a bounded FIFO queue that can be closed |
| `ArrayQueue` | `array.c`; refines `BoundedQueue` |
| `ArrayQueueProofs` | invariants of `ArrayQueue` proved for all parameters: types, the mutex, the drain, the getter count |
| `ArrayQueueCorrect` | on top of them: the ring implements `BoundedQueue`, strings have one owner, no wakeup is lost |
| `DataLemmas` | what `Append`, `Tail` and `Front` do to the elements of a sequence, induction over finite sets, sums over finite sets |
| `MCArrayQueue` | symmetry set for TLC |
| `HostLookup` | abstract: hostnames in, one answer each in the log, and how a program may end |
| `DnsThreaded` | `dnsthreaded.c`: main, the threads, the four queues, the signal handler; refines `HostLookup` |
| `DnsThreadedProofs` | proofs about `DnsThreaded` for all parameters: the order of the shutdowns |
| `DnsPipelineProofs` | types, who runs when, that nothing is left in the queues at an exit, that nobody waits for nobody |
| `DnsHostnamesProofs` | where the hostnames go: once through the pipeline, both logs complete, refinement of `HostLookup`, the statistics; and that every step leaves less to do |
| `MCDnsThreaded` | small inputs and command lines for TLC |
| `DnsSimple` | `dnssimple.c`; refines `HostLookup` |
| `DnsSimpleProofs` | its order and its refinement proved for every input |
| `MCDnsSimple` | five files |
| `GetTimeout` | `get_timeout` of `array.c` and of `turnin/array.c` |
| `GetTimeoutProofs` | its properties proved for every clock, every width of int and every argument |
| `MCGetTimeout` | a range of milliseconds |

Operators whose comment says "mutant" are deliberately wrong versions of the
definition below them. `PROJECT.json` pairs each property with one that breaks it.

### ArrayQueue

A thread is a program counter `pc` and the string in its `hand`. What runs under
the mutex runs from one `Acquire` to one `Release`; taking the mutex is a step of
its own, so that threads compete for it. What happens outside the mutex is a step
too: `atomic_fetch_add` before the lock (`GetEnter`, line 66) and
`atomic_fetch_sub` after the unlock (`GetLeave`, line 120).

| code | action |
|---|---|
| `array_put` 30, and the return from the wait at 43 | `PutLock` |
| 33-36, 46-49 | `PutShutdown` |
| 39-43 | `PutWait` |
| 53-59 | `PutStore` |
| `array_get` 66 / 68, 75 | `GetEnter` / `GetLock` |
| 71-75 | `GetWait` |
| 78-89, 93-103 | `GetShutdown` |
| 106-117 / 120 | `GetRemove` / `GetLeave` |
| 93 / 106 / the read of `head` in 107 / its write and 110-117, without the mutex | `GetPass` / `GetTake` / `GetSee` / `GetAdvance` |
| `array_free` 126, 144, 161 | `FreeLock` |
| 129-144 | `FreeMark` (first pass of the drain) |
| 144-147 | `FreeDrain` (after a wait) |
| 152-153 | `FreeWake` |
| 156-161 | `FreeCount`; `FreeLock` leaves the loop on result 0 (162) |
| 167 / 170-174 | `FreeUnlock` / `FreeDestroy` |

`pthread_cond_timedwait` puts the thread into the sleepers of its condition
variable and releases the mutex in one step. A signal, a broadcast, `Timeout` or
`SpuriousWakeup` takes it out; it then competes for the mutex like any other
thread. `result` is what the wait returns, which only `array_free` looks at.
`array_put` and `array_get` ignore it and loop, so for them a spurious wakeup and
a timeout are the same step (`Timeout`). The constant `SpuriousWakeups` says whether
a freer's wait may return 0 with no signal, as POSIX permits.

Locking a destroyed mutex is undefined. `DestroyedLock` is the set of outcomes
considered: the thread gets the mutex (glibc leaves the lock word usable), the call
returns an error that nobody looks at and the thread goes on without the mutex
(glibc marks the mutex kind invalid, and returns `EINVAL`), or it hangs. The
sleepers survive the destruction.

A thread that goes on without the mutex is no longer alone in the ring. When the queue was
destroyed empty this makes no difference: a putter is refused and a getter told to leave, both by
fields nobody changes any more. After a spurious wakeup it may be destroyed with strings in it.
Getters without the mutex then remove them access by access (`GetPass` to `GetAdvance`; `seen`
is the `head` a getter has read and not yet written back), so that two of them can take the same
string, skip one, or step over `tail`. `Race` says that two getters are at it at once, at least
one of them without the mutex.

`Freers` call `array_free` once each; two of them stand for the last requester and
`main`, which both free `requester_logfile_queue` (132, 499).

### DnsThreaded

A queue is a sequence with `shutdown` and `destroyed` flags. A critical section of
`array.c` is one step. That is sound because the mutex makes it one until the
destruction (`LockDiscipline`, proved), and because after it the queue is empty and
closed (`DrainedAtDestroy`), so that a getter only reads two fields nobody changes
any more. (With spurious wakeups a queue may be destroyed with strings in it, see
section 6; `DnsThreaded` leaves them out, and with them the exit of the drain at
`array.c:145` while strings are left.) A blocking call is an action that is not enabled; the 100 ms timeouts only
repeat the test. `array_free` stays four steps (`stage`: close, drain, count,
destroy) and entering `array_get` stays apart from the removal, since the getters
that `array_free` waits for are those between the two.

| code | action |
|---|---|
| `process_files_from_queue` 56-58 / 60-78 / 83-91 | `RequestFile` / `OpenFile`, `LeaveFiles` / `ReadLine` |
| 69-75 / 93-105 / 107-120 | `SkipFile` / `LogRequest` / `PutHost` |
| `array_put` 30, on a destroyed mutex, from 96 and 115 / 216 / 451 | `RequesterHangs` / `ResolverHangs` / `QueueHangs` |
| 128-134 | `ExitReader`, then `FreeHosts`, `FreeReqLog` for the last |
| `resolver_thread` 264 / 266-271 | `RequestHost` / `TakeHost`, `LeaveHosts` |
| `resolve_then_log` | `LogResolved` |
| log threads | `RequestLine`, `WriteLine`, `LeaveLog` |
| `main` 293-317 / 319-335 / 337-365 | `CheckArguments` / `CountValid` / `OpenLogs` |
| 367-378 / 380-391 / 393-412 | `StartReqLogger` / `StartResLogger` / `AllocateThreads` |
| the three clean-up blocks 371-377, 384-390, 401-411 | `CleanUp` |
| 414-435 / 437-456 / 458-471 | `CreateRequesters` / `QueueName` / `CreateResolvers` |
| 474 / 476-496 / 499 / 500 / 503-504 | `FreeNames` / `JoinRequesters`, `JoinResolvers` / `FreeReqLogAgain` / `FreeResLog` / `JoinLoggers` |
| `handle_signal` 183-186 / 187 | `HandlerFrees` / `HandlerExits` |

A signal is delivered to one thread, the `victim`, wherever it is (`Interrupt`). The
handler runs in that thread's place as the pseudo-thread `Handler`; the victim never
moves again, because the handler ends in `exit` or not at all. `held` is the queue
whose mutex the victim owns, if it was interrupted inside a critical section: one
of the queues it is executing an `array_` function on (`MayOwn`), or none. The
operations that lock that mutex are then disabled for everybody, the handler
included. A victim inside `array_get` stays an active getter. So does a getter that hangs on
a destroyed mutex (`stuck_get`): it was counted (`array.c:66`) before it asked for the mutex.
Only after a signal does anybody put into a destroyed queue.

`HostLookup` allows three ends: success, when all that was due is answered; failure,
before the first answer; and being brought down, which may lose the last answer.
`DnsThreaded` maps its resolver log to the answers, a return from `main` to success,
an exit after a failed start to failure, and a signal or a crash to being brought
down.

Abstractions:

- A hostname is its position `<<file, line>>`, so that the same name on two lines
  is two items. A line matters only as blank or not. What `getaddrinfo` answers
  selects the text and nothing else: one line per hostname either way.
- `GetLeave` (line 120) is part of the removal here. `array_free` could see the
  getter counted a moment longer; it would wait for a time, not decide otherwise.
- `array_free`'s last wait ends at a moment with no active getter. In the code a
  getter may enter between that moment and the destruction, and so it may here,
  between the stages count and destroy.
- All requesters are created in one step, and all resolvers. A requester that runs
  before the last one is created can only wait or take filenames that are not there
  yet; the count is reduced before any of them can leave, since they leave only
  after `FreeNames`. A resolver started early only gets more interleavings with
  `main`'s own thread creation, on which nothing depends.
- The put of a log line and `hosts_resolved++` (216-222) are one step. The counter is the
  resolver's own and read after its join; `StatsAgree` therefore speaks of it only when the
  resolvers are gone.
- `file_reader_mutex` is not modelled: the decrement is one step, and the last
  requester holds it across two `array_free` calls when nobody else asks for it.
- `Join` of a thread that was never created (an uninitialized `pthread_t`) returns
  or takes the process down.
- `array_init` returns `ARRAY_SUCCESS` always (`array.c:26`), so the clean-up block
  357-364 is never run. A signal before it finds queues that are zero, which is
  what `array_init` makes them.
- One signal is considered. `signal` may or may not reset its disposition, and a
  second signal either ends the process at once or starts the same handler again.
- The locks inside `printf`, `malloc` and stdio are left out: a handler that
  interrupts their owner could also hang there.
- A line a log thread has taken and not yet written when the handler calls `exit` is
  decided at the `exit`: the last line of the log of a thread that is past its
  removal may be missing (`HandlerExits`).

### DnsSimple

One thread: `CheckArguments`, `CountValid`, `OpenLog`, then for each file `OpenFile` or
`SkipFile`, `ProcessLine` for each line (`getline`, `dns_resolve`, `fprintf`), `CloseFile`,
and `Finish`. `HandleSignal` may come at any time and only exits. There is no test for
an empty line here (61-79), so every line is due.

### GetTimeout

`ArrayTimeout` and `TurninTimeout` are the two versions as functions of the time and
of the milliseconds. The product in `array.c:9` is an int: where it does not fit it is
undefined, and `IntProducts` holds the wrapped and the mathematical value. `Quotient`
and `Remainder` are C's division, which rounds towards zero. The state machine is a
clock and the deadlines computed by it. The 64-bit fields of a `timespec` do not overflow here.

## 3. Runs

| run | instance | checks |
|---|---|---|
| `aq_safety` | 2 putters, 3 getters, 2 freers, 4 strings, `ARRAY_SIZE` 3; symmetry | `TypeOK`, `LockDiscipline`, `OneOwner`, `ActiveGettersExact`, `NoLostNotEmpty`, `NoLostNotFull`, `DrainedAtDestroy`, `ImplementsBoundedQueue`; no deadlock |
| `aq_live` | 1 putter, 2 getters, 1 freer, 2 strings, `ARRAY_SIZE` 3, spurious wakeups, a destroyed mutex that is acquired or gives an error | `FreeReturns`, `AcceptedIsConsumed`, `GettersStop` |
| `dns_safety` | 2 requesters, 2 resolvers, 2 files, `ARRAY_SIZE` 2, no faults; symmetry | `TypeOK`, `ResolvedOnce`, `RequestedOnceInOrder`, `NothingRefused`, `ImplementsHostLookup`; no deadlock |
| `dns_faults` | the same on shorter files, wrong command lines, every fault on | `ResolvedOnce`, `NothingRefused`, `ReadersExact`, `StatsAgree`, `NoDeadlock` |
| `dns_live` | 1 requester, 2 resolvers, 2 files, the first of which may not open; creation of any thread but the requester, and opening the log files, may fail | `Ends`, `EveryHostLogged`, `WorkShrinks` |
| `dns_signal` | 1 requester, 1 resolver, 2 files, a signal to main, the requester or a log thread; a destroyed mutex may hang whoever locks it | `OneUnrecordedAtMost`, `ExitsDrained`, `JoinInterruptedExits`, `ImplementsHostLookup`, `NoDeadlock` |
| `dns_simple` | 5 files, one of them empty, one that never opens, two that may not | `InInputOrder`, `ImplementsHostLookup`, `Ends` |
| `get_timeout` | a second of 20 ns and 10 ms, every time of day, from -2 to 3 seconds of milliseconds, an int that overflows after two seconds | `DeadlineRight`, `TurninRight`, `DifferBeyondOneCarry` |

The runs named `*_v_*` are the findings of section 6. `dns_faults`, `dns_live`,
`dns_signal`, `dns_v_startup` and `dns_v_signal` switch the deadlock check off: there
the system really stops. `NoDeadlock` says in which states it may.

**Bounds.** Four strings on a ring with two usable slots wrap it, fill it, empty it
and leave two putters waiting beside a full ring (with three, a not_full signal
sent only when the ring was full would go unnoticed); two putters and three getters make a signal able to reach the wrong thread; two
freers cover the double free. `ARRAY_SIZE` 2 in `DnsThreaded` (one usable slot)
makes every queue full whenever it is not empty, so that every blocking interaction
between the stages happens; two threads of each kind make "the last one" differ
from "the first one". The inputs have a blank line, several lines per file, and
more files than the filename queue holds. No counter needs a bound: the
strings and the lines are finite; only `GetTimeout`'s clock has one, `LastSec`. The
scaled clock of `get_timeout` keeps what matters: the carry is 0, 1 or more, and the
product fits or does not; 1 of its milliseconds is the tenth of a second every caller
passes. In `aq_live` the ring has room for both strings, so that two getters without the mutex
can skip one; `AcceptedIsConsumed` then excuses a string only if there was a `Race`. The two
files of `dns_live` fit into the filename queue and the requester's hand: more than that may block `main`
for good, which `dns_v_startup` shows (section 6). `dns_signal` has one thread of each kind since one of each is
enough to leave a mutex owned, a drain without a drainer and a getter counted. Symmetry is used in safety runs only.

**Fairness.** `ArrayQueue`: a thread that runs goes on (weak), a timed wait ends
(weak on `Timeout`, justified by the absolute deadlines of 100 ms and 1 s), a thread
that asks for the mutex again and again gets it some time (strong on the lock steps;
weak fairness would let another thread take the mutex between any two moments at
which it is free). No fairness makes a client put or call `array_free`.
`DnsThreaded`: weak fairness of each thread. A put or get waiting there is disabled;
with weak fairness alone another thread may overtake it for ever only if the others
cycle for ever, and none can: every step leaves less to do (`WorkShrinks`, proved; it
counts steps that change something, not the turns of a timed wait). `getaddrinfo` is assumed to return.
The handler is scheduled like any thread; no fairness delivers a signal.
`DnsSimple`: weak fairness of its one thread. When no resolver can be created the
program may hang for good; `Ends` and `EveryHostLogged` name that case (`NoResolver`).

`aq_live` leaves out the outcome "stuck" of a destroyed mutex, and `dns_live`
likewise (`StuckOnDestroyed` is FALSE): with it getters do hang, and `main` waits for
them for ever. In `dns_signal` it is TRUE, and `JoinInterruptedExits` names that one excuse:
the handler hangs on a mutex that was destroyed before it came, or for a getter that hangs on one.

`dns_simple`'s `Ends` also says how: unless a signal or a failed start ended it, every file
is in the log to its last line, or not at all if it failed to open (`WholeFiles`).

## 4. What is proved

`ArrayQueueProofs`, for every number of threads, every set of strings and every
`ARRAY_SIZE >= 2`:

- `TypeCorrect == Spec => []TypeOK`. Inductive as it stands: one lemma per role
  (`PutType`, `GetType`, `FreeType`), one step per action, resting on `GotoType`
  and `AcquireType`.
- `LockCorrect == Spec => []LockDiscipline`. Inductive beside `TypeOK`. Every action
  is one of three kinds: it takes the mutex and enters a critical section
  (`LockTaken`), gives it up and leaves one (`LockGivenUp`), or does neither
  (`LockUntouched`). It says nothing once the mutex is destroyed
  (`DestroyedForGood`), where one outcome of a lock is to go on without it.
- `DrainCorrect`, under `~SpuriousWakeups`: `Spec => []DrainedAtDestroy`. The
  property is not inductive: `FreeDestroy` needs the ring to be empty, which it
  does not test. `DrainInv` says of every freer what it knows at each place: past
  the drain loop the queue is shut down and empty (`Drained`); awake in the loop with
  result 0 likewise, because only `GetRemove` on a ring it has emptied
  signals `array_emptied`. `DrainedStays` says this knowledge cannot go stale:
  `PutStore` tests `shutdown`. `NoneUnlocked` says that no getter is removing a string without
  the mutex; it rests on `LockDiscipline`, since only a destroyed mutex lets a getter in and a
  queue is destroyed empty (`NeverUnlocked`). The theorem holds also after the destruction and
  for a second `array_free`. `DrainInv` was also checked by TLC on the instance of `aq_safety`.

- `ActiveGettersCorrect == Spec => []ActiveGettersExact`. Inductive beside `TypeOK`: only
  a getter's own step takes it into `array_get` or out of it, and that step changes
  the counter by one.

`ArrayQueueCorrect`, for the same parameters:

- `OwnerCorrect`, under `~SpuriousWakeups`: `Spec => []OneOwner`. That each string has one owner does not say that
  a string moved from a hand to a slot was in no second hand, so it is not inductive.
  `SoleOwner` says it with quantifiers: a string is with its client, in one hand or in one slot,
  consumed or refused, and only one of these; no two threads hold the same one
  (`HandsDiffer`). It rests on `Holding`: the occupied slots, and the hands of the
  threads that should have one, hold strings. The counting of `OneOwner` follows at the end.
  A thread may go on without the mutex once that is destroyed; by `DrainInv` it then finds
  nothing to take. Without the assumption the theorem is false: two getters without the
  mutex can take the same string (`array.c:106`).
- `RefinementCorrect`, under `~SpuriousWakeups`: `Spec => ImplementsBoundedQueue`, one
  lemma per role. `PutStore`, `GetRemove`, the two refusals, the first pass of
  `array_free` and the destruction are steps of `BoundedQueue`; all others are `Quiet` and
  stutter. `StoreAppends` and `RemoveTakesHead` show that a store appends to `Contents` and a
  removal takes its head; the modulus enters as a case distinction (`ModOnce`). That the
  destruction finds an empty queue is `DrainInv`.
- `NotEmptyCorrect == Spec => []NoLostNotEmpty`, `NotFullCorrect == Spec =>
  []NoLostNotFull`. A signal wakes one sleeper, which adds one to those awake
  (`SignalWakesOne`); a thread leaves the awake only by taking a string or a slot, or by being
  told to go. The last needs `Woken`: once the queue is shut down no one sleeps on
  either condition any more, except while `array_free` is between the mark and its broadcasts.
  While it is there it owns the mutex (`LockDiscipline`), so no putter can leave then
  (`NobodyElseInside`).

Assumptions: `ThreadsAssumption` (the roles are disjoint, `None` is neither a thread
nor a string), `SizeAssumption`, and where threads are counted `FiniteAssumption` (finitely many
getters and putters). Without `~SpuriousWakeups`, `DrainCorrect`, `OwnerCorrect` and
`RefinementCorrect` are false (`aq_v_drain`); the others hold with spurious wakeups too.

`DnsThreadedProofs`, for every number of threads, every input, every queue size and
every fault of the model, and without a signal (`Interrupted = {}`):

- `NeverRefused`: `Spec => []NothingRefused`, and `ReadersCorrect`: `Spec =>
  []ReadersExact`. Neither is inductive, and they need each other: that a queue is open
  when somebody puts into it rests on the last reader being the last, which rests on
  the count. `Inv` adds `Order`: while `main` is before the creation of the
  requesters nothing is shut down (`OpenBefore`) and no worker has started
  (`Unstarted`, also after a failed start); a requester that frees the queues is the
  only one left (`LastReaderAlone`); the hostname queue and the requester log are
  closed only when nobody reads any more, the resolver log only when every resolver is
  gone (`ClosedToPutters`); they are not destroyed under the thread that frees them
  (`DestroyedAfter`), which is what keeps it out of the outcome "stuck"; and past
  each join that group is gone (`Joined`). Steps that only move a worker or `main` are
  dealt with once (`WorkerMoves`, `MainMoves`), closing a queue once (`Closes`). `Inv` was
  also checked by TLC on the instance of `dns_faults`.

With a signal `NothingRefused` is false: the handler closes queues others still fill.

`DnsPipelineProofs` and `DnsHostnamesProofs` are without that restriction: every number of
threads, every input, every queue size, every fault, and a signal to any thread at any time.

- `TypesCorrect == Spec => []TypeOK`. Not inductive: that `PutHost` puts a hostname
  needs the position the requester is at to be a line that is not blank (`Typed`), and that a
  worker starts at a place of its own needs that it has not started before (`Launch`).
- `ExitsDrainedCorrect == Spec => []ExitsDrained`. A queue that is shut down and empty stays
  so (`ClosedForGood`). `FreeProgress` says how far an `array_free` is, `FreedSoFar` which queues
  main, the last requester and the handler have left closed and empty at each place, `HostsFreed`
  that main can rely on the last requester for the hostname queue. `FreeStep` and
  `OtherStep` divide the actions into those of `array_free` and the rest, so that each
  conjunct is shown for two kinds of step and not for forty actions.
- `ResolvedOnceCorrect == Spec => []ResolvedOnce`. The state of the input is what
  decides: a position is `Behind` when no file name not yet queued, queued or being read can
  produce it any more. `Reads` says that each file is in one of these states once, `PassedBehind`
  that whatever was passed on is behind, and `OnePlace` that it is in one queue, hand or log, once;
  a requester passes on only the position it is at, which is not behind. For
  completeness `AllPassed`: until a signal, and without a failed allocation, every due hostname
  behind the requesters is in flow. When main has made the last join all files are read and
  the queues are empty, so it is in the log. This uses `NeverRefused`'s invariant.
- `RequestedOnceCorrect == Spec => []RequestedOnceInOrder`. `RequestOrder`: the log, then
  the queue, then the requester at work are in the order of each file; `AllRequested` as above.
- `OneUnrecordedCorrect == Spec => []OneUnrecordedAtMost`. `RecordedBefore`: who is about to
  pass a hostname has recorded it, or the hostname queue is closed already. It holds because the
  requester log is never closed before the hostname queue (`HostsClosedFirst`), by the order of
  the calls in the handler and in the last requester. `PassedRecorded`: at most one passed
  hostname is ever missing, and none before the exit in the handler.
- `HostLookupCorrect == Spec => ImplementsHostLookup`. With the invariants above every
  step is one of `HostLookup`'s or a stutter; `NoAnswerYet` makes a failed start a failure, and
  `AllAnswered` makes the return from main a success.
- `StatsCorrect == Spec => []StatsAgree`, what the counters say when they are read. The counters of one kind add up to what the
  threads have passed on: `HostsCounted`, the lines in the resolver log and its queue
  are as many as the resolvers counted (until an exit in the handler loses one), and `FilesCounted`, the files taken from the
  filename queue are as many as the requesters counted, up to those that did not open. A step changes one counter by one (`DataLemmas`: a sum over a finite set
  changes as its one changed summand does). The induction over finite sets behind it is
  the well-founded induction of the library restated with sets in place of operators.
- `NoDeadlockCorrect == Spec => []NoDeadlock`. `WaitInv` adds to the invariant of
  `ExitsDrainedCorrect` who is there to let a waiting thread through: the log threads run
  until told to stop (`LoggersUp`), a requester leaves only when the filename queue is
  closed and empty (`Told`), no mutex has a dead owner but the interrupted thread's
  (`NoneHeld`), and the last requester has closed what the resolvers wait for when `main`
  joins them (`JoinedHosts`). Then who waits says which queue is full or empty: a full queue
  has a getter that can take, an empty open one a thread upstream of it or `main`; follow
  that as far as the log threads, which wait for nobody but their queue. What is left over is
  `Hangs`: a thread stuck on a destroyed mutex (`stuck`, `stuck_get`), `main` stuck with its filenames before it creates a
  resolver (`dns_v_startup`), a missing group of threads. `CanGoOn` says with the guards
  what `ENABLED` would. TLC compared the two: `CanGoOn` implies the thread's step is enabled
  on the instances of `dns_faults` and `dns_signal`, and is equivalent to it on that of
  `dns_safety`.
- `WorkShrinksCorrect == Spec => WorkShrinks`. `Work` adds a rank for each thread's
  place, the steps left in an `array_free`, the lines a requester has still to read, the
  files not yet opened and the lines in the queues. A step takes more off one of these than it
  puts on another: reading a line pays for the two log lines and the hostname it makes. It
  needs the invariant of `NoDeadlockCorrect` for the starts of threads (nobody is started
  twice), and `DataLemmas` for the sums. Together with `NoDeadlockCorrect` this is the
  safety half of `Ends`: there are finitely many steps, and they stop only where the program
  ended, hangs in one of the ways named, or a signal hit another thread than a joining `main`.

Assumptions: `ThreadAssumption` (roles disjoint, requesters and resolvers finite and not empty),
`QueueAssumption`, `InputAssumption` (the input is a sequence of files, each a sequence of
lines), `FaultAssumption`, `CommandLineAssumption` (what main accepts fits the input).
Before they were proved, these invariants were evaluated by TLC on the instances of `dns_safety`,
`dns_faults` and `dns_signal`; the exception is the second half of `PassedRecorded`, whose
quantifier is unbounded.

`DnsSimpleProofs`, for every input, every set of files that cannot be opened and a signal
at any time:

- `InputOrderCorrect == Spec => []InInputOrder`. `LastLogged` relates the end of the log to
  where main is, so that the next line continues it.
- `SimpleLookupCorrect == Spec => ImplementsHostLookup`. `LoggedPast` (what is logged is
  behind main, so no line is answered twice) and `PastLogged` (what is due and behind main
  is logged, so nothing is missing at the end).

`GetTimeoutProofs`, for every length of the units and every int at least a second wide:

- `DeadlineCorrect`: `Spec => []DeadlineRight`, for 0 to 1000 ms; the product fits and one
  carry is enough.
- `TurninCorrect`: `Spec => []TurninRight`, for every int, from what C's quotient and
  remainder are (`Division`).

- `DifferCorrect`: `Spec => []DifferBeyondOneCarry`. If `array.c`'s deadline equals
  `turnin`'s it is valid, hence one carry was enough (`ArrayTimeoutValid`); with one carry both
  are the one valid `timespec` for that time (`OneTimespec`).

Only model-checked:

- All liveness: `FreeReturns`, `AcceptedIsConsumed`, `GettersStop`, `Ends` of both
  programs, `EveryHostLogged`, `JoinInterruptedExits`. Fairness and `ENABLED` are out of
  reach; of `Ends` in `DnsThreaded` the safety half is proved, as said above.
- That `CanGoOn` agrees with `ENABLED`, for the same reason.
- The findings of section 6, which are counterexamples.

## 5. Plan

Done: the queue, the threads with early exits and the signal handler, the sequential
program, the common abstract program, the timeouts, and the theorems of section 4: all
invariants and action properties the passing runs check are proved (four of them under an
assumption stated there: no spurious wakeup, or no signal), and so are the three
refinements. Left, in this order:

1. That `DnsThreaded`'s one-step critical sections are sound, as a theorem: `ArrayQueue`
   implements the queue operations `DnsThreaded` uses, closing in stages included.
2. A `StressTest`: `test.c` as a client of `BoundedQueue`, to ask whether it ends and
   what its final check can notice.

## 6. Where the code departs from what it says

| run | property | what happens |
|---|---|---|
| `aq_v_drain` | `DrainedAtDestroy` | `array.c:131` "Wait for queue to be processed": one spurious wakeup ends the drain (145). The mutex is destroyed around strings, and getters for which locking it then fails race at 106-107 |
| `dns_v_destroy` | `GettersFinishBeforeDestroy` | the filename queue's mutex is destroyed while a requester is still reading its file and will lock it again; so it is with resolvers and log threads |
| `dns_v_startup` | `EveryHostLogged` | `main` queues all filenames before it creates resolvers; with many files every queue fills and the program blocks for good. `turnin/array.h:9` raised `ARRAY_SIZE` to 256 "to better handle multiple files" |
| `dns_v_signal` | `SignalEnds` | `dnsthreaded.c:182` prints "Received signal %d, shutting down...": the handler then calls `array_free` in the interrupted thread, and hangs when that thread owns the mutex, has to drain the queue or is counted as a getter |

Seen while modelling, without a run of their own:

- `array.c:155` "Wait for all getters to finish": the loop ends on result 0 (162) without
  reading `active_getters` again, so a getter that enters between the signal and the
  freer's return from the wait is active when the mutex is destroyed.
- `array.h:24` "Signals when all getters are inactive": the success path (120) signals
  nobody, so `array_free` may sleep its full second.
- `dnsthreaded.c:469` calls a failed resolver creation "not critical"; with none left the
  program never ends (the case `NoResolver` of `Ends`).
- `dnssimple.c` looks up and logs empty lines, `dnsthreaded.c:88` skips them: the logs of
  the two programs differ on the same input.
- `src/README.md:25` gives `dnsthreaded` the arguments of `dnssimple`; it takes two numbers
  and two log files (300-303).
- From 1001 ms on `array.c`'s deadline may be an invalid `timespec`, and beyond 2147 ms the
  product is undefined; every caller passes 100. `turnin/array.c` is right for all.

## 7. Not modelled

`test.c`, a test program: what it tests is checked of the queue itself in `ArrayQueue`.
Sequence numbers and run times, which are only printed. `turnin/multi-lookup.c` is
`dnsthreaded.c` byte for byte, and the rest of `turnin/array.c` is `array.c`; the map names
the originals. The text of log lines, DNS and the file system are abstract. A second
signal, and signals while stdio or `malloc` hold their own locks.
