----------------------------- MODULE DnsThreaded ----------------------------
(***************************************************************************)
(* The threads of dnsthreaded.c and the four queues between them.          *)
(*                                                                         *)
(*   main --filename--> requesters --hostname--> resolvers                 *)
(*                          |                        |                     *)
(*                    requester_log            resolver_log                *)
(*                          v                        v                     *)
(*                  requester logger          resolver logger              *)
(*                                                                         *)
(* A queue is a sequence with a shutdown flag: what one critical section   *)
(* of array.c does is one step here, which module ArrayQueue justifies.    *)
(* The steps of array_free, and the moment at which a getter enters        *)
(* array_get, stay apart because other threads observe them.  A blocking   *)
(* call waits by not being enabled; the 100 ms timeouts inside array.c     *)
(* only repeat the test and are not visible.                               *)
(*                                                                         *)
(* SIGINT and SIGTERM are delivered to one of the Interrupted threads, in  *)
(* whose place the handler then runs: it is the pseudo-thread Handler, and *)
(* the interrupted thread, the victim, never moves again.                  *)
(*                                                                         *)
(* A hostname is the position <<file, line>> it was read from, so that     *)
(* equal names in two places are not confused.  What dns_resolve answers   *)
(* only selects the text that is logged and is left out.                   *)
(*                                                                         *)
(* Operators marked "mutant" are wrong versions of the definition after    *)
(* them, there to show that some property notices the difference.          *)
(***************************************************************************)
EXTENDS Integers, Sequences, FiniteSets, Functions

CONSTANTS
  Requesters, Resolvers,            (* the -requester, -resolver threads    *)
  Main, ReqLogger, ResLogger,       (* main and the two log threads         *)
  Handler,                          (* handle_signal, wherever it runs      *)
  None,                             (* no thread                            *)
  CommandLines,                     (* argc, argv[1] and argv[2]            *)
  ARRAY_SIZE,                       (* slots of each ring                   *)
  Lines,                            (* argv[5..]: the lines of each file    *)
  Blank,                            (* an empty line                        *)
  Unopenable,                       (* files fopen always fails on          *)
  Flaky,                            (* files fopen fails on at times        *)
  OpenFails,                        (* may fopen of a log file fail         *)
  AllocFails,                       (* may strdup, malloc, calloc give NULL *)
  CreateFails,                      (* threads pthread_create may fail for  *)
  StuckOnDestroyed,                 (* may locking a destroyed mutex hang   *)
  Interrupted                       (* threads a signal may be delivered to *)

Files   == DOMAIN Lines
Loggers == {ReqLogger, ResLogger}
Workers == Requesters \cup Resolvers \cup Loggers
Threads == Workers \cup {Main, Handler}
Freers  == Requesters \cup {Main, Handler}
Queues  == {"filename", "hostname", "requester_log", "resolver_log"}

(* Every position of the input, and those that hold a hostname.             *)
Positions == UNION {{<<f, k>> : k \in DOMAIN Lines[f]} : f \in Files}
Hosts     == {x \in Positions : Lines[x[1]][x[2]] # Blank}

ASSUME ThreadAssumption ==
  /\ IsFiniteSet(Requesters) /\ Requesters # {}
  /\ IsFiniteSet(Resolvers) /\ Resolvers # {}
  /\ Requesters \cap Resolvers = {}
  /\ Main # Handler /\ ReqLogger # ResLogger
  /\ {Main, Handler} \cap Workers = {}
  /\ Loggers \cap (Requesters \cup Resolvers) = {}
  /\ None \notin Threads
ASSUME QueueAssumption == ARRAY_SIZE \in Nat /\ ARRAY_SIZE >= 2
ASSUME InputAssumption == Lines \in Seq(Seq(STRING))
ASSUME FaultAssumption ==
  /\ Unopenable \subseteq Files /\ Flaky \subseteq Files
  /\ {OpenFails, AllocFails, StuckOnDestroyed} \subseteq BOOLEAN
  /\ CreateFails \subseteq Workers
  /\ Interrupted \subseteq Workers \cup {Main}

(* What main accepts, and then there are that many threads and files.       *)
Accepted(a) == a.argc >= 6 /\ a.num_requesters > 0 /\ a.num_resolvers > 0
ASSUME CommandLineAssumption ==
  \A a \in CommandLines :
    Accepted(a) => /\ a.argc = 5 + Len(Lines)
                   /\ a.num_requesters = Cardinality(Requesters)
                   /\ a.num_resolvers = Cardinality(Resolvers)

VARIABLES
  items, shutdown, destroyed,    (* per queue                               *)
  pc,                            (* per thread                              *)
  stage,                         (* progress of a thread's array_free       *)
  argi,                          (* main's next file                        *)
  active_file_readers,
  file, line,                    (* per requester: the file read, the line  *)
  host,                          (* per resolver: the hostname in hand      *)
  files_serviced, hosts_resolved,  (* thread_stats_t                        *)
  log,                           (* what each log thread has written        *)
  refused,                       (* queues whose array_put said SHUTDOWN    *)
  victim,                        (* the thread a signal interrupted         *)
  held                           (* queues whose mutex the victim owns      *)

queues   == <<items, shutdown, destroyed>>
input    == <<argi, file, line, host>>
stats    == <<files_serviced, hosts_resolved>>
signal   == <<victim, held>>
quiet    == <<stage, active_file_readers, signal>>
allButPc == <<queues, quiet, input, stats, log, refused>>
vars     == <<allButPc, pc>>

Goto(t, l) == pc' = [pc EXCEPT ![t] = l]
Advance(t, s) == stage' = [stage EXCEPT ![t] = s]
NoHost == <<0, 0>>

(* When main returns or the process crashes every thread is gone.           *)
Running == pc[Main] \notin {"exit", "exit_failure", "exit_signal", "crashed"}
At(t, l) == Running /\ t # victim /\ pc[t] = l

-----------------------------------------------------------------------------
(* The queue operations, as their callers see them.                         *)

Capacity == ARRAY_SIZE - 1

PutUnbounded(q, x) ==                         (* mutant: never waits       *)
  /\ q \notin held
  /\ ~shutdown[q]
  /\ items' = [items EXCEPT ![q] = Append(@, x)]
  /\ UNCHANGED refused

(* array_put of x: it waits for room, or the queue is shut down and the     *)
(* caller frees x.                                                          *)
Put(q, x) ==
  /\ q \notin held
  /\ \/ /\ ~shutdown[q]
        /\ Len(items[q]) < Capacity
        /\ items' = [items EXCEPT ![q] = Append(@, x)]
        /\ UNCHANGED refused
     \/ /\ shutdown[q]
        /\ refused' = refused \cup {q}
        /\ UNCHANGED items

Strdup(q, x) ==
  \/ Put(q, x)
  \/ AllocFails /\ UNCHANGED <<items, refused>>

(* The place from which array_put fills a queue.                            *)
Filled == [filename |-> "m_names", hostname |-> "r_put",
           requester_log |-> "r_log", resolver_log |-> "s_log"]

(* array_put on a destroyed queue may hang in its first line.  Only after a *)
(* signal does anybody put into one.                                        *)
PutHangs(t, q) ==
  /\ At(t, Filled[q])
  /\ destroyed[q]
  /\ StuckOnDestroyed
  /\ Goto(t, "stuck")
  /\ UNCHANGED allButPc

(* Entering array_get: the getter is counted before it has the mutex.  On a *)
(* destroyed queue it may hang, and stays counted.                          *)
Enter(t, q, inside) ==
  /\ \/ Goto(t, inside)
     \/ destroyed[q] /\ StuckOnDestroyed /\ Goto(t, "stuck_get")
  /\ UNCHANGED allButPc

Peek(q) == items[q] # <<>> /\ UNCHANGED items (* mutant: head not advanced *)
Remove(q) ==
  /\ q \notin held
  /\ items[q] # <<>>
  /\ items' = [items EXCEPT ![q] = Tail(@)]

ShutdownAtOnce(q) == q \notin held /\ shutdown[q]   (* mutant: items may remain  *)
ToldShutdown(q) == q \notin held /\ shutdown[q] /\ items[q] = <<>>

(* Where a thread is while array_get on q counts it as an active getter.    *)
InsideGet == [filename |-> "r_file", hostname |-> "s_host",
              requester_log |-> "l_line", resolver_log |-> "l_line"]
GettersOf == [filename |-> Requesters, hostname |-> Resolvers,
              requester_log |-> {ReqLogger}, resolver_log |-> {ResLogger}]
Active(q) == {t \in GettersOf[q] : pc[t] \in {InsideGet[q], "stuck_get"}}

DrainedAnyway(q) == TRUE                      (* mutant: does not wait     *)
Drained(q) == items[q] = <<>>

(* array_free: close the queue, let it drain, see that no getter is inside, *)
(* and only then, in a step of its own, destroy the mutex.                  *)
Free(t, q, next) ==
  /\ stage[t] # "destroy" => q \notin held
  /\ \/ /\ stage[t] = "close"
        /\ shutdown' = [shutdown EXCEPT ![q] = TRUE]
        /\ Advance(t, "drain")
        /\ UNCHANGED <<destroyed, pc>>
     \/ /\ stage[t] = "close" /\ destroyed[q] /\ StuckOnDestroyed
        /\ Goto(t, "stuck")
        /\ UNCHANGED <<shutdown, destroyed, stage>>
     \/ /\ \/ stage[t] = "drain" /\ Drained(q) /\ Advance(t, "count")
           \/ stage[t] = "count" /\ Active(q) = {} /\ Advance(t, "destroy")
        /\ UNCHANGED <<shutdown, destroyed, pc>>
     \/ /\ stage[t] = "destroy"
        /\ destroyed' = [destroyed EXCEPT ![q] = TRUE]
        /\ Advance(t, "close")
        /\ Goto(t, next)
        /\ UNCHANGED shutdown
  /\ UNCHANGED <<items, active_file_readers, signal, input, stats, log, refused>>

LogFirst == <<"requester_log", "hostname",    (* mutant: swapped           *)
              "resolver_log", "filename">>
FreeOrder == <<"hostname", "requester_log", "resolver_log", "filename">>

(* The four queues, as the clean-up of a failed start and the signal        *)
(* handler free them.                                                       *)
FreeAll(t, next) ==
  \E i \in 1 .. 4 :
    LET at == <<"a_first", "a_second", "a_third", "a_fourth", next>> IN
    At(t, at[i]) /\ Free(t, FreeOrder[i], at[i + 1])

Opens(f) == f \notin Unopenable
MayFail(f) == f \in Unopenable \cup Flaky

-----------------------------------------------------------------------------
(* Requester threads: process_files_from_queue                              *)

RequestFile(r) == At(r, "r_get") /\ Enter(r, "filename", "r_file")

GiveUp(r) == Goto(r, "r_exit")                (* mutant: break             *)
SkipFile(r) == Goto(r, "r_get")

OpenFile(r) ==
  /\ At(r, "r_file")
  /\ Remove("filename")
  /\ LET f == Head(items["filename"]) IN
     \/ /\ Opens(f)
        /\ files_serviced' = [files_serviced EXCEPT ![r] = @ + 1]
        /\ file' = [file EXCEPT ![r] = f]
        /\ line' = [line EXCEPT ![r] = 1]
        /\ Goto(r, "r_read")
     \/ /\ MayFail(f)
        /\ SkipFile(r)
        /\ UNCHANGED <<file, line, files_serviced>>
  /\ UNCHANGED <<shutdown, destroyed, quiet, argi, host, hosts_resolved, log,
                 refused>>

TakeAnyLine(x) == x \in Positions              (* mutant: blank ones too   *)
IsHost(x) == x \in Positions /\ Lines[x[1]][x[2]] # Blank

(* getline: the end of the file, an empty line, or a hostname.              *)
ReadLine(r) ==
  /\ At(r, "r_read")
  /\ \/ /\ line[r] > Len(Lines[file[r]])
        /\ Goto(r, "r_get")
        /\ UNCHANGED line
     \/ /\ line[r] <= Len(Lines[file[r]])
        /\ ~IsHost(<<file[r], line[r]>>)
        /\ line' = [line EXCEPT ![r] = @ + 1]
        /\ UNCHANGED pc
     \/ /\ IsHost(<<file[r], line[r]>>)
        /\ Goto(r, "r_log")
        /\ UNCHANGED line
  /\ UNCHANGED <<queues, quiet, argi, file, host, stats, log, refused>>

LogRequest(r) ==
  /\ At(r, "r_log")
  /\ Strdup("requester_log", <<file[r], line[r]>>)
  /\ Goto(r, "r_put")
  /\ UNCHANGED <<shutdown, destroyed, quiet, input, stats, log>>

PutHost(r) ==
  /\ At(r, "r_put")
  /\ Strdup("hostname", <<file[r], line[r]>>)
  /\ line' = [line EXCEPT ![r] = @ + 1]
  /\ Goto(r, "r_read")
  /\ UNCHANGED <<shutdown, destroyed, quiet, argi, file, host, stats, log>>

(* Told that there are no more files.  The last requester to come here      *)
(* frees the two queues it and the others filled.  It does so under         *)
(* file_reader_mutex, which by then nobody else wants.                      *)
LeaveFiles(r) ==
  /\ At(r, "r_file")
  /\ ToldShutdown("filename")
  /\ Goto(r, "r_exit")
  /\ UNCHANGED allButPc

LastReaderEarly == active_file_readers' <= 1  (* mutant: off by one        *)
LastReaderLate == active_file_readers = 0     (* mutant: tested too early  *)
LastReader == active_file_readers' = 0

ExitReader(r) ==
  /\ At(r, "r_exit")
  /\ active_file_readers' = active_file_readers - 1
  /\ Goto(r, IF LastReader THEN "r_free_hosts" ELSE "done")
  /\ UNCHANGED <<queues, stage, signal, input, stats, log, refused>>

FreeHosts(r)  == At(r, "r_free_hosts") /\ Free(r, "hostname", "r_free_log")
FreeReqLog(r) == At(r, "r_free_log") /\ Free(r, "requester_log", "done")

RequesterHangs(r) == PutHangs(r, "requester_log") \/ PutHangs(r, "hostname")

Requester(r) ==
  \/ RequestFile(r) \/ OpenFile(r) \/ ReadLine(r) \/ LogRequest(r) \/ PutHost(r)
  \/ RequesterHangs(r)
  \/ LeaveFiles(r) \/ ExitReader(r) \/ FreeHosts(r) \/ FreeReqLog(r)

-----------------------------------------------------------------------------
(* Resolver threads: resolver_thread, resolve_then_log                      *)

RequestHost(s) == At(s, "s_get") /\ Enter(s, "hostname", "s_host")

TakeHost(s) ==
  /\ At(s, "s_host")
  /\ Remove("hostname")
  /\ host' = [host EXCEPT ![s] = Head(items["hostname"])]
  /\ Goto(s, "s_log")
  /\ UNCHANGED <<shutdown, destroyed, quiet, argi, file, line, stats, log,
                 refused>>

CountEveryHost(s) ==                          (* mutant: failures too      *)
  hosts_resolved' = [hosts_resolved EXCEPT ![s] = @ + 1]
CountQueued(s) ==
  hosts_resolved' = [hosts_resolved EXCEPT ![s] =
                       IF items' # items THEN @ + 1 ELSE @]

(* Resolved or not, one message per hostname; counted when it is queued.    *)
LogResolved(s) ==
  /\ At(s, "s_log")
  /\ Strdup("resolver_log", host[s])
  /\ CountQueued(s)
  /\ host' = [host EXCEPT ![s] = NoHost]
  /\ Goto(s, "s_get")
  /\ UNCHANGED <<shutdown, destroyed, quiet, argi, file, line,
                 files_serviced, log>>

LeaveHosts(s) ==
  /\ At(s, "s_host")
  /\ ToldShutdown("hostname")
  /\ Goto(s, "done")
  /\ UNCHANGED allButPc

ResolverHangs(s) == PutHangs(s, "resolver_log")

Resolver(s) ==
  \/ RequestHost(s) \/ TakeHost(s) \/ LogResolved(s) \/ LeaveHosts(s)
  \/ ResolverHangs(s)

-----------------------------------------------------------------------------
(* requester_logfile_thread_func and resolver_logfile_thread_func           *)

LogQueueSwapped == [t \in Loggers |->   (* mutant: exchanged *)
               IF t = ReqLogger THEN "resolver_log" ELSE "requester_log"]
LogQueue == [t \in Loggers |->
               IF t = ReqLogger THEN "requester_log" ELSE "resolver_log"]

RequestLine(t) == At(t, "l_get") /\ Enter(t, LogQueue[t], "l_line")

WriteLine(t) ==
  /\ At(t, "l_line")
  /\ Remove(LogQueue[t])
  /\ log' = [log EXCEPT ![t] = Append(@, Head(items[LogQueue[t]]))]
  /\ Goto(t, "l_get")
  /\ UNCHANGED <<shutdown, destroyed, quiet, input, stats, refused>>

LeaveLog(t) ==
  /\ At(t, "l_line")
  /\ ToldShutdown(LogQueue[t])
  /\ Goto(t, "done")
  /\ UNCHANGED allButPc

Logger(t) == RequestLine(t) \/ WriteLine(t) \/ LeaveLog(t)

-----------------------------------------------------------------------------
(* main                                                                     *)

CheckArguments ==
  /\ At(Main, "m_args")
  /\ \E a \in CommandLines :
       Goto(Main, IF Accepted(a) THEN "m_count" ELSE "exit_failure")
  /\ UNCHANGED allButPc

(* Every file is opened once to count the valid ones; with none main exits  *)
(* before there is any thread.                                              *)
CountValid ==
  /\ At(Main, "m_count")
  /\ \E valid \in SUBSET Files :
       /\ {f \in Files : ~MayFail(f)} \subseteq valid
       /\ valid \cap Unopenable = {}
       /\ Goto(Main, IF valid = {} THEN "exit_failure" ELSE "m_open")
  /\ UNCHANGED allButPc

(* Both log files are opened; array_init cannot fail.                       *)
OpenLogs ==
  /\ At(Main, "m_open")
  /\ \/ Goto(Main, "m_reqlog")
     \/ OpenFails /\ Goto(Main, "exit_failure")
  /\ UNCHANGED allButPc

(* The log threads start.  When one cannot, main frees the queues and       *)
(* exits, and the first of them may be running by then.                     *)
StartLogger(t, here, next) ==
  /\ At(Main, here)
  /\ \/ pc' = [pc EXCEPT ![t] = "l_get", ![Main] = next]
     \/ t \in CreateFails /\ Goto(Main, "a_first")
  /\ UNCHANGED allButPc
StartReqLogger == StartLogger(ReqLogger, "m_reqlog", "m_reslog")
StartResLogger == StartLogger(ResLogger, "m_reslog", "m_alloc")

AllocateThreads ==
  /\ At(Main, "m_alloc")
  /\ \/ Goto(Main, "m_create")
     \/ AllocFails /\ Goto(Main, "a_first")
  /\ UNCHANGED allButPc

CleanUp == FreeAll(Main, "exit_failure")

ReadersWanted(failed) == Cardinality(Requesters)  (* mutant: no decrement  *)
ReadersStarted(failed) == Cardinality(Requesters) - Cardinality(failed)

(* The requesters start.  The count of active readers is reduced for each   *)
(* one that could not be created.                                           *)
CreateRequesters ==
  /\ At(Main, "m_create")
  /\ \E failed \in SUBSET (CreateFails \cap Requesters) :
       /\ active_file_readers' = ReadersStarted(failed)
       /\ pc' = [t \in Threads |->
                   CASE t \in Requesters \ failed -> "r_get"
                     [] t = Main                  -> "m_names"
                     [] OTHER                     -> pc[t]]
  /\ UNCHANGED <<queues, stage, signal, input, stats, log, refused>>

(* Each file is opened again, and its name queued.  There is no resolver yet.*)
QueueName ==
  /\ At(Main, "m_names")
  /\ argi \in Files
  /\ \/ Opens(argi) /\ Strdup("filename", argi)
     \/ MayFail(argi) /\ UNCHANGED <<items, refused>>
  /\ argi' = argi + 1
  /\ UNCHANGED <<shutdown, destroyed, pc, quiet, file, line, host, stats, log>>

QueueHangs == argi \in Files /\ Opens(argi) /\ PutHangs(Main, "filename")

CreateResolvers ==
  /\ At(Main, "m_names")
  /\ argi \notin Files
  /\ \E failed \in SUBSET (CreateFails \cap Resolvers) :
       pc' = [t \in Threads |->
                CASE t \in Resolvers \ failed -> "s_get"
                  [] t = Main                 -> "m_free_names"
                  [] OTHER                    -> pc[t]]
  /\ UNCHANGED allButPc

FreeNames == At(Main, "m_free_names") /\ Free(Main, "filename", "m_join_req")

(* pthread_join of every thread of a group.  A thread that was never        *)
(* created has an uninitialized pthread_t: the join returns an error or     *)
(* takes the process down.                                                  *)
Join(group, here, next) ==
  /\ At(Main, here)
  /\ \/ /\ \A t \in group : pc[t] \in {"done", "uncreated"}
        /\ Goto(Main, next)
     \/ /\ \E t \in group : pc[t] = "uncreated"
        /\ Goto(Main, "crashed")
  /\ UNCHANGED allButPc

JoinRequesters == Join(Requesters, "m_join_req", "m_join_res")
JoinResolvers  == Join(Resolvers, "m_join_res", "m_free_reqlog")

(* requester_logfile_queue is freed here for the second time.               *)
FreeReqLogAgain ==
  At(Main, "m_free_reqlog") /\ Free(Main, "requester_log", "m_free_reslog")
FreeResLog ==
  At(Main, "m_free_reslog") /\ Free(Main, "resolver_log", "m_join_log")
JoinLoggers == Join(Loggers, "m_join_log", "exit")

MainThread ==
  \/ CheckArguments \/ CountValid \/ OpenLogs
  \/ StartReqLogger \/ StartResLogger \/ AllocateThreads \/ CleanUp
  \/ CreateRequesters \/ QueueName \/ QueueHangs \/ CreateResolvers
  \/ FreeNames \/ JoinRequesters \/ JoinResolvers
  \/ FreeReqLogAgain \/ FreeResLog \/ JoinLoggers

-----------------------------------------------------------------------------
(* A signal, and handle_signal.  One signal is considered.                  *)

(* The queues whose array_ function thread t is executing.                  *)
Freed == [filename |-> {"m_free_names", "a_fourth"},
          hostname |-> {"r_free_hosts", "a_first"},
          requester_log |-> {"r_free_log", "m_free_reqlog", "a_second"},
          resolver_log |-> {"m_free_reslog", "a_third"}]
MayOwn(t) ==
  {q \in Queues : \/ t \in GettersOf[q] /\ pc[t] = InsideGet[q]
                  \/ pc[t] = Filled[q]
                  \/ pc[t] \in Freed[q] /\ stage[t] # "destroy"}

(* Thread t is interrupted wherever it is, with or without the mutex of the *)
(* queue it is using, and for good: the handler ends in exit.               *)
Interrupt(t) ==
  /\ Running
  /\ victim = None
  /\ pc[t] \notin {"uncreated", "done"}
  /\ victim' = t
  /\ held' \in {{}} \cup {{q} : q \in MayOwn(t)}
  /\ Goto(Handler, "a_first")
  /\ UNCHANGED <<queues, stage, active_file_readers, input, stats, log, refused>>

HandlerFrees == FreeAll(Handler, "a_exit")

(* mutant: _exit, which leaves stdio's buffers unwritten.                   *)
HandlerExitsUnflushed ==
  /\ At(Handler, "a_exit")
  /\ \E n \in 0 .. Len(log[ResLogger]) : log' = [log EXCEPT ![ResLogger] = SubSeq(@, 1, n)]
  /\ Goto(Main, "exit_signal")
  /\ UNCHANGED <<queues, quiet, input, stats, refused>>

(* exit.  A line that a log thread has taken may not be in its file yet.    *)
HandlerExits ==
  /\ At(Handler, "a_exit")
  /\ \E late \in SUBSET {t \in Loggers : pc[t] = "l_get"} :
       log' = [t \in Loggers |-> IF t \in late
                                 THEN SubSeq(log[t], 1, Len(log[t]) - 1)
                                 ELSE log[t]]
  /\ Goto(Main, "exit_signal")
  /\ UNCHANGED <<queues, quiet, input, stats, refused>>

SignalHandler == HandlerFrees \/ HandlerExits

-----------------------------------------------------------------------------
Init ==
  /\ items = [q \in Queues |-> <<>>]
  /\ shutdown = [q \in Queues |-> FALSE]
  /\ destroyed = [q \in Queues |-> FALSE]
  /\ pc = [t \in Threads |-> IF t = Main THEN "m_args" ELSE "uncreated"]
  /\ stage = [t \in Freers |-> "close"]
  /\ argi = 1
  /\ active_file_readers = 0
  /\ file = [r \in Requesters |-> 0]
  /\ line = [r \in Requesters |-> 0]
  /\ host = [s \in Resolvers |-> NoHost]
  /\ files_serviced = [r \in Requesters |-> 0]
  /\ hosts_resolved = [s \in Resolvers |-> 0]
  /\ log = [t \in Loggers |-> <<>>]
  /\ refused = {}
  /\ victim = None
  /\ held = {}

Ended == ~Running /\ UNCHANGED vars

Next ==
  \/ MainThread
  \/ \E r \in Requesters : Requester(r)
  \/ \E s \in Resolvers : Resolver(s)
  \/ \E t \in Loggers : Logger(t)
  \/ \E t \in Interrupted : Interrupt(t)
  \/ SignalHandler
  \/ Ended

Spec == Init /\ [][Next]_vars

(* Every thread that can go on does: the scheduler is fair, getaddrinfo     *)
(* returns, and a put or get that can complete is not overtaken for ever.   *)
Fairness ==
  /\ WF_vars(MainThread)
  /\ \A r \in Requesters : WF_vars(Requester(r))
  /\ \A s \in Resolvers : WF_vars(Resolver(s))
  /\ \A t \in Loggers : WF_vars(Logger(t))
  /\ WF_vars(SignalHandler)

FairSpec == Spec /\ Fairness

-----------------------------------------------------------------------------
(* Where each thread can be.                                                *)
Freeing == {"a_first", "a_second", "a_third", "a_fourth"}
MainPlaces == Freeing \cup
  {"m_args", "m_count", "m_open", "m_reqlog", "m_reslog", "m_alloc", "m_create",
   "m_names", "m_free_names", "m_join_req", "m_join_res", "m_free_reqlog",
   "m_free_reslog", "m_join_log", "stuck", "exit", "exit_failure", "exit_signal",
   "crashed"}
WorkerPlaces == {"uncreated", "stuck", "stuck_get", "done"}
RequesterPlaces == WorkerPlaces \cup
  {"r_get", "r_file", "r_read", "r_log", "r_put", "r_exit", "r_free_hosts",
   "r_free_log"}
Place(t, l) ==
  /\ t = Main => l \in MainPlaces
  /\ t = Handler => l \in Freeing \cup {"uncreated", "stuck", "a_exit"}
  /\ t \in Requesters => l \in RequesterPlaces
  /\ t \in Resolvers => l \in WorkerPlaces \cup {"s_get", "s_host", "s_log"}
  /\ t \in Loggers => l \in WorkerPlaces \cup {"l_get", "l_line"}

(* The type invariant; no queue ever holds more than it has room for.       *)
TypeOK ==
  /\ DOMAIN items = Queues
  /\ items["filename"] \in Seq(Files)
  /\ \A q \in Queues \ {"filename"} : items[q] \in Seq(Positions)
  /\ \A q \in Queues : Len(items[q]) <= Capacity
  /\ shutdown \in [Queues -> BOOLEAN]
  /\ destroyed \in [Queues -> BOOLEAN]
  /\ DOMAIN pc = Threads /\ \A t \in Threads : Place(t, pc[t])
  /\ stage \in [Freers -> {"close", "drain", "count", "destroy"}]
  /\ argi \in Nat
  /\ active_file_readers \in Int
  /\ file \in [Requesters -> Files \cup {0}]
  /\ line \in [Requesters -> Nat]
  /\ host \in [Resolvers -> Positions \cup {NoHost}]
  /\ files_serviced \in [Requesters -> Nat]
  /\ hosts_resolved \in [Resolvers -> Nat]
  /\ log \in [Loggers -> Seq(Positions)]
  /\ refused \subseteq Queues
  /\ victim \in Threads \cup {None}
  /\ held \subseteq Queues

Gone(group) == \A t \in group : pc[t] \in {"done", "uncreated"}
Occurrences(x, s) == Cardinality({i \in DOMAIN s : s[i] = x})
Exited == pc[Main] = "exit"

(* The hostnames nothing but a failed allocation can keep from the logs.    *)
Due == {x \in Hosts : x[1] \notin Unopenable \cup Flaky}

(* test.c:235, "Verify all items were consumed exactly once", for the whole *)
(* pipeline: a hostname is never in two places between the requester that   *)
(* read it and the resolver log, and a program that exits has logged every  *)
(* one of them, whichever threads handled it.                               *)
ResolvedOnce ==
  \A x \in Hosts :
    /\ Occurrences(x, items["hostname"]) + Occurrences(x, host)
         + Occurrences(x, items["resolver_log"]) + Occurrences(x, log[ResLogger])
         <= 1
    /\ Exited /\ ~AllocFails /\ x \in Due => Occurrences(x, log[ResLogger]) = 1

(* The same for the requester log; and though files are read by several     *)
(* threads at once, the lines of one file are logged in the file's order.   *)
RequestedOnceInOrder ==
  LET l == log[ReqLogger] IN
  /\ \A i, j \in DOMAIN l : i < j /\ l[i][1] = l[j][1] => l[i][2] < l[j][2]
  /\ Exited /\ ~AllocFails => \A x \in Due : Occurrences(x, l) = 1

(* A queue is shut down only when nobody will put into it any more: without *)
(* a signal no array_put of the program returns ARRAY_SHUTDOWN, so the      *)
(* error paths that drop a string are not taken.                            *)
NothingRefused == refused = {}

(* active_file_readers counts the requesters that have still to say that    *)
(* they are finished; those whose creation failed are not waited for.       *)
Reading == {r \in Requesters :
              pc[r] \notin {"uncreated", "done", "r_free_hosts", "r_free_log"}}
ReadersExact == active_file_readers = Cardinality(Reading)

(* The statistics main prints agree with what was done: when the resolvers  *)
(* are gone, which is when their counters are read, they have counted as    *)
(* many hostnames as are in the resolver log or on their way there (but for *)
(* a line that the exit of the signal handler loses); no file is counted    *)
(* twice, and in the end every file that opens is counted.                  *)
StatsAgree ==
  /\ Gone(Resolvers) /\ pc[Main] # "exit_signal" =>
       FoldFunction(+, 0, hosts_resolved)
         = Len(items["resolver_log"]) + Len(log[ResLogger])
  /\ FoldFunction(+, 0, files_serviced) <= Cardinality(Files \ Unopenable)
  /\ Exited /\ ~AllocFails =>
       FoldFunction(+, 0, files_serviced)
         >= Cardinality(Files \ (Unopenable \cup Flaky))

(* A queue is destroyed only once the threads that get from it are finished *)
(* with it; array.c:155, "Wait for all getters to finish".                  *)
GettersFinishBeforeDestroy ==
  \A q \in Queues :
    destroyed[q] => \A t \in GettersOf[q] :
                      pc[t] \in {"done", "uncreated", "r_exit", "r_free_hosts",
                                 "r_free_log"}

(* A signalled exit frees the queues in an order that matters: a hostname   *)
(* that got as far as the resolvers is in the requester log, or on its way  *)
(* there, except for the last line of that log when exit overtakes the      *)
(* thread that is writing it (dnsthreaded.c:187).                           *)
Recorded == Range(log[ReqLogger]) \cup Range(items["requester_log"])
Passed   == Range(items["hostname"]) \cup Range(host) \cup
              Range(items["resolver_log"]) \cup Range(log[ResLogger])
OneUnrecordedAtMost ==
  ~AllocFails => Cardinality(Passed \ (Recorded \cup {NoHost}))
                   <= IF pc[Main] = "exit_signal" THEN 1 ELSE 0

(* However it exits, by the last join, by a failed start or by a signal, the*)
(* program leaves no string in any queue (array.c:131).                     *)
ExitsDrained ==
  pc[Main] \in {"exit", "exit_failure", "exit_signal"} =>
    \A q \in Queues : items[q] = <<>>

(* What each blocking call waits for: array_put, array_get, array_free.     *)
Full(q)   == Len(items[q]) >= Capacity
CanPut(q) == shutdown[q] \/ ~Full(q)
CanGet(q) == shutdown[q] \/ items[q] # <<>>
CanFree(t, q) == CASE stage[t] = "drain" -> Drained(q)
                   [] stage[t] = "count" -> Active(q) = {}
                   [] OTHER              -> TRUE

Missing(group) == \A t \in group : pc[t] = "uncreated"
Joining == [m_join_req |-> Requesters, m_join_res |-> Resolvers,
            m_join_log |-> Loggers]

(* Thread t has a next step, and needs no call to fail for it.              *)
CanGoOn(t) ==
  /\ t # victim
  /\ \/ pc[t] \in {"m_args", "m_count", "m_open", "m_reqlog", "m_reslog", "m_alloc",
                   "m_create", "r_get", "r_read", "r_exit", "s_get", "l_get",
                   "a_exit"}
     \/ pc[t] = "m_names" /\ (argi \in Files => ~Opens(argi))
     \/ pc[t] \in DOMAIN Joining /\ Gone(Joining[pc[t]])
     \/ \E q \in Queues \ held :
          \/ pc[t] = Filled[q] /\ CanPut(q)
          \/ t \in GettersOf[q] /\ pc[t] = InsideGet[q] /\ CanGet(q)
          \/ pc[t] \in Freed[q] /\ CanFree(t, q)

(* The only ways to hang: a destroyed mutex; main is stuck with its file    *)
(* names before there is a resolver; or no requester or no resolver could   *)
(* be created, and somebody waits for one.                                  *)
Hangs ==
  \/ \E t \in Threads : pc[t] \in {"stuck", "stuck_get"}
  \/ pc[Main] = "m_names" /\ Full("filename") /\ (Full("hostname") \/ Missing(Requesters))
  \/ pc[Main] = "m_free_names" /\ items["filename"] # <<>> /\ Missing(Requesters)
  \/ pc[Main] = "m_join_res" /\ Missing(Requesters)
  \/ /\ pc[Main] \in {"m_free_names", "m_join_req"}
     /\ items["hostname"] # <<>> /\ Missing(Resolvers)

(* No thread waits in array_put, array_get, array_free or a join with       *)
(* nobody to let it through (array.c:43, 75, 144, 161): while the program   *)
(* runs some thread can go on, whatever has failed before, unless it hangs  *)
(* in one of the ways above; and so it is when a signal has put the handler *)
(* in the place of a main that waits in a join.                             *)
NoDeadlock ==
  /\ Running
  /\ victim = None \/ (victim = Main /\ pc[Main] \in DOMAIN Joining)
  => Hangs \/ \E t \in Threads : CanGoOn(t)

(* How much is left to do.  Behind a place lie at most as many steps as its *)
(* number, four of them for each array_free.                                *)
Rank ==
  [uncreated |-> 31, m_args |-> 30, m_count |-> 29, m_open |-> 28, m_reqlog |-> 27,
   m_reslog |-> 26, m_alloc |-> 25, m_create |-> 24, m_names |-> 23,
   m_free_names |-> 22, m_join_req |-> 18, m_join_res |-> 17, m_free_reqlog |-> 16,
   m_free_reslog |-> 12, m_join_log |-> 8,
   a_first |-> 19, a_second |-> 15, a_third |-> 11, a_fourth |-> 7, a_exit |-> 3,
   r_read |-> 18, r_get |-> 17, r_log |-> 17, r_file |-> 16, r_put |-> 14,
   r_exit |-> 12, r_free_hosts |-> 11, r_free_log |-> 7,
   s_log |-> 11, s_get |-> 8, s_host |-> 7, l_get |-> 8, l_line |-> 7,
   stuck |-> 6, stuck_get |-> 6, done |-> 3,
   exit |-> 3, exit_failure |-> 3, exit_signal |-> 3, crashed |-> 3]
StagesDone == [close |-> 0, drain |-> 1, count |-> 2, destroy |-> 3]
LinesLeft(r) ==
  IF pc[r] \in {"r_read", "r_log", "r_put"} /\ line[r] <= Len(Lines[file[r]])
  THEN Len(Lines[file[r]]) + 1 - line[r] ELSE 0
ThreadWork ==
  [t \in Threads |-> Rank[pc[t]]
                       - (IF t \in Freers THEN StagesDone[stage[t]] ELSE 0)
                       + (IF t \in Requesters THEN 10 * LinesLeft(t) ELSE 0)]
FileWork ==
  [f \in Files |-> IF f >= argi THEN 10 * Len(Lines[f]) + 4
                   ELSE IF f \in Range(items["filename"]) THEN 10 * Len(Lines[f]) + 3
                   ELSE 0]
QueueWork ==
  5 * Len(items["hostname"]) + 2 * Len(items["requester_log"])
    + 2 * Len(items["resolver_log"])
Work == FoldFunction(+, 0, ThreadWork) + FoldFunction(+, 0, FileWork) + QueueWork

(* The program cannot be kept busy for ever: every step, of whichever       *)
(* thread and with whichever outcome, leaves less to do.  So it takes       *)
(* finitely many steps, and with NoDeadlock it ends if its threads run.     *)
WorkShrinks == [][0 <= Work' /\ Work' < Work]_vars

(* The program answers the hostnames as module HostLookup says.             *)
HL == INSTANCE HostLookup WITH
        log     <- log[ResLogger],
        Due     <- IF AllocFails THEN {} ELSE Due,
        outcome <- CASE pc[Main] = "exit"         -> "success"
                     [] pc[Main] = "exit_failure" -> "failure"
                     [] Running                   -> "running"
                     [] OTHER                     -> "down"

ImplementsHostLookup == HL!Spec

(* The program ends by itself, after main has joined every thread or freed  *)
(* the queues of a failed start; it may hang when none of the resolvers     *)
(* could be created.  This is so while the file names fit into the filename *)
(* queue and the hands of the requesters; EveryHostLogged fails when not.   *)
NoResolver == pc[Main] = "m_free_names" /\ \A s \in Resolvers : pc[s] = "uncreated"
Ends == <>(~Running \/ NoResolver)

(* README.md:5: the resolver "takes a list of hostnames from input files,   *)
(* resolves them to IP addresses, and logs the results", unless it cannot   *)
(* start its threads.                                                       *)
EveryHostLogged ==
  \A x \in Due :
    <>(\/ Occurrences(x, log[ResLogger]) = 1
       \/ NoResolver
       \/ pc[Main] \in {"exit_failure", "crashed"})

(* A signal that interrupts main while it waits in a join, as it does for   *)
(* nearly all of the run, ends the program: the queues are drained by the   *)
(* threads that go on, and every getter leaves.  Only on a mutex destroyed  *)
(* before may the handler hang, or for a getter that hangs on one.          *)
JoinInterruptedExits ==
  victim = Main /\ pc[Main] \in {"m_join_req", "m_join_res", "m_join_log"}
    ~> \/ pc[Main] = "exit_signal"
       \/ pc[Handler] = "stuck"
       \/ \E t \in Workers : pc[t] = "stuck_get"

(* dnsthreaded.c:182, "Received signal %d, shutting down...": the program   *)
(* exits after any signal.                                                  *)
SignalEnds == victim # None ~> ~Running
=============================================================================
