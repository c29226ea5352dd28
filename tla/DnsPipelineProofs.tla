-------------------------- MODULE DnsPipelineProofs --------------------------
(***************************************************************************)
(* How far main and the threads have got, what they hold, and what is left *)
(* in the queues when the program exits; and that no thread waits with     *)
(* nobody to let it through.  For every number of threads, every input,    *)
(* every queue size and every fault and signal DnsThreaded knows.          *)
(*                                                                         *)
(* The invariants come in layers: Launch says which threads can be running *)
(* when main is at a given place, Typed and Controlled what each of them   *)
(* holds, FreedInv which queues are closed and empty for good, and WaitInv *)
(* who is there to fill or empty the others.                               *)
(***************************************************************************)
EXTENDS DnsThreadedProofs, DataLemmas

(* The input is a sequence of files, a file a sequence of lines.            *)
LEMMA InputShape ==
  /\ Len(Lines) \in Nat /\ Files = 1 .. Len(Lines)
  /\ \A f \in Files : Len(Lines[f]) \in Nat /\ DOMAIN Lines[f] = 1 .. Len(Lines[f])
<1>1. \A f \in DOMAIN Lines : Lines[f] \in Seq(STRING)
  BY InputAssumption
<1> QED
  BY <1>1, InputAssumption DEF Files

LEMMA PositionIs ==
  /\ \A x \in Positions : /\ x = <<x[1], x[2]>> /\ x[1] \in Files /\ x[1] \in Nat
                          /\ x[2] \in 1 .. Len(Lines[x[1]]) /\ x[2] \in Nat \ {0}
  /\ \A f \in Files : \A k \in 1 .. Len(Lines[f]) : <<f, k>> \in Positions
  /\ NoHost \notin Positions
<1>1. ASSUME NEW x \in Positions
      PROVE  \E f \in Files : \E k \in DOMAIN Lines[f] : x = <<f, k>>
  BY <1>1 DEF Positions
<1>2. ASSUME NEW f \in Files, NEW k \in 1 .. Len(Lines[f])
      PROVE  <<f, k>> \in Positions
  BY <1>2, InputShape DEF Positions
<1> QED
  BY <1>1, <1>2, InputShape DEF NoHost

LEMMA HostIs == Hosts \subseteq Positions /\ \A x : IsHost(x) <=> x \in Hosts
  BY DEF Hosts, IsHost

-----------------------------------------------------------------------------
(* How far main and the threads have got.                                   *)

AfterPC == {"m_free_names", "m_join_req", "m_join_res", "m_free_reqlog",
            "m_free_reslog", "m_join_log", "exit"}

(* The workers exist when main has created them, and are gone when it has   *)
(* joined them; who was interrupted is never joined.                        *)
Launch ==
  /\ DOMAIN pc = Threads
  /\ Unstarted
  /\ pc[Main] = "m_names" => \A s \in Resolvers : pc[s] = "uncreated"
  /\ argi \in Nat \ {0}
  /\ pc[Main] \in AfterPC => argi \notin Files
  /\ Joined
  /\ pc[Main] = "exit" => victim = None /\ Gone(Workers)
  /\ victim \in Workers => pc[victim] \notin {"uncreated", "done"}
  /\ victim \in Workers \cup {Main, None}

LEMMA PcMoves ==
  ASSUME DOMAIN pc = Threads, NEW t \in Threads, NEW l, Goto(t, l)
  PROVE  DOMAIN pc' = Threads /\ \A u \in Threads : pc'[u] = IF u = t THEN l ELSE pc[u]
  BY DEF Goto

(* What every step of array_free leaves alone.                              *)
LEMMA FreeKeeps ==
  ASSUME NEW t, NEW q, NEW next, Free(t, q, next)
  PROVE  /\ UNCHANGED <<items, argi, file, line, host, victim, held, log, refused,
                        active_file_readers, files_serviced, hosts_resolved>>
         /\ UNCHANGED pc \/ Goto(t, "stuck") \/ Goto(t, next)
  BY DEF Free, input, signal, stats

WorkerStep(t) ==
  \/ t \in Requesters /\ Requester(t)
  \/ t \in Resolvers /\ Resolver(t)
  \/ t \in Loggers /\ Logger(t)

LEMMA WorkerActs ==
  ASSUME NEW t \in Workers, WorkerStep(t)
  PROVE  /\ Running /\ t # victim /\ pc[t] \notin {"uncreated", "done"}
         /\ UNCHANGED <<argi, victim>>
         /\ UNCHANGED pc \/ \E l : l # "uncreated" /\ Goto(t, l)
<1>1. CASE t \in Requesters /\ Requester(t)
  <2>1. CASE FreeHosts(t) \/ FreeReqLog(t)
    BY <2>1, FreeKeeps DEF FreeHosts, FreeReqLog, At
  <2>2. CASE RequestFile(t) \/ OpenFile(t) \/ ReadLine(t)
    BY <2>2 DEF RequestFile, OpenFile, SkipFile, ReadLine, Enter, At, allButPc, input,
                quiet, signal
  <2>3. CASE LogRequest(t) \/ PutHost(t) \/ LeaveFiles(t) \/ ExitReader(t)
    BY <2>3 DEF LogRequest, PutHost, LeaveFiles, ExitReader, At, allButPc, input, quiet,
                signal
  <2>4. CASE RequesterHangs(t)
    BY <2>4, PutHung DEF allButPc, input, quiet, signal
  <2> QED
    BY <1>1, <2>1, <2>2, <2>3, <2>4 DEF Requester
<1>2. CASE t \in Resolvers /\ Resolver(t)
  BY <1>2, PutHung DEF Resolver, RequestHost, Enter, TakeHost, LogResolved, LeaveHosts, At,
              allButPc, input, quiet, signal
<1>3. CASE t \in Loggers /\ Logger(t)
  BY <1>3 DEF Logger, RequestLine, Enter, WriteLine, LeaveLog, At, allButPc, input,
              quiet, signal
<1> QED
  BY <1>1, <1>2, <1>3 DEF WorkerStep

LEMMA WorkerLaunch ==
  ASSUME Launch, NEW t \in Workers, WorkerStep(t)
  PROVE  Launch'
<1>1. /\ Running /\ t # victim /\ pc[t] \notin {"uncreated", "done"}
      /\ UNCHANGED <<argi, victim>>
      /\ UNCHANGED pc \/ \E l : l # "uncreated" /\ Goto(t, l)
  BY WorkerActs
<1>2. DOMAIN pc' = Threads /\ \A u \in Threads \ {t} : pc'[u] = pc[u]
  BY <1>1, PcMoves, Roles DEF Launch
<1>3. /\ pc'[Main] = pc[Main]
      /\ victim \in Workers => pc'[victim] = pc[victim]
      /\ \A S \in SUBSET Workers : Gone(S) => Gone(S)'
      /\ pc[Main] # "exit"
  BY <1>1, <1>2, Roles DEF Gone, Running
<1>4. Gone(Requesters) => Gone(Requesters)'
  BY <1>3, Roles
<1>5. Gone(Resolvers) => Gone(Resolvers)'
  BY <1>3, Roles
<1>6. Joined'
  BY <1>3, <1>4, <1>5 DEF Launch, Joined
<1>7. /\ Unstarted'
      /\ pc'[Main] = "m_names" => \A s \in Resolvers : pc'[s] = "uncreated"
  BY <1>1, <1>2, <1>3, Roles DEF Launch, Unstarted
<1> QED
  BY <1>1, <1>2, <1>3, <1>6, <1>7 DEF Launch

(* Main goes from place to place.                                           *)
LEMMA MainLaunch ==
  ASSUME Launch, NEW l, Goto(Main, l), UNCHANGED <<argi, victim>>, Main # victim,
         l \in BeforePC => pc[Main] \in BeforePC,
         l \in AbortPC => pc[Main] \in BeforePC \cup AbortPC,
         l # "m_names",
         l \in AfterPC => argi \notin Files,
         l \in {"m_join_res", "m_free_reqlog", "m_free_reslog", "m_join_log"}
           => Gone(Requesters),
         l \in {"m_free_reqlog", "m_free_reslog", "m_join_log"} => Gone(Resolvers),
         l = "exit" => Gone(Workers)
  PROVE  Launch'
<1>1. DOMAIN pc' = Threads /\ pc'[Main] = l /\ \A u \in Workers : pc'[u] = pc[u]
  BY PcMoves, Roles DEF Launch
<1>2. \A S \in SUBSET Workers : Gone(S) <=> Gone(S)'
  BY <1>1 DEF Gone
<1>3. (Gone(Requesters) <=> Gone(Requesters)') /\ (Gone(Resolvers) <=> Gone(Resolvers)')
      /\ (Gone(Workers) <=> Gone(Workers)')
  BY <1>2, Roles
<1>4. Joined' /\ Unstarted'
  BY <1>1, <1>3, Roles DEF Launch, Joined, Unstarted
<1>5. Gone(Workers) => victim = None
  BY DEF Launch, Gone
<1> QED
  BY <1>1, <1>3, <1>4, <1>5, Roles DEF Launch

LEMMA LaunchMain ==
  ASSUME Launch, MainThread
  PROVE  Launch'
<1> USE DEF BeforePC, AbortPC, AfterPC
<1>1. CASE CheckArguments \/ CountValid \/ OpenLogs \/ AllocateThreads
  <2>1. PICK l \in {"m_count", "m_open", "m_reqlog", "m_create", "a_first", "exit_failure"} :
          Goto(Main, l)
    BY <1>1 DEF CheckArguments, CountValid, OpenLogs, AllocateThreads
  <2>2. Main # victim /\ pc[Main] \in BeforePC /\ UNCHANGED <<argi, victim>>
    BY <1>1 DEF CheckArguments, CountValid, OpenLogs, AllocateThreads, At, allButPc,
                input, quiet, signal
  <2> QED
    BY <2>1, <2>2, MainLaunch
<1>2. CASE StartReqLogger \/ StartResLogger
  <2>1. PICK t \in Loggers, next \in {"m_reslog", "m_alloc"} :
          \/ pc' = [pc EXCEPT ![t] = "l_get", ![Main] = next]
          \/ Goto(Main, "a_first")
    BY <1>2 DEF StartReqLogger, StartResLogger, StartLogger, Loggers
  <2>2. Main # victim /\ pc[Main] \in BeforePC /\ UNCHANGED <<argi, victim>>
    BY <1>2 DEF StartReqLogger, StartResLogger, StartLogger, At, allButPc, input,
                quiet, signal
  <2>3. CASE Goto(Main, "a_first")
    BY <2>2, <2>3, MainLaunch
  <2>4. CASE pc' = [pc EXCEPT ![t] = "l_get", ![Main] = next]
    <3>1. /\ DOMAIN pc' = Threads /\ pc'[Main] = next /\ pc'[t] = "l_get"
          /\ \A u \in Threads \ {t, Main} : pc'[u] = pc[u]
      BY <2>4, Roles DEF Launch
    <3>2. \A u \in Requesters \cup Resolvers : pc'[u] = pc[u]
      BY <3>1, Roles
    <3>3. victim \in Workers => pc'[victim] \notin {"uncreated", "done"}
      BY <3>1, Roles DEF Launch
    <3> QED
      BY <2>2, <3>1, <3>2, <3>3 DEF Launch, Unstarted, Joined
  <2> QED
    BY <2>1, <2>3, <2>4
<1>3. CASE CleanUp
  <2> DEFINE at == <<"a_first", "a_second", "a_third", "a_fourth", "exit_failure">>
  <2>1. PICK i \in 1 .. 4 : At(Main, at[i]) /\ Free(Main, FreeOrder[i], at[i + 1])
    BY <1>3 DEF CleanUp, FreeAll
  <2>2. at[i] \in AbortPC /\ at[i + 1] \in AbortPC
    BY <2>1
  <2>3. Main # victim /\ pc[Main] \in AbortPC
    BY <2>1, <2>2 DEF At
  <2>4. PICK l \in AbortPC \cup {"stuck"} : UNCHANGED pc \/ Goto(Main, l)
    BY <2>1, <2>2, FreeKeeps
  <2>5. UNCHANGED <<argi, victim>>
    BY <2>1, FreeKeeps
  <2>6. CASE Goto(Main, l)
    BY <2>3, <2>4, <2>5, <2>6, MainLaunch
  <2>7. CASE UNCHANGED pc
    BY <2>5, <2>7 DEF Launch, Unstarted, Joined, Gone
  <2> QED
    BY <2>4, <2>6, <2>7
<1>4. CASE CreateRequesters
  <2>1. PICK failed \in SUBSET (CreateFails \cap Requesters) :
          pc' = [t \in Threads |->
                   CASE t \in Requesters \ failed -> "r_get"
                     [] t = Main                  -> "m_names"
                     [] OTHER                     -> pc[t]]
    BY <1>4 DEF CreateRequesters
  <2>2. pc[Main] \in BeforePC /\ UNCHANGED <<argi, victim>>
    BY <1>4 DEF CreateRequesters, At, input, signal
  <2>3. /\ DOMAIN pc' = Threads /\ pc'[Main] = "m_names"
        /\ \A u \in Threads \ (Requesters \cup {Main}) : pc'[u] = pc[u]
        /\ \A r \in Requesters : pc'[r] = pc[r] \/ pc'[r] = "r_get"
    BY <2>1, Roles
  <2>4. /\ \A s \in Resolvers : pc'[s] = "uncreated"
        /\ victim \in Workers => pc'[victim] \notin {"uncreated", "done"}
    BY <2>2, <2>3, Roles DEF Launch, Unstarted
  <2> QED
    BY <2>2, <2>3, <2>4 DEF Launch, Unstarted, Joined
<1>5. CASE QueueName
  <2>1. pc[Main] = "m_names" /\ argi \in Files /\ argi' = argi + 1 /\ UNCHANGED <<pc, victim>>
    BY <1>5 DEF QueueName, At, quiet, signal
  <2> QED
    BY <2>1 DEF Launch, Unstarted, Joined, Gone
<1>6. CASE CreateResolvers
  <2>1. PICK failed \in SUBSET (CreateFails \cap Resolvers) :
          pc' = [t \in Threads |->
                   CASE t \in Resolvers \ failed -> "s_get"
                     [] t = Main                 -> "m_free_names"
                     [] OTHER                    -> pc[t]]
    BY <1>6 DEF CreateResolvers
  <2>2. pc[Main] = "m_names" /\ argi \notin Files /\ UNCHANGED <<argi, victim>>
    BY <1>6 DEF CreateResolvers, At, allButPc, input, quiet, signal
  <2>3. /\ DOMAIN pc' = Threads /\ pc'[Main] = "m_free_names"
        /\ \A u \in Threads \ (Resolvers \cup {Main}) : pc'[u] = pc[u]
        /\ \A s \in Resolvers : pc'[s] = pc[s] \/ pc'[s] = "s_get"
    BY <2>1, Roles
  <2>4. victim \in Workers => pc'[victim] \notin {"uncreated", "done"}
    BY <2>3, Roles DEF Launch
  <2> QED
    BY <2>2, <2>3, <2>4 DEF Launch, Unstarted, Joined
<1>7. CASE FreeNames \/ FreeReqLogAgain \/ FreeResLog
  <2>1. PICK q, next :
          /\ Free(Main, q, next) /\ pc[Main] \in AfterPC /\ Main # victim
          /\ \/ next = "m_join_req"
             \/ next \in {"m_free_reslog", "m_join_log"}
                /\ pc[Main] \in {"m_free_reqlog", "m_free_reslog"}
    BY <1>7 DEF FreeNames, FreeReqLogAgain, FreeResLog, At
  <2>2. PICK l \in {next, "stuck"} : UNCHANGED pc \/ Goto(Main, l)
    BY <2>1, FreeKeeps
  <2>3. UNCHANGED <<argi, victim>>
    BY <2>1, FreeKeeps
  <2>4. argi \notin Files
    BY <2>1 DEF Launch
  <2>5. next # "m_join_req" => Gone(Requesters) /\ Gone(Resolvers)
    BY <2>1 DEF Launch, Joined
  <2>6. CASE Goto(Main, l)
    <3>1. l \in {"m_join_req", "m_free_reslog", "m_join_log", "stuck"}
      BY <2>1
    <3>2. l \in {"m_free_reslog", "m_join_log"} => Gone(Requesters) /\ Gone(Resolvers)
      BY <2>1, <2>5
    <3> QED
      BY <2>1, <2>3, <2>4, <2>6, <3>1, <3>2, MainLaunch
  <2>7. CASE UNCHANGED pc
    BY <2>3, <2>7 DEF Launch, Unstarted, Joined, Gone
  <2> QED
    BY <2>2, <2>6, <2>7
<1>8. CASE JoinRequesters \/ JoinResolvers \/ JoinLoggers
  <2>1. Main # victim /\ UNCHANGED <<argi, victim>> /\ argi \notin Files
    BY <1>8 DEF JoinRequesters, JoinResolvers, JoinLoggers, Join, At, allButPc, input,
                quiet, signal, Launch
  <2>2. \/ Goto(Main, "crashed")
        \/ Goto(Main, "m_join_res") /\ Gone(Requesters)
        \/ /\ Goto(Main, "m_free_reqlog") /\ Gone(Resolvers)
           /\ pc[Main] = "m_join_res"
        \/ /\ Goto(Main, "exit") /\ Gone(Loggers)
           /\ pc[Main] = "m_join_log"
    BY <1>8 DEF JoinRequesters, JoinResolvers, JoinLoggers, Join, At, Gone
  <2>3. /\ pc[Main] = "m_join_res" => Gone(Requesters)
        /\ pc[Main] = "m_join_log" => Gone(Requesters) /\ Gone(Resolvers)
    BY DEF Launch, Joined
  <2>4. Gone(Requesters) /\ Gone(Resolvers) /\ Gone(Loggers) => Gone(Workers)
    BY DEF Gone, Workers
  <2> QED
    BY <2>1, <2>2, <2>3, <2>4, MainLaunch
<1>9. CASE QueueHangs
  BY <1>9, PutHung, MainLaunch DEF allButPc, input, quiet, signal
<1> QED
  BY <1>1, <1>2, <1>3, <1>4, <1>5, <1>6, <1>7, <1>8, <1>9 DEF MainThread

LEMMA LaunchStep ==
  ASSUME Launch, [Next]_vars
  PROVE  Launch'
<1>1. ASSUME NEW t \in Workers, WorkerStep(t) PROVE Launch'
  BY <1>1, WorkerLaunch
<1>2. CASE SignalHandler
  <2> DEFINE at == <<"a_first", "a_second", "a_third", "a_fourth", "a_exit">>
  <2>1. CASE HandlerFrees
    <3>1. PICK i \in 1 .. 4 : Free(Handler, FreeOrder[i], at[i + 1])
      BY <2>1 DEF HandlerFrees, FreeAll
    <3>2. UNCHANGED <<argi, victim>> /\ (UNCHANGED pc \/ \E l : Goto(Handler, l))
      BY <3>1, FreeKeeps
    <3>3. DOMAIN pc' = Threads /\ pc'[Main] = pc[Main] /\ \A u \in Workers : pc'[u] = pc[u]
      BY <3>2, PcMoves, Roles DEF Launch
    <3> QED
      BY <3>2, <3>3, Roles DEF Launch, Unstarted, Joined, Gone
  <2>2. CASE HandlerExits
    <3>1. /\ UNCHANGED <<argi, victim>> /\ pc'[Main] = "exit_signal" /\ DOMAIN pc' = Threads
          /\ \A u \in Workers : pc'[u] = pc[u]
      BY <2>2, PcMoves, Roles DEF HandlerExits, input, quiet, signal, Launch
    <3> QED
      BY <3>1 DEF Launch, Unstarted, Joined, BeforePC, AbortPC, AfterPC
  <2> QED
    BY <1>2, <2>1, <2>2 DEF SignalHandler
<1>3. ASSUME NEW t \in Interrupted, Interrupt(t) PROVE Launch'
  <2>1. /\ Running /\ pc[t] \notin {"uncreated", "done"} /\ victim' = t
        /\ Goto(Handler, "a_first") /\ UNCHANGED argi
    BY <1>3 DEF Interrupt, input
  <2>2. DOMAIN pc' = Threads /\ pc'[Main] = pc[Main] /\ \A u \in Workers : pc'[u] = pc[u]
    BY <2>1, PcMoves, Roles DEF Launch
  <2>3. t \in Workers \cup {Main}
    BY FaultAssumption
  <2> QED
    BY <2>1, <2>2, <2>3, Roles DEF Launch, Unstarted, Joined, Gone, Running
<1>4. CASE UNCHANGED vars
  BY <1>4 DEF vars, allButPc, input, quiet, signal, Launch, Unstarted, Joined, Gone
<1> QED
  BY <1>1, <1>2, <1>3, <1>4, LaunchMain, Roles DEF Next, Ended, WorkerStep

LEMMA LaunchAlways == Spec => []Launch
<1>1. ASSUME Init PROVE Launch
  <2>1. DOMAIN pc = Threads /\ pc[Main] = "m_args"
        /\ \A u \in Workers : pc[u] = "uncreated"
    BY <1>1, Roles DEF Init
  <2>2. argi = 1 /\ victim = None /\ None \notin Workers
    BY <1>1, Roles, ThreadAssumption DEF Init
  <2> QED
    BY <2>1, <2>2, Roles DEF Launch, Unstarted, Joined, AfterPC
<1> QED
  BY <1>1, LaunchStep, PTL DEF Spec

-----------------------------------------------------------------------------
(* Which steps move a string; the others leave who holds one where it is.   *)

Busy(r) == pc[r] \in {"r_read", "r_log", "r_put"}

(* A resolver has a hostname until it has queued the answer, or for good    *)
(* when it hangs in that.                                                   *)
Holds(s) == pc[s] \in {"s_log", "stuck"}

Still ==
  /\ UNCHANGED <<items, argi, file, line, host, log>>
  /\ \A r \in Requesters : Busy(r) \/ Busy(r)' => pc'[r] = pc[r]
  /\ \A s \in Resolvers : Holds(s)' <=> Holds(s)

Moving ==
  \/ QueueName
  \/ \E r \in Requesters : OpenFile(r) \/ ReadLine(r) \/ LogRequest(r) \/ PutHost(r)
  \/ \E s \in Resolvers : TakeHost(s) \/ LogResolved(s)
  \/ \E t \in Loggers : WriteLine(t)
  \/ \E r \in Requesters : RequesterHangs(r)
  \/ HandlerExits

LEMMA StillMove ==
  ASSUME Launch, NEW t \in Threads, NEW l, Goto(t, l),
         UNCHANGED <<items, argi, file, line, host, log>>,
         t \in Requesters => {pc[t], l} \cap {"r_read", "r_log", "r_put"} = {},
         t \in Resolvers => (Holds(t) <=> l \in {"s_log", "stuck"})
  PROVE  Still
<1>1. \A u \in Threads : pc'[u] = IF u = t THEN l ELSE pc[u]
  BY PcMoves DEF Launch
<1> QED
  BY <1>1, Roles DEF Still, Busy, Holds

LEMMA StillMain ==
  ASSUME Launch, MainThread
  PROVE  Still \/ QueueName
<1> DEFINE kept == UNCHANGED <<items, argi, file, line, host, log>>
<1>1. ASSUME kept, UNCHANGED pc \/ \E l : Goto(Main, l) PROVE Still
  BY <1>1, StillMove, Roles DEF Still, Busy, Holds
<1>2. CASE CheckArguments \/ CountValid \/ OpenLogs \/ AllocateThreads
  BY <1>1, <1>2 DEF CheckArguments, CountValid, OpenLogs, AllocateThreads, allButPc,
                    queues, input
<1>3. CASE JoinRequesters \/ JoinResolvers \/ JoinLoggers
  BY <1>1, <1>3 DEF JoinRequesters, JoinResolvers, JoinLoggers, Join, allButPc, queues,
                    input
<1>4. CASE CleanUp \/ FreeNames \/ FreeReqLogAgain \/ FreeResLog
  <2>1. PICK q, next : Free(Main, q, next)
    BY <1>4 DEF CleanUp, FreeAll, FreeNames, FreeReqLogAgain, FreeResLog
  <2> QED
    BY <1>1, <2>1, FreeKeeps
<1>5. CASE StartReqLogger \/ StartResLogger
  <2>1. PICK t, next :
          /\ t \in Loggers
          /\ \/ pc' = [pc EXCEPT ![t] = "l_get", ![Main] = next]
             \/ Goto(Main, "a_first")
    BY <1>5 DEF StartReqLogger, StartResLogger, StartLogger, Loggers
  <2>2. kept
    BY <1>5 DEF StartReqLogger, StartResLogger, StartLogger, allButPc, queues, input
  <2>3. CASE pc' = [pc EXCEPT ![t] = "l_get", ![Main] = next]
    <3>1. \A u \in Requesters \cup Resolvers : pc'[u] = pc[u]
      BY <2>1, <2>3, Roles DEF Launch
    <3> QED
      BY <2>2, <3>1 DEF Still, Busy, Holds
  <2> QED
    BY <1>1, <2>1, <2>2, <2>3
<1>6. CASE CreateRequesters
  <2>1. kept /\ pc[Main] = "m_create"
    BY <1>6 DEF CreateRequesters, At, queues, input
  <2>2. /\ \A r \in Requesters : pc'[r] = pc[r] \/ pc'[r] = "r_get"
        /\ \A s \in Resolvers : pc'[s] = pc[s]
    BY <1>6, Roles DEF CreateRequesters
  <2>3. \A r \in Requesters : pc[r] = "uncreated"
    BY <2>1 DEF Launch, Unstarted, BeforePC
  <2> QED
    BY <2>1, <2>2, <2>3 DEF Still, Busy, Holds
<1>7. CASE CreateResolvers
  <2>1. kept /\ pc[Main] = "m_names"
    BY <1>7 DEF CreateResolvers, At, allButPc, queues, input
  <2>2. /\ \A s \in Resolvers : pc'[s] = pc[s] \/ pc'[s] = "s_get"
        /\ \A r \in Requesters : pc'[r] = pc[r]
    BY <1>7, Roles DEF CreateResolvers
  <2>3. \A s \in Resolvers : pc[s] = "uncreated"
    BY <2>1 DEF Launch
  <2> QED
    BY <2>1, <2>2, <2>3 DEF Still, Busy, Holds
<1>8. CASE QueueHangs
  BY <1>1, <1>8, PutHung DEF allButPc, queues, input
<1> QED
  BY <1>2, <1>3, <1>4, <1>5, <1>6, <1>7, <1>8 DEF MainThread

LEMMA StillSteps ==
  ASSUME Launch, [Next]_vars
  PROVE  Still \/ Moving
<1> DEFINE kept == UNCHANGED <<items, argi, file, line, host, log>>
<1>1. CASE MainThread
  BY <1>1, StillMain DEF Moving
<1>2. ASSUME NEW r \in Requesters, Requester(r) PROVE Still \/ Moving
  <2>1. r \in Threads /\ r \notin Resolvers
    BY Roles
  <2>2. CASE FreeHosts(r) \/ FreeReqLog(r)
    <3>1. PICK q, next : /\ Free(r, q, next) /\ next \in {"r_free_log", "done"}
                         /\ pc[r] \in {"r_free_hosts", "r_free_log"}
      BY <2>2 DEF FreeHosts, FreeReqLog, At
    <3>2. kept /\ (UNCHANGED pc \/ \E l \in {"stuck", "r_free_log", "done"} : Goto(r, l))
      BY <3>1, FreeKeeps
    <3> QED
      BY <2>1, <3>1, <3>2, StillMove DEF Still, Busy, Holds
  <2>3. CASE RequestFile(r) \/ LeaveFiles(r) \/ ExitReader(r)
    <3>1. kept /\ pc[r] \in {"r_get", "r_file", "r_exit"}
      BY <2>3 DEF RequestFile, Enter, LeaveFiles, ExitReader, At, allButPc, queues, input
    <3>2. \E l \in {"r_file", "stuck_get", "r_exit", "r_free_hosts", "done"} : Goto(r, l)
      BY <2>3 DEF RequestFile, Enter, LeaveFiles, ExitReader
    <3> QED
      BY <2>1, <3>1, <3>2, StillMove
  <2> QED
    BY <1>2, <2>2, <2>3 DEF Requester, Moving
<1>3. ASSUME NEW s \in Resolvers, Resolver(s) PROVE Still \/ Moving
  <2>1. s \in Threads /\ s \notin Requesters
    BY Roles
  <2>2. CASE RequestHost(s) \/ LeaveHosts(s)
    <3>1. kept /\ pc[s] \in {"s_get", "s_host"}
      BY <2>2 DEF RequestHost, Enter, LeaveHosts, At, allButPc, queues, input
    <3>2. \E l \in {"s_host", "stuck_get", "done"} : Goto(s, l)
      BY <2>2 DEF RequestHost, Enter, LeaveHosts
    <3> QED
      BY <2>1, <3>1, <3>2, StillMove DEF Holds
  <2>3. CASE ResolverHangs(s)
    BY <2>1, <2>3, PutHung, StillMove DEF Holds, allButPc, queues, input
  <2> QED
    BY <1>3, <2>2, <2>3 DEF Resolver, Moving
<1>4. ASSUME NEW t \in Loggers, Logger(t) PROVE Still \/ Moving
  <2>1. t \in Threads /\ t \notin Requesters \cup Resolvers
    BY Roles
  <2>2. CASE RequestLine(t) \/ LeaveLog(t)
    <3>1. kept /\ \E l : Goto(t, l)
      BY <2>2 DEF RequestLine, Enter, LeaveLog, allButPc, queues, input
    <3> QED
      BY <2>1, <3>1, StillMove
  <2> QED
    BY <1>4, <2>2 DEF Logger, Moving
<1>5. CASE SignalHandler
  <2>1. CASE HandlerFrees
    <3>1. PICK q, next : Free(Handler, q, next)
      BY <2>1 DEF HandlerFrees, FreeAll
    <3> QED
      BY <3>1, FreeKeeps, StillMove, Roles DEF Still, Busy, Holds
  <2> QED
    BY <1>5, <2>1 DEF SignalHandler, Moving
<1>6. ASSUME NEW t \in Interrupted, Interrupt(t) PROVE Still
  <2>1. kept /\ Goto(Handler, "a_first")
    BY <1>6 DEF Interrupt, queues, input
  <2> QED
    BY <2>1, StillMove, Roles
<1>7. CASE UNCHANGED vars
  BY <1>7 DEF vars, allButPc, queues, input, Still, Busy, Holds
<1> QED
  BY <1>1, <1>2, <1>3, <1>4, <1>5, <1>6, <1>7 DEF Next, Ended

-----------------------------------------------------------------------------
(* What the threads and the queues hold.                                    *)

LogQueues == {"hostname", "requester_log", "resolver_log"}

ItemsTyped ==
  /\ DOMAIN items = Queues
  /\ items["filename"] \in Seq(Files)
  /\ \A q \in LogQueues : items[q] \in Seq(Hosts)
  /\ \A q \in Queues : Len(items[q]) <= Capacity

Typed ==
  /\ ItemsTyped
  /\ file \in [Requesters -> Files \cup {0}]
  /\ line \in [Requesters -> Nat]
  /\ host \in [Resolvers -> Hosts \cup {NoHost}]
  /\ log \in [Loggers -> Seq(Hosts)]
  /\ \A r \in Requesters :
       /\ Busy(r) => file[r] \in Files /\ line[r] # 0
       /\ pc[r] \in {"r_log", "r_put"} => <<file[r], line[r]>> \in Hosts
  /\ \A s \in Resolvers : Holds(s) <=> host[s] # NoHost

Moved(t, l) == \A u \in Threads : pc'[u] = IF u = t THEN l ELSE pc[u]
Appended(q, x) ==
  /\ DOMAIN items' = Queues
  /\ ~shutdown[q]
  /\ Len(items[q]) < Capacity
  /\ \A p \in Queues : items'[p] = IF p = q THEN Append(items[q], x) ELSE items[p]
Removed(q) ==
  /\ DOMAIN items' = Queues
  /\ items[q] # <<>>
  /\ \A p \in Queues : items'[p] = IF p = q THEN Tail(items[q]) ELSE items[p]

(* A copy is appended, or it is dropped: there was no memory, or the queue  *)
(* is shut down.                                                            *)
LEMMA StrdupDoes ==
  ASSUME Typed, NEW q \in Queues, NEW x, Strdup(q, x)
  PROVE  \/ Appended(q, x) /\ UNCHANGED refused
         \/ UNCHANGED items /\ (AllocFails \/ shutdown[q])
  BY DEF Typed, ItemsTyped, Strdup, Put, Appended

LEMMA RemoveDoes ==
  ASSUME Typed, NEW q \in Queues, Remove(q)
  PROVE  Removed(q)
  BY DEF Typed, ItemsTyped, Remove, Removed

LEMMA GotoMoves ==
  ASSUME Launch, NEW t \in Threads, NEW l, Goto(t, l)
  PROVE  Moved(t, l)
  BY PcMoves DEF Launch, Moved

LEMMA QueueNameDoes ==
  ASSUME Typed, QueueName
  PROVE  /\ argi \in Files /\ argi' = argi + 1
         /\ UNCHANGED <<pc, file, line, host, log>>
         /\ Appended("filename", argi) \/ UNCHANGED items
<1>1. Strdup("filename", argi) => Appended("filename", argi) \/ UNCHANGED items
  BY StrdupDoes DEF Queues
<1> QED
  BY <1>1 DEF QueueName

LEMMA OpenFileDoes ==
  ASSUME Typed, Launch, NEW r \in Requesters, OpenFile(r)
  PROVE  /\ pc[r] = "r_file" /\ Removed("filename") /\ UNCHANGED <<argi, host, log>>
         /\ \/ /\ \A u \in Requesters :
                    /\ file'[u] = IF u = r THEN Head(items["filename"]) ELSE file[u]
                    /\ line'[u] = IF u = r THEN 1 ELSE line[u]
               /\ file' = [file EXCEPT ![r] = Head(items["filename"])]
               /\ line' = [line EXCEPT ![r] = 1]
               /\ Moved(r, "r_read")
            \/ /\ UNCHANGED <<file, line>> /\ Moved(r, "r_get")
               /\ MayFail(Head(items["filename"]))
<1>1. Removed("filename")
  BY RemoveDoes DEF OpenFile, Queues
<1> QED
  BY <1>1, GotoMoves, Roles DEF OpenFile, SkipFile, At, Typed

LEMMA ReadLineDoes ==
  ASSUME Typed, Launch, NEW r \in Requesters, ReadLine(r)
  PROVE  /\ pc[r] = "r_read" /\ UNCHANGED <<items, argi, file, host, log>>
         /\ \/ UNCHANGED line /\ Moved(r, "r_get") /\ line[r] > Len(Lines[file[r]])
            \/ UNCHANGED line /\ Moved(r, "r_log") /\ <<file[r], line[r]>> \in Hosts
            \/ /\ line' = [line EXCEPT ![r] = line[r] + 1] /\ UNCHANGED pc
               /\ \A u \in Requesters : line'[u] = IF u = r THEN line[r] + 1 ELSE line[u]
               /\ <<file[r], line[r]>> \notin Hosts
  BY GotoMoves, Roles, HostIs DEF ReadLine, At, Typed, queues

LEMMA LogRequestDoes ==
  ASSUME Typed, Launch, NEW r \in Requesters, LogRequest(r)
  PROVE  /\ pc[r] = "r_log" /\ UNCHANGED <<argi, file, line, host, log>>
         /\ Moved(r, "r_put")
         /\ \/ Appended("requester_log", <<file[r], line[r]>>)
            \/ UNCHANGED items /\ (AllocFails \/ shutdown["requester_log"])
<1>1. \/ Appended("requester_log", <<file[r], line[r]>>)
      \/ UNCHANGED items /\ (AllocFails \/ shutdown["requester_log"])
  BY StrdupDoes DEF LogRequest, Queues
<1> QED
  BY <1>1, GotoMoves, Roles DEF LogRequest, At, input

LEMMA PutHostDoes ==
  ASSUME Typed, Launch, NEW r \in Requesters, PutHost(r)
  PROVE  /\ pc[r] = "r_put" /\ UNCHANGED <<argi, file, host, log>>
         /\ line' = [line EXCEPT ![r] = line[r] + 1]
         /\ \A u \in Requesters : line'[u] = IF u = r THEN line[r] + 1 ELSE line[u]
         /\ Moved(r, "r_read")
         /\ \/ Appended("hostname", <<file[r], line[r]>>)
            \/ UNCHANGED items /\ (AllocFails \/ shutdown["hostname"])
<1>1. \/ Appended("hostname", <<file[r], line[r]>>)
      \/ UNCHANGED items /\ (AllocFails \/ shutdown["hostname"])
  BY StrdupDoes DEF PutHost, Queues
<1> QED
  BY <1>1, GotoMoves, Roles DEF PutHost, At, Typed

LEMMA TakeHostDoes ==
  ASSUME Typed, Launch, NEW s \in Resolvers, TakeHost(s)
  PROVE  /\ pc[s] = "s_host" /\ UNCHANGED <<argi, file, line, log>>
         /\ Removed("hostname") /\ Moved(s, "s_log")
         /\ host' = [host EXCEPT ![s] = Head(items["hostname"])]
         /\ \A u \in Resolvers :
              host'[u] = IF u = s THEN Head(items["hostname"]) ELSE host[u]
<1>1. Removed("hostname")
  BY RemoveDoes DEF TakeHost, Queues
<1> QED
  BY <1>1, GotoMoves, Roles DEF TakeHost, At, Typed

LEMMA LogResolvedDoes ==
  ASSUME Typed, Launch, NEW s \in Resolvers, LogResolved(s)
  PROVE  /\ pc[s] = "s_log" /\ UNCHANGED <<argi, file, line, log>>
         /\ Moved(s, "s_get")
         /\ host' = [host EXCEPT ![s] = NoHost]
         /\ \A u \in Resolvers : host'[u] = IF u = s THEN NoHost ELSE host[u]
         /\ \/ Appended("resolver_log", host[s])
            \/ UNCHANGED items /\ (AllocFails \/ shutdown["resolver_log"])
<1>1. \/ Appended("resolver_log", host[s])
      \/ UNCHANGED items /\ (AllocFails \/ shutdown["resolver_log"])
  BY StrdupDoes DEF LogResolved, Queues
<1> QED
  BY <1>1, GotoMoves, Roles DEF LogResolved, At, Typed

(* A thread that hangs in array_put moves no string.                        *)
LEMMA HangsDoes ==
  ASSUME Launch, NEW r \in Requesters, RequesterHangs(r)
  PROVE  /\ pc[r] \in {"r_log", "r_put"} /\ UNCHANGED <<items, argi, file, line, host, log>>
         /\ Moved(r, "stuck")
BY PutHung, GotoMoves, Roles DEF allButPc, queues, input

LEMMA WriteLineDoes ==
  ASSUME Typed, Launch, NEW t \in Loggers, WriteLine(t)
  PROVE  /\ pc[t] = "l_line" /\ UNCHANGED <<argi, file, line, host>>
         /\ LogQueue[t] \in {"requester_log", "resolver_log"}
         /\ LogQueue[t] = "requester_log" <=> t = ReqLogger
         /\ Removed(LogQueue[t]) /\ Moved(t, "l_get")
         /\ log' = [log EXCEPT ![t] = Append(log[t], Head(items[LogQueue[t]]))]
         /\ \A u \in Loggers :
              log'[u] = IF u = t THEN Append(log[t], Head(items[LogQueue[t]])) ELSE log[u]
<1>1. LogQueue[t] \in {"requester_log", "resolver_log"}
      /\ (LogQueue[t] = "requester_log" <=> t = ReqLogger)
  BY DEF LogQueue
<1>2. Removed(LogQueue[t])
  BY <1>1, RemoveDoes DEF WriteLine, Queues
<1> QED
  BY <1>1, <1>2, GotoMoves, Roles DEF WriteLine, At, Typed, input

LEMMA HandlerExitsDoes ==
  ASSUME Typed, Launch, HandlerExits
  PROVE  /\ UNCHANGED <<items, argi, file, line, host>>
         /\ Moved(Main, "exit_signal")
         /\ DOMAIN log' = Loggers
         /\ log' = [t \in Loggers |-> log'[t]]
         /\ \A t \in Loggers :
              log'[t] = log[t] \/ log'[t] = SubSeq(log[t], 1, Len(log[t]) - 1)
  BY GotoMoves, Roles DEF HandlerExits, queues, input

LEMMA QueueNames == Queues = {"filename"} \cup LogQueues /\ "filename" \notin LogQueues
  BY DEF Queues, LogQueues

LEMMA AppendTyped ==
  ASSUME Typed, NEW q \in Queues, NEW x, Appended(q, x),
         q = "filename" => x \in Files, q # "filename" => x \in Hosts
  PROVE  ItemsTyped'
<1> DEFINE S == IF q = "filename" THEN Files ELSE Hosts
<1>1. items[q] \in Seq(S) /\ x \in S /\ Len(items[q]) < Capacity
  BY QueueNames DEF Typed, ItemsTyped, Appended
<1> DEFINE a == Append(items[q], x)
<1>2. a \in Seq(S) /\ Len(a) <= Capacity
  <2> HIDE DEF S
  <2> QED
    BY <1>1, QueueAssumption DEF Capacity
<1> HIDE DEF a
<1>3. DOMAIN items' = Queues /\ \A p \in Queues : items'[p] = IF p = q THEN a ELSE items[p]
  BY DEF Appended, a
<1> QED
  BY <1>2, <1>3, QueueNames DEF Typed, ItemsTyped

LEMMA RemoveTyped ==
  ASSUME Typed, NEW q \in Queues, Removed(q)
  PROVE  ItemsTyped' /\ Head(items[q]) \in IF q = "filename" THEN Files ELSE Hosts
<1> DEFINE S == IF q = "filename" THEN Files ELSE Hosts
<1>1. items[q] \in Seq(S) /\ items[q] # <<>> /\ Len(items[q]) <= Capacity
  BY QueueNames DEF Typed, ItemsTyped, Removed
<1> DEFINE a == Tail(items[q])
<1>2. a \in Seq(S) /\ Len(a) <= Capacity /\ Head(items[q]) \in S
  <2> HIDE DEF S
  <2> QED
    BY <1>1, QueueAssumption DEF Capacity
<1> HIDE DEF a
<1>3. DOMAIN items' = Queues /\ \A p \in Queues : items'[p] = IF p = q THEN a ELSE items[p]
  BY DEF Removed, a
<1> QED
  BY <1>2, <1>3, QueueNames DEF Typed, ItemsTyped

LEMMA TypedStep ==
  ASSUME Typed, Launch, [Next]_vars
  PROVE  Typed'
<1> USE Roles
<1>0. /\ file \in [Requesters -> Files \cup {0}] /\ line \in [Requesters -> Nat]
      /\ log \in [Loggers -> Seq(Hosts)]
      /\ \A u \in Requesters : Busy(u) => file[u] \in Files /\ line[u] # 0
  BY DEF Typed
<1>1. CASE Still
  BY <1>1 DEF Still, Busy, Typed, ItemsTyped
<1>2. CASE QueueName
  <2>1. /\ argi \in Files /\ UNCHANGED <<pc, file, line, host, log>>
        /\ Appended("filename", argi) \/ UNCHANGED items
    BY <1>2, QueueNameDoes
  <2>2. ItemsTyped'
    BY <2>1, AppendTyped, QueueNames DEF Typed, ItemsTyped
  <2> QED
    BY <2>1, <2>2 DEF Typed, Busy, Holds
<1>3. ASSUME NEW r \in Requesters, OpenFile(r) PROVE Typed'
  <2>1. /\ Removed("filename") /\ UNCHANGED <<host, log>>
        /\ \/ /\ \A u \in Requesters :
                   /\ file'[u] = IF u = r THEN Head(items["filename"]) ELSE file[u]
                   /\ line'[u] = IF u = r THEN 1 ELSE line[u]
              /\ file' = [file EXCEPT ![r] = Head(items["filename"])]
              /\ line' = [line EXCEPT ![r] = 1]
              /\ Moved(r, "r_read")
           \/ UNCHANGED <<file, line>> /\ Moved(r, "r_get")
    BY <1>3, OpenFileDoes
  <2>2. ItemsTyped' /\ Head(items["filename"]) \in Files
    BY <2>1, RemoveTyped, QueueNames
  <2>3. /\ file' \in [Requesters -> Files \cup {0}]
        /\ line' \in [Requesters -> Nat]
    BY <1>0, <2>1, <2>2
  <2>4. \A s \in Resolvers : pc'[s] = pc[s]
    BY <2>1 DEF Moved
  <2>5. ASSUME NEW u \in Requesters, Busy(u)'
        PROVE  file'[u] \in Files /\ line'[u] # 0
    <3>1. u # r => Busy(u) /\ file'[u] = file[u] /\ line'[u] = line[u]
      BY <2>1, <2>5 DEF Moved, Busy
    <3>2. u = r => file'[u] \in Files /\ line'[u] = 1
      BY <2>1, <2>2, <2>5 DEF Moved, Busy
    <3> QED
      BY <1>0, <3>1, <3>2
  <2>6. \A u \in Requesters : pc'[u] \in {"r_log", "r_put"} => <<file'[u], line'[u]>> \in Hosts
    BY <2>1 DEF Moved, Typed
  <2> QED
    BY <2>1, <2>2, <2>3, <2>4, <2>5, <2>6 DEF Typed, Holds
<1>4. ASSUME NEW r \in Requesters, ReadLine(r) PROVE Typed'
  <2>1. /\ pc[r] = "r_read" /\ UNCHANGED <<items, argi, file, host, log>>
        /\ \/ UNCHANGED line /\ Moved(r, "r_get")
           \/ UNCHANGED line /\ Moved(r, "r_log") /\ <<file[r], line[r]>> \in Hosts
           \/ /\ line' = [line EXCEPT ![r] = line[r] + 1] /\ UNCHANGED pc
              /\ \A u \in Requesters : line'[u] = IF u = r THEN line[r] + 1 ELSE line[u]
    BY <1>4, ReadLineDoes
  <2>2. line' \in [Requesters -> Nat]
    BY <2>1 DEF Typed
  <2>3. \A s \in Resolvers : pc'[s] = pc[s]
    BY <2>1 DEF Moved
  <2>4. \A u \in Requesters : /\ Busy(u)' => Busy(u)
                              /\ line[u] # 0 => line'[u] # 0
    BY <1>0, <2>1 DEF Moved, Busy
  <2>5. \A u \in Requesters : pc'[u] \in {"r_log", "r_put"} => <<file'[u], line'[u]>> \in Hosts
    BY <2>1 DEF Moved, Typed
  <2> QED
    BY <2>1, <2>2, <2>3, <2>4, <2>5 DEF Typed, ItemsTyped, Holds
<1>5. ASSUME NEW r \in Requesters, LogRequest(r) PROVE Typed'
  <2>1. /\ pc[r] = "r_log" /\ UNCHANGED <<file, line, host, log>> /\ Moved(r, "r_put")
        /\ Appended("requester_log", <<file[r], line[r]>>) \/ UNCHANGED items
    BY <1>5, LogRequestDoes
  <2>2. <<file[r], line[r]>> \in Hosts
    BY <2>1 DEF Typed
  <2>3. ItemsTyped'
    BY <2>1, <2>2, AppendTyped, QueueNames DEF Typed, ItemsTyped, LogQueues
  <2> QED
    BY <2>1, <2>2, <2>3 DEF Typed, Moved, Busy, Holds
<1>6. ASSUME NEW r \in Requesters, PutHost(r) PROVE Typed'
  <2>1. /\ pc[r] = "r_put" /\ UNCHANGED <<file, host, log>>
        /\ line' = [line EXCEPT ![r] = line[r] + 1] /\ Moved(r, "r_read")
        /\ \A u \in Requesters : line'[u] = IF u = r THEN line[r] + 1 ELSE line[u]
        /\ Appended("hostname", <<file[r], line[r]>>) \/ UNCHANGED items
    BY <1>6, PutHostDoes
  <2>2. <<file[r], line[r]>> \in Hosts
    BY <2>1 DEF Typed
  <2>3. ItemsTyped'
    BY <2>1, <2>2, AppendTyped, QueueNames DEF Typed, ItemsTyped, LogQueues
  <2>4. line' \in [Requesters -> Nat]
    BY <2>1 DEF Typed
  <2> QED
    BY <2>1, <2>2, <2>3, <2>4 DEF Typed, Moved, Busy, Holds
<1>7. ASSUME NEW s \in Resolvers, TakeHost(s) PROVE Typed'
  <2>1. /\ UNCHANGED <<file, line, log>> /\ Removed("hostname") /\ Moved(s, "s_log")
        /\ host' = [host EXCEPT ![s] = Head(items["hostname"])]
        /\ \A u \in Resolvers :
              host'[u] = IF u = s THEN Head(items["hostname"]) ELSE host[u]
    BY <1>7, TakeHostDoes
  <2>2. ItemsTyped' /\ Head(items["hostname"]) \in Hosts
    BY <2>1, RemoveTyped, QueueNames DEF LogQueues
  <2>3. NoHost \notin Hosts
    BY PositionIs, HostIs
  <2> QED
    BY <2>1, <2>2, <2>3 DEF Typed, Moved, Busy, Holds
<1>8. ASSUME NEW s \in Resolvers, LogResolved(s) PROVE Typed'
  <2>1. /\ pc[s] = "s_log" /\ UNCHANGED <<file, line, log>> /\ Moved(s, "s_get")
        /\ host' = [host EXCEPT ![s] = NoHost]
        /\ \A u \in Resolvers : host'[u] = IF u = s THEN NoHost ELSE host[u]
        /\ Appended("resolver_log", host[s]) \/ UNCHANGED items
    BY <1>8, LogResolvedDoes
  <2>2. host[s] \in Hosts
    BY <2>1 DEF Typed, Holds
  <2>3. ItemsTyped'
    BY <2>1, <2>2, AppendTyped, QueueNames DEF Typed, ItemsTyped, LogQueues
  <2> QED
    BY <2>1, <2>2, <2>3 DEF Typed, Moved, Busy, Holds
<1>9. ASSUME NEW t \in Loggers, WriteLine(t) PROVE Typed'
  <2> DEFINE x == Head(items[LogQueue[t]])
  <2>1. /\ UNCHANGED <<file, line, host>> /\ Removed(LogQueue[t]) /\ Moved(t, "l_get")
        /\ LogQueue[t] \in {"requester_log", "resolver_log"}
        /\ log' = [log EXCEPT ![t] = Append(log[t], x)]
    BY <1>9, WriteLineDoes
  <2>2. ItemsTyped' /\ x \in Hosts
    BY <2>1, RemoveTyped, QueueNames DEF LogQueues
  <2>3. log' \in [Loggers -> Seq(Hosts)]
    <3> HIDE DEF x
    <3> QED
      BY <2>1, <2>2, AppendElements DEF Typed
  <2> QED
    BY <2>1, <2>2, <2>3 DEF Typed, Moved, Busy, Holds
<1>10. CASE HandlerExits
  <2>1. /\ UNCHANGED <<items, file, line, host>> /\ Moved(Main, "exit_signal")
        /\ log' = [t \in Loggers |-> log'[t]]
        /\ \A t \in Loggers :
             log'[t] = log[t] \/ log'[t] = SubSeq(log[t], 1, Len(log[t]) - 1)
    BY <1>10, HandlerExitsDoes
  <2>2. ASSUME NEW t \in Loggers PROVE log'[t] \in Seq(Hosts)
    <3> DEFINE front == SubSeq(log[t], 1, Len(log[t]) - 1)
    <3>1. log[t] \in Seq(Hosts)
      BY DEF Typed
    <3>2. front \in Seq(Hosts)
      BY <3>1, FrontElements
    <3>3. log'[t] = log[t] \/ log'[t] = front
      BY <2>1
    <3> QED
      BY <3>1, <3>2, <3>3
  <2>3. log' \in [Loggers -> Seq(Hosts)]
    BY <2>1, <2>2
  <2> QED
    BY <2>1, <2>3 DEF Typed, ItemsTyped, Moved, Busy, Holds
<1>11. ASSUME NEW r \in Requesters, RequesterHangs(r) PROVE Typed'
  BY <1>11, HangsDoes DEF Typed, ItemsTyped, Moved, Busy, Holds
<1> QED
  BY <1>1, <1>2, <1>3, <1>4, <1>5, <1>6, <1>7, <1>8, <1>9, <1>10, <1>11, StillSteps
     DEF Moving

LEMMA TypedInit == Init => Typed
<1> SUFFICES ASSUME Init PROVE Typed
  OBVIOUS
<1>1. /\ \A r \in Requesters : pc[r] = "uncreated"
      /\ \A s \in Resolvers : pc[s] = "uncreated" /\ host[s] = NoHost
  BY Roles DEF Init
<1>2. ItemsTyped
  BY QueueNames, QueueAssumption DEF Init, ItemsTyped, Capacity
<1> QED
  BY <1>1, <1>2 DEF Init, Typed, Busy, Holds

LEMMA TypedAlways == Spec => [](Typed /\ Launch)
  BY TypedInit, TypedStep, LaunchAlways, PTL DEF Spec

-----------------------------------------------------------------------------
(* The type invariant: what the threads and queues hold, and the variables  *)
(* that control them.                                                       *)

Controlled ==
  /\ shutdown \in [Queues -> BOOLEAN]
  /\ destroyed \in [Queues -> BOOLEAN]
  /\ DOMAIN pc = Threads /\ \A t \in Threads : Place(t, pc[t])
  /\ stage \in [Freers -> {"close", "drain", "count", "destroy"}]
  /\ active_file_readers \in Int
  /\ files_serviced \in [Requesters -> Nat]
  /\ hosts_resolved \in [Resolvers -> Nat]
  /\ refused \subseteq Queues
  /\ held \subseteq Queues

controls == <<shutdown, destroyed, stage, active_file_readers, files_serviced,
              hosts_resolved, refused, held>>

LEMMA GoesTyped ==
  ASSUME Controlled, NEW t \in Threads, NEW l, Place(t, l), UNCHANGED pc \/ Goto(t, l),
         UNCHANGED controls
  PROVE  Controlled'
<1>1. DOMAIN pc' = Threads /\ \A u \in Threads : Place(u, pc'[u])
  BY PcMoves DEF Controlled
<1> QED
  BY <1>1 DEF Controlled, controls

LEMMA FreeTyped ==
  ASSUME Controlled, NEW t \in Freers, NEW q, NEW next, Place(t, next), Free(t, q, next)
  PROVE  Controlled'
<1>0. t \in Threads /\ Place(t, "stuck")
  BY Roles DEF Freers, Place, MainPlaces, RequesterPlaces, WorkerPlaces
<1>1. /\ UNCHANGED <<active_file_readers, refused, held, files_serviced, hosts_resolved>>
      /\ UNCHANGED pc \/ Goto(t, "stuck") \/ Goto(t, next)
  BY FreeKeeps
<1>2. DOMAIN pc' = Threads /\ \A u \in Threads : Place(u, pc'[u])
  BY <1>0, <1>1, PcMoves DEF Controlled
<1>3. /\ shutdown' \in [Queues -> BOOLEAN]
      /\ destroyed' \in [Queues -> BOOLEAN]
  BY DEF Controlled, Free
<1>4. stage' \in [Freers -> {"close", "drain", "count", "destroy"}]
  BY DEF Controlled, Free, Advance
<1> QED
  BY <1>1, <1>2, <1>3, <1>4 DEF Controlled

LEMMA PutTyped ==
  ASSUME Controlled, NEW q \in Queues, NEW x, Strdup(q, x)
  PROVE  refused' \subseteq Queues
  BY DEF Controlled, Strdup, Put

LEMMA FreeAllTyped ==
  ASSUME Controlled, NEW t \in {Main, Handler}, NEW next, Place(t, next), FreeAll(t, next)
  PROVE  Controlled'
<1> DEFINE at == <<"a_first", "a_second", "a_third", "a_fourth", next>>
<1>1. PICK i \in 1 .. 4 : Free(t, FreeOrder[i], at[i + 1])
  BY DEF FreeAll
<1>2. Place(t, at[i + 1])
  BY <1>1, Roles DEF Place, MainPlaces, Freeing
<1> QED
  BY <1>1, <1>2, FreeTyped DEF Freers

LEMMA MainTyped ==
  ASSUME Controlled, MainThread
  PROVE  Controlled'
<1> USE DEF controls, allButPc, queues, input, quiet, signal, stats
<1>0. \A l \in MainPlaces : Place(Main, l)
  BY Roles DEF Place
<1>1. CASE CheckArguments \/ CountValid \/ OpenLogs \/ AllocateThreads
  <2>1. PICK l \in {"m_count", "m_open", "m_reqlog", "m_create", "a_first", "exit_failure"} :
          Goto(Main, l)
    BY <1>1 DEF CheckArguments, CountValid, OpenLogs, AllocateThreads
  <2>2. UNCHANGED controls
    BY <1>1 DEF CheckArguments, CountValid, OpenLogs, AllocateThreads
  <2>3. Place(Main, l)
    BY <1>0 DEF MainPlaces, Freeing
  <2> QED
    BY <2>1, <2>2, <2>3, Roles, GoesTyped
<1>2. CASE StartReqLogger \/ StartResLogger
  <2>1. PICK t \in Loggers, next \in {"m_reslog", "m_alloc"} :
          \/ pc' = [pc EXCEPT ![t] = "l_get", ![Main] = next]
          \/ Goto(Main, "a_first")
    BY <1>2 DEF StartReqLogger, StartResLogger, StartLogger, Loggers
  <2>2. UNCHANGED controls
    BY <1>2 DEF StartReqLogger, StartResLogger, StartLogger
  <2>3. Place(Main, next) /\ Place(Main, "a_first") /\ Place(t, "l_get")
    BY <1>0, Roles DEF MainPlaces, Freeing, Place
  <2>4. DOMAIN pc' = Threads /\ \A u \in Threads : Place(u, pc'[u])
    BY <2>1, <2>3 DEF Controlled, Goto
  <2> QED
    BY <2>2, <2>4 DEF Controlled
<1>3. CASE CleanUp
  BY <1>0, <1>3, FreeAllTyped DEF CleanUp, MainPlaces
<1>4. CASE CreateRequesters
  <2>1. PICK failed \in SUBSET (CreateFails \cap Requesters) :
          /\ active_file_readers' = Cardinality(Requesters) - Cardinality(failed)
          /\ pc' = [t \in Threads |->
                   CASE t \in Requesters \ failed -> "r_get"
                     [] t = Main                  -> "m_names"
                     [] OTHER                     -> pc[t]]
    BY <1>4 DEF CreateRequesters, ReadersStarted
  <2>2. Cardinality(Requesters) \in Nat /\ Cardinality(failed) \in Nat
    BY ThreadAssumption, FS_Subset, FS_CardinalityType
  <2>3. Place(Main, "m_names") /\ \A r \in Requesters : Place(r, "r_get")
    BY <1>0, Roles DEF MainPlaces, Place, RequesterPlaces
  <2>4. DOMAIN pc' = Threads /\ \A u \in Threads : Place(u, pc'[u])
    BY <2>1, <2>3 DEF Controlled
  <2>5. UNCHANGED <<shutdown, destroyed, stage, files_serviced, hosts_resolved, refused,
                    held>>
    BY <1>4 DEF CreateRequesters
  <2> QED
    BY <2>1, <2>2, <2>4, <2>5 DEF Controlled
<1>5. CASE QueueName
  <2>1. refused' \subseteq Queues
    BY <1>5, PutTyped DEF QueueName, Queues, Controlled
  <2> QED
    BY <1>5, <2>1 DEF QueueName, Controlled
<1>6. CASE CreateResolvers
  <2>1. PICK failed \in SUBSET (CreateFails \cap Resolvers) :
          pc' = [t \in Threads |->
                   CASE t \in Resolvers \ failed -> "s_get"
                     [] t = Main                 -> "m_free_names"
                     [] OTHER                    -> pc[t]]
    BY <1>6 DEF CreateResolvers
  <2>2. Place(Main, "m_free_names") /\ \A s \in Resolvers : Place(s, "s_get")
    BY <1>0, Roles DEF MainPlaces, Place
  <2>3. DOMAIN pc' = Threads /\ \A u \in Threads : Place(u, pc'[u])
    BY <2>1, <2>2 DEF Controlled
  <2>4. UNCHANGED controls
    BY <1>6 DEF CreateResolvers
  <2> QED
    BY <2>3, <2>4 DEF Controlled
<1>7. CASE FreeNames \/ FreeReqLogAgain \/ FreeResLog
  <2>1. PICK q, l : Free(Main, q, l) /\ l \in {"m_join_req", "m_free_reslog", "m_join_log"}
    BY <1>7 DEF FreeNames, FreeReqLogAgain, FreeResLog
  <2> QED
    BY <1>0, <2>1, FreeTyped DEF Freers, MainPlaces
<1>8. CASE JoinRequesters \/ JoinResolvers \/ JoinLoggers
  <2>1. PICK l \in {"m_join_res", "m_free_reqlog", "exit", "crashed"} : Goto(Main, l)
    BY <1>8 DEF JoinRequesters, JoinResolvers, JoinLoggers, Join
  <2>2. UNCHANGED controls
    BY <1>8 DEF JoinRequesters, JoinResolvers, JoinLoggers, Join
  <2>3. Place(Main, l)
    BY <1>0 DEF MainPlaces
  <2> QED
    BY <2>1, <2>2, <2>3, Roles, GoesTyped
<1>9. CASE QueueHangs
  BY <1>0, <1>9, PutHung, Roles, GoesTyped DEF MainPlaces, controls
<1> QED
  BY <1>1, <1>2, <1>3, <1>4, <1>5, <1>6, <1>7, <1>8, <1>9 DEF MainThread

LEMMA WorkersTyped ==
  ASSUME Controlled, NEW t \in Workers, WorkerStep(t)
  PROVE  Controlled'
<1> USE DEF allButPc, queues, input, quiet, signal, stats
<1> t \in Threads
  BY Roles
<1>a. t \in Requesters => \A l \in RequesterPlaces : Place(t, l)
  BY Roles DEF Place
<1>b. t \in Resolvers => \A l \in {"s_get", "s_host", "s_log", "stuck", "stuck_get", "done"} :
                             Place(t, l)
  BY Roles DEF Place, WorkerPlaces
<1>c. t \in Loggers => \A l \in {"l_get", "l_line", "stuck_get", "done"} : Place(t, l)
  BY Roles DEF Place, WorkerPlaces
<1>1. CASE t \in Requesters /\ (RequestFile(t) \/ LeaveFiles(t) \/ ReadLine(t))
  <2>1. UNCHANGED pc \/ \E l \in {"r_file", "stuck_get", "r_exit", "r_get", "r_log"} :
                         Goto(t, l)
    BY <1>1 DEF RequestFile, Enter, LeaveFiles, ReadLine
  <2>2. PICK l \in RequesterPlaces : UNCHANGED pc \/ Goto(t, l)
    BY <2>1 DEF RequesterPlaces, WorkerPlaces
  <2>3. UNCHANGED controls
    BY <1>1 DEF RequestFile, Enter, LeaveFiles, ReadLine, controls
  <2> QED
    BY <1>1, <1>a, <2>2, <2>3, GoesTyped
<1>2. CASE t \in Requesters /\ OpenFile(t)
  <2>1. files_serviced' \in [Requesters -> Nat]
    BY <1>2 DEF OpenFile, Controlled
  <2>2. Place(t, "r_read") /\ Place(t, "r_get")
    BY <1>2, <1>a DEF RequesterPlaces
  <2>3. DOMAIN pc' = Threads /\ \A u \in Threads : Place(u, pc'[u])
    BY <1>2, <2>2, PcMoves DEF OpenFile, SkipFile, Controlled
  <2> QED
    BY <1>2, <2>1, <2>3 DEF OpenFile, Controlled
<1>3. CASE t \in Requesters /\ (LogRequest(t) \/ PutHost(t))
  <2>1. refused' \subseteq Queues
    BY <1>3, PutTyped DEF LogRequest, PutHost, Queues
  <2>2. Place(t, "r_put") /\ Place(t, "r_read")
    BY <1>3, <1>a DEF RequesterPlaces
  <2>3. DOMAIN pc' = Threads /\ \A u \in Threads : Place(u, pc'[u])
    BY <1>3, <2>2, PcMoves DEF LogRequest, PutHost, Controlled
  <2> QED
    BY <1>3, <2>1, <2>3 DEF LogRequest, PutHost, Controlled
<1>4. CASE t \in Requesters /\ ExitReader(t)
  <2>1. Place(t, "r_free_hosts") /\ Place(t, "done")
    BY <1>4, <1>a DEF RequesterPlaces, WorkerPlaces
  <2>2. Goto(t, "r_free_hosts") \/ Goto(t, "done")
    BY <1>4 DEF ExitReader
  <2>3. DOMAIN pc' = Threads /\ \A u \in Threads : Place(u, pc'[u])
    BY <2>1, <2>2, PcMoves DEF Controlled
  <2> QED
    BY <1>4, <2>3 DEF ExitReader, Controlled
<1>5. CASE t \in Requesters /\ (FreeHosts(t) \/ FreeReqLog(t))
  <2>1. PICK q, l : Free(t, q, l) /\ l \in {"r_free_log", "done"}
    BY <1>5 DEF FreeHosts, FreeReqLog
  <2> QED
    BY <1>5, <1>a, <2>1, FreeTyped DEF Freers, RequesterPlaces, WorkerPlaces
<1>6. CASE t \in Resolvers /\ (RequestHost(t) \/ TakeHost(t) \/ LeaveHosts(t))
  <2>1. PICK l \in {"s_get", "s_host", "s_log", "stuck_get", "done"} : Goto(t, l)
    BY <1>6 DEF RequestHost, Enter, TakeHost, LeaveHosts
  <2>2. UNCHANGED controls
    BY <1>6 DEF RequestHost, Enter, TakeHost, LeaveHosts, controls
  <2> QED
    BY <1>6, <1>b, <2>1, <2>2, GoesTyped
<1>7. CASE t \in Resolvers /\ LogResolved(t)
  <2>1. refused' \subseteq Queues
    BY <1>7, PutTyped DEF LogResolved, Queues
  <2>2. hosts_resolved' \in [Resolvers -> Nat]
    BY <1>7 DEF LogResolved, CountQueued, Controlled
  <2>3. DOMAIN pc' = Threads /\ \A u \in Threads : Place(u, pc'[u])
    BY <1>7, <1>b, PcMoves DEF LogResolved, Controlled
  <2> QED
    BY <1>7, <2>1, <2>2, <2>3 DEF LogResolved, Controlled
<1>8. CASE t \in Loggers /\ Logger(t)
  <2>1. PICK l \in {"l_get", "l_line", "stuck_get", "done"} : Goto(t, l)
    BY <1>8 DEF Logger, RequestLine, Enter, WriteLine, LeaveLog
  <2>2. UNCHANGED controls
    BY <1>8 DEF Logger, RequestLine, Enter, WriteLine, LeaveLog, controls
  <2> QED
    BY <1>8, <1>c, <2>1, <2>2, GoesTyped
<1>9. CASE (t \in Requesters /\ RequesterHangs(t)) \/ (t \in Resolvers /\ ResolverHangs(t))
  <2>1. Goto(t, "stuck") /\ UNCHANGED controls
    BY <1>9, PutHung DEF controls
  <2>2. Place(t, "stuck")
    BY <1>9, <1>a, <1>b DEF RequesterPlaces, WorkerPlaces
  <2> QED
    BY <2>1, <2>2, GoesTyped
<1> QED
  BY <1>1, <1>2, <1>3, <1>4, <1>5, <1>6, <1>7, <1>8, <1>9
     DEF WorkerStep, Requester, Resolver

LEMMA ControlledStep ==
  ASSUME Controlled, [Next]_vars
  PROVE  Controlled'
<1> USE DEF allButPc, queues, input, quiet, signal, stats
<1>1. ASSUME NEW t \in Workers, WorkerStep(t) PROVE Controlled'
  BY <1>1, WorkersTyped
<1>2. CASE SignalHandler
  <2>1. CASE HandlerFrees
    <3>1. Place(Handler, "a_exit")
      BY Roles DEF Place
    <3> QED
      BY <2>1, <3>1, FreeAllTyped DEF HandlerFrees
  <2>2. CASE HandlerExits
    <3>1. Goto(Main, "exit_signal") /\ UNCHANGED controls
      BY <2>2 DEF HandlerExits, controls
    <3>2. Place(Main, "exit_signal")
      BY Roles DEF Place, MainPlaces
    <3> QED
      BY <3>1, <3>2, Roles, GoesTyped
  <2> QED
    BY <1>2, <2>1, <2>2 DEF SignalHandler
<1>3. ASSUME NEW t \in Interrupted, Interrupt(t) PROVE Controlled'
  <2>1. held' \subseteq Queues
    BY <1>3 DEF Interrupt, MayOwn
  <2>2. Place(Handler, "a_first")
    BY Roles DEF Place, Freeing
  <2>3. DOMAIN pc' = Threads /\ \A u \in Threads : Place(u, pc'[u])
    BY <1>3, <2>2, Roles, PcMoves DEF Interrupt, Controlled
  <2> QED
    BY <1>3, <2>1, <2>3 DEF Interrupt, Controlled
<1>4. CASE UNCHANGED vars
  BY <1>4 DEF vars, Controlled
<1> QED
  BY <1>1, <1>2, <1>3, <1>4, MainTyped, Roles DEF Next, Ended, WorkerStep

LEMMA ControlledInit == Init => Controlled
<1> SUFFICES ASSUME Init PROVE Controlled
  OBVIOUS
<1>1. \A t \in Threads : Place(t, pc[t])
  BY Roles DEF Init, Place, MainPlaces, RequesterPlaces, WorkerPlaces
<1> QED
  BY <1>1 DEF Init, Controlled

(* Every variable keeps its type, and no queue ever holds more than its     *)
(* ring has room for, whatever fails and whenever a signal comes.           *)
THEOREM TypesCorrect == Spec => []TypeOK
<1>1. Init => Controlled
  BY ControlledInit
<1>2. Typed /\ Launch /\ Controlled => TypeOK
  <2> SUFFICES ASSUME Typed, Launch, Controlled PROVE TypeOK
    OBVIOUS
  <2>1. \A q \in Queues \ {"filename"} : items[q] \in Seq(Positions)
    <3>1. \A q \in Queues \ {"filename"} : q \in LogQueues
      BY QueueNames
    <3> QED
      BY <3>1, HostIs DEF Typed, ItemsTyped
  <2>2. host \in [Resolvers -> Positions \cup {NoHost}]
    BY HostIs DEF Typed
  <2>3. log \in [Loggers -> Seq(Positions)]
    BY HostIs DEF Typed
  <2>4. victim \in Threads \cup {None}
    BY Roles DEF Launch
  <2> QED
    BY <2>1, <2>2, <2>3, <2>4 DEF TypeOK, Typed, ItemsTyped, Controlled, Launch
<1> QED
  BY <1>1, <1>2, ControlledStep, TypedAlways, PTL DEF Spec

-----------------------------------------------------------------------------
(* Which steps are steps of array_free, and how the others move the threads *)
(* that free queues.                                                        *)

FreedPC == {"m_free_names", "a_fourth", "r_free_hosts", "a_first", "r_free_log",
            "m_free_reqlog", "a_second", "m_free_reslog", "a_third"}

AbortPath(q, here, next) ==
  \/ q = "hostname" /\ here = "a_first" /\ next = "a_second"
  \/ q = "requester_log" /\ here = "a_second" /\ next = "a_third"
  \/ q = "resolver_log" /\ here = "a_third" /\ next = "a_fourth"

FreePath(t, q, here, next) ==
  \/ t \in {Main, Handler} /\ AbortPath(q, here, next)
  \/ /\ t = Main
     /\ \/ q = "filename" /\ here = "a_fourth" /\ next = "exit_failure"
        \/ q = "filename" /\ here = "m_free_names" /\ next = "m_join_req"
        \/ q = "requester_log" /\ here = "m_free_reqlog" /\ next = "m_free_reslog"
        \/ q = "resolver_log" /\ here = "m_free_reslog" /\ next = "m_join_log"
  \/ /\ t = Handler
     /\ q = "filename" /\ here = "a_fourth" /\ next = "a_exit"
  \/ /\ t \in Requesters
     /\ \/ q = "hostname" /\ here = "r_free_hosts" /\ next = "r_free_log"
        \/ q = "requester_log" /\ here = "r_free_log" /\ next = "done"

FreeStep ==
  \E t, q, here, next :
    At(t, here) /\ Free(t, q, next) /\ FreePath(t, q, here, next)

MainPath(here, next) ==
  \/ here \in BeforePC
     /\ next \in BeforePC \cup {"a_first", "exit_failure", "m_names"}
  \/ here = "m_names" /\ next \in {"m_free_names", "stuck"}
  \/ here = "m_join_req" /\ next = "m_join_res"
  \/ here = "m_join_res" /\ next = "m_free_reqlog"
  \/ here = "m_join_log" /\ next = "exit"
  \/ here \in {"m_join_req", "m_join_res", "m_join_log"} /\ next = "crashed"
  \/ pc[Handler] = "a_exit" /\ next = "exit_signal"

OtherStep ==
  /\ UNCHANGED <<shutdown, stage>>
  /\ DOMAIN pc' = Threads
  /\ pc'[Main] = pc[Main] \/ MainPath(pc[Main], pc'[Main])
  /\ pc'[Handler] = pc[Handler] \/ (pc[Handler] = "uncreated" /\ pc'[Handler] = "a_first")
  /\ \A r \in Requesters :
       pc'[r] = pc[r] \/ (pc[r] \notin FreedPC /\ pc'[r] # "r_free_log")

LEMMA FreeAllSteps ==
  ASSUME NEW t \in {Main, Handler}, NEW last,
         last = IF t = Main THEN "exit_failure" ELSE "a_exit", FreeAll(t, last)
  PROVE  FreeStep
<1> DEFINE at == <<"a_first", "a_second", "a_third", "a_fourth", last>>
<1>1. PICK i \in 1 .. 4 : At(t, at[i]) /\ Free(t, FreeOrder[i], at[i + 1])
  BY DEF FreeAll
<1>2. FreePath(t, FreeOrder[i], at[i], at[i + 1])
  <2>1. i = 1 \/ i = 2 \/ i = 3 \/ i = 4
    BY <1>1
  <2> QED
    BY <2>1, Roles DEF FreePath, AbortPath, FreeOrder
<1> QED
  BY <1>1, <1>2 DEF FreeStep

LEMMA MainSteps ==
  ASSUME Launch, MainThread
  PROVE  FreeStep \/ OtherStep
<1> USE DEF allButPc, queues, quiet
<1>1. ASSUME NEW l, Goto(Main, l), MainPath(pc[Main], l), UNCHANGED <<shutdown, stage>>
      PROVE  OtherStep
  BY <1>1, PcMoves, Roles DEF Launch, OtherStep
<1>2. CASE CheckArguments \/ CountValid \/ OpenLogs \/ AllocateThreads
  <2>1. PICK l \in {"m_count", "m_open", "m_reqlog", "m_create", "a_first", "exit_failure"} :
          Goto(Main, l)
    BY <1>2 DEF CheckArguments, CountValid, OpenLogs, AllocateThreads
  <2>2. pc[Main] \in BeforePC /\ UNCHANGED <<shutdown, stage>>
    BY <1>2 DEF CheckArguments, CountValid, OpenLogs, AllocateThreads, At, BeforePC
  <2> QED
    BY <1>1, <2>1, <2>2 DEF MainPath, BeforePC
<1>3. CASE StartReqLogger \/ StartResLogger
  <2>1. PICK t, next :
          /\ t \in Loggers /\ next \in {"m_reslog", "m_alloc"}
          /\ \/ pc' = [pc EXCEPT ![t] = "l_get", ![Main] = next]
             \/ Goto(Main, "a_first")
    BY <1>3 DEF StartReqLogger, StartResLogger, StartLogger, Loggers
  <2>2. pc[Main] \in BeforePC /\ UNCHANGED <<shutdown, stage>>
    BY <1>3 DEF StartReqLogger, StartResLogger, StartLogger, At, BeforePC
  <2>3. CASE Goto(Main, "a_first")
    BY <1>1, <2>2, <2>3 DEF MainPath
  <2>4. CASE pc' = [pc EXCEPT ![t] = "l_get", ![Main] = next]
    <3>1. DOMAIN pc' = Threads /\ pc'[Main] = next /\ \A u \in Threads \ {t, Main} : pc'[u] = pc[u]
      BY <2>1, <2>4, Roles DEF Launch
    <3>2. pc'[Handler] = pc[Handler] /\ \A r \in Requesters : pc'[r] = pc[r]
      BY <2>1, <3>1, Roles
    <3> QED
      BY <2>1, <2>2, <3>1, <3>2 DEF OtherStep, MainPath, BeforePC
  <2> QED
    BY <2>1, <2>3, <2>4
<1>4. CASE CleanUp
  BY <1>4, FreeAllSteps DEF CleanUp
<1>5. CASE CreateRequesters
  <2>1. PICK failed \in SUBSET (CreateFails \cap Requesters) :
          pc' = [t \in Threads |->
                   CASE t \in Requesters \ failed -> "r_get"
                     [] t = Main                  -> "m_names"
                     [] OTHER                     -> pc[t]]
    BY <1>5 DEF CreateRequesters
  <2>2. pc[Main] = "m_create" /\ UNCHANGED <<shutdown, stage>>
    BY <1>5 DEF CreateRequesters, At
  <2>3. /\ DOMAIN pc' = Threads /\ pc'[Main] = "m_names" /\ pc'[Handler] = pc[Handler]
        /\ \A r \in Requesters : pc'[r] = pc[r] \/ pc'[r] = "r_get"
    BY <2>1, Roles
  <2>4. \A r \in Requesters : pc[r] = "uncreated"
    BY <2>2 DEF Launch, Unstarted, BeforePC
  <2> QED
    BY <2>2, <2>3, <2>4 DEF OtherStep, MainPath, BeforePC, FreedPC
<1>6. CASE QueueName
  BY <1>6 DEF QueueName, OtherStep, Launch
<1>7. CASE CreateResolvers
  <2>1. pc[Main] = "m_names" /\ UNCHANGED <<shutdown, stage>>
    BY <1>7 DEF CreateResolvers, At
  <2>2. /\ DOMAIN pc' = Threads /\ pc'[Main] = "m_free_names" /\ pc'[Handler] = pc[Handler]
        /\ \A r \in Requesters : pc'[r] = pc[r]
    BY <1>7, Roles DEF CreateResolvers
  <2> QED
    BY <2>1, <2>2 DEF OtherStep, MainPath
<1>8. CASE FreeNames \/ FreeReqLogAgain \/ FreeResLog
  BY <1>8 DEF FreeNames, FreeReqLogAgain, FreeResLog, FreeStep, FreePath
<1>9. CASE JoinRequesters \/ JoinResolvers \/ JoinLoggers
  <2>1. PICK here, l :
          /\ pc[Main] = here /\ Goto(Main, l)
          /\ here \in {"m_join_req", "m_join_res", "m_join_log"}
          /\ \/ l = "crashed"
             \/ here = "m_join_req" /\ l = "m_join_res"
             \/ here = "m_join_res" /\ l = "m_free_reqlog"
             \/ here = "m_join_log" /\ l = "exit"
    BY <1>9 DEF JoinRequesters, JoinResolvers, JoinLoggers, Join, At
  <2>2. UNCHANGED <<shutdown, stage>>
    BY <1>9 DEF JoinRequesters, JoinResolvers, JoinLoggers, Join
  <2> QED
    BY <1>1, <2>1, <2>2 DEF MainPath, FreedPC
<1>10. CASE QueueHangs
  BY <1>1, <1>10, PutHung DEF MainPath
<1> QED
  BY <1>2, <1>3, <1>4, <1>5, <1>6, <1>7, <1>8, <1>9, <1>10 DEF MainThread

LEMMA Steps ==
  ASSUME Launch, victim = None => Inv, [Next]_vars
  PROVE  FreeStep \/ OtherStep
<1> USE DEF allButPc, queues, quiet
<1>1. ASSUME NEW t \in Workers, NEW l, Goto(t, l), UNCHANGED <<shutdown, stage>>,
             t \in Requesters => pc[t] \notin FreedPC /\ l # "r_free_log"
      PROVE  OtherStep
  <2>1. DOMAIN pc' = Threads /\ \A u \in Threads : pc'[u] = IF u = t THEN l ELSE pc[u]
    BY <1>1, PcMoves, Roles DEF Launch
  <2> QED
    BY <1>1, <2>1, Roles DEF OtherStep
<1>2. ASSUME UNCHANGED <<shutdown, stage, pc>> PROVE OtherStep
  BY <1>2 DEF OtherStep, Launch
<1>3. ASSUME NEW r \in Requesters, Requester(r) PROVE FreeStep \/ OtherStep
  <2>1. CASE FreeHosts(r) \/ FreeReqLog(r)
    BY <2>1 DEF FreeHosts, FreeReqLog, FreeStep, FreePath
  <2>2. CASE ~(FreeHosts(r) \/ FreeReqLog(r) \/ RequesterHangs(r))
    <3>1. /\ UNCHANGED <<shutdown, stage>>
          /\ pc[r] \in {"r_get", "r_file", "r_read", "r_log", "r_put", "r_exit"}
      BY <1>3, <2>2 DEF Requester, RequestFile, OpenFile, SkipFile, ReadLine, LogRequest,
                        PutHost, LeaveFiles, ExitReader, Enter, At
    <3>2. \/ UNCHANGED pc
          \/ \E l \in {"r_get", "r_file", "stuck_get", "r_read", "r_log", "r_put", "r_exit",
                       "r_free_hosts", "done"} : Goto(r, l)
      BY <1>3, <2>2 DEF Requester, RequestFile, OpenFile, SkipFile, ReadLine, LogRequest,
                        PutHost, LeaveFiles, ExitReader, Enter
    <3> QED
      BY <1>1, <1>2, <3>1, <3>2, Roles DEF FreedPC
  <2>3. CASE RequesterHangs(r)
    BY <1>1, <2>3, PutHung, Roles DEF FreedPC
  <2> QED
    BY <2>1, <2>2, <2>3
<1>4. ASSUME NEW s \in Resolvers, Resolver(s) PROVE OtherStep
  <2>1. UNCHANGED <<shutdown, stage>> /\ \E l : Goto(s, l)
    BY <1>4, PutHung DEF Resolver, RequestHost, Enter, TakeHost, LogResolved, LeaveHosts
  <2> QED
    BY <1>1, <2>1, Roles
<1>5. ASSUME NEW t \in Loggers, Logger(t) PROVE OtherStep
  <2>1. UNCHANGED <<shutdown, stage>> /\ \E l : Goto(t, l)
    BY <1>5 DEF Logger, RequestLine, Enter, WriteLine, LeaveLog
  <2> QED
    BY <1>1, <2>1, Roles
<1>6. CASE SignalHandler
  <2>1. CASE HandlerFrees
    BY <2>1, FreeAllSteps, Roles DEF HandlerFrees
  <2>2. CASE HandlerExits
    <3>1. Goto(Main, "exit_signal") /\ UNCHANGED <<shutdown, stage>> /\ pc[Handler] = "a_exit"
      BY <2>2 DEF HandlerExits, At
    <3> QED
      BY <3>1, PcMoves, Roles DEF Launch, OtherStep, MainPath
  <2> QED
    BY <1>6, <2>1, <2>2 DEF SignalHandler
<1>7. ASSUME NEW t \in Interrupted, Interrupt(t) PROVE OtherStep
  <2>1. Goto(Handler, "a_first") /\ UNCHANGED <<shutdown, stage>> /\ victim = None
    BY <1>7 DEF Interrupt
  <2>2. pc[Handler] = "uncreated"
    BY <2>1 DEF Inv, Order, NoHandler
  <2> QED
    BY <2>1, <2>2, PcMoves, Roles DEF Launch, OtherStep
<1>8. CASE UNCHANGED vars
  BY <1>2, <1>8 DEF vars
<1> QED
  BY <1>3, <1>4, <1>5, <1>6, <1>7, <1>8, MainSteps DEF Next, Ended

(* What holds in every state; until a signal comes, the order of the        *)
(* shutdowns too.                                                           *)
Ground == Launch /\ Typed /\ Controlled /\ (victim = None => Inv)

LEMMA GroundAlways == Spec => []Ground
<1>1. Init => Controlled
  BY ControlledInit
<1> QED
  BY <1>1, ControlledStep, TypedAlways, InvUntilSignal, PTL DEF Spec, Ground

Done(q) == shutdown[q] /\ items[q] = <<>>

(* Nothing is put into a queue that is shut down.                           *)
LEMMA PutsWhileOpen ==
  ASSUME Ground, [Next]_vars, NEW q \in Queues, items[q] = <<>>, shutdown[q]
  PROVE  items'[q] = <<>>
<1>1. Launch /\ Typed
  BY DEF Ground
<1>2. ASSUME NEW p, NEW x, Appended(p, x) PROVE items'[q] = <<>>
  BY <1>2 DEF Appended
<1>3. ASSUME NEW p, Removed(p) PROVE items'[q] = <<>>
  BY <1>3 DEF Removed
<1>4. CASE Still
  BY <1>4 DEF Still
<1>5. CASE QueueName
  BY <1>1, <1>2, <1>5, QueueNameDoes
<1>6. ASSUME NEW r \in Requesters, OpenFile(r) \/ ReadLine(r) PROVE items'[q] = <<>>
  BY <1>1, <1>3, <1>6, OpenFileDoes, ReadLineDoes
<1>7. ASSUME NEW r \in Requesters, LogRequest(r) \/ PutHost(r) PROVE items'[q] = <<>>
  BY <1>1, <1>2, <1>7, LogRequestDoes, PutHostDoes
<1>8. ASSUME NEW s \in Resolvers, TakeHost(s) \/ LogResolved(s) PROVE items'[q] = <<>>
  BY <1>1, <1>2, <1>3, <1>8, TakeHostDoes, LogResolvedDoes
<1>9. ASSUME NEW t \in Loggers, WriteLine(t) PROVE items'[q] = <<>>
  BY <1>1, <1>3, <1>9, WriteLineDoes
<1>10. CASE HandlerExits
  BY <1>1, <1>10, HandlerExitsDoes
<1>11. ASSUME NEW r \in Requesters, RequesterHangs(r) PROVE items'[q] = <<>>
  BY <1>1, <1>11, HangsDoes
<1> QED
  BY <1>1, <1>4, <1>5, <1>6, <1>7, <1>8, <1>9, <1>10, <1>11, StillSteps DEF Moving

LEMMA ClosedForGood ==
  ASSUME Ground, [Next]_vars, NEW q \in Queues, shutdown[q]
  PROVE  shutdown'[q]
<1>1. ASSUME FreeStep PROVE shutdown'[q]
  <2>1. PICK t, p, next : Free(t, p, next)
    BY <1>1 DEF FreeStep
  <2>2. shutdown' = shutdown \/ shutdown' = [shutdown EXCEPT ![p] = TRUE]
    BY <2>1 DEF Free
  <2> QED
    BY <2>2 DEF Ground, Controlled
<1> QED
  BY <1>1, Steps DEF Ground, OtherStep

LEMMA DoneStays ==
  ASSUME Ground, [Next]_vars, NEW q \in Queues, Done(q)
  PROVE  Done(q)'
  BY PutsWhileOpen, ClosedForGood DEF Done

-----------------------------------------------------------------------------
(* How far an array_free has got, and what the threads that free the queues *)
(* one after the other leave behind.                                        *)

FreeProgress ==
  \A t \in Freers :
    /\ \A q \in Queues :
         pc[t] \in Freed[q] => /\ stage[t] = "drain" => shutdown[q]
                               /\ stage[t] \in {"count", "destroy"} => Done(q)
    /\ pc[t] \notin FreedPC \cup {"exit_signal"} => stage[t] = "close"

JoinPC == {"m_join_req", "m_join_res", "m_free_reqlog", "m_free_reslog", "m_join_log",
           "exit"}
LastPC == {"m_free_reslog", "m_join_log", "exit"}

FreedSoFar ==
  /\ pc[Main] \in BeforePC \cup AbortPC => \A q \in Queues : items[q] = <<>>
  /\ pc[Main] \in JoinPC => Done("filename")
  /\ pc[Main] \in LastPC => Done("requester_log")
  /\ pc[Main] \in {"m_join_log", "exit"} => Done("resolver_log")
  /\ pc[Handler] \in {"a_second", "a_third", "a_fourth", "a_exit"} => Done("hostname")
  /\ pc[Handler] \in {"a_third", "a_fourth", "a_exit"} => Done("requester_log")
  /\ pc[Handler] \in {"a_fourth", "a_exit"} => Done("resolver_log")
  /\ pc[Handler] = "a_exit" => Done("filename")
  /\ pc[Main] = "exit_signal" => \A q \in Queues : Done(q)
  /\ \A r \in Requesters : pc[r] = "r_free_log" => Done("hostname")

(* Until a signal comes, when no requester reads any more, the last one has *)
(* freed the hostname queue or is about to; or there never was one.         *)
HostsFreed ==
  victim = None /\ Reading = {} /\ pc[Main] \notin BeforePC \cup AbortPC =>
    \/ Done("hostname")
    \/ \E r \in Requesters : pc[r] = "r_free_hosts"
    \/ items["hostname"] = <<>> /\ \A r \in Requesters : pc[r] = "uncreated"

(* A step of array_free by t: it stays where it is, hangs, or is finished.  *)
LEMMA FreeGoes ==
  ASSUME Ground, FreeProgress, NEW t, NEW q, NEW here, NEW next,
         At(t, here), Free(t, q, next), FreePath(t, q, here, next)
  PROVE  /\ t \in Freers /\ t \in Threads /\ q \in Queues
         /\ here \in Freed[q] /\ here \in FreedPC
         /\ pc[t] = here
         /\ DOMAIN pc' = Threads /\ \A u \in Threads \ {t} : pc'[u] = pc[u]
         /\ \/ pc'[t] = here
            \/ pc'[t] = "stuck"
            \/ pc'[t] = next /\ Done(q)
<1>1. t \in Freers /\ t \in Threads /\ q \in Queues /\ here \in Freed[q] /\ here \in FreedPC
  BY Roles DEF FreePath, AbortPath, Freed, FreedPC, Freers, Queues
<1>2. pc[t] = here
  BY DEF At
<1>3. \/ UNCHANGED pc
      \/ Goto(t, "stuck")
      \/ Goto(t, next) /\ stage[t] = "destroy"
  BY DEF Free
<1>4. stage[t] = "destroy" => Done(q)
  BY <1>1, <1>2 DEF FreeProgress
<1> QED
  BY <1>1, <1>2, <1>3, <1>4, PcMoves DEF Ground, Launch

LEMMA FreeProgressStep ==
  ASSUME Ground, FreeProgress, [Next]_vars
  PROVE  FreeProgress'
<1> SUFFICES ASSUME NEW u \in Freers
             PROVE  /\ \A q \in Queues :
                         pc'[u] \in Freed[q] =>
                           /\ stage'[u] = "drain" => shutdown'[q]
                           /\ stage'[u] \in {"count", "destroy"} => Done(q)'
                    /\ pc'[u] \notin FreedPC \cup {"exit_signal"} => stage'[u] = "close"
  BY DEF FreeProgress
<1> u \in Threads /\ u \in {Main, Handler} \cup Requesters
  BY Roles DEF Freers
<1>0. stage \in [Freers -> {"close", "drain", "count", "destroy"}]
      /\ shutdown \in [Queues -> BOOLEAN]
  BY DEF Ground, Controlled
<1>1. CASE stage'[u] = stage[u] /\ pc'[u] = pc[u]
  BY <1>1, ClosedForGood, DoneStays DEF FreeProgress
<1>2. CASE stage'[u] = "close"
  BY <1>2
<1>3. CASE OtherStep
  <2>1. stage'[u] = stage[u]
    BY <1>3 DEF OtherStep
  <2>2. CASE pc'[u] # pc[u] /\ u = Main
    <3>1. MainPath(pc[Main], pc'[Main])
      BY <1>3, <2>2 DEF OtherStep
    <3>2. CASE pc'[Main] = "exit_signal"
      BY <3>2, <2>2 DEF Freed, Queues
    <3>3. CASE pc'[Main] # "exit_signal"
      <4>1. pc[Main] \notin FreedPC \cup {"exit_signal"}
        BY <3>1, <3>3 DEF MainPath, BeforePC, FreedPC
      <4> QED
        BY <4>1, <2>1, <2>2, <1>2 DEF FreeProgress
    <3> QED
      BY <3>2, <3>3
  <2>3. CASE pc'[u] # pc[u] /\ u # Main
    <3>1. pc[u] \notin FreedPC \cup {"exit_signal"}
      <4>1. CASE u = Handler
        BY <1>3, <2>3, <4>1 DEF OtherStep, FreedPC
      <4>2. CASE u \in Requesters
        <5>1. pc[u] \notin FreedPC
          BY <1>3, <2>3, <4>2 DEF OtherStep
        <5>2. pc[u] # "exit_signal"
          BY <4>2 DEF Ground, Controlled, Place, RequesterPlaces, WorkerPlaces
        <5> QED
          BY <5>1, <5>2
      <4> QED
        BY <2>3, <4>1, <4>2
    <3> QED
      BY <3>1, <2>1, <1>2 DEF FreeProgress
  <2> QED
    BY <1>1, <2>1, <2>2, <2>3
<1>4. CASE FreeStep
  <2>1. PICK t, q, here, next : At(t, here) /\ Free(t, q, next) /\ FreePath(t, q, here, next)
    BY <1>4 DEF FreeStep
  <2>2. /\ t \in Freers /\ q \in Queues /\ here \in Freed[q] /\ pc[t] = here
        /\ \A w \in Threads \ {t} : pc'[w] = pc[w]
    BY <2>1, FreeGoes
  <2>3. CASE u # t
    <3>1. pc'[u] = pc[u]
      BY <2>2, <2>3
    <3>2. stage'[u] = stage[u]
      BY <1>0, <2>1, <2>3 DEF Free, Advance
    <3> QED
      BY <1>1, <3>1, <3>2
  <2>4. CASE u = t
    <3>1. \A p \in Queues : here \in Freed[p] => p = q
      BY <2>2 DEF Freed, Queues
    <3>2. CASE shutdown' = [shutdown EXCEPT ![q] = TRUE] /\ Advance(t, "drain")
               /\ UNCHANGED pc
      <4>1. stage'[t] = "drain" /\ shutdown'[q]
        BY <1>0, <2>2, <3>2 DEF Advance
      <4> QED
        BY <2>2, <2>4, <3>1, <3>2, <4>1 DEF Freed, FreedPC, Queues
    <3>3. CASE stage[t] = "close" /\ Goto(t, "stuck") /\ UNCHANGED stage
      BY <2>4, <3>3, <1>2
    <3>4. CASE stage[t] = "drain" /\ UNCHANGED pc /\ UNCHANGED <<shutdown, items>>
               /\ items[q] = <<>> /\ Advance(t, "count")
      <4>1. stage'[t] = "count" /\ Done(q) /\ Done(q)'
        BY <1>0, <2>2, <3>4 DEF Advance, FreeProgress, Done
      <4> QED
        BY <2>2, <2>4, <3>1, <3>4, <4>1 DEF Freed, FreedPC, Queues
    <3>5. CASE stage[t] = "count" /\ UNCHANGED pc /\ UNCHANGED <<shutdown, items>>
               /\ Advance(t, "destroy")
      <4>1. stage'[t] = "destroy" /\ Done(q) /\ Done(q)'
        BY <1>0, <2>2, <3>5 DEF Advance, FreeProgress, Done
      <4> QED
        BY <2>2, <2>4, <3>1, <3>5, <4>1 DEF Freed, FreedPC, Queues
    <3>6. CASE Advance(t, "close")
      BY <1>0, <1>2, <2>2, <2>4, <3>6 DEF Advance
    <3> QED
      BY <2>1, <3>2, <3>3, <3>4, <3>5, <3>6 DEF Free, Drained
  <2> QED
    BY <2>3, <2>4
<1> QED
  BY <1>3, <1>4, Steps DEF Ground

(* Who moves a worker: itself, or main when it creates it.                  *)
LEMMA Movers ==
  ASSUME Launch, [Next]_vars, NEW u \in Workers, pc'[u] # pc[u]
  PROVE  \/ WorkerStep(u)
         \/ u \in Requesters /\ CreateRequesters /\ pc'[u] = "r_get"
         \/ u \in Resolvers /\ CreateResolvers /\ pc'[u] = "s_get"
         \/ u \in Loggers /\ (StartReqLogger \/ StartResLogger) /\ pc'[u] = "l_get"
<1> u \in Threads /\ u # Main /\ u # Handler
  BY Roles
<1>1. ASSUME NEW t \in {Main, Handler}, NEW l, Goto(t, l) \/ UNCHANGED pc PROVE FALSE
  BY <1>1, PcMoves, Roles DEF Launch
<1>2. CASE MainThread
  <2>1. CASE CreateRequesters
    <3>1. PICK failed \in SUBSET (CreateFails \cap Requesters) :
            pc' = [t \in Threads |->
                     CASE t \in Requesters \ failed -> "r_get"
                       [] t = Main                  -> "m_names"
                       [] OTHER                     -> pc[t]]
      BY <2>1 DEF CreateRequesters
    <3> QED
      BY <2>1, <3>1
  <2>2. CASE CreateResolvers
    <3>1. PICK failed \in SUBSET (CreateFails \cap Resolvers) :
            pc' = [t \in Threads |->
                     CASE t \in Resolvers \ failed -> "s_get"
                       [] t = Main                 -> "m_free_names"
                       [] OTHER                    -> pc[t]]
      BY <2>2 DEF CreateResolvers
    <3> QED
      BY <2>2, <3>1
  <2>3. CASE StartReqLogger \/ StartResLogger
    <3>1. PICK t, next :
            /\ t \in Loggers
            /\ \/ pc' = [pc EXCEPT ![t] = "l_get", ![Main] = next]
               \/ Goto(Main, "a_first")
      BY <2>3 DEF StartReqLogger, StartResLogger, StartLogger, Loggers
    <3>2. pc' = [pc EXCEPT ![t] = "l_get", ![Main] = next]
      BY <1>1, <3>1
    <3>3. u = t /\ pc'[u] = "l_get"
      BY <3>1, <3>2, Roles DEF Launch
    <3> QED
      BY <2>3, <3>1, <3>3
  <2>4. CASE CleanUp \/ FreeNames \/ FreeReqLogAgain \/ FreeResLog
    <3>1. PICK q, next : Free(Main, q, next)
      BY <2>4 DEF CleanUp, FreeAll, FreeNames, FreeReqLogAgain, FreeResLog
    <3> QED
      BY <1>1, <3>1, FreeKeeps
  <2>5. CASE CheckArguments \/ CountValid \/ OpenLogs \/ AllocateThreads
             \/ QueueHangs \/ JoinRequesters \/ JoinResolvers \/ JoinLoggers
    <3>1. \E l : Goto(Main, l)
      BY <2>5, PutHung DEF CheckArguments, CountValid, OpenLogs, AllocateThreads, JoinRequesters,
                  JoinResolvers, JoinLoggers, Join
    <3> QED
      BY <1>1, <3>1
  <2>6. CASE QueueName
    BY <1>1, <2>6 DEF QueueName
  <2> QED
    BY <1>2, <2>1, <2>2, <2>3, <2>4, <2>5, <2>6 DEF MainThread
<1>3. ASSUME NEW t \in Workers, WorkerStep(t) PROVE WorkerStep(u)
  <2>1. UNCHANGED pc \/ \E l : Goto(t, l)
    BY <1>3, WorkerActs
  <2>2. t = u
    BY <2>1, PcMoves, Roles DEF Launch
  <2> QED
    BY <1>3, <2>2
<1>4. CASE SignalHandler
  <2>1. CASE HandlerFrees
    <3>1. PICK q, next : Free(Handler, q, next)
      BY <2>1 DEF HandlerFrees, FreeAll
    <3> QED
      BY <1>1, <3>1, FreeKeeps
  <2> QED
    BY <1>1, <1>4, <2>1 DEF SignalHandler, HandlerExits
<1>5. ASSUME NEW t \in Interrupted, Interrupt(t) PROVE FALSE
  BY <1>1, <1>5 DEF Interrupt
<1>6. CASE UNCHANGED vars
  BY <1>1, <1>6 DEF vars
<1> QED
  BY <1>2, <1>3, <1>4, <1>5, <1>6, Roles DEF Next, Ended, WorkerStep

LEMMA ReaderMoves ==
  ASSUME Launch, [Next]_vars, NEW r \in Requesters,
         ~CreateRequesters, ~ExitReader(r)
  PROVE  /\ pc[r] = "uncreated" => pc'[r] = "uncreated"
         /\ r \in Reading => pc'[r] \notin FinishedPC
<1>1. pc'[r] = pc[r] \/ WorkerStep(r)
  BY Movers, Roles
<1>2. CASE pc'[r] = pc[r]
  BY <1>2 DEF Reading, FinishedPC
<1>3. CASE WorkerStep(r)
  <2>1. Requester(r) /\ pc[r] # "uncreated"
    BY <1>3, WorkerActs, Roles DEF WorkerStep
  <2>2. ASSUME r \in Reading PROVE pc'[r] \notin FinishedPC
    <3>1. ~(FreeHosts(r) \/ FreeReqLog(r))
      BY <2>2 DEF FreeHosts, FreeReqLog, At, Reading
    <3>2. \/ UNCHANGED pc
          \/ \E l \in {"r_get", "r_file", "stuck", "stuck_get", "r_read", "r_log", "r_put",
                       "r_exit"} :
               Goto(r, l)
      BY <2>1, <3>1, PutHung DEF Requester, RequestFile, OpenFile, SkipFile, ReadLine,
                        LogRequest, PutHost, LeaveFiles, Enter
    <3> QED
      BY <2>2, <3>2, PcMoves, Roles DEF Launch, Reading, FinishedPC
  <2> QED
    BY <2>1, <2>2
<1> QED
  BY <1>1, <1>2, <1>3

LEMMA HostsStayEmpty ==
  ASSUME Ground, [Next]_vars, items["hostname"] = <<>>,
         \A r \in Requesters : pc[r] = "uncreated"
  PROVE  items'["hostname"] = <<>>
<1> Launch /\ Typed /\ "hostname" \in Queues
  BY DEF Ground, Queues
<1>1. CASE Still
  BY <1>1 DEF Still
<1>2. ASSUME NEW r \in Requesters, OpenFile(r) \/ ReadLine(r) \/ LogRequest(r) \/ PutHost(r)
      PROVE  FALSE
  BY <1>2 DEF OpenFile, ReadLine, LogRequest, PutHost, At
<1>3. CASE QueueName
  BY <1>3, QueueNameDoes DEF Appended
<1>4. ASSUME NEW s \in Resolvers, TakeHost(s) \/ LogResolved(s)
      PROVE  items'["hostname"] = <<>>
  BY <1>4, TakeHostDoes, LogResolvedDoes DEF Appended, Removed
<1>5. ASSUME NEW t \in Loggers, WriteLine(t) PROVE items'["hostname"] = <<>>
  BY <1>5, WriteLineDoes DEF Removed
<1>6. CASE HandlerExits
  BY <1>6, HandlerExitsDoes
<1>7. ASSUME NEW r \in Requesters, RequesterHangs(r) PROVE items'["hostname"] = <<>>
  BY <1>7, HangsDoes
<1> QED
  BY <1>1, <1>2, <1>3, <1>4, <1>5, <1>6, <1>7, StillSteps DEF Moving

(* What main and the handler know where they get to.                        *)
LEMMA MainArrives ==
  ASSUME Ground, FreeProgress, [Next]_vars
  PROVE  /\ pc'[Main] \in BeforePC \cup AbortPC => pc[Main] \in BeforePC \cup AbortPC
         /\ pc'[Main] \in JoinPC => pc[Main] \in JoinPC \/ Done("filename")
         /\ pc'[Main] \in LastPC => pc[Main] \in LastPC \/ Done("requester_log")
         /\ pc'[Main] \in {"m_join_log", "exit"} =>
              pc[Main] \in {"m_join_log", "exit"} \/ Done("resolver_log")
         /\ pc'[Main] = "exit_signal" => pc[Main] = "exit_signal" \/ pc[Handler] = "a_exit"
<1>1. CASE OtherStep
  BY <1>1 DEF OtherStep, MainPath, JoinPC, LastPC, BeforePC, AbortPC
<1>2. CASE FreeStep
  <2>1. PICK t, q, here, next : At(t, here) /\ Free(t, q, next) /\ FreePath(t, q, here, next)
    BY <1>2 DEF FreeStep
  <2>2. /\ pc[t] = here
        /\ \A u \in Threads \ {t} : pc'[u] = pc[u]
        /\ pc'[t] = here \/ pc'[t] = "stuck" \/ (pc'[t] = next /\ Done(q))
    BY <2>1, FreeGoes
  <2>3. CASE t # Main
    BY <2>2, <2>3, Roles
  <2>4. CASE t = Main
    <3>1. \/ AbortPath(q, here, next)
          \/ q = "filename" /\ here = "a_fourth" /\ next = "exit_failure"
          \/ q = "filename" /\ here = "m_free_names" /\ next = "m_join_req"
          \/ q = "requester_log" /\ here = "m_free_reqlog" /\ next = "m_free_reslog"
          \/ q = "resolver_log" /\ here = "m_free_reslog" /\ next = "m_join_log"
      BY <2>1, <2>4, Roles DEF FreePath
    <3>2. CASE pc'[Main] # next
      BY <2>2, <2>4, <3>2 DEF JoinPC, LastPC, BeforePC, AbortPC
    <3>3. CASE pc'[Main] = next
      BY <2>2, <2>4, <3>1, <3>3 DEF AbortPath, JoinPC, LastPC, BeforePC, AbortPC
    <3> QED
      BY <3>2, <3>3
  <2> QED
    BY <2>3, <2>4
<1> QED
  BY <1>1, <1>2, Steps DEF Ground

LEMMA HandlerArrives ==
  ASSUME Ground, FreeProgress, [Next]_vars
  PROVE  \/ pc'[Handler] = pc[Handler]
         \/ pc'[Handler] \in {"a_first", "stuck"}
         \/ pc[Handler] = "a_first" /\ pc'[Handler] = "a_second" /\ Done("hostname")
         \/ pc[Handler] = "a_second" /\ pc'[Handler] = "a_third" /\ Done("requester_log")
         \/ pc[Handler] = "a_third" /\ pc'[Handler] = "a_fourth" /\ Done("resolver_log")
         \/ pc[Handler] = "a_fourth" /\ pc'[Handler] = "a_exit" /\ Done("filename")
<1>1. CASE OtherStep
  BY <1>1 DEF OtherStep
<1>2. CASE FreeStep
  <2>1. PICK t, q, here, next : At(t, here) /\ Free(t, q, next) /\ FreePath(t, q, here, next)
    BY <1>2 DEF FreeStep
  <2>2. /\ pc[t] = here
        /\ \A u \in Threads \ {t} : pc'[u] = pc[u]
        /\ pc'[t] = here \/ pc'[t] = "stuck" \/ (pc'[t] = next /\ Done(q))
    BY <2>1, FreeGoes
  <2>3. CASE t # Handler
    BY <2>2, <2>3, Roles
  <2>4. CASE t = Handler
    BY <2>1, <2>2, <2>4, Roles DEF FreePath, AbortPath
  <2> QED
    BY <2>3, <2>4
<1> QED
  BY <1>1, <1>2, Steps DEF Ground

LEMMA ReadersArrive ==
  ASSUME Ground, FreeProgress, [Next]_vars, NEW r \in Requesters
  PROVE  /\ pc'[r] = "r_free_log" => pc[r] = "r_free_log" \/ Done("hostname")
         /\ pc[r] = "r_free_hosts" =>
              pc'[r] \in {"r_free_hosts", "stuck"} \/ Done("hostname")
<1>1. CASE OtherStep
  BY <1>1 DEF OtherStep, FreedPC
<1>2. CASE FreeStep
  <2>1. PICK t, q, here, next : At(t, here) /\ Free(t, q, next) /\ FreePath(t, q, here, next)
    BY <1>2 DEF FreeStep
  <2>2. /\ pc[t] = here
        /\ \A u \in Threads \ {t} : pc'[u] = pc[u]
        /\ pc'[t] = here \/ pc'[t] = "stuck" \/ (pc'[t] = next /\ Done(q))
    BY <2>1, FreeGoes
  <2>3. CASE t # r
    BY <2>2, <2>3, Roles
  <2>4. CASE t = r
    BY <2>1, <2>2, <2>4, Roles DEF FreePath, AbortPath
  <2> QED
    BY <2>3, <2>4
<1> QED
  BY <1>1, <1>2, Steps DEF Ground

LEMMA FreedSoFarStep ==
  ASSUME Ground, FreeProgress, FreedSoFar, [Next]_vars
  PROVE  FreedSoFar'
<1> "filename" \in Queues /\ "hostname" \in Queues /\ "requester_log" \in Queues
    /\ "resolver_log" \in Queues
  BY DEF Queues
<1>1. /\ pc'[Main] \in JoinPC => Done("filename")'
      /\ pc'[Main] \in LastPC => Done("requester_log")'
      /\ pc'[Main] \in {"m_join_log", "exit"} => Done("resolver_log")'
  BY MainArrives, DoneStays DEF FreedSoFar
<1>2. pc'[Handler] \in {"a_second", "a_third", "a_fourth", "a_exit"} => Done("hostname")'
  BY HandlerArrives, DoneStays DEF FreedSoFar
<1>3. pc'[Handler] \in {"a_third", "a_fourth", "a_exit"} => Done("requester_log")'
  BY HandlerArrives, DoneStays DEF FreedSoFar
<1>4. pc'[Handler] \in {"a_fourth", "a_exit"} => Done("resolver_log")'
  BY HandlerArrives, DoneStays DEF FreedSoFar
<1>5. pc'[Handler] = "a_exit" => Done("filename")'
  BY HandlerArrives, DoneStays DEF FreedSoFar
<1>6. ASSUME pc'[Main] = "exit_signal", NEW q \in Queues PROVE Done(q)'
  <2>1. pc[Main] = "exit_signal" \/ pc[Handler] = "a_exit"
    BY <1>6, MainArrives
  <2>2. Done(q)
    BY <2>1 DEF FreedSoFar, Queues
  <2> QED
    BY <2>2, DoneStays
<1>7. ASSUME NEW r \in Requesters, pc'[r] = "r_free_log" PROVE Done("hostname")'
  BY <1>7, ReadersArrive, DoneStays DEF FreedSoFar
<1>8. ASSUME pc'[Main] \in BeforePC \cup AbortPC, NEW q \in Queues PROVE items'[q] = <<>>
  <2>1. pc[Main] \in BeforePC \cup AbortPC
    BY <1>8, MainArrives
  <2>2. \A p \in Queues : items[p] = <<>>
    BY <2>1 DEF FreedSoFar
  <2>3. /\ \A r \in Requesters : pc[r] = "uncreated"
        /\ \A s \in Resolvers : pc[s] = "uncreated"
    BY <2>1 DEF Ground, Launch, Unstarted
  <2>4. pc[Main] # "m_names"
    BY <2>1 DEF BeforePC, AbortPC
  <2>5. \A p \in Queues : ~Remove(p)
    BY <2>2 DEF Remove
  <2>6. CASE Still
    BY <2>2, <2>6 DEF Still
  <2>7. CASE HandlerExits
    BY <2>2, <2>7 DEF HandlerExits, queues
  <2>8. ~QueueName
    BY <2>4 DEF QueueName, At
  <2>9. ASSUME NEW r \in Requesters PROVE ~(OpenFile(r) \/ ReadLine(r) \/ LogRequest(r) \/ PutHost(r))
    BY <2>3 DEF OpenFile, ReadLine, LogRequest, PutHost, At
  <2>12. \A r \in Requesters : ~RequesterHangs(r)
    BY <2>3, PutHung
  <2>10. ASSUME NEW s \in Resolvers PROVE ~(TakeHost(s) \/ LogResolved(s))
    BY <2>3 DEF TakeHost, LogResolved, At
  <2>11. ASSUME NEW t \in Loggers PROVE ~WriteLine(t)
    BY <2>5 DEF WriteLine, LogQueue, Queues
  <2> QED
    BY <2>6, <2>7, <2>8, <2>9, <2>10, <2>11, <2>12, StillSteps DEF Ground, Moving
<1> QED
  BY <1>1, <1>2, <1>3, <1>4, <1>5, <1>6, <1>7, <1>8 DEF FreedSoFar

LEMMA HostsFreedStep ==
  ASSUME Ground, FreeProgress, FreedSoFar, HostsFreed, [Next]_vars
  PROVE  HostsFreed'
<1> SUFFICES ASSUME victim' = None, Reading' = {}, pc'[Main] \notin BeforePC \cup AbortPC
             PROVE  \/ Done("hostname")'
                    \/ \E r \in Requesters : pc'[r] = "r_free_hosts"
                    \/ items'["hostname"] = <<>> /\ \A r \in Requesters : pc'[r] = "uncreated"
  BY DEF HostsFreed
<1>1. victim = None
  BY VictimForGood
<1>2. Inv /\ Inv'
  BY <1>1, InvStep DEF Ground
<1>3. "hostname" \in Queues /\ (Done("hostname") => Done("hostname")')
  BY DoneStays DEF Queues
<1>4. CASE \E r \in Requesters : ExitReader(r)
  <2>1. PICK r \in Requesters : ExitReader(r)
    BY <1>4
  <2>2. active_file_readers' = 0
    BY <1>2, FS_EmptySet DEF Inv, ReadersExact
  <2>3. pc'[r] = "r_free_hosts"
    BY <2>1, <2>2, Roles DEF ExitReader, LastReader, Goto, Ground, Launch
  <2> QED
    BY <2>3
<1>5. CASE CreateRequesters
  <2>1. pc[Main] \in BeforePC /\ UNCHANGED items
    BY <1>5 DEF CreateRequesters, At, BeforePC, queues
  <2>2. items'["hostname"] = <<>>
    BY <1>3, <2>1 DEF FreedSoFar
  <2>3. \A r \in Requesters : pc[r] = "uncreated"
    BY <2>1 DEF Ground, Launch, Unstarted
  <2>4. \A r \in Requesters : pc'[r] = "r_get" \/ pc'[r] = pc[r]
    BY <1>5, Roles DEF CreateRequesters
  <2>5. \A r \in Requesters : pc'[r] # "r_get"
    BY DEF Reading
  <2> QED
    BY <2>2, <2>3, <2>4, <2>5
<1>6. CASE ~CreateRequesters /\ ~(\E r \in Requesters : ExitReader(r))
  <2>1. \A r \in Requesters :
          /\ pc[r] = "uncreated" => pc'[r] = "uncreated"
          /\ r \in Reading => pc'[r] \notin FinishedPC
    BY <1>6, ReaderMoves DEF Ground
  <2>2. \A r \in Requesters : pc'[r] \in FinishedPC
    BY DEF Reading, FinishedPC
  <2>3. Reading = {}
    BY <2>1, <2>2 DEF Reading
  <2>4. CASE \E r \in Requesters : pc[r] = "r_free_hosts"
    <3>1. PICK r \in Requesters : pc[r] = "r_free_hosts"
      BY <2>4
    <3>2. pc'[r] # "stuck"
      BY <2>2 DEF FinishedPC
    <3> QED
      BY <1>3, <3>1, <3>2, ReadersArrive
  <2>5. CASE items["hostname"] = <<>> /\ \A r \in Requesters : pc[r] = "uncreated"
    BY <2>1, <2>5, HostsStayEmpty
  <2>6. CASE pc[Main] \in BeforePC \cup AbortPC
    <3>1. items["hostname"] = <<>> /\ \A r \in Requesters : pc[r] = "uncreated"
      BY <1>3, <2>6 DEF FreedSoFar, Ground, Launch, Unstarted
    <3> QED
      BY <2>5, <3>1
  <2> QED
    BY <1>1, <1>3, <2>3, <2>4, <2>5, <2>6 DEF HostsFreed
<1> QED
  BY <1>4, <1>5, <1>6

FreedInv == Ground /\ FreeProgress /\ FreedSoFar /\ HostsFreed

LEMMA FreedInit ==
  ASSUME Init
  PROVE  FreeProgress /\ FreedSoFar /\ HostsFreed
<1>1. /\ pc[Main] = "m_args" /\ pc[Handler] = "uncreated"
      /\ \A r \in Requesters : pc[r] = "uncreated"
      /\ \A q \in Queues : items[q] = <<>>
      /\ \A t \in Freers : stage[t] = "close" /\ pc[t] \in {"m_args", "uncreated"}
  BY Roles DEF Init, Freers
<1> QED
  BY <1>1 DEF FreeProgress, FreedSoFar, HostsFreed, Freed, BeforePC, JoinPC, LastPC, Queues

LEMMA FreedAlways == Spec => []FreedInv
  BY FreedInit, FreeProgressStep, FreedSoFarStep, HostsFreedStep, GroundAlways, PTL
     DEF Spec, FreedInv

(* Without a signal, when every worker is gone the hostnames are too.       *)
LEMMA ExitDrained ==
  ASSUME FreedInv, pc[Main] = "exit", NEW q \in Queues
  PROVE  items[q] = <<>>
<1>1. victim = None /\ Gone(Workers)
  BY DEF FreedInv, Ground, Launch
<1>2. \A r \in Requesters : pc[r] \in {"done", "uncreated"}
  BY <1>1, Roles DEF Gone
<1>3. Reading = {} /\ \A r \in Requesters : pc[r] # "r_free_hosts"
  BY <1>2 DEF Reading
<1>4. items["hostname"] = <<>>
  BY <1>1, <1>3 DEF FreedInv, HostsFreed, Done, BeforePC, AbortPC
<1> QED
  BY <1>4 DEF FreedInv, FreedSoFar, Done, JoinPC, LastPC, Queues

(* However the program exits, by the last join, by a failed start or by a   *)
(* signal, no string is left in any queue (array.c:131): every path to an   *)
(* exit has waited in array_free of each queue, or never had a thread that  *)
(* could fill it.                                                           *)
THEOREM ExitsDrainedCorrect == Spec => []ExitsDrained
<1>1. FreedInv => ExitsDrained
  BY ExitDrained DEF FreedInv, FreedSoFar, ExitsDrained, Done, AbortPC
<1> QED
  BY <1>1, FreedAlways, PTL

-----------------------------------------------------------------------------
(* That nobody waits for ever for somebody else: what a thread that waits,  *)
(* or one that is gone, says about the queues.                              *)

UpPC == {"m_alloc", "m_create", "m_names"} \cup AfterPC
EarlyPC == {"m_args", "m_count", "m_open", "m_reqlog"}

(* The log threads run before there is any other, and once only.            *)
LoggersUp ==
  /\ pc[Main] \in EarlyPC => \A t \in Loggers : pc[t] = "uncreated"
  /\ pc[Main] = "m_reslog" => pc[ReqLogger] # "uncreated" /\ pc[ResLogger] = "uncreated"
  /\ pc[Main] \in UpPC => \A t \in Loggers : pc[t] # "uncreated"

(* Whoever is past its last array_get was told so by a queue that is empty  *)
(* for good.                                                                *)
ToldPC == {"r_exit", "r_free_hosts", "r_free_log", "done"}
Told ==
  /\ \A r \in Requesters : pc[r] \in ToldPC => Done("filename")
  /\ \A s \in Resolvers : pc[s] = "done" => Done("hostname")
  /\ \A t \in Loggers : pc[t] = "done" => Done(LogQueue[t])

(* No mutex is lost while there is no signal, or when it found main in a    *)
(* join; and then the handler runs.                                         *)
NoneHeld ==
  /\ victim = None => held = {}
  /\ victim = Main /\ pc[Main] \in DOMAIN Joining => held = {}
  /\ victim # None => pc[Handler] # "uncreated"

(* Behind the join of the requesters there is no hostname any more in the   *)
(* queue, also for the handler.                                             *)
JoinedHosts ==
  victim \in {None, Main} /\ pc[Main] \in {"m_join_res", "m_join_log"} =>
    Done("hostname") \/ (items["hostname"] = <<>> /\ Missing(Requesters))

LEMMA MainAdvances ==
  ASSUME Launch, [Next]_vars, pc'[Main] # pc[Main], pc'[Main] # "exit_signal"
  PROVE  /\ victim # Main
         /\ \/ StartReqLogger /\ pc'[Main] = "m_reslog" /\ pc'[ReqLogger] = "l_get"
            \/ StartResLogger /\ pc'[Main] = "m_alloc" /\ pc'[ResLogger] = "l_get"
            \/ /\ pc'[Main] # "m_reslog"
               /\ pc'[Main] \in UpPC => pc[Main] \in UpPC
               /\ pc'[Main] \in EarlyPC => pc[Main] \in EarlyPC
<1> Main \in Threads
  BY Roles
<1>1. ASSUME NEW t \in Threads \ {Main}, NEW l, Goto(t, l) \/ UNCHANGED pc PROVE FALSE
  BY <1>1, PcMoves DEF Launch
<1>2. CASE MainThread
  <2>1. victim # Main
    BY <1>2, PutHung DEF MainThread, CheckArguments, CountValid, OpenLogs, StartReqLogger,
       StartResLogger, StartLogger, AllocateThreads, CleanUp, FreeAll, CreateRequesters,
       QueueName, CreateResolvers, FreeNames, JoinRequesters, JoinResolvers, Join,
       FreeReqLogAgain, FreeResLog, JoinLoggers, At
  <2>2. CASE StartReqLogger \/ StartResLogger
    <3>1. PICK t, next :
            /\ \/ StartReqLogger /\ t = ReqLogger /\ next = "m_reslog"
               \/ StartResLogger /\ t = ResLogger /\ next = "m_alloc"
            /\ \/ pc' = [pc EXCEPT ![t] = "l_get", ![Main] = next]
               \/ Goto(Main, "a_first")
      BY <2>2 DEF StartReqLogger, StartResLogger, StartLogger
    <3>2. t \in Threads /\ t # Main
      BY <3>1, Roles DEF Loggers
    <3>3. CASE Goto(Main, "a_first")
      BY <2>1, <3>3, PcMoves DEF Launch, UpPC, AfterPC, EarlyPC
    <3>4. CASE pc' = [pc EXCEPT ![t] = "l_get", ![Main] = next]
      BY <2>1, <3>1, <3>2, <3>4 DEF Launch
    <3> QED
      BY <3>1, <3>3, <3>4
  <2>3. CASE CheckArguments \/ CountValid \/ OpenLogs \/ AllocateThreads
    <3>1. PICK l \in {"m_count", "m_open", "m_reqlog", "m_create", "a_first", "exit_failure"} :
            /\ Goto(Main, l)
            /\ l = "m_create" => pc[Main] = "m_alloc"
            /\ l \in EarlyPC => pc[Main] \in EarlyPC
      BY <2>3 DEF CheckArguments, CountValid, OpenLogs, AllocateThreads, At, EarlyPC
    <3> QED
      BY <2>1, <3>1, PcMoves DEF Launch, UpPC, AfterPC, EarlyPC
  <2>4. CASE CleanUp
    <3>1. PICK q, next : /\ next \in {"a_second", "a_third", "a_fourth", "exit_failure"}
                         /\ Free(Main, q, next)
      <4> DEFINE at == <<"a_first", "a_second", "a_third", "a_fourth", "exit_failure">>
      <4>1. PICK i \in 1 .. 4 : Free(Main, FreeOrder[i], at[i + 1])
        BY <2>4 DEF CleanUp, FreeAll
      <4>2. at[i + 1] \in {"a_second", "a_third", "a_fourth", "exit_failure"}
        <5>1. i = 1 \/ i = 2 \/ i = 3 \/ i = 4
          BY <4>1
        <5> QED
          BY <5>1 DEF EarlyPC
      <4> QED
        BY <4>1, <4>2
    <3>2. UNCHANGED pc \/ Goto(Main, "stuck") \/ Goto(Main, next)
      BY <3>1, FreeKeeps
    <3> QED
      BY <2>1, <3>1, <3>2, PcMoves DEF Launch, UpPC, AfterPC, EarlyPC
  <2>5. CASE FreeNames \/ FreeReqLogAgain \/ FreeResLog
    <3>1. PICK q, next : /\ next \in {"m_join_req", "m_free_reslog", "m_join_log"}
                         /\ Free(Main, q, next) /\ pc[Main] \in UpPC
      BY <2>5 DEF FreeNames, FreeReqLogAgain, FreeResLog, At, UpPC, AfterPC
    <3>2. UNCHANGED pc \/ Goto(Main, "stuck") \/ Goto(Main, next)
      BY <3>1, FreeKeeps
    <3> QED
      BY <2>1, <3>1, <3>2, PcMoves DEF Launch, UpPC, AfterPC, EarlyPC
  <2>6. CASE CreateRequesters \/ CreateResolvers \/ QueueName
             \/ JoinRequesters \/ JoinResolvers \/ JoinLoggers
    <3>1. pc[Main] \in UpPC
      BY <2>6 DEF CreateRequesters, CreateResolvers, QueueName, JoinRequesters, JoinResolvers,
                  JoinLoggers, Join, At, UpPC, AfterPC
    <3>2. pc'[Main] \notin EarlyPC \cup {"m_reslog"}
      <4>1. CASE CreateRequesters
        <5>1. pc'[Main] = "m_names"
          BY <4>1, Roles DEF CreateRequesters
        <5> QED
          BY <5>1 DEF EarlyPC
      <4>2. CASE CreateResolvers
        <5>1. pc'[Main] = "m_free_names"
          BY <4>2, Roles DEF CreateResolvers
        <5> QED
          BY <5>1 DEF EarlyPC
      <4>3. CASE QueueName
        BY <1>1, <4>3 DEF QueueName
      <4>4. CASE JoinRequesters \/ JoinResolvers \/ JoinLoggers
        <5>1. PICK l \in {"m_join_res", "m_free_reqlog", "exit", "crashed"} : Goto(Main, l)
          BY <4>4 DEF JoinRequesters, JoinResolvers, JoinLoggers, Join
        <5> QED
          BY <5>1, PcMoves DEF Launch, EarlyPC
      <4> QED
        BY <2>6, <4>1, <4>2, <4>3, <4>4
    <3> QED
      BY <2>1, <3>1, <3>2
  <2>7. CASE QueueHangs
    BY <2>1, <2>7, PutHung, PcMoves DEF Launch, UpPC, AfterPC, EarlyPC
  <2> QED
    BY <1>2, <2>2, <2>3, <2>4, <2>5, <2>6, <2>7 DEF MainThread
<1>3. ASSUME NEW t \in Workers, WorkerStep(t) PROVE FALSE
  BY <1>1, <1>3, WorkerActs, Roles
<1>4. CASE HandlerFrees
  <2>1. PICK q, next : Free(Handler, q, next)
    BY <1>4 DEF HandlerFrees, FreeAll
  <2> QED
    BY <1>1, <2>1, FreeKeeps, Roles
<1>5. CASE HandlerExits
  BY <1>5, PcMoves DEF HandlerExits, Launch
<1>6. ASSUME NEW t \in Interrupted, Interrupt(t) PROVE FALSE
  BY <1>1, <1>6, Roles DEF Interrupt
<1>7. CASE UNCHANGED vars
  BY <1>1, <1>7, Roles DEF vars
<1> QED
  BY <1>2, <1>3, <1>4, <1>5, <1>6, <1>7, Roles DEF Next, Ended, SignalHandler, WorkerStep

(* Once a worker exists it does so for good.                                *)
LEMMA Exists ==
  ASSUME Launch, [Next]_vars, NEW u \in Workers, pc[u] # "uncreated"
  PROVE  pc'[u] # "uncreated"
<1>1. CASE WorkerStep(u)
  BY <1>1, WorkerActs, PcMoves, Roles DEF Launch
<1> QED
  BY <1>1, Movers

LEMMA LoggersUpStep ==
  ASSUME Launch, LoggersUp, [Next]_vars
  PROVE  LoggersUp'
<1>1. \A t \in Loggers : pc[t] # "uncreated" => pc'[t] # "uncreated"
  BY Exists, Roles
<1>2. ReqLogger \in Loggers /\ ResLogger \in Loggers /\ ReqLogger # ResLogger
      /\ \A t \in Loggers : t = ReqLogger \/ t = ResLogger
  BY ThreadAssumption DEF Loggers
<1>3. ASSUME NEW t \in {ReqLogger, ResLogger}, NEW here, NEW next, here # "a_first",
             next # here, StartLogger(t, here, next)
      PROVE  /\ pc'[Main] # pc[Main]
             /\ \A u \in Loggers \ {t} : pc'[u] = pc[u]
  <2>1. t \in Threads /\ t # Main /\ Main \in Threads /\ \A u \in Loggers : u \in Threads /\ u # Main
    BY <1>2, <1>3, Roles
  <2>2. \/ pc' = [pc EXCEPT ![t] = "l_get", ![Main] = next]
        \/ Goto(Main, "a_first")
    BY <1>3 DEF StartLogger
  <2>3. pc[Main] = here
    BY <1>3 DEF StartLogger, At
  <2> QED
    BY <1>3, <2>1, <2>2, <2>3 DEF Goto, Launch
<1>4. StartReqLogger \/ StartResLogger => pc'[Main] # pc[Main]
  BY <1>3 DEF StartReqLogger, StartResLogger
<1>5. \A t \in Loggers : /\ ~(StartReqLogger \/ StartResLogger)
                         /\ pc[t] = "uncreated"
                         => pc'[t] = "uncreated"
  <2> SUFFICES ASSUME NEW t \in Loggers, ~(StartReqLogger \/ StartResLogger),
                      pc[t] = "uncreated", pc'[t] # "uncreated"
               PROVE  FALSE
    OBVIOUS
  <2>1. t \in Workers /\ t \notin Requesters \cup Resolvers
    BY Roles
  <2>2. WorkerStep(t)
    BY <2>1, Movers
  <2> QED
    BY <2>1, <2>2, WorkerActs
<1>6. CASE pc'[Main] = pc[Main] \/ pc'[Main] = "exit_signal"
  BY <1>1, <1>2, <1>4, <1>5, <1>6 DEF LoggersUp, UpPC, AfterPC, EarlyPC
<1>7. CASE StartReqLogger /\ pc'[Main] = "m_reslog" /\ pc'[ReqLogger] = "l_get"
  <2>1. pc[Main] = "m_reqlog" /\ pc'[ResLogger] = pc[ResLogger]
    BY <1>2, <1>3, <1>7 DEF StartReqLogger, StartLogger, At
  <2> QED
    BY <1>2, <1>7, <2>1 DEF LoggersUp, UpPC, AfterPC, EarlyPC
<1>8. CASE StartResLogger /\ pc'[Main] = "m_alloc" /\ pc'[ResLogger] = "l_get"
  <2>1. pc[Main] = "m_reslog"
    BY <1>8 DEF StartResLogger, StartLogger, At
  <2> QED
    BY <1>1, <1>2, <1>8, <2>1 DEF LoggersUp, EarlyPC
<1>9. CASE /\ ~(StartReqLogger \/ StartResLogger)
           /\ pc'[Main] # "m_reslog"
           /\ pc'[Main] \in UpPC => pc[Main] \in UpPC
           /\ pc'[Main] \in EarlyPC => pc[Main] \in EarlyPC
  BY <1>1, <1>5, <1>9 DEF LoggersUp
<1>10. CASE /\ StartReqLogger \/ StartResLogger
            /\ pc'[Main] # "m_reslog"
            /\ pc'[Main] \in UpPC => pc[Main] \in UpPC
            /\ pc'[Main] \in EarlyPC => pc[Main] \in EarlyPC
  <2>1. pc'[Main] \in {"m_reslog", "m_alloc", "a_first"} /\ pc[Main] \in {"m_reqlog", "m_reslog"}
    <3>1. PICK t, next : /\ t \in Loggers /\ next \in {"m_reslog", "m_alloc"}
                         /\ \/ pc' = [pc EXCEPT ![t] = "l_get", ![Main] = next]
                            \/ Goto(Main, "a_first")
      BY <1>10 DEF StartReqLogger, StartResLogger, StartLogger, Loggers
    <3>2. pc[Main] \in {"m_reqlog", "m_reslog"}
      BY <1>10 DEF StartReqLogger, StartResLogger, StartLogger, At
    <3> QED
      BY <3>1, <3>2, Roles DEF Launch, Goto
  <2> QED
    BY <1>10, <2>1 DEF LoggersUp, UpPC, AfterPC, EarlyPC
<1> QED
  BY <1>6, <1>7, <1>8, <1>9, <1>10, MainAdvances

LEMMA ToldStep ==
  ASSUME Ground, Told, [Next]_vars
  PROVE  Told'
<1> Launch
  BY DEF Ground
<1>0. /\ "filename" \in Queues /\ "hostname" \in Queues
      /\ \A t \in Loggers : LogQueue[t] \in Queues
  BY DEF Queues, LogQueue
<1>1. ASSUME NEW r \in Requesters, pc'[r] \in ToldPC PROVE Done("filename")'
  <2>1. CASE pc[r] \in ToldPC
    BY <1>0, <2>1, DoneStays DEF Told
  <2>2. CASE pc[r] \notin ToldPC
    <3>1. Requester(r)
      BY <1>1, <2>2, Movers, Roles DEF WorkerStep, ToldPC
    <3>2. \/ LeaveFiles(r)
          \/ UNCHANGED pc
          \/ \E l \in {"r_get", "r_file", "stuck", "stuck_get", "r_read", "r_log", "r_put"} :
               Goto(r, l)
      BY <2>2, <3>1, PutHung DEF Requester, RequestFile, OpenFile, SkipFile, ReadLine,
                        LogRequest, PutHost, ExitReader, FreeHosts, FreeReqLog, Enter, At, ToldPC
    <3>3. LeaveFiles(r)
      BY <1>1, <2>2, <3>2, PcMoves, Roles DEF Launch, ToldPC
    <3>4. Done("filename")
      BY <3>3 DEF LeaveFiles, ToldShutdown, Done
    <3> QED
      BY <1>0, <3>4, DoneStays
  <2> QED
    BY <2>1, <2>2
<1>2. ASSUME NEW s \in Resolvers, pc'[s] = "done" PROVE Done("hostname")'
  <2>1. CASE pc[s] = "done"
    BY <1>0, <2>1, DoneStays DEF Told
  <2>2. CASE pc[s] # "done"
    <3>1. Resolver(s)
      BY <1>2, <2>2, Movers, Roles DEF WorkerStep
    <3>2. \/ LeaveHosts(s)
          \/ \E l \in {"s_get", "s_host", "stuck", "stuck_get", "s_log"} : Goto(s, l)
      BY <3>1, PutHung DEF Resolver, RequestHost, Enter, TakeHost, LogResolved
    <3>3. LeaveHosts(s)
      BY <1>2, <3>2, PcMoves, Roles DEF Launch
    <3>4. Done("hostname")
      BY <3>3 DEF LeaveHosts, ToldShutdown, Done
    <3> QED
      BY <1>0, <3>4, DoneStays
  <2> QED
    BY <2>1, <2>2
<1>3. ASSUME NEW t \in Loggers, pc'[t] = "done" PROVE Done(LogQueue[t])'
  <2>1. CASE pc[t] = "done"
    <3>1. Done(LogQueue[t])
      BY <2>1 DEF Told
    <3> QED
      BY <1>0, <3>1, DoneStays
  <2>2. CASE pc[t] # "done"
    <3>1. Logger(t)
      BY <1>3, <2>2, Movers, Roles DEF WorkerStep
    <3>2. LeaveLog(t) \/ \E l \in {"l_get", "l_line", "stuck_get"} : Goto(t, l)
      BY <3>1 DEF Logger, RequestLine, Enter, WriteLine
    <3>3. LeaveLog(t)
      BY <1>3, <3>2, PcMoves, Roles DEF Launch
    <3>4. Done(LogQueue[t])
      BY <3>3 DEF LeaveLog, ToldShutdown, Done
    <3> QED
      BY <1>0, <3>4, DoneStays
  <2> QED
    BY <2>1, <2>2
<1> QED
  BY <1>1, <1>2, <1>3 DEF Told


LEMMA NoneHeldStep ==
  ASSUME Ground, FreeProgress, NoneHeld, [Next]_vars
  PROVE  NoneHeld'
<1> Launch
  BY DEF Ground
<1>1. pc[Handler] # "uncreated" => pc'[Handler] # "uncreated"
  BY HandlerArrives
<1>2. CASE UNCHANGED signal
  <2>1. victim = Main => pc'[Main] \in {pc[Main], "exit_signal"}
    BY MainAdvances
  <2> QED
    BY <1>1, <1>2, <2>1 DEF NoneHeld, signal, Joining
<1>3. ASSUME NEW t \in Interrupted, Interrupt(t) PROVE NoneHeld'
  <2>1. /\ victim' = t /\ t # None /\ Goto(Handler, "a_first")
        /\ held' \in {{}} \cup {{q} : q \in MayOwn(t)}
    BY <1>3, FaultAssumption, ThreadAssumption DEF Interrupt, Threads
  <2>2. pc'[Handler] = "a_first" /\ pc'[Main] = pc[Main]
    BY <2>1, PcMoves, Roles DEF Launch
  <2>3. ASSUME t = Main, pc[Main] \in DOMAIN Joining PROVE MayOwn(Main) = {}
    <3>1. \A q \in Queues : Main \notin GettersOf[q]
      BY Roles DEF GettersOf, Queues, Loggers
    <3>2. \A q \in Queues : pc[Main] # Filled[q] /\ pc[Main] \notin Freed[q]
      BY <2>3 DEF Filled, Freed, Queues, Joining
    <3> QED
      BY <3>1, <3>2 DEF MayOwn
  <2> QED
    BY <2>1, <2>2, <2>3 DEF NoneHeld
<1> QED
  BY <1>2, <1>3, SignalSame

(* Until a signal comes this is what HostsFreed says at the joins.          *)
LEMMA JoinedHostsBefore ==
  ASSUME Ground, HostsFreed, victim = None
  PROVE  JoinedHosts
<1> SUFFICES ASSUME pc[Main] \in {"m_join_res", "m_join_log"}
             PROVE  Done("hostname") \/ (items["hostname"] = <<>> /\ Missing(Requesters))
  BY DEF JoinedHosts
<1>1. \A r \in Requesters : pc[r] \in {"done", "uncreated"}
  BY DEF Ground, Launch, Joined, Gone
<1>2. Reading = {} /\ ~\E r \in Requesters : pc[r] = "r_free_hosts"
  BY <1>1 DEF Reading
<1> QED
  BY <1>2 DEF HostsFreed, Missing, BeforePC, AbortPC

LEMMA JoinedHostsStep ==
  ASSUME Ground, Ground', HostsFreed, HostsFreed', JoinedHosts, [Next]_vars
  PROVE  JoinedHosts'
<1> Launch /\ "hostname" \in Queues
  BY DEF Ground, Queues
<1>1. CASE victim' = None
  <2>1. Ground' /\ HostsFreed' /\ (victim = None)' => JoinedHosts'
    BY JoinedHostsBefore, PTL
  <2> QED
    BY <1>1, <2>1
<1>2. CASE victim' # None /\ victim' # Main
  BY <1>2 DEF JoinedHosts
<1>3. ASSUME NEW t \in Interrupted, Interrupt(t) PROVE JoinedHosts'
  <2>1. victim = None /\ UNCHANGED queues /\ Goto(Handler, "a_first")
    BY <1>3 DEF Interrupt
  <2>2. pc'[Main] = pc[Main] /\ \A r \in Requesters : pc'[r] = pc[r]
    BY <2>1, PcMoves, Roles DEF Launch
  <2> QED
    BY <2>1, <2>2 DEF JoinedHosts, Done, Missing, queues
<1>4. CASE victim' = Main /\ UNCHANGED signal
  <2> SUFFICES ASSUME pc'[Main] \in {"m_join_res", "m_join_log"}
               PROVE  Done("hostname")' \/ (items'["hostname"] = <<>> /\ Missing(Requesters)')
    BY DEF JoinedHosts
  <2>1. victim = Main /\ pc'[Main] = pc[Main]
    BY <1>4, MainAdvances DEF signal
  <2>2. Done("hostname") \/ (items["hostname"] = <<>> /\ Missing(Requesters))
    BY <2>1 DEF JoinedHosts
  <2>3. ~CreateRequesters
    BY <2>1 DEF CreateRequesters, At
  <2>4. CASE items["hostname"] = <<>> /\ Missing(Requesters)
    <3>1. \A r \in Requesters : pc[r] = "uncreated" /\ ~ExitReader(r)
      BY <2>4 DEF Missing, ExitReader, At
    <3> QED
      BY <2>3, <2>4, <3>1, ReaderMoves, HostsStayEmpty DEF Missing
  <2> QED
    BY <2>2, <2>4, DoneStays
<1> QED
  BY <1>1, <1>2, <1>3, <1>4, SignalSame

WaitInv == FreedInv /\ LoggersUp /\ Told /\ NoneHeld /\ JoinedHosts

LEMMA WaitAlways == Spec => []WaitInv
<1>1. ASSUME Init PROVE LoggersUp /\ Told /\ NoneHeld /\ JoinedHosts
  <2>1. /\ pc[Main] = "m_args" /\ victim = None /\ held = {}
        /\ \A u \in Workers : pc[u] = "uncreated"
    BY <1>1, Roles DEF Init
  <2> QED
    BY <2>1, Roles DEF LoggersUp, UpPC, AfterPC, Told, ToldPC, NoneHeld, JoinedHosts
<1> QED
  BY <1>1, LoggersUpStep, ToldStep, NoneHeldStep, JoinedHostsStep, FreedAlways, PTL
     DEF Spec, WaitInv, FreedInv, Ground


-----------------------------------------------------------------------------
(* If nobody can go on: what each thread waits for.                         *)

Blocked ==
  /\ victim = None \/ (victim = Main /\ pc[Main] \in DOMAIN Joining)
  /\ \A t \in Threads : pc[t] \notin {"stuck", "stuck_get"} /\ ~CanGoOn(t)

LEMMA BlockedFacts ==
  ASSUME WaitInv, Blocked
  PROVE  /\ held = {}
         /\ \A u \in Workers : u # victim
         /\ \A q \in Queues : /\ items[q] = <<>> => ~Full(q)
                              /\ Full(q) => items[q] # <<>>
         /\ \A t \in Threads : Place(t, pc[t])
<1>1. ASSUME NEW q \in Queues, items[q] = <<>> PROVE ~Full(q)
  BY <1>1, QueueAssumption DEF Full, Capacity
<1> QED
  BY <1>1, Roles, ThreadAssumption
     DEF WaitInv, FreedInv, Ground, Controlled, NoneHeld, Blocked, Threads

LEMMA LoggerWaits ==
  ASSUME WaitInv, Blocked, pc[Main] \in UpPC, NEW t \in Loggers
  PROVE  items[LogQueue[t]] = <<>> /\ (pc[t] # "done" => ~shutdown[LogQueue[t]])
<1>1. /\ t \in Threads /\ t # victim /\ ~CanGoOn(t) /\ pc[t] \notin {"stuck", "stuck_get"}
      /\ Place(t, pc[t]) /\ held = {}
  BY BlockedFacts, Roles DEF Blocked
<1>2. pc[t] \in {"done", "l_get", "l_line"}
  BY <1>1 DEF Place, WorkerPlaces, WaitInv, LoggersUp
<1>3. LogQueue[t] \in Queues /\ t \in GettersOf[LogQueue[t]]
      /\ InsideGet[LogQueue[t]] = "l_line"
  BY DEF LogQueue, Queues, GettersOf, InsideGet, Loggers
<1>4. CASE pc[t] = "done"
  BY <1>4 DEF WaitInv, Told, Done
<1>5. CASE pc[t] = "l_line"
  BY <1>1, <1>3, <1>5 DEF CanGoOn, CanGet
<1> QED
  BY <1>1, <1>2, <1>4, <1>5 DEF CanGoOn

LEMMA LogsEmpty ==
  ASSUME WaitInv, Blocked, pc[Main] \in UpPC
  PROVE  items["requester_log"] = <<>> /\ items["resolver_log"] = <<>>
<1>1. /\ ReqLogger \in Loggers /\ LogQueue[ReqLogger] = "requester_log"
      /\ ResLogger \in Loggers /\ LogQueue[ResLogger] = "resolver_log"
  BY ThreadAssumption DEF Loggers, LogQueue
<1> QED
  BY <1>1, LoggerWaits

LEMMA PutGoes ==
  ASSUME WaitInv, Blocked, NEW t \in Workers, NEW q \in Queues, pc[t] = Filled[q]
  PROVE  Full(q) /\ items[q] # <<>>
<1>1. t # victim /\ ~CanGoOn(t) /\ q \notin held
  BY BlockedFacts, Roles DEF Blocked
<1>2. Full(q)
  BY <1>1 DEF CanGoOn, CanPut
<1> QED
  BY <1>2, BlockedFacts

LEMMA GetWaits ==
  ASSUME WaitInv, Blocked, NEW q \in Queues, NEW t \in GettersOf[q], pc[t] = InsideGet[q]
  PROVE  items[q] = <<>> /\ ~shutdown[q]
<1>1. t \in Workers
  BY Roles DEF GettersOf, Queues, Loggers
<1>2. t # victim /\ ~CanGoOn(t) /\ q \notin held
  BY <1>1, BlockedFacts, Roles DEF Blocked
<1> QED
  BY <1>2 DEF CanGoOn, CanGet

LEMMA ResolverWaits ==
  ASSUME WaitInv, Blocked, pc[Main] \in UpPC, NEW s \in Resolvers, pc[s] # "uncreated"
  PROVE  items["hostname"] = <<>> /\ (pc[s] # "done" => ~shutdown["hostname"])
<1>1. /\ s \in Threads /\ s \in Workers /\ s # victim /\ ~CanGoOn(s) /\ pc[s] \notin {"stuck", "stuck_get"}
      /\ Place(s, pc[s])
  BY BlockedFacts, Roles DEF Blocked
<1>2. pc[s] \in {"done", "s_get", "s_host", "s_log"}
  BY <1>1 DEF Place, WorkerPlaces
<1>3. pc[s] # "s_get"
  BY <1>1 DEF CanGoOn
<1>4. CASE pc[s] = "done"
  BY <1>4 DEF WaitInv, Told, Done
<1>5. CASE pc[s] = "s_host"
  BY <1>5, GetWaits DEF GettersOf, InsideGet, Queues
<1>6. pc[s] # "s_log"
  BY <1>1, PutGoes, LogsEmpty DEF Filled, Queues
<1> QED
  BY <1>2, <1>3, <1>4, <1>5, <1>6

LEMMA HostsWait ==
  ASSUME WaitInv, Blocked, pc[Main] \in UpPC, items["hostname"] # <<>>
  PROVE  Missing(Resolvers)
  BY ResolverWaits DEF Missing

(* Freeing a queue waits for strings to be taken, never for a getter: those *)
(* that are inside are told.                                                *)
LEMMA FreeWaits ==
  ASSUME WaitInv, Blocked, NEW t \in Freers, t # victim, NEW q \in Queues, pc[t] \in Freed[q]
  PROVE  items[q] # <<>>
<1>1. t \in Threads /\ ~CanGoOn(t) /\ q \notin held
  BY BlockedFacts, Roles DEF Blocked, Freers
<1>2. ~CanFree(t, q)
  BY <1>1 DEF CanGoOn
<1>3. stage[t] = "count" => Done(q)
  BY DEF WaitInv, FreedInv, FreeProgress
<1>4. stage[t] = "drain" \/ (stage[t] = "count" /\ Active(q) # {})
  BY <1>2 DEF CanFree
<1>5. ASSUME NEW u \in Active(q) PROVE ~shutdown[q]
  <2>1. u \in GettersOf[q] /\ pc[u] \in {InsideGet[q], "stuck_get"} /\ u \in Threads
    BY Roles DEF Active, GettersOf, Queues, Loggers
  <2> QED
    BY <2>1, GetWaits DEF Blocked
<1> QED
  BY <1>2, <1>3, <1>4, <1>5 DEF CanFree, Drained, Done

LEMMA RequesterWaits ==
  ASSUME WaitInv, Blocked, pc[Main] \in UpPC, NEW r \in Requesters, pc[r] # "uncreated"
  PROVE  \/ pc[r] = "r_put" /\ Full("hostname") /\ items["hostname"] # <<>>
         \/ pc[r] = "r_file" /\ items["filename"] = <<>> /\ ~shutdown["filename"]
         \/ pc[r] = "r_free_hosts" /\ Done("filename") /\ items["hostname"] # <<>>
         \/ pc[r] = "done" /\ Done("filename")
<1>1. /\ r \in Threads /\ r \in Workers /\ r # victim /\ ~CanGoOn(r) /\ pc[r] \notin {"stuck", "stuck_get"}
      /\ Place(r, pc[r]) /\ r \in Freers
  BY BlockedFacts, Roles DEF Blocked, Freers
<1>2. pc[r] \in {"done", "r_get", "r_file", "r_read", "r_log", "r_put", "r_exit",
                 "r_free_hosts", "r_free_log"}
  BY <1>1 DEF Place, RequesterPlaces, WorkerPlaces
<1>3. pc[r] \notin {"r_get", "r_read", "r_exit"}
  BY <1>1 DEF CanGoOn
<1>4. pc[r] # "r_log"
  BY <1>1, PutGoes, LogsEmpty DEF Filled, Queues
<1>5. pc[r] # "r_free_log"
  BY <1>1, FreeWaits, LogsEmpty DEF Freed, Queues
<1>6. pc[r] = "r_put" => Full("hostname") /\ items["hostname"] # <<>>
  BY <1>1, PutGoes DEF Filled, Queues
<1>7. pc[r] = "r_file" => items["filename"] = <<>> /\ ~shutdown["filename"]
  BY GetWaits DEF GettersOf, InsideGet, Queues
<1>8. pc[r] = "r_free_hosts" => items["hostname"] # <<>>
  BY <1>1, FreeWaits DEF Freed, Queues
<1>9. pc[r] \in {"r_free_hosts", "done"} => Done("filename")
  BY DEF WaitInv, Told, ToldPC
<1> QED
  BY <1>2, <1>3, <1>4, <1>5, <1>6, <1>7, <1>8, <1>9

LEMMA FilesWait ==
  ASSUME WaitInv, Blocked, pc[Main] \in UpPC, items["filename"] # <<>>
  PROVE  Missing(Requesters) \/ (Full("hostname") /\ items["hostname"] # <<>>)
  BY RequesterWaits DEF Missing, Done

(* Main, or the handler in its place, waits in vain only in the known ways. *)
LEMMA BlockedHangs ==
  ASSUME WaitInv, Running, Blocked
  PROVE  Hangs
<1>0. /\ Main \in Threads /\ Handler \in Threads /\ Place(Main, pc[Main])
      /\ Place(Handler, pc[Handler]) /\ Main \in Freers /\ Handler \in Freers
      /\ held = {}
  BY BlockedFacts, Roles DEF Freers
<1>1. CASE victim = Main
  <2>1. /\ pc[Main] \in DOMAIN Joining /\ Handler # victim
        /\ pc[Handler] \in {"a_first", "a_second", "a_third", "a_fourth", "a_exit"}
    BY <1>0, <1>1, Roles, ThreadAssumption
       DEF Blocked, Place, Freeing, WaitInv, NoneHeld, Threads
  <2>2. pc[Main] \in UpPC /\ pc[Main] \in {"m_join_req", "m_join_res", "m_join_log"}
    BY <2>1 DEF Joining, UpPC, AfterPC
  <2>3. items["filename"] = <<>>
    BY <2>2 DEF WaitInv, FreedInv, FreedSoFar, JoinPC, Done
  <2>4. pc[Handler] # "a_exit"
    BY <1>0, <2>1 DEF Blocked, CanGoOn
  <2>5. pc[Handler] = "a_first" /\ items["hostname"] # <<>>
    BY <1>0, <2>1, <2>2, <2>3, <2>4, LogsEmpty, FreeWaits DEF Freed, Queues
  <2>6. pc[Main] = "m_join_req"
    BY <1>1, <2>2, <2>5 DEF WaitInv, JoinedHosts, Done
  <2> QED
    BY <2>2, <2>5, <2>6, HostsWait DEF Hangs
<1>2. CASE victim = None
  <2>0. Main # victim /\ ~CanGoOn(Main) /\ pc[Main] # "stuck"
    BY <1>0, <1>2, ThreadAssumption DEF Blocked, Threads
  <2>1. pc[Main] \notin BeforePC
    BY <2>0 DEF CanGoOn, BeforePC
  <2>2. pc[Main] \notin Freeing
    <3> SUFFICES ASSUME pc[Main] \in Freeing PROVE FALSE
      OBVIOUS
    <3>1. \A q \in Queues : items[q] = <<>>
      BY DEF WaitInv, FreedInv, FreedSoFar, AbortPC, Freeing
    <3>2. \E q \in Queues : pc[Main] \in Freed[q]
      BY DEF Freeing, Freed, Queues
    <3> QED
      BY <1>0, <2>0, <3>1, <3>2, FreeWaits
  <2>3. pc[Main] \in {"m_names", "m_free_names", "m_join_req", "m_join_res",
                      "m_free_reqlog", "m_free_reslog", "m_join_log"}
    BY <1>0, <2>0, <2>1, <2>2 DEF Place, MainPlaces, BeforePC, Running
  <2>4. pc[Main] \in UpPC
    BY <2>3 DEF UpPC, AfterPC
  <2>5. CASE pc[Main] = "m_names"
    <3>1. Full("filename")
      BY <1>0, <2>0, <2>5 DEF CanGoOn, CanPut, Filled, Queues
    <3>2. items["filename"] # <<>>
      BY <3>1, BlockedFacts DEF Queues
    <3> QED
      BY <2>4, <2>5, <3>1, <3>2, FilesWait DEF Hangs
  <2>6. CASE pc[Main] = "m_free_names"
    <3>1. items["filename"] # <<>>
      BY <1>0, <2>0, <2>6, FreeWaits DEF Freed, Queues
    <3> QED
      BY <2>4, <2>6, <3>1, FilesWait, HostsWait DEF Hangs
  <2>7. CASE pc[Main] = "m_join_req"
    <3>1. Done("filename")
      BY <2>7 DEF WaitInv, FreedInv, FreedSoFar, JoinPC
    <3>2. PICK r \in Requesters : pc[r] \notin {"done", "uncreated"}
      BY <2>0, <2>7 DEF CanGoOn, Joining, Gone
    <3>3. items["hostname"] # <<>>
      BY <2>4, <3>1, <3>2, RequesterWaits DEF Done
    <3> QED
      BY <2>4, <2>7, <3>3, HostsWait DEF Hangs
  <2>8. CASE pc[Main] = "m_join_res"
    <3>1. PICK s \in Resolvers : pc[s] \notin {"done", "uncreated"}
      BY <2>0, <2>8 DEF CanGoOn, Joining, Gone
    <3>2. ~shutdown["hostname"]
      BY <2>4, <3>1, ResolverWaits
    <3>3. Missing(Requesters)
      BY <1>2, <2>8, <3>2 DEF WaitInv, JoinedHosts, Done
    <3> QED
      BY <2>8, <3>3 DEF Hangs
  <2>9. pc[Main] \notin {"m_free_reqlog", "m_free_reslog"}
    BY <1>0, <2>0, <2>4, LogsEmpty, FreeWaits DEF Freed, Queues
  <2>10. pc[Main] # "m_join_log"
    <3> SUFFICES ASSUME pc[Main] = "m_join_log" PROVE FALSE
      OBVIOUS
    <3>1. PICK t \in Loggers : pc[t] \notin {"done", "uncreated"}
      BY <2>0 DEF CanGoOn, Joining, Gone
    <3>2. shutdown[LogQueue[t]]
      BY DEF WaitInv, FreedInv, FreedSoFar, LastPC, Done, LogQueue
    <3> QED
      BY <2>4, <3>1, <3>2, LoggerWaits
  <2> QED
    BY <2>3, <2>5, <2>6, <2>7, <2>8, <2>9, <2>10
<1> QED
  BY <1>1, <1>2 DEF Blocked

(* No thread waits with nobody to let it through: while the program runs    *)
(* somebody can go on, whatever fails, but for a hang on a destroyed mutex, *)
(* the start with too many files (dnsthreaded.c:451) and a start that could *)
(* create no requester (428) or no resolver (467) at all.                   *)
THEOREM NoDeadlockCorrect == Spec => []NoDeadlock
<1>1. WaitInv => NoDeadlock
  BY BlockedHangs DEF NoDeadlock, Blocked, Hangs
<1> QED
  BY <1>1, WaitAlways, PTL

=============================================================================
