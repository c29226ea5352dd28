-------------------------- MODULE DnsThreadedProofs --------------------------
(***************************************************************************)
(* Without a signal no array_put of the program is refused, and the count  *)
(* of active readers is exact: for every number of threads, every input,   *)
(* every queue size and every fault DnsThreaded knows.                     *)
(*                                                                         *)
(* The invariant says for each queue, once it is shut down, that those who *)
(* put into it are past doing so, and of main and the last reader, who     *)
(* shut the queues down, what they know at each place.                     *)
(***************************************************************************)
EXTENDS DnsThreaded, FiniteSetTheorems, TLAPS

FinishedPC == {"uncreated", "done", "r_free_hosts", "r_free_log"}
BeforePC   == {"m_args", "m_count", "m_open", "m_reqlog", "m_reslog", "m_alloc",
               "m_create"}
AbortPC    == {"a_first", "a_second", "a_third", "a_fourth", "exit_failure"}

Domains ==
  DOMAIN pc = Threads /\ DOMAIN shutdown = Queues /\ DOMAIN destroyed = Queues

NoHandler == pc[Handler] = "uncreated"

Unstarted ==
  pc[Main] \in BeforePC \cup AbortPC =>
    \A t \in Requesters \cup Resolvers : pc[t] = "uncreated"

OpenBefore ==
  /\ pc[Main] \in BeforePC => \A q \in Queues : ~shutdown[q] /\ ~destroyed[q]
  /\ pc[Main] = "m_names" => ~shutdown["filename"] /\ ~shutdown["resolver_log"]

(* Who frees the requesters' queues is the only requester left.             *)
LastReaderAlone ==
  \A r \in Requesters : pc[r] \in {"r_free_hosts", "r_free_log"} =>
    Reading = {} /\ Gone(Requesters \ {r})

ClosedToPutters ==
  /\ shutdown["hostname"] => Reading = {}
  /\ shutdown["requester_log"] => Reading = {}
  /\ shutdown["resolver_log"] => Gone(Resolvers)

DestroyedAfter ==
  /\ destroyed["hostname"] =>
       Reading = {} /\ \A r \in Requesters : pc[r] # "r_free_hosts"
  /\ destroyed["requester_log"] =>
       Reading = {} /\ \A r \in Requesters : pc[r] \notin {"r_free_hosts", "r_free_log"}

Joined ==
  /\ pc[Main] \in {"m_join_res", "m_free_reqlog", "m_free_reslog", "m_join_log"}
       => Gone(Requesters)
  /\ pc[Main] \in {"m_free_reqlog", "m_free_reslog", "m_join_log"}
       => Gone(Resolvers)

Order == /\ Domains
         /\ NoHandler
         /\ Unstarted
         /\ OpenBefore
         /\ LastReaderAlone
         /\ ClosedToPutters
         /\ DestroyedAfter
         /\ Joined
Inv == Order /\ ReadersExact /\ NothingRefused

watched == <<shutdown, destroyed, active_file_readers, refused>>

LEMMA Roles ==
  /\ Main \notin Workers /\ Handler \notin Workers /\ Main # Handler
  /\ Main \in Threads /\ Handler \in Threads
  /\ Workers \subseteq Threads
  /\ Requesters \subseteq Workers /\ Resolvers \subseteq Workers
  /\ Loggers \subseteq Workers
  /\ Requesters \cap Resolvers = {}
  /\ Loggers \cap (Requesters \cup Resolvers) = {}
BY ThreadAssumption DEF Workers, Threads

LEMMA ReadingFinite ==
  IsFiniteSet(Reading) /\ Cardinality(Reading) \in Nat
  /\ (Cardinality(Reading) = 0 <=> Reading = {})
<1>1. Reading \subseteq Requesters
  BY DEF Reading
<1>2. IsFiniteSet(Reading)
  BY <1>1, ThreadAssumption, FS_Subset
<1> QED
  BY <1>2, FS_CardinalityType, FS_EmptySet

-----------------------------------------------------------------------------
(* Steps that only move one thread.                                         *)

(* A worker that moves without finishing reading, or without coming back.   *)
LEMMA WorkerMoves ==
  ASSUME Inv, NEW t \in Workers, NEW l, Goto(t, l),
         t \in Requesters => pc[t] \notin FinishedPC /\ l \notin FinishedPC,
         t \in Resolvers => pc[t] \notin {"done", "uncreated"},
         UNCHANGED watched
  PROVE  Inv'
<1>1. DOMAIN pc' = Threads /\ \A u \in Threads : pc'[u] = IF u = t THEN l ELSE pc[u]
  BY Roles DEF Goto, Inv, Order, Domains
<1>2. pc'[Main] = pc[Main] /\ pc'[Handler] = pc[Handler]
  BY <1>1, Roles
<1>3. \A r \in Requesters : pc'[r] \notin FinishedPC <=> pc[r] \notin FinishedPC
  BY <1>1, Roles
<1>4. Reading' = Reading
  BY <1>3 DEF Reading, FinishedPC
<1>5. \A r \in Requesters : pc[r] \in FinishedPC => pc'[r] = pc[r]
  BY <1>1, Roles
<1>6. \A r \in Requesters : pc'[r] \in FinishedPC => pc'[r] = pc[r]
  BY <1>1, Roles
<1>7. Gone(Resolvers) => Gone(Resolvers)'
  BY <1>1, Roles DEF Gone
<1>8. \A S \in SUBSET Requesters : Gone(S) => Gone(S)'
  BY <1>5 DEF Gone, FinishedPC
<1>9. Domains' /\ NoHandler' /\ OpenBefore'
  BY <1>1, <1>2 DEF Inv, Order, Domains, NoHandler, OpenBefore, watched
<1>10. Unstarted'
  BY <1>1, <1>2, Roles DEF Inv, Order, Unstarted, FinishedPC
<1>11. LastReaderAlone'
  <2> SUFFICES ASSUME NEW r \in Requesters, pc'[r] \in {"r_free_hosts", "r_free_log"}
               PROVE  (Reading = {})' /\ Gone(Requesters \ {r})'
    BY DEF LastReaderAlone
  <2>1. pc[r] = pc'[r]
    BY <1>6 DEF FinishedPC
  <2> QED
    BY <2>1, <1>4, <1>8 DEF Inv, Order, LastReaderAlone
<1>12. ClosedToPutters'
  BY <1>4, <1>7 DEF Inv, Order, ClosedToPutters, watched
<1>13. DestroyedAfter'
  BY <1>4, <1>6 DEF Inv, Order, DestroyedAfter, watched, FinishedPC
<1>14. Joined'
  BY <1>2, <1>7, <1>8 DEF Inv, Order, Joined
<1>15. ReadersExact' /\ NothingRefused'
  BY <1>4 DEF Inv, ReadersExact, NothingRefused, watched
<1> QED
  BY <1>9, <1>10, <1>11, <1>12, <1>13, <1>14, <1>15 DEF Inv, Order

(* What main must know to go to place l.                                    *)
MayGoTo(l) ==
  /\ l \in BeforePC => pc[Main] \in BeforePC
  /\ l \in AbortPC => pc[Main] \in BeforePC \cup AbortPC
  /\ l # "m_names"
  /\ l \in {"m_join_res", "m_free_reqlog", "m_free_reslog", "m_join_log"}
       => Gone(Requesters)
  /\ l \in {"m_free_reqlog", "m_free_reslog", "m_join_log"} => Gone(Resolvers)

(* ... and to destroy q on its way there.                                   *)
MayDestroy(q, l) ==
  l \notin BeforePC /\ (q \in {"hostname", "requester_log"} => Gone(Requesters))

LEMMA MainMoves ==
  ASSUME Inv, NEW l, Goto(Main, l), MayGoTo(l),
         UNCHANGED <<shutdown, active_file_readers, refused>>,
         DOMAIN destroyed' = Queues,
         \A q \in Queues : destroyed'[q] => destroyed[q] \/ MayDestroy(q, l)
  PROVE  Inv'
<1>1. DOMAIN pc' = Threads /\ \A u \in Threads : pc'[u] = IF u = Main THEN l ELSE pc[u]
  BY Roles DEF Goto, Inv, Order, Domains
<1>2. pc'[Main] = l /\ pc'[Handler] = pc[Handler]
      /\ \A t \in Requesters \cup Resolvers : pc'[t] = pc[t]
  BY <1>1, Roles
<1>3. Reading' = Reading
  BY <1>2 DEF Reading
<1>4. \A S \in SUBSET (Requesters \cup Resolvers) : Gone(S) <=> Gone(S)'
  BY <1>2 DEF Gone
<1>5. Gone(Requesters)' <=> Gone(Requesters)
  BY <1>4
<1>6. Gone(Resolvers)' <=> Gone(Resolvers)
  BY <1>4
<1>7. Domains' /\ NoHandler' /\ OpenBefore'
  BY <1>1, <1>2 DEF Inv, Order, Domains, NoHandler, OpenBefore, MayGoTo, MayDestroy
<1>8. Unstarted'
  BY <1>2 DEF Inv, Order, Unstarted, MayGoTo
<1>9. LastReaderAlone'
  BY <1>2, <1>3, <1>4 DEF Inv, Order, LastReaderAlone
<1>10. ClosedToPutters'
  BY <1>3, <1>6 DEF Inv, Order, ClosedToPutters
<1>13. Gone(Requesters) =>
         Reading = {} /\ \A r \in Requesters : pc[r] \in {"done", "uncreated"}
  BY DEF Gone, Reading
<1>14. DestroyedAfter'
  BY <1>2, <1>3, <1>13 DEF Inv, Order, DestroyedAfter, MayDestroy, Queues
<1>11. Joined'
  BY <1>2, <1>5, <1>6 DEF Joined, MayGoTo
<1>12. ReadersExact' /\ NothingRefused'
  BY <1>3 DEF Inv, ReadersExact, NothingRefused
<1> QED
  BY <1>7, <1>8, <1>9, <1>10, <1>11, <1>12, <1>14 DEF Inv, Order

LEMMA MainOnlyMoves ==
  ASSUME Inv, NEW l, Goto(Main, l), MayGoTo(l), UNCHANGED watched
  PROVE  Inv'
BY MainMoves DEF watched, Inv, Order, Domains

(* A queue is closed by a thread that stays where it is.                    *)
LEMMA Closes ==
  ASSUME Inv, NEW q \in Queues,
         shutdown' = [shutdown EXCEPT ![q] = TRUE],
         UNCHANGED <<destroyed, active_file_readers, refused, pc>>,
         q \in {"hostname", "requester_log"} => Reading = {},
         q = "resolver_log" => Gone(Resolvers),
         pc[Main] \notin BeforePC,
         pc[Main] = "m_names" => q \in {"hostname", "requester_log"}
  PROVE  Inv'
<1>1. DOMAIN shutdown' = Queues
      /\ \A p \in Queues : shutdown'[p] => shutdown[p] \/ p = q
  BY DEF Inv, Order, Domains
<1>2. Reading' = Reading /\ (Gone(Resolvers)' <=> Gone(Resolvers))
  BY DEF Reading, Gone
<1>3. Domains' /\ OpenBefore'
  BY <1>1 DEF Inv, Order, Domains, OpenBefore, Queues
<1>4. ClosedToPutters'
  BY <1>1, <1>2 DEF Inv, Order, ClosedToPutters, Queues
<1>5. NoHandler' /\ Unstarted' /\ LastReaderAlone' /\ DestroyedAfter' /\ Joined'
  BY <1>2 DEF Inv, Order, NoHandler, Unstarted, LastReaderAlone, DestroyedAfter,
              Joined, Gone, Reading
<1>6. ReadersExact' /\ NothingRefused'
  BY <1>2 DEF Inv, ReadersExact, NothingRefused
<1> QED
  BY <1>3, <1>4, <1>5, <1>6 DEF Inv, Order

LEMMA Stays ==
  ASSUME Inv, UNCHANGED <<watched, pc>>
  PROVE  Inv'
BY DEF watched, Inv, Order, Domains, NoHandler, Unstarted, OpenBefore,
       LastReaderAlone, ClosedToPutters, DestroyedAfter, Joined, Gone, Reading,
       ReadersExact, NothingRefused

(* What a step of array_free does to the watched variables.                 *)
LEMMA FreeSteps ==
  ASSUME NEW t, NEW q, NEW next, Free(t, q, next)
  PROVE  /\ UNCHANGED <<active_file_readers, refused>>
         /\ \/ UNCHANGED <<shutdown, destroyed, pc>>
            \/ /\ shutdown' = [shutdown EXCEPT ![q] = TRUE]
               /\ UNCHANGED <<destroyed, pc>>
            \/ destroyed[q] /\ Goto(t, "stuck") /\ UNCHANGED <<shutdown, destroyed>>
            \/ /\ destroyed' = [destroyed EXCEPT ![q] = TRUE]
               /\ Goto(t, next)
               /\ UNCHANGED shutdown
BY DEF Free

LEMMA MainFrees ==
  ASSUME Inv, NEW q \in Queues, NEW next, Free(Main, q, next), MayGoTo(next),
         next \notin BeforePC, pc[Main] \notin BeforePC \cup {"m_names"},
         q \in {"hostname", "requester_log"} => Gone(Requesters),
         q = "resolver_log" => Gone(Resolvers)
  PROVE  Inv'
<1>1. Gone(Requesters) => Reading = {}
  BY DEF Gone, Reading
<1>2. MayGoTo("stuck")
  BY DEF MayGoTo, BeforePC, AbortPC
<1>3. UNCHANGED <<active_file_readers, refused>>
  BY FreeSteps
<1>4. CASE UNCHANGED <<shutdown, destroyed, pc>>
  BY <1>3, <1>4, Stays DEF watched
<1>5. CASE shutdown' = [shutdown EXCEPT ![q] = TRUE] /\ UNCHANGED <<destroyed, pc>>
  BY <1>1, <1>3, <1>5, Closes
<1>6. CASE Goto(Main, "stuck") /\ UNCHANGED <<shutdown, destroyed>>
  BY <1>2, <1>3, <1>6, MainOnlyMoves DEF watched
<1>7. CASE /\ destroyed' = [destroyed EXCEPT ![q] = TRUE]
           /\ Goto(Main, next)
           /\ UNCHANGED shutdown
  <2>1. DOMAIN destroyed' = Queues
        /\ \A p \in Queues : destroyed'[p] => destroyed[p] \/ p = q
    BY <1>7 DEF Inv, Order, Domains
  <2>2. MayDestroy(q, next)
    BY DEF MayDestroy
  <2> QED
    BY <1>3, <1>7, <2>1, <2>2, MainMoves
<1> QED
  BY <1>4, <1>5, <1>6, <1>7, FreeSteps

-----------------------------------------------------------------------------
(* The workers.                                                             *)

(* A put into an open queue is not refused.                                 *)
LEMMA OpenPut ==
  ASSUME NEW q, NEW x, ~shutdown[q], Strdup(q, x)
  PROVE  UNCHANGED refused
BY DEF Strdup, Put

(* Who hangs in array_put only moves.                                       *)
LEMMA PutHung ==
  /\ \A r : RequesterHangs(r) =>
       /\ pc[r] \in {"r_log", "r_put"} /\ Running /\ r # victim
       /\ destroyed["requester_log"] \/ destroyed["hostname"]
       /\ Goto(r, "stuck") /\ UNCHANGED <<watched, allButPc>>
  /\ \A s : ResolverHangs(s) =>
       /\ pc[s] = "s_log" /\ Running /\ s # victim
       /\ Goto(s, "stuck") /\ UNCHANGED <<watched, allButPc>>
  /\ QueueHangs =>
       /\ pc[Main] = "m_names" /\ Running /\ Main # victim /\ argi \in Files
       /\ Goto(Main, "stuck") /\ UNCHANGED <<watched, allButPc>>
BY DEF RequesterHangs, ResolverHangs, QueueHangs, PutHangs, Filled, At, allButPc,
       queues, quiet, watched

LEMMA ExitReaderStep ==
  ASSUME Inv, NEW r \in Requesters, ExitReader(r)
  PROVE  Inv'
<1> DEFINE l == IF LastReader THEN "r_free_hosts" ELSE "done"
<1>1. /\ pc[r] = "r_exit" /\ Goto(r, l)
      /\ UNCHANGED <<shutdown, destroyed, refused>>
      /\ active_file_readers' = active_file_readers - 1
  BY DEF ExitReader, At, queues
<1>2. DOMAIN pc' = Threads /\ \A u \in Threads : pc'[u] = IF u = r THEN l ELSE pc[u]
  BY <1>1, Roles DEF Goto, Inv, Order, Domains
<1>3. r \in Reading /\ Reading' = Reading \ {r}
  BY <1>1, <1>2, Roles DEF Reading
<1>4. Cardinality(Reading') = Cardinality(Reading) - 1
  BY <1>3, ReadingFinite, FS_RemoveElement
<1>5. active_file_readers' = Cardinality(Reading')
  BY <1>1, <1>4 DEF Inv, ReadersExact
<1>6. IsFiniteSet(Reading')
  BY <1>3, ReadingFinite, FS_Subset
<1>7. LastReader <=> Reading' = {}
  BY <1>5, <1>6, FS_EmptySet DEF LastReader
<1>8. \A u \in Requesters \ {r} : pc'[u] = pc[u]
  BY <1>2, Roles
<1>9. \A u \in Requesters : pc[u] \notin {"r_free_hosts", "r_free_log"}
  BY <1>3 DEF Inv, Order, LastReaderAlone
<1>10. pc'[Main] = pc[Main] /\ pc'[Handler] = pc[Handler]
       /\ \A s \in Resolvers : pc'[s] = pc[s]
  BY <1>2, Roles
<1>11. pc[Main] \notin BeforePC \cup AbortPC
  BY <1>1 DEF Inv, Order, Unstarted
<1>12. ~Gone(Requesters)
  BY <1>1 DEF Gone
<1>13. LastReaderAlone'
  <2> SUFFICES ASSUME NEW u \in Requesters, pc'[u] \in {"r_free_hosts", "r_free_log"}
               PROVE  (Reading = {})' /\ Gone(Requesters \ {u})'
    BY DEF LastReaderAlone
  <2>1. u = r
    BY <1>8, <1>9
  <2>2. Reading' = {}
    BY <2>1, <1>2, <1>7, Roles
  <2>3. \A w \in Requesters \ {r} : pc[w] \in FinishedPC
    BY <2>2, <1>3 DEF Reading, FinishedPC
  <2>4. \A w \in Requesters \ {r} : pc'[w] \in {"done", "uncreated"}
    BY <2>3, <1>8, <1>9 DEF FinishedPC
  <2> QED
    BY <2>1, <2>2, <2>4 DEF Gone
<1>14. ~shutdown["hostname"] /\ ~shutdown["requester_log"]
       /\ ~destroyed["hostname"] /\ ~destroyed["requester_log"]
  BY <1>3 DEF Inv, Order, ClosedToPutters, DestroyedAfter
<1>15. ClosedToPutters' /\ DestroyedAfter'
  BY <1>1, <1>10, <1>14 DEF Inv, Order, ClosedToPutters, DestroyedAfter, Gone
<1>16. Domains' /\ NoHandler' /\ OpenBefore' /\ Unstarted' /\ Joined'
  BY <1>1, <1>2, <1>10, <1>11, <1>12
     DEF Inv, Order, Domains, NoHandler, OpenBefore, Unstarted, Joined, Gone
<1>17. ReadersExact' /\ NothingRefused'
  BY <1>1, <1>5 DEF Inv, ReadersExact, NothingRefused
<1> QED
  BY <1>13, <1>15, <1>16, <1>17 DEF Inv, Order

(* The last reader, on its way from r_free_hosts to r_free_log to done.     *)
LEMMA LastReaderMoves ==
  ASSUME Inv, NEW r \in Requesters, NEW l \in {"r_free_log", "done"},
         pc[r] \in {"r_free_hosts", "r_free_log"}, Goto(r, l),
         UNCHANGED <<shutdown, active_file_readers, refused>>,
         DOMAIN destroyed' = Queues,
         \A q \in Queues : destroyed'[q] => destroyed[q] \/ q = "hostname"
                            \/ (q = "requester_log" /\ l = "done")
  PROVE  Inv'
<1>1. DOMAIN pc' = Threads /\ \A u \in Threads : pc'[u] = IF u = r THEN l ELSE pc[u]
  BY Roles DEF Goto, Inv, Order, Domains
<1>2. pc'[Main] = pc[Main] /\ pc'[Handler] = pc[Handler]
      /\ pc'[r] = l /\ \A s \in Resolvers : pc'[s] = pc[s]
  BY <1>1, Roles
<1>3. \A u \in Requesters \ {r} : pc'[u] = pc[u]
  BY <1>1, Roles
<1>4. Reading = {} /\ Gone(Requesters \ {r})
  BY DEF Inv, Order, LastReaderAlone
<1>5. \A u \in Requesters \ {r} : pc'[u] \in {"done", "uncreated"}
  BY <1>3, <1>4 DEF Gone
<1>6. Reading' = {}
  BY <1>2, <1>5 DEF Reading
<1>7. pc[Main] \notin BeforePC \cup AbortPC
  BY DEF Inv, Order, Unstarted
<1>8. ~Gone(Requesters)
  BY DEF Gone
<1>9. LastReaderAlone'
  BY <1>5, <1>6 DEF LastReaderAlone, Gone
<1>10. Gone(Resolvers) => Gone(Resolvers)'
  BY <1>2 DEF Gone
<1>11. Domains' /\ NoHandler' /\ Unstarted' /\ Joined'
  BY <1>1, <1>2, <1>7, <1>8
     DEF Inv, Order, Domains, NoHandler, Unstarted, Joined
<1>12. OpenBefore'
  BY <1>2, <1>7 DEF Inv, Order, OpenBefore
<1>13. ClosedToPutters'
  BY <1>6, <1>10 DEF Inv, Order, ClosedToPutters
<1>14. DestroyedAfter'
  BY <1>2, <1>5, <1>6 DEF Inv, Order, DestroyedAfter, Queues
<1>15. ReadersExact' /\ NothingRefused'
  BY <1>4, <1>6 DEF Inv, ReadersExact, NothingRefused
<1> QED
  BY <1>9, <1>11, <1>12, <1>13, <1>14, <1>15 DEF Inv, Order

LEMMA LastReaderFrees ==
  ASSUME Inv, NEW r \in Requesters, FreeHosts(r) \/ FreeReqLog(r)
  PROVE  Inv'
<1>1. PICK q \in {"hostname", "requester_log"}, l \in {"r_free_log", "done"} :
        /\ pc[r] = (IF q = "hostname" THEN "r_free_hosts" ELSE "r_free_log")
        /\ q = "requester_log" => l = "done"
        /\ Free(r, q, l)
  BY DEF FreeHosts, FreeReqLog, At
<1>2. q \in Queues /\ pc[r] \in {"r_free_hosts", "r_free_log"}
  BY <1>1 DEF Queues
<1>3. ~destroyed[q]
  BY <1>1 DEF Inv, Order, DestroyedAfter
<1>4. Reading = {} /\ pc[Main] \notin BeforePC
  BY <1>2 DEF Inv, Order, LastReaderAlone, Unstarted
<1>5. UNCHANGED <<active_file_readers, refused>>
  BY <1>1, FreeSteps
<1>6. CASE UNCHANGED <<shutdown, destroyed, pc>>
  BY <1>5, <1>6, Stays DEF watched
<1>7. CASE shutdown' = [shutdown EXCEPT ![q] = TRUE] /\ UNCHANGED <<destroyed, pc>>
  BY <1>2, <1>4, <1>5, <1>7, Closes
<1>8. CASE /\ destroyed' = [destroyed EXCEPT ![q] = TRUE]
           /\ Goto(r, l)
           /\ UNCHANGED shutdown
  <2>1. DOMAIN destroyed' = Queues
        /\ \A p \in Queues : destroyed'[p] => destroyed[p] \/ p = q
    BY <1>8 DEF Inv, Order, Domains
  <2> QED
    BY <1>1, <1>2, <1>5, <1>8, <2>1, LastReaderMoves
<1> QED
  BY <1>1, <1>3, <1>6, <1>7, <1>8, FreeSteps

LEMMA RequesterStep ==
  ASSUME Inv, NEW r \in Requesters, Requester(r)
  PROVE  Inv'
<1> r \in Workers /\ r \notin Resolvers
  BY Roles
<1>1. CASE RequestFile(r)
  <2>1. PICK l \in {"r_file", "stuck_get"} : Goto(r, l)
    BY <1>1 DEF RequestFile, Enter
  <2>2. pc[r] = "r_get" /\ UNCHANGED watched
    BY <1>1 DEF RequestFile, At, Enter, watched, allButPc, queues, quiet
  <2> QED
    BY <2>1, <2>2, WorkerMoves DEF FinishedPC
<1>2. CASE OpenFile(r)
  <2>1. PICK l \in {"r_read", "r_get"} : Goto(r, l)
    BY <1>2 DEF OpenFile, SkipFile
  <2>2. pc[r] = "r_file" /\ UNCHANGED watched
    BY <1>2 DEF OpenFile, At, watched, quiet
  <2> QED
    BY <2>1, <2>2, WorkerMoves DEF FinishedPC
<1>3. CASE ReadLine(r)
  <2>1. pc[r] = "r_read" /\ UNCHANGED watched
    BY <1>3 DEF ReadLine, At, watched, queues, quiet
  <2>2. UNCHANGED pc \/ \E l \in {"r_get", "r_log"} : Goto(r, l)
    BY <1>3 DEF ReadLine
  <2>3. CASE UNCHANGED pc
    BY <2>1, <2>3, Stays
  <2>4. ASSUME NEW l \in {"r_get", "r_log"}, Goto(r, l)
        PROVE  Inv'
    BY <2>1, <2>4, WorkerMoves DEF FinishedPC
  <2> QED
    BY <2>2, <2>3, <2>4
<1>4. CASE LogRequest(r) \/ PutHost(r)
  <2>1. PICK l \in {"r_put", "r_read"} : Goto(r, l)
    BY <1>4 DEF LogRequest, PutHost
  <2>2. PICK q \in {"requester_log", "hostname"} : Strdup(q, <<file[r], line[r]>>)
    BY <1>4 DEF LogRequest, PutHost
  <2>3. pc[r] \in {"r_log", "r_put"}
        /\ UNCHANGED <<shutdown, destroyed, active_file_readers>>
    BY <1>4 DEF LogRequest, PutHost, At, quiet
  <2>4. r \in Reading
    BY <2>3 DEF Reading
  <2>5. ~shutdown[q]
    BY <2>4 DEF Inv, Order, ClosedToPutters
  <2>6. UNCHANGED watched
    BY <2>2, <2>3, <2>5, OpenPut DEF watched
  <2> QED
    BY <2>1, <2>3, <2>6, WorkerMoves DEF FinishedPC
<1>5. CASE LeaveFiles(r)
  <2>1. pc[r] = "r_file" /\ Goto(r, "r_exit") /\ UNCHANGED watched
    BY <1>5 DEF LeaveFiles, At, watched, allButPc, queues, quiet
  <2> QED
    BY <2>1, WorkerMoves DEF FinishedPC
<1>6. CASE ExitReader(r)
  BY <1>6, ExitReaderStep
<1>7. CASE FreeHosts(r) \/ FreeReqLog(r)
  BY <1>7, LastReaderFrees
<1>8. CASE RequesterHangs(r)
  BY <1>8, PutHung, WorkerMoves DEF FinishedPC
<1> QED
  BY <1>1, <1>2, <1>3, <1>4, <1>5, <1>6, <1>7, <1>8 DEF Requester

LEMMA ResolverStep ==
  ASSUME Inv, NEW s \in Resolvers, Resolver(s)
  PROVE  Inv'
<1>1. s \in Workers /\ s \notin Requesters
  BY Roles
<1>2. PICK l : Goto(s, l)
  BY PutHung DEF Resolver, RequestHost, Enter, TakeHost, LogResolved, LeaveHosts
<1>3. pc[s] \in {"s_get", "s_host", "s_log"}
  BY PutHung DEF Resolver, RequestHost, TakeHost, LogResolved, LeaveHosts, At
<1>4. UNCHANGED <<shutdown, destroyed, active_file_readers>>
  BY PutHung DEF watched, Resolver, RequestHost, Enter, TakeHost, LogResolved, LeaveHosts,
         allButPc, queues, quiet
<1>5. ~shutdown["resolver_log"]
  BY <1>3 DEF Inv, Order, ClosedToPutters, Gone
<1>6. UNCHANGED refused
  BY <1>5, OpenPut, PutHung
     DEF watched, Resolver, RequestHost, Enter, TakeHost, LogResolved, LeaveHosts, allButPc
<1> QED
  BY <1>1, <1>2, <1>3, <1>4, <1>6, WorkerMoves DEF watched

LEMMA LoggerStep ==
  ASSUME Inv, NEW t \in Loggers, Logger(t)
  PROVE  Inv'
<1>1. t \in Workers /\ t \notin Requesters /\ t \notin Resolvers
  BY Roles
<1>2. PICK l : Goto(t, l)
  BY DEF Logger, RequestLine, Enter, WriteLine, LeaveLog
<1>3. UNCHANGED watched
  BY DEF Logger, RequestLine, Enter, WriteLine, LeaveLog, watched, allButPc,
         queues, quiet
<1> QED
  BY <1>1, <1>2, <1>3, WorkerMoves

-----------------------------------------------------------------------------
(* main.                                                                    *)

LEMMA StartLoggerStep ==
  ASSUME Inv, StartReqLogger \/ StartResLogger
  PROVE  Inv'
<1>1. PICK t \in Loggers, next \in {"m_reslog", "m_alloc"} :
        \/ pc' = [pc EXCEPT ![t] = "l_get", ![Main] = next]
        \/ Goto(Main, "a_first")
  BY DEF StartReqLogger, StartResLogger, StartLogger, Loggers
<1>2. pc[Main] \in BeforePC /\ UNCHANGED watched
  BY DEF StartReqLogger, StartResLogger, StartLogger, At, BeforePC, watched,
         allButPc, queues, quiet
<1>3. CASE Goto(Main, "a_first")
  BY <1>2, <1>3, MainOnlyMoves DEF MayGoTo, AbortPC, BeforePC
<1>4. CASE pc' = [pc EXCEPT ![t] = "l_get", ![Main] = next]
  <2>1. DOMAIN pc' = Threads /\ pc'[Main] = next /\ next \in BeforePC
        /\ \A u \in Threads \ {t, Main} : pc'[u] = pc[u]
    BY <1>4, Roles DEF Inv, Order, Domains, BeforePC
  <2>2. pc'[Handler] = pc[Handler]
        /\ \A u \in Requesters \cup Resolvers : pc'[u] = pc[u]
    BY <2>1, Roles
  <2>3. Reading' = Reading
    BY <2>2 DEF Reading
  <2>4. \A u \in Requesters \cup Resolvers : pc[u] = "uncreated"
    BY <1>2 DEF Inv, Order, Unstarted
  <2>5. pc'[Main] \in BeforePC
        /\ pc'[Main] \notin {"m_names", "m_join_res", "m_free_reqlog",
                              "m_free_reslog", "m_join_log"}
    BY <2>1 DEF BeforePC
  <2>6. Order'
    BY <1>2, <2>1, <2>2, <2>3, <2>4, <2>5
       DEF Inv, Order, Domains, NoHandler, Unstarted, OpenBefore, LastReaderAlone,
           ClosedToPutters, DestroyedAfter, Joined, Gone, watched
  <2> QED
    BY <1>2, <2>3, <2>6 DEF Inv, ReadersExact, NothingRefused, watched
<1> QED
  BY <1>1, <1>3, <1>4

LEMMA CreateRequestersStep ==
  ASSUME Inv, CreateRequesters
  PROVE  Inv'
<1>1. PICK failed \in SUBSET (CreateFails \cap Requesters) :
        /\ active_file_readers' = Cardinality(Requesters) - Cardinality(failed)
        /\ pc' = [t \in Threads |->
                   CASE t \in Requesters \ failed -> "r_get"
                     [] t = Main                  -> "m_names"
                     [] OTHER                     -> pc[t]]
  BY DEF CreateRequesters, ReadersStarted
<1>2. pc[Main] \in BeforePC /\ UNCHANGED <<shutdown, destroyed, refused>>
  BY DEF CreateRequesters, At, BeforePC, queues
<1>3. \A t \in Requesters \cup Resolvers : pc[t] = "uncreated"
  BY <1>2 DEF Inv, Order, Unstarted
<1>4. pc'[Main] = "m_names" /\ pc'[Handler] = pc[Handler] /\ DOMAIN pc' = Threads
  BY <1>1, Roles
<1>5. \A r \in Requesters : pc'[r] = IF r \in failed THEN "uncreated" ELSE "r_get"
  BY <1>1, <1>3, Roles
<1>6. \A s \in Resolvers : pc'[s] = "uncreated"
  BY <1>1, <1>3, Roles
<1>7. Reading' = Requesters \ failed
  BY <1>5 DEF Reading
<1>8. Cardinality(Reading') = Cardinality(Requesters) - Cardinality(failed)
  <2>1. failed \subseteq Requesters
    OBVIOUS
  <2>2. Requesters \cap failed = failed
    BY <2>1
  <2>3. Cardinality(Requesters \ failed)
          = Cardinality(Requesters) - Cardinality(Requesters \cap failed)
    BY ThreadAssumption, FS_Difference
  <2> QED
    BY <1>7, <2>2, <2>3
<1>9. \A q \in Queues : ~shutdown[q] /\ ~destroyed[q]
  BY <1>2 DEF Inv, Order, OpenBefore
<1>10. Domains' /\ NoHandler' /\ Unstarted' /\ OpenBefore' /\ LastReaderAlone'
       /\ Joined'
  BY <1>2, <1>4, <1>5, <1>9
     DEF Inv, Order, Domains, NoHandler, Unstarted, OpenBefore, LastReaderAlone,
         Joined, BeforePC, AbortPC, Queues
<1>11. ClosedToPutters' /\ DestroyedAfter'
  BY <1>2, <1>9 DEF ClosedToPutters, DestroyedAfter, Queues
<1>12. ReadersExact' /\ NothingRefused'
  BY <1>1, <1>2, <1>8 DEF Inv, ReadersExact, NothingRefused
<1> QED
  BY <1>10, <1>11, <1>12 DEF Inv, Order

LEMMA CreateResolversStep ==
  ASSUME Inv, CreateResolvers
  PROVE  Inv'
<1>1. /\ pc[Main] = "m_names" /\ UNCHANGED watched
      /\ \A t \in Threads \ (Resolvers \cup {Main}) : pc'[t] = pc[t]
      /\ pc'[Main] = "m_free_names" /\ DOMAIN pc' = Threads
  BY Roles DEF CreateResolvers, At, watched, allButPc, queues, quiet
<1>2. pc'[Handler] = pc[Handler] /\ \A r \in Requesters : pc'[r] = pc[r]
  BY <1>1, Roles
<1>3. Reading' = Reading
  BY <1>2 DEF Reading
<1>4. ~shutdown["resolver_log"]
  BY <1>1 DEF Inv, Order, OpenBefore
<1>5. Domains' /\ NoHandler' /\ Unstarted' /\ OpenBefore' /\ Joined'
  BY <1>1, <1>2 DEF Inv, Order, Domains, NoHandler, Unstarted, OpenBefore, Joined,
                    BeforePC, AbortPC, watched
<1>6. LastReaderAlone'
  BY <1>2, <1>3 DEF Inv, Order, LastReaderAlone, Gone
<1>7. ClosedToPutters' /\ DestroyedAfter'
  BY <1>1, <1>2, <1>3, <1>4 DEF Inv, Order, ClosedToPutters, DestroyedAfter, watched
<1>8. ReadersExact' /\ NothingRefused'
  BY <1>1, <1>3 DEF Inv, ReadersExact, NothingRefused, watched
<1> QED
  BY <1>5, <1>6, <1>7, <1>8 DEF Inv, Order

LEMMA QueueNameStep ==
  ASSUME Inv, QueueName
  PROVE  Inv'
<1>1. pc[Main] = "m_names" /\ UNCHANGED <<shutdown, destroyed, active_file_readers, pc>>
  BY DEF QueueName, At, quiet
<1>2. ~shutdown["filename"]
  BY <1>1 DEF Inv, Order, OpenBefore
<1>3. UNCHANGED refused
  BY <1>2, OpenPut DEF QueueName
<1> QED
  BY <1>1, <1>3, Stays DEF watched

(* The steps that only move main, with what it knows by then.               *)
LEMMA MainOnlyStep ==
  ASSUME Inv, CheckArguments \/ CountValid \/ OpenLogs \/ AllocateThreads
                \/ QueueHangs \/ JoinRequesters \/ JoinResolvers \/ JoinLoggers
  PROVE  Inv'
<1>1. UNCHANGED watched
  BY PutHung DEF CheckArguments, CountValid, OpenLogs, AllocateThreads, JoinRequesters,
         JoinResolvers, JoinLoggers, Join, watched, allButPc, queues, quiet
<1>2. CASE CheckArguments \/ CountValid \/ OpenLogs
  <2>1. PICK l \in {"m_count", "m_open", "m_reqlog", "exit_failure"} : Goto(Main, l)
    BY <1>2 DEF CheckArguments, CountValid, OpenLogs
  <2>2. pc[Main] \in BeforePC
    BY <1>2 DEF CheckArguments, CountValid, OpenLogs, At, BeforePC
  <2>3. MayGoTo(l)
    BY <2>2 DEF MayGoTo, AbortPC, BeforePC
  <2> QED
    BY <1>1, <2>1, <2>3, MainOnlyMoves
<1>3. CASE AllocateThreads
  <2>1. PICK l \in {"m_create", "a_first"} : Goto(Main, l)
    BY <1>3 DEF AllocateThreads
  <2>2. pc[Main] \in BeforePC
    BY <1>3 DEF AllocateThreads, At, BeforePC
  <2>3. MayGoTo(l)
    BY <2>2 DEF MayGoTo, AbortPC, BeforePC
  <2> QED
    BY <1>1, <2>1, <2>3, MainOnlyMoves
<1>4. MayGoTo("crashed") /\ MayGoTo("exit")
  BY DEF MayGoTo, AbortPC, BeforePC
<1>5. CASE JoinRequesters
  <2>1. Goto(Main, "crashed") \/ (Goto(Main, "m_join_res") /\ Gone(Requesters))
    BY <1>5 DEF JoinRequesters, Join, Gone
  <2>2. Gone(Requesters) => MayGoTo("m_join_res")
    BY DEF MayGoTo, AbortPC, BeforePC
  <2> QED
    BY <1>1, <1>4, <2>1, <2>2, MainOnlyMoves
<1>6. CASE JoinResolvers
  <2>1. Goto(Main, "crashed") \/ (Goto(Main, "m_free_reqlog") /\ Gone(Resolvers))
    BY <1>6 DEF JoinResolvers, Join, Gone
  <2>2. Gone(Requesters)
    BY <1>6 DEF JoinResolvers, Join, At, Inv, Order, Joined
  <2>3. Gone(Resolvers) => MayGoTo("m_free_reqlog")
    BY <2>2 DEF MayGoTo, AbortPC, BeforePC
  <2> QED
    BY <1>1, <1>4, <2>1, <2>3, MainOnlyMoves
<1>7. CASE JoinLoggers
  BY <1>1, <1>4, <1>7, MainOnlyMoves DEF JoinLoggers, Join
<1>8. CASE QueueHangs
  <2>1. Goto(Main, "stuck")
    BY <1>8, PutHung
  <2>2. MayGoTo("stuck")
    BY DEF MayGoTo, AbortPC, BeforePC
  <2> QED
    BY <1>1, <2>1, <2>2, MainOnlyMoves
<1> QED
  BY <1>2, <1>3, <1>5, <1>6, <1>7, <1>8

LEMMA MainFreeStep ==
  ASSUME Inv, CleanUp \/ FreeNames \/ FreeReqLogAgain \/ FreeResLog
  PROVE  Inv'
<1>1. CASE CleanUp
  <2> DEFINE at == <<"a_first", "a_second", "a_third", "a_fourth", "exit_failure">>
  <2>1. PICK i \in 1 .. 4 : pc[Main] = at[i] /\ Free(Main, FreeOrder[i], at[i + 1])
    BY <1>1 DEF CleanUp, FreeAll, At
  <2>2. at[i] \in AbortPC /\ at[i + 1] \in AbortPC /\ FreeOrder[i] \in Queues
    BY <2>1 DEF AbortPC, FreeOrder, Queues
  <2>3. PICK q \in Queues, l \in AbortPC : Free(Main, q, l)
    BY <2>1, <2>2
  <2>4. pc[Main] \in AbortPC
    BY <2>1, <2>2
  <2>5. Gone(Requesters) /\ Gone(Resolvers)
    BY <2>4 DEF Inv, Order, Unstarted, Gone
  <2>6. MayGoTo(l) /\ l \notin BeforePC /\ pc[Main] \notin BeforePC \cup {"m_names"}
    BY <2>4, <2>5 DEF MayGoTo, AbortPC, BeforePC
  <2> QED
    BY <2>3, <2>5, <2>6, MainFrees
<1>2. CASE FreeNames
  <2>1. pc[Main] = "m_free_names" /\ Free(Main, "filename", "m_join_req")
    BY <1>2 DEF FreeNames, At
  <2>2. MayGoTo("m_join_req")
    BY DEF MayGoTo, AbortPC, BeforePC
  <2> QED
    BY <2>1, <2>2, MainFrees DEF BeforePC, Queues
<1>3. CASE FreeReqLogAgain
  <2>1. pc[Main] = "m_free_reqlog" /\ Free(Main, "requester_log", "m_free_reslog")
    BY <1>3 DEF FreeReqLogAgain, At
  <2>2. Gone(Requesters) /\ Gone(Resolvers)
    BY <2>1 DEF Inv, Order, Joined
  <2>3. MayGoTo("m_free_reslog")
    BY <2>2 DEF MayGoTo, AbortPC, BeforePC
  <2> QED
    BY <2>1, <2>2, <2>3, MainFrees DEF BeforePC, Queues
<1>4. CASE FreeResLog
  <2>1. pc[Main] = "m_free_reslog" /\ Free(Main, "resolver_log", "m_join_log")
    BY <1>4 DEF FreeResLog, At
  <2>2. Gone(Requesters) /\ Gone(Resolvers)
    BY <2>1 DEF Inv, Order, Joined
  <2>3. MayGoTo("m_join_log")
    BY <2>2 DEF MayGoTo, AbortPC, BeforePC
  <2> QED
    BY <2>1, <2>2, <2>3, MainFrees DEF BeforePC, Queues
<1> QED
  BY <1>1, <1>2, <1>3, <1>4

-----------------------------------------------------------------------------
LEMMA InvInit == Init => Inv
<1> SUFFICES ASSUME Init PROVE Inv
  OBVIOUS
<1>1. DOMAIN pc = Threads /\ pc[Main] = "m_args"
      /\ \A t \in Threads \ {Main} : pc[t] = "uncreated"
  BY Roles DEF Init
<1>2. pc[Handler] = "uncreated"
      /\ \A t \in Requesters \cup Resolvers : pc[t] = "uncreated"
  BY <1>1, Roles
<1>3. Reading = {}
  BY <1>2 DEF Reading
<1>4. DOMAIN shutdown = Queues /\ DOMAIN destroyed = Queues
      /\ \A q \in Queues : ~shutdown[q] /\ ~destroyed[q]
  BY DEF Init
<1>5. Order
  BY <1>1, <1>2, <1>3, <1>4
     DEF Order, Domains, NoHandler, Unstarted, OpenBefore, LastReaderAlone,
         ClosedToPutters, DestroyedAfter, Joined, BeforePC, Queues
<1>6. ReadersExact /\ NothingRefused
  BY <1>3, ReadingFinite DEF Init, ReadersExact, NothingRefused
<1> QED
  BY <1>5, <1>6 DEF Inv

LEMMA InvStep ==
  ASSUME Inv, [Next]_vars, victim' = None
  PROVE  Inv'
<1>1. CASE MainThread
  BY <1>1, MainOnlyStep, MainFreeStep, StartLoggerStep, CreateRequestersStep,
     QueueNameStep, CreateResolversStep DEF MainThread
<1>2. ASSUME NEW r \in Requesters, Requester(r) PROVE Inv'
  BY <1>2, RequesterStep
<1>3. ASSUME NEW s \in Resolvers, Resolver(s) PROVE Inv'
  BY <1>3, ResolverStep
<1>4. ASSUME NEW t \in Loggers, Logger(t) PROVE Inv'
  BY <1>4, LoggerStep
<1>5. ~SignalHandler
  BY DEF SignalHandler, HandlerFrees, HandlerExits, FreeAll, At, Inv, Order, NoHandler
<1>6. \A t \in Interrupted : ~Interrupt(t)
  BY Roles, FaultAssumption, ThreadAssumption DEF Interrupt
<1>7. CASE UNCHANGED vars
  BY <1>7, Stays DEF vars, allButPc, queues, quiet, watched
<1> QED
  BY <1>1, <1>2, <1>3, <1>4, <1>5, <1>6, <1>7 DEF Next, Ended

(* Only the arrival of a signal makes a victim.                             *)
LEMMA SignalSame ==
  ASSUME [Next]_vars
  PROVE  UNCHANGED signal \/ \E t \in Interrupted : Interrupt(t)
<1>1. ASSUME NEW t, NEW q, NEW next, Free(t, q, next) PROVE UNCHANGED signal
  BY <1>1 DEF Free, signal
<1>2. MainThread => UNCHANGED signal
  <2>1. CleanUp \/ FreeNames \/ FreeReqLogAgain \/ FreeResLog => UNCHANGED signal
    BY <1>1 DEF CleanUp, FreeAll, FreeNames, FreeReqLogAgain, FreeResLog
  <2>2. CheckArguments \/ CountValid \/ OpenLogs \/ StartReqLogger \/ StartResLogger
          \/ AllocateThreads \/ JoinRequesters \/ JoinResolvers \/ JoinLoggers
          \/ CreateResolvers => UNCHANGED signal
    BY DEF CheckArguments, CountValid, OpenLogs, StartReqLogger, StartResLogger,
           StartLogger, AllocateThreads, JoinRequesters, JoinResolvers, JoinLoggers,
           Join, CreateResolvers, allButPc, quiet, signal
  <2>3. QueueName \/ CreateRequesters => UNCHANGED signal
    BY DEF QueueName, CreateRequesters, quiet, signal
  <2>4. QueueHangs => UNCHANGED signal
    BY PutHung DEF allButPc, quiet
  <2> QED
    BY <2>1, <2>2, <2>3, <2>4 DEF MainThread
<1>3. ASSUME NEW r \in Requesters, Requester(r) PROVE UNCHANGED signal
  <2>1. FreeHosts(r) \/ FreeReqLog(r) => UNCHANGED signal
    BY <1>1 DEF FreeHosts, FreeReqLog
  <2>2. RequesterHangs(r) => UNCHANGED signal
    BY PutHung DEF allButPc, quiet
  <2> QED
    BY <1>3, <2>1, <2>2
    DEF Requester, RequestFile, OpenFile, ReadLine, LogRequest, PutHost, LeaveFiles,
        ExitReader, Enter, allButPc, quiet, signal
<1>4. ASSUME NEW s \in Resolvers, Resolver(s) PROVE UNCHANGED signal
  BY <1>4, PutHung DEF Resolver, RequestHost, Enter, TakeHost, LogResolved, LeaveHosts,
              allButPc, quiet, signal
<1>5. ASSUME NEW t \in Loggers, Logger(t) PROVE UNCHANGED signal
  BY <1>5 DEF Logger, RequestLine, Enter, WriteLine, LeaveLog, allButPc, quiet, signal
<1>6. SignalHandler => UNCHANGED signal
  BY <1>1 DEF SignalHandler, HandlerFrees, FreeAll, HandlerExits, quiet, signal
<1>8. UNCHANGED vars => UNCHANGED signal
  BY DEF vars, allButPc, quiet, signal
<1> QED
  BY <1>2, <1>3, <1>4, <1>5, <1>6, <1>8 DEF Next, Ended

(* A thread that was interrupted stays so.                                  *)
LEMMA VictimForGood ==
  ASSUME [Next]_vars
  PROVE  /\ victim # None => victim' = victim
         /\ victim' # victim => victim' \in Interrupted
  BY SignalSame DEF signal, Interrupt

(* Up to the moment a signal arrives.                                       *)
LEMMA InvUntilSignal == Spec => [](victim = None => Inv)
<1>1. (victim = None => Inv) /\ [Next]_vars => (victim = None => Inv)'
  BY InvStep, VictimForGood
<1> QED
  BY <1>1, InvInit, PTL DEF Spec

LEMMA NoSignal ==
  ASSUME Interrupted = {}
  PROVE  Spec => [](victim = None)
<1>1. Init => victim = None
  BY DEF Init
<1>2. victim = None /\ [Next]_vars => (victim = None)'
  BY VictimForGood
<1> QED
  BY <1>1, <1>2, PTL DEF Spec

(* Without a signal nothing is ever put into a queue that has been shut     *)
(* down: the paths that free a string array_put did not take are not run.   *)
THEOREM NeverRefused ==
  ASSUME Interrupted = {}
  PROVE  Spec => []NothingRefused
<1>1. Inv => NothingRefused
  BY DEF Inv
<1> QED
  BY <1>1, InvUntilSignal, NoSignal, PTL

(* The count that decides who frees the hostname queue (dnsthreaded.c:467)  *)
(* is the number of requesters still reading, whichever could be created.   *)
THEOREM ReadersCorrect ==
  ASSUME Interrupted = {}
  PROVE  Spec => []ReadersExact
<1>1. Inv => ReadersExact
  BY DEF Inv
<1> QED
  BY <1>1, InvUntilSignal, NoSignal, PTL
=============================================================================
