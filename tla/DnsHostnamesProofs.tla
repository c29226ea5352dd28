------------------------- MODULE DnsHostnamesProofs -------------------------
(***************************************************************************)
(* Where the hostnames go: each is handed on once, the logs are in order   *)
(* and complete when the program exits, and the program answers as         *)
(* HostLookup promises; the counters agree with the logs, and every step   *)
(* leaves less to do.  For every number of threads, every input, every     *)
(* queue size and every fault and signal DnsThreaded knows.                *)
(*                                                                         *)
(* A hostname is behind the requesters when no file name yet to be queued, *)
(* queued, or being read can produce it any more.  What has been passed to *)
(* the resolvers is behind, so nothing is passed twice; without faults or  *)
(* a signal what is behind has been passed, so nothing is lost; and what   *)
(* has been passed was recorded in the requester log first.                *)
(***************************************************************************)
EXTENDS DnsPipelineProofs

(* The file names are queued, and the files read, once.                     *)
Reads ==
  /\ IsInjective(items["filename"])
  /\ \A f \in Range(items["filename"]) : f < argi
  /\ \A r \in Requesters : Busy(r) =>
       /\ file[r] < argi
       /\ file[r] \notin Range(items["filename"])
       /\ \A u \in Requesters : Busy(u) /\ file[u] = file[r] => u = r

Behind(x) ==
  /\ x[1] < argi
  /\ x[1] \notin Range(items["filename"])
  /\ \A r \in Requesters : Busy(r) /\ file[r] = x[1] => x[2] < line[r]

(* Behind what has been given to the requester log, one line before the     *)
(* hostname queue.                                                          *)
Requested(x) ==
  /\ x[1] < argi
  /\ x[1] \notin Range(items["filename"])
  /\ \A r \in Requesters : Busy(r) /\ file[r] = x[1] =>
       x[2] < line[r] \/ (x[2] = line[r] /\ pc[r] = "r_put")

LEMMA GroundFacts ==
  ASSUME Ground
  PROVE  /\ Launch /\ Typed
         /\ argi \in Nat /\ "filename" \in Queues
         /\ items["filename"] \in Seq(Files) /\ Range(items["filename"]) \subseteq Nat
         /\ \A r \in Requesters : line[r] \in Nat /\ file[r] \in Nat
         /\ \A r \in Requesters : Busy(r) => file[r] \in Files /\ line[r] # 0
<1>1. Launch /\ Typed
  BY DEF Ground
<1>2. items["filename"] \in Seq(Files) /\ argi \in Nat
  BY <1>1 DEF Typed, ItemsTyped, Launch
<1>3. Files \subseteq Nat
  BY InputShape
<1>4. Range(items["filename"]) \subseteq Nat
  BY <1>2, <1>3, RangeIs
<1>5. file \in [Requesters -> Files \cup {0}] /\ line \in [Requesters -> Nat]
  BY <1>1 DEF Typed
<1>6. \A r \in Requesters : Busy(r) => file[r] \in Files /\ line[r] # 0
  BY <1>1 DEF Typed
<1>7. \A r \in Requesters : line[r] \in Nat /\ file[r] \in Nat
  <2>1. \A r \in Requesters : line[r] \in Nat /\ file[r] \in Files \cup {0}
    BY <1>5
  <2>2. Files \cup {0} \subseteq Nat
    BY <1>3
  <2> QED
    BY <2>1, <2>2
<1> QED
  BY <1>1, <1>2, <1>4, <1>6, <1>7 DEF Queues

(* What a step does to the requesters and the files they read.              *)
ReaderSame ==
  /\ UNCHANGED <<argi, file, line>>
  /\ items'["filename"] = items["filename"]
  /\ \A r \in Requesters : /\ Busy(r)' <=> Busy(r)
                           /\ pc'[r] = "r_put" <=> pc[r] = "r_put"
NameQueued ==
  /\ pc[Main] = "m_names"
  /\ argi \in Files /\ argi' = argi + 1 /\ UNCHANGED <<pc, file, line>>
  /\ \/ items'["filename"] = Append(items["filename"], argi)
     \/ /\ items'["filename"] = items["filename"]
        /\ MayFail(argi) \/ AllocFails \/ shutdown["filename"]
NameTaken(r) ==
  /\ OpenFile(r)
  /\ items["filename"] # <<>> /\ items'["filename"] = Tail(items["filename"])
  /\ pc[r] = "r_file" /\ UNCHANGED argi
  /\ \/ /\ Moved(r, "r_read")
        /\ \A u \in Requesters :
             /\ file'[u] = IF u = r THEN Head(items["filename"]) ELSE file[u]
             /\ line'[u] = IF u = r THEN 1 ELSE line[u]
     \/ Moved(r, "r_get") /\ UNCHANGED <<file, line>> /\ MayFail(Head(items["filename"]))
LineRead(r) ==
  /\ items'["filename"] = items["filename"]
  /\ UNCHANGED <<argi, file>>
  /\ \/ /\ pc[r] = "r_read" /\ Moved(r, "r_get") /\ UNCHANGED line
        /\ line[r] > Len(Lines[file[r]])
     \/ /\ pc[r] = "r_read" /\ UNCHANGED pc /\ <<file[r], line[r]>> \notin Hosts
        /\ \A u \in Requesters : line'[u] = IF u = r THEN line[r] + 1 ELSE line[u]
     \/ /\ pc[r] = "r_log" /\ Moved(r, "r_put") /\ UNCHANGED line
     \/ /\ pc[r] = "r_put" /\ Moved(r, "r_read")
        /\ \A u \in Requesters : line'[u] = IF u = r THEN line[r] + 1 ELSE line[u]

ReaderHangs(r) ==
  /\ RequesterHangs(r) /\ Moved(r, "stuck")
  /\ UNCHANGED <<argi, file, line>> /\ items'["filename"] = items["filename"]

LEMMA QueueNameReads ==
  ASSUME Ground, QueueName
  PROVE  NameQueued
<1>1. Strdup("filename", argi) =>
        Appended("filename", argi) \/ (UNCHANGED items /\ (AllocFails \/ shutdown["filename"]))
  BY StrdupDoes, GroundFacts
<1>2. /\ pc[Main] = "m_names"
      /\ argi \in Files /\ argi' = argi + 1 /\ UNCHANGED <<pc, file, line>>
      /\ Strdup("filename", argi) \/ (UNCHANGED items /\ MayFail(argi))
  BY DEF QueueName, At
<1> QED
  BY <1>1, <1>2, GroundFacts DEF NameQueued, Appended

LEMMA PutHostReads ==
  ASSUME Ground, NEW r \in Requesters, PutHost(r)
  PROVE  LineRead(r)
<1>1. /\ pc[r] = "r_put" /\ UNCHANGED <<argi, file>> /\ Moved(r, "r_read")
      /\ \A u \in Requesters : line'[u] = IF u = r THEN line[r] + 1 ELSE line[u]
      /\ Appended("hostname", <<file[r], line[r]>>) \/ UNCHANGED items
  BY PutHostDoes, GroundFacts
<1>2. items'["filename"] = items["filename"]
  BY <1>1, GroundFacts DEF Appended
<1> QED
  BY <1>1, <1>2 DEF LineRead

LEMMA ReaderSteps ==
  ASSUME Ground, [Next]_vars
  PROVE  \/ ReaderSame
         \/ NameQueued
         \/ \E r \in Requesters : NameTaken(r) \/ LineRead(r) \/ ReaderHangs(r)
<1> Launch /\ Typed /\ "filename" \in Queues
  BY GroundFacts
<1>1. CASE Still
  BY <1>1 DEF Still, ReaderSame, Busy
<1>2. CASE QueueName
  BY <1>2, QueueNameReads
<1>3. ASSUME NEW r \in Requesters, OpenFile(r) PROVE NameTaken(r)
  BY <1>3, OpenFileDoes DEF NameTaken, Removed
<1>4. ASSUME NEW r \in Requesters, ReadLine(r) PROVE ReaderSame \/ LineRead(r)
  <2>1. /\ pc[r] = "r_read" /\ UNCHANGED <<items, argi, file>>
        /\ \/ UNCHANGED line /\ Moved(r, "r_get") /\ line[r] > Len(Lines[file[r]])
           \/ UNCHANGED line /\ Moved(r, "r_log")
           \/ /\ UNCHANGED pc /\ <<file[r], line[r]>> \notin Hosts
              /\ \A u \in Requesters : line'[u] = IF u = r THEN line[r] + 1 ELSE line[u]
    BY <1>4, ReadLineDoes
  <2>2. CASE UNCHANGED line /\ Moved(r, "r_log")
    BY <2>1, <2>2, Roles DEF ReaderSame, Moved, Busy
  <2> QED
    BY <2>1, <2>2 DEF LineRead
<1>5. ASSUME NEW r \in Requesters, LogRequest(r) PROVE LineRead(r)
  <2>1. pc[r] = "r_log" /\ UNCHANGED <<argi, file, line>> /\ Moved(r, "r_put")
        /\ (Appended("requester_log", <<file[r], line[r]>>) \/ UNCHANGED items)
    BY <1>5, LogRequestDoes
  <2>2. items'["filename"] = items["filename"]
    BY <2>1 DEF Appended
  <2> QED
    BY <2>1, <2>2 DEF LineRead
<1>6. ASSUME NEW r \in Requesters, PutHost(r) PROVE LineRead(r)
  BY <1>6, PutHostReads
<1>7. ASSUME NEW s \in Resolvers, TakeHost(s) \/ LogResolved(s) PROVE ReaderSame
  <2>1. /\ UNCHANGED <<argi, file, line>>
        /\ Moved(s, "s_log") \/ Moved(s, "s_get")
        /\ Removed("hostname") \/ Appended("resolver_log", host[s]) \/ UNCHANGED items
    BY <1>7, TakeHostDoes, LogResolvedDoes
  <2> QED
    BY <2>1, Roles DEF ReaderSame, Moved, Busy, Removed, Appended
<1>8. ASSUME NEW t \in Loggers, WriteLine(t) PROVE ReaderSame
  <2>1. /\ UNCHANGED <<argi, file, line>> /\ Moved(t, "l_get") /\ Removed(LogQueue[t])
        /\ LogQueue[t] # "filename"
    BY <1>8, WriteLineDoes
  <2> QED
    BY <2>1, Roles DEF ReaderSame, Moved, Busy, Removed
<1>9. CASE HandlerExits
  <2>1. UNCHANGED <<items, argi, file, line>> /\ Moved(Main, "exit_signal")
    BY <1>9, HandlerExitsDoes
  <2> QED
    BY <2>1, Roles DEF ReaderSame, Moved, Busy
<1>10. ASSUME NEW r \in Requesters, RequesterHangs(r) PROVE ReaderHangs(r)
  BY <1>10, HangsDoes DEF ReaderHangs
<1> QED
  BY <1>1, <1>2, <1>3, <1>4, <1>5, <1>6, <1>7, <1>8, <1>9, <1>10, StillSteps DEF Moving

(* After that it reads no more, and what it was at is lost; it happens only *)
(* after a signal.                                                          *)
LEMMA HangsLate ==
  ASSUME Ground, NEW r \in Requesters, ReaderHangs(r)
  PROVE  /\ victim # None
         /\ \A u \in Requesters : /\ Busy(u)' => Busy(u)
                                  /\ pc'[u] = "r_put" => pc[u] = "r_put"
                                  /\ Busy(u)' => pc'[u] = pc[u]
<1>1. Moved(r, "stuck")
  BY DEF ReaderHangs
<1>2. pc[r] \in {"r_log", "r_put"} /\ (destroyed["requester_log"] \/ destroyed["hostname"])
  BY PutHung DEF ReaderHangs
<1>3. victim # None
  BY <1>2, Roles DEF Ground, Inv, Order, DestroyedAfter, Reading
<1> QED
  BY <1>1, <1>3, Roles DEF Moved, Busy

LEMMA ReadsStep ==
  ASSUME Ground, Reads, [Next]_vars
  PROVE  Reads'
<1> DEFINE F == items["filename"]
<1>0. /\ F \in Seq(Files) /\ Range(F) \subseteq Nat /\ argi \in Nat /\ IsInjective(F)
      /\ \A f \in Range(F) : f < argi
      /\ \A r \in Requesters : file[r] \in Nat
      /\ \A r \in Requesters : Busy(r) =>
           /\ file[r] < argi /\ file[r] \notin Range(F)
           /\ \A u \in Requesters : Busy(u) /\ file[u] = file[r] => u = r
  BY GroundFacts DEF Reads
<1>1. CASE ReaderSame
  BY <1>0, <1>1 DEF Reads, ReaderSame
<1>2. CASE NameQueued
  <2>1. /\ argi \in Files /\ argi' = argi + 1
        /\ \A r \in Requesters : Busy(r)' = Busy(r) /\ file'[r] = file[r]
    BY <1>2 DEF NameQueued, Busy
  <2>2. CASE F' = F
    BY <1>0, <2>1, <2>2 DEF Reads
  <2>3. CASE F' = Append(F, argi)
    <3>1. argi \notin Range(F)
      BY <1>0
    <3>2. IsInjective(F') /\ Range(F') = Range(F) \cup {argi}
      <4> HIDE DEF F
      <4> QED
        BY <1>0, <2>1, <2>3, <3>1, AppendElements
    <3> QED
      BY <1>0, <2>1, <3>2 DEF Reads
  <2> QED
    BY <1>2, <2>2, <2>3 DEF NameQueued
<1>3. ASSUME NEW r \in Requesters, NameTaken(r) PROVE Reads'
  <2>1. F # <<>> /\ F' = Tail(F) /\ pc[r] = "r_file" /\ UNCHANGED argi
    BY <1>3 DEF NameTaken
  <2>2. /\ IsInjective(F') /\ Range(F) = Range(F') \cup {Head(F)}
        /\ Head(F) \notin Range(F')
    <3> HIDE DEF F
    <3> QED
      BY <1>0, <2>1, TailElements
  <2>3. ~Busy(r)
    BY <2>1 DEF Busy
  <2>4. CASE Moved(r, "r_get") /\ UNCHANGED <<file, line>>
    <3>1. \A u \in Requesters : Busy(u)' => Busy(u)
      BY <2>4, Roles DEF Busy, Moved
    <3> QED
      BY <1>0, <2>1, <2>2, <2>4, <3>1 DEF Reads
  <2>5. CASE /\ Moved(r, "r_read")
             /\ \A u \in Requesters : file'[u] = IF u = r THEN Head(F) ELSE file[u]
    <3>1. \A u \in Requesters \ {r} : (Busy(u)' => Busy(u)) /\ file'[u] = file[u]
      BY <2>5, Roles DEF Busy, Moved
    <3>2. file'[r] = Head(F)
      BY <2>5
    <3>3. \A u \in Requesters \ {r} : Busy(u)' => file'[u] \notin Range(F)
      BY <1>0, <3>1
    <3> HIDE DEF F
    <3> QED
      BY <1>0, <2>1, <2>2, <3>1, <3>2, <3>3 DEF Reads, F
  <2> QED
    BY <1>3, <2>4, <2>5 DEF NameTaken
<1>4. ASSUME NEW r \in Requesters, LineRead(r) PROVE Reads'
  <2>1. F' = F /\ UNCHANGED <<argi, file>>
    BY <1>4 DEF LineRead
  <2>2. \A u \in Requesters : Busy(u)' => Busy(u)
    BY <1>4, Roles DEF LineRead, Moved, Busy
  <2> QED
    BY <1>0, <2>1, <2>2 DEF Reads
<1>5. ASSUME NEW r \in Requesters, ReaderHangs(r) PROVE Reads'
  BY <1>0, <1>5, HangsLate DEF Reads, ReaderHangs
<1> QED
  BY <1>1, <1>2, <1>3, <1>4, <1>5, ReaderSteps

(* A hostname that is behind stays behind, and when one comes to be so it   *)
(* has been put into the hostname queue, or there was a fault.              *)
LEMMA BehindStays ==
  ASSUME Ground, Reads, [Next]_vars, NEW x, x[1] \in Nat, x[2] \in Nat, Behind(x)
  PROVE  Behind(x)'
<1> DEFINE F == items["filename"]
<1>0. /\ F \in Seq(Files) /\ argi \in Nat
      /\ x[1] < argi /\ x[1] \notin Range(F)
      /\ \A r \in Requesters : /\ Busy(r) /\ file[r] = x[1] => x[2] < line[r]
                               /\ line[r] \in Nat
  BY GroundFacts DEF Behind
<1>1. CASE ReaderSame
  BY <1>0, <1>1 DEF Behind, ReaderSame
<1>2. CASE NameQueued
  <2>1. /\ argi \in Files /\ argi' = argi + 1
        /\ \A r \in Requesters : Busy(r)' = Busy(r) /\ file'[r] = file[r] /\ line'[r] = line[r]
    BY <1>2 DEF NameQueued, Busy
  <2>2. x[1] \notin Range(F)'
    <3>1. CASE F' = F
      BY <1>0, <3>1
    <3>2. CASE F' = Append(F, argi)
      <4> HIDE DEF F
      <4> QED
        BY <1>0, <2>1, <3>2, AppendElements
    <3> QED
      BY <1>2, <3>1, <3>2 DEF NameQueued
  <2> QED
    BY <1>0, <2>1, <2>2 DEF Behind
<1>3. ASSUME NEW r \in Requesters, NameTaken(r) PROVE Behind(x)'
  <2>1. F # <<>> /\ F' = Tail(F) /\ UNCHANGED argi
    BY <1>3 DEF NameTaken
  <2>2. Range(F) = Range(F') \cup {Head(F)}
    <3> HIDE DEF F
    <3> QED
      BY <1>0, <2>1, TailElements
  <2>3. \A u \in Requesters : Busy(u)' =>
          \/ Busy(u) /\ file'[u] = file[u] /\ line'[u] = line[u]
          \/ file'[u] = Head(F)
    BY <1>3, Roles DEF NameTaken, Moved, Busy
  <2> HIDE DEF F
  <2>4. \A u \in Requesters : Busy(u)' /\ file'[u] = x[1] => x[2] < line'[u]
    BY <1>0, <2>2, <2>3
  <2> QED
    BY <1>0, <2>1, <2>2, <2>4 DEF Behind, F
<1>4. ASSUME NEW r \in Requesters, LineRead(r) PROVE Behind(x)'
  <2>1. F' = F /\ UNCHANGED <<argi, file>>
    BY <1>4 DEF LineRead
  <2>2. \A u \in Requesters : Busy(u)' => Busy(u)
    BY <1>4, Roles DEF LineRead, Moved, Busy
  <2>3. \A u \in Requesters : line'[u] \in {line[u], line[u] + 1}
    BY <1>4 DEF LineRead
  <2> QED
    BY <1>0, <2>1, <2>2, <2>3 DEF Behind
<1>5. ASSUME NEW r \in Requesters, ReaderHangs(r) PROVE Behind(x)'
  BY <1>0, <1>5, HangsLate DEF Behind, ReaderHangs
<1> QED
  BY <1>1, <1>2, <1>3, <1>4, <1>5, ReaderSteps

(* Where a file name or a hostname may be lost.                             *)
NameLost(f) ==
  MayFail(f) \/ AllocFails \/ (shutdown["filename"] /\ pc[Main] = "m_names")

LEMMA NewlyBehind ==
  ASSUME Ground, Reads, [Next]_vars, NEW x \in Hosts, ~Behind(x), Behind(x)'
  PROVE  \/ NameLost(x[1]) \/ victim # None
         \/ \E r \in Requesters : pc[r] = "r_put" /\ pc'[r] = "r_read" /\ x = <<file[r], line[r]>>
<1> DEFINE F == items["filename"]
<1>0. /\ F \in Seq(Files) /\ argi \in Nat
      /\ \A r \in Requesters : line[r] \in Nat /\ file[r] \in Nat
  BY GroundFacts
<1>x. /\ x = <<x[1], x[2]>> /\ x[1] \in Nat /\ x[2] \in Nat \ {0}
      /\ x[1] \in Files /\ x[2] <= Len(Lines[x[1]]) /\ Len(Lines[x[1]]) \in Nat
  BY PositionIs, HostIs, InputShape
<1>1. CASE ReaderSame
  BY <1>1 DEF Behind, ReaderSame
<1>2. CASE NameQueued
  <2>1. /\ argi \in Files /\ argi' = argi + 1
        /\ \A r \in Requesters : Busy(r)' = Busy(r) /\ file'[r] = file[r] /\ line'[r] = line[r]
    BY <1>2 DEF NameQueued, Busy
  <2>2. CASE F' = Append(F, argi)
    <3>1. Range(F') = Range(F) \cup {argi}
      <4> HIDE DEF F
      <4> QED
        BY <1>0, <2>1, <2>2, AppendElements
    <3>2. x[1] < argi /\ x[1] \notin Range(F)
      BY <1>0, <1>x, <2>1, <3>1 DEF Behind
    <3> QED
      BY <2>1, <3>2 DEF Behind
  <2>3. CASE F' = F /\ (MayFail(argi) \/ AllocFails \/ shutdown["filename"])
    <3>1. x[1] # argi => x[1] < argi
      BY <1>0, <1>x, <2>1 DEF Behind
    <3>2. x[1] = argi
      BY <2>1, <2>3, <3>1 DEF Behind
    <3> QED
      BY <1>2, <2>3, <3>2 DEF NameLost, NameQueued
  <2> QED
    BY <1>2, <2>2, <2>3 DEF NameQueued
<1>3. ASSUME NEW r \in Requesters, NameTaken(r) PROVE NameLost(x[1])
  <2>1. F # <<>> /\ F' = Tail(F) /\ UNCHANGED argi /\ pc[r] = "r_file"
    BY <1>3 DEF NameTaken
  <2>2. Range(F) = Range(F') \cup {Head(F)}
    <3> HIDE DEF F
    <3> QED
      BY <1>0, <2>1, TailElements
  <2>3. \A u \in Requesters : Busy(u) => Busy(u)' /\ file'[u] = file[u] /\ line'[u] = line[u]
    BY <1>3, <2>1, Roles DEF NameTaken, Moved, Busy
  <2>4. x[1] = Head(F)
    <3> HIDE DEF F
    <3> QED
      BY <2>1, <2>2, <2>3 DEF Behind, F
  <2>5. CASE Moved(r, "r_get") /\ MayFail(Head(F))
    BY <2>4, <2>5 DEF NameLost
  <2>6. CASE /\ Moved(r, "r_read")
             /\ \A u \in Requesters : /\ file'[u] = IF u = r THEN Head(F) ELSE file[u]
                                      /\ line'[u] = IF u = r THEN 1 ELSE line[u]
    <3>1. Busy(r)' /\ file'[r] = x[1] /\ line'[r] = 1
      BY <2>4, <2>6, Roles DEF Moved, Busy
    <3> QED
      BY <1>x, <3>1 DEF Behind
  <2> QED
    BY <1>3, <2>5, <2>6 DEF NameTaken
<1>4. ASSUME NEW r \in Requesters, LineRead(r)
      PROVE  pc[r] = "r_put" /\ pc'[r] = "r_read" /\ x = <<file[r], line[r]>>
  <2>1. F' = F /\ UNCHANGED <<argi, file>>
    BY <1>4 DEF LineRead
  <2>2. \A u \in Requesters \ {r} : (Busy(u)' <=> Busy(u)) /\ line'[u] = line[u]
    BY <1>4, Roles DEF LineRead, Moved, Busy
  <2>3. Busy(r) /\ file[r] = x[1] /\ ~(x[2] < line[r])
    BY <2>1, <2>2 DEF Behind
  <2>4. CASE UNCHANGED line /\ Busy(r)'
    BY <2>1, <2>3, <2>4 DEF Behind
  <2>5. CASE line[r] > Len(Lines[file[r]])
    BY <1>0, <1>x, <2>3, <2>5
  <2>6. CASE line'[r] = line[r] + 1 /\ Busy(r)'
    <3>1. x[2] < line[r] + 1
      BY <2>1, <2>3, <2>6 DEF Behind
    <3>2. x[2] = line[r]
      BY <1>0, <1>x, <2>3, <3>1
    <3>3. x = <<file[r], line[r]>>
      BY <1>x, <2>3, <3>2
    <3> QED
      BY <1>0, <1>4, <2>6, <3>3, Roles DEF LineRead, Moved
  <2> QED
    BY <1>4, <2>4, <2>5, <2>6, Roles DEF LineRead, Moved, Busy
<1>5. ASSUME NEW r \in Requesters, ReaderHangs(r) PROVE victim # None
  BY <1>5, HangsLate
<1> QED
  BY <1>1, <1>2, <1>3, <1>4, <1>5, ReaderSteps

-----------------------------------------------------------------------------
(* The way of a hostname from the requester that read it to the resolver    *)
(* log: the hostname queue, a resolver, the resolver log queue, the log.    *)

Asked     == items["hostname"]
Answering == items["resolver_log"]
Answers   == log[ResLogger]

FlowSame == UNCHANGED <<Asked, host, Answering, Answers>>
HostPut(r) ==
  /\ pc[r] = "r_put" /\ LineRead(r) /\ <<file[r], line[r]>> \in Hosts
  /\ UNCHANGED <<host, Answering, Answers>>
  /\ \/ Asked' = Append(Asked, <<file[r], line[r]>>) /\ ~shutdown["hostname"]
     \/ Asked' = Asked /\ (AllocFails \/ shutdown["hostname"])
HostTaken(s) ==
  /\ host[s] = NoHost /\ Asked # <<>> /\ Asked' = Tail(Asked)
  /\ \A u \in Resolvers : host'[u] = IF u = s THEN Head(Asked) ELSE host[u]
  /\ UNCHANGED <<Answering, Answers>>
HostLogged(s) ==
  /\ LogResolved(s)
  /\ pc[s] = "s_log" /\ host[s] \in Hosts
  /\ \A u \in Resolvers : host'[u] = IF u = s THEN NoHost ELSE host[u]
  /\ UNCHANGED <<Asked, Answers>>
  /\ \/ Answering' = Append(Answering, host[s])
     \/ Answering' = Answering /\ (AllocFails \/ shutdown["resolver_log"])
AnswerWritten ==
  /\ Answering # <<>> /\ Answering' = Tail(Answering)
  /\ Answers' = Append(Answers, Head(Answering))
  /\ UNCHANGED <<Asked, host>> /\ pc'[Main] = pc[Main]
AnswerLost ==
  /\ Answers' = SubSeq(Answers, 1, Len(Answers) - 1)
  /\ UNCHANGED <<Asked, host, Answering>>
  /\ pc[Handler] = "a_exit" /\ pc'[Main] = "exit_signal"

LEMMA FlowTypes ==
  ASSUME Ground
  PROVE  /\ Asked \in Seq(Hosts) /\ Answering \in Seq(Hosts) /\ Answers \in Seq(Hosts)
         /\ \A s \in Resolvers : host[s] \in Hosts \cup {NoHost}
         /\ NoHost \notin Hosts
<1>1. ItemsTyped /\ host \in [Resolvers -> Hosts \cup {NoHost}] /\ log \in [Loggers -> Seq(Hosts)]
  BY DEF Ground, Typed
<1>2. NoHost \notin Hosts
  BY PositionIs, HostIs
<1> QED
  BY <1>1, <1>2 DEF ItemsTyped, LogQueues, Asked, Answering, Answers, Loggers

LEMMA LogResolvedFlows ==
  ASSUME Ground, NEW s \in Resolvers, LogResolved(s)
  PROVE  HostLogged(s)
<1>1. /\ pc[s] = "s_log" /\ UNCHANGED log
      /\ \A u \in Resolvers : host'[u] = IF u = s THEN NoHost ELSE host[u]
      /\ \/ Appended("resolver_log", host[s])
         \/ UNCHANGED items /\ (AllocFails \/ shutdown["resolver_log"])
  BY LogResolvedDoes, GroundFacts
<1>2. host[s] # NoHost /\ host[s] \in Hosts \cup {NoHost}
  BY <1>1, GroundFacts DEF Typed, Holds
<1> QED
  BY <1>1, <1>2 DEF HostLogged, Appended, Asked, Answering, Answers, Queues

LEMMA FlowSteps ==
  ASSUME Ground, [Next]_vars
  PROVE  \/ FlowSame
         \/ \E r \in Requesters : HostPut(r)
         \/ \E s \in Resolvers : HostTaken(s) \/ HostLogged(s)
         \/ AnswerWritten
         \/ AnswerLost
<1> Launch /\ Typed /\ ResLogger \in Loggers /\ ReqLogger # ResLogger
  BY GroundFacts, ThreadAssumption DEF Loggers
<1> USE DEF Asked, Answering, Answers, Queues
<1>0. \A t \in Requesters \cup Resolvers : t \notin Loggers
  BY Roles
<1>1. CASE Still
  BY <1>1 DEF Still, FlowSame
<1>2. CASE QueueName
  <2>1. UNCHANGED <<host, log>> /\ (Appended("filename", argi) \/ UNCHANGED items)
    BY <1>2, QueueNameDoes
  <2> QED
    BY <2>1 DEF FlowSame, Appended
<1>3. ASSUME NEW r \in Requesters, OpenFile(r) \/ ReadLine(r) PROVE FlowSame
  <2>1. UNCHANGED <<host, log>> /\ (Removed("filename") \/ UNCHANGED items)
    BY <1>3, OpenFileDoes, ReadLineDoes
  <2> QED
    BY <2>1 DEF FlowSame, Removed
<1>4. ASSUME NEW r \in Requesters, LogRequest(r) PROVE FlowSame
  <2>1. UNCHANGED <<host, log>>
        /\ (Appended("requester_log", <<file[r], line[r]>>) \/ UNCHANGED items)
    BY <1>4, LogRequestDoes
  <2> QED
    BY <2>1 DEF FlowSame, Appended
<1>5. ASSUME NEW r \in Requesters, PutHost(r) PROVE HostPut(r)
  <2>1. /\ pc[r] = "r_put" /\ UNCHANGED <<host, log>>
        /\ \/ Appended("hostname", <<file[r], line[r]>>)
           \/ UNCHANGED items /\ (AllocFails \/ shutdown["hostname"])
    BY <1>5, PutHostDoes
  <2>2. <<file[r], line[r]>> \in Hosts
    BY <2>1 DEF Typed
  <2> QED
    BY <1>5, <2>1, <2>2, PutHostReads DEF HostPut, Appended
<1>6. ASSUME NEW s \in Resolvers, TakeHost(s) PROVE HostTaken(s)
  <2>1. /\ pc[s] = "s_host" /\ UNCHANGED log /\ Removed("hostname")
        /\ \A u \in Resolvers :
             host'[u] = IF u = s THEN Head(items["hostname"]) ELSE host[u]
    BY <1>6, TakeHostDoes
  <2>2. host[s] = NoHost
    BY <2>1 DEF Typed, Holds
  <2> QED
    BY <2>1, <2>2 DEF HostTaken, Removed
<1>7. ASSUME NEW s \in Resolvers, LogResolved(s) PROVE HostLogged(s)
  BY <1>7, LogResolvedFlows
<1>8. ASSUME NEW t \in Loggers, WriteLine(t) PROVE FlowSame \/ AnswerWritten
  <2>1. /\ UNCHANGED host /\ Removed(LogQueue[t])
        /\ LogQueue[t] \in {"requester_log", "resolver_log"}
        /\ LogQueue[t] = "requester_log" <=> t = ReqLogger
        /\ \A u \in Loggers :
              log'[u] = IF u = t THEN Append(log[t], Head(items[LogQueue[t]])) ELSE log[u]
        /\ pc'[Main] = pc[Main]
    BY <1>8, WriteLineDoes, Roles DEF Moved
  <2>2. CASE t = ReqLogger
    BY <2>1, <2>2 DEF FlowSame, Removed
  <2>3. CASE t = ResLogger
    BY <2>1, <2>3 DEF AnswerWritten, Removed
  <2> QED
    BY <2>2, <2>3 DEF Loggers
<1>9. CASE HandlerExits
  <2>1. /\ UNCHANGED <<items, host>> /\ Moved(Main, "exit_signal")
        /\ log'[ResLogger] = log[ResLogger]
           \/ log'[ResLogger] = SubSeq(log[ResLogger], 1, Len(log[ResLogger]) - 1)
    BY <1>9, HandlerExitsDoes
  <2>2. pc[Handler] = "a_exit"
    BY <1>9 DEF HandlerExits, At
  <2> QED
    BY <2>1, <2>2, Roles DEF FlowSame, AnswerLost, Moved
<1>10. ASSUME NEW r \in Requesters, RequesterHangs(r) PROVE FlowSame
  BY <1>10, HangsDoes DEF FlowSame
<1> QED
  BY <1>1, <1>2, <1>3, <1>4, <1>5, <1>6, <1>7, <1>8, <1>9, <1>10, StillSteps DEF Moving

(* No hostname is in two places, and each is behind the requesters.         *)
PassedBehind ==
  /\ \A x \in Range(Asked) \cup Range(Answering) \cup Range(Answers) : Behind(x)
  /\ \A s \in Resolvers : host[s] # NoHost => Behind(host[s])
OnePlace ==
  /\ IsInjective(Asked) /\ IsInjective(Answering) /\ IsInjective(Answers)
  /\ Range(Asked) \cap Range(Answering) = {}
  /\ Range(Asked) \cap Range(Answers) = {}
  /\ Range(Answering) \cap Range(Answers) = {}
  /\ \A s \in Resolvers :
       /\ host[s] \notin Range(Asked) \cup Range(Answering) \cup Range(Answers)
       /\ host[s] # NoHost => \A u \in Resolvers \ {s} : host[u] # host[s]

LEMMA HostPutFacts ==
  ASSUME Ground, Reads, NEW r \in Requesters, HostPut(r)
  PROVE  ~Behind(<<file[r], line[r]>>)
<1>1. Busy(r) /\ line[r] \in Nat
  BY GroundFacts DEF HostPut, Busy
<1> QED
  BY <1>1 DEF Behind

LEMMA OnePlaceStep ==
  ASSUME Ground, Reads, PassedBehind, OnePlace, [Next]_vars
  PROVE  OnePlace'
<1> DEFINE L == Asked
           R == Answering
           G == Answers
<1>0. /\ L \in Seq(Hosts) /\ R \in Seq(Hosts) /\ G \in Seq(Hosts)
      /\ \A s \in Resolvers : host[s] \in Hosts \cup {NoHost}
      /\ NoHost \notin Hosts
      /\ Range(L) \subseteq Hosts /\ Range(R) \subseteq Hosts /\ Range(G) \subseteq Hosts
  BY FlowTypes, RangeIs
<1> HIDE DEF L, R, G
<1>p. /\ IsInjective(L) /\ IsInjective(R) /\ IsInjective(G)
      /\ Range(L) \cap Range(R) = {}
      /\ Range(L) \cap Range(G) = {}
      /\ Range(R) \cap Range(G) = {}
      /\ \A s \in Resolvers :
           /\ host[s] \notin Range(L) \cup Range(R) \cup Range(G)
           /\ host[s] # NoHost => \A u \in Resolvers \ {s} : host[u] # host[s]
  BY DEF OnePlace, L, R, G
<1> SUFFICES
      /\ IsInjective(L') /\ IsInjective(R') /\ IsInjective(G')
      /\ Range(L') \cap Range(R') = {}
      /\ Range(L') \cap Range(G') = {}
      /\ Range(R') \cap Range(G') = {}
      /\ \A s \in Resolvers :
           /\ host'[s] \notin Range(L') \cup Range(R') \cup Range(G')
           /\ host'[s] # NoHost => \A u \in Resolvers \ {s} : host'[u] # host'[s]
  BY DEF OnePlace, L, R, G
<1>1. CASE FlowSame
  <2>1. L' = L /\ R' = R /\ G' = G /\ host' = host
    BY <1>1 DEF FlowSame, L, R, G
  <2> QED
    BY <1>p, <2>1
<1>2. ASSUME NEW r \in Requesters, HostPut(r) PROVE OnePlace'
  <2> DEFINE x == <<file[r], line[r]>>
  <2>1. /\ x \in Hosts /\ R' = R /\ G' = G /\ host' = host
        /\ L' = L \/ L' = Append(L, x)
    BY <1>2 DEF HostPut, L, R, G
  <2>2. x \notin Range(L) \cup Range(R) \cup Range(G) /\ \A s \in Resolvers : host[s] # x
    BY <1>0, <1>2, <2>1, HostPutFacts DEF PassedBehind, L, R, G
  <2> HIDE DEF x
  <2>3. CASE L' = Append(L, x)
    <3>1. IsInjective(L') /\ Range(L') = Range(L) \cup {x}
      BY <1>0, <1>p, <2>1, <2>2, <2>3, AppendElements
    <3> QED
      BY <1>0, <1>p, <2>1, <2>2, <3>1 DEF OnePlace, L, R, G
  <2>4. CASE L' = L
    BY <1>p, <2>1, <2>4 DEF OnePlace, L, R, G
  <2> QED
    BY <2>1, <2>3, <2>4
<1>3. ASSUME NEW s \in Resolvers, HostTaken(s) PROVE OnePlace'
  <2>1. /\ host[s] = NoHost /\ L # <<>> /\ L' = Tail(L) /\ R' = R /\ G' = G
        /\ \A u \in Resolvers : host'[u] = IF u = s THEN Head(L) ELSE host[u]
    BY <1>3 DEF HostTaken, L, R, G
  <2>2. /\ IsInjective(L') /\ Range(L) = Range(L') \cup {Head(L)}
        /\ Head(L) \notin Range(L')
    BY <1>0, <1>p, <2>1, TailElements
  <2> QED
    BY <1>0, <1>p, <2>1, <2>2 DEF OnePlace, L, R, G
<1>4. ASSUME NEW s \in Resolvers, HostLogged(s) PROVE OnePlace'
  <2>1. /\ host[s] \in Hosts /\ L' = L /\ G' = G
        /\ \A u \in Resolvers : host'[u] = IF u = s THEN NoHost ELSE host[u]
        /\ R' = R \/ R' = Append(R, host[s])
    BY <1>4 DEF HostLogged, L, R, G
  <2>2. IsInjective(R') /\ Range(R') \subseteq Range(R) \cup {host[s]}
    <3>1. host[s] \notin Range(R)
      BY <1>p
    <3> DEFINE x == host[s]
    <3> HIDE DEF x
    <3>2. x \in Hosts /\ x \notin Range(R) /\ (R' = R \/ R' = Append(R, x))
      BY <2>1, <3>1 DEF x
    <3>3. IsInjective(R') /\ Range(R') \subseteq Range(R) \cup {x}
      <4>1. /\ Range(Append(R, x)) = Range(R) \cup {x}
            /\ IsInjective(Append(R, x))
        BY <1>0, <1>p, <3>2, AppendElements
      <4> QED
        BY <1>p, <3>2, <4>1
    <3> QED
      BY <3>3 DEF x
  <2>3. host[s] \notin Range(L) /\ host[s] \notin Range(G)
        /\ \A u \in Resolvers \ {s} : host[u] # host[s]
    BY <1>0, <1>p, <2>1
  <2> QED
    BY <1>0, <1>p, <2>1, <2>2, <2>3 DEF OnePlace, L, R, G
<1>5. CASE AnswerWritten
  <2>1. R # <<>> /\ R' = Tail(R) /\ G' = Append(G, Head(R)) /\ L' = L /\ host' = host
    BY <1>5 DEF AnswerWritten, L, R, G
  <2>2. /\ IsInjective(R') /\ Range(R) = Range(R') \cup {Head(R)}
        /\ Head(R) \notin Range(R')
    BY <1>0, <1>p, <2>1, TailElements
  <2>3. Head(R) \in Hosts /\ Head(R) \notin Range(G)
    BY <1>0, <1>p, <2>2
  <2>4. IsInjective(G') /\ Range(G') = Range(G) \cup {Head(R)}
    BY <1>0, <1>p, <2>1, <2>3, AppendElements
  <2> QED
    BY <1>p, <2>1, <2>2, <2>4
<1>6. CASE AnswerLost
  <2>1. L' = L /\ R' = R /\ host' = host /\ G' = SubSeq(G, 1, Len(G) - 1)
    BY <1>6 DEF AnswerLost, L, R, G
  <2>2. IsInjective(G') /\ Range(G') \subseteq Range(G)
    <3>1. G \in Seq(Hosts) /\ IsInjective(G)
      BY <1>0, <1>p
    <3> QED
      BY <2>1, <3>1, FrontElements
  <2> QED
    BY <1>p, <2>1, <2>2
<1> QED
  BY <1>1, <1>2, <1>3, <1>4, <1>5, <1>6, FlowSteps DEF OnePlace, L, R, G

LEMMA HostsArePairs ==
  \A x \in Hosts : x = <<x[1], x[2]>> /\ x[1] \in Nat /\ x[2] \in Nat
  BY PositionIs, HostIs

LEMMA PassedBehindStep ==
  ASSUME Ground, Reads, PassedBehind, [Next]_vars
  PROVE  PassedBehind'
<1> DEFINE L == Asked
           R == Answering
           G == Answers
<1>0. /\ L \in Seq(Hosts) /\ R \in Seq(Hosts) /\ G \in Seq(Hosts)
      /\ Range(L) \subseteq Hosts /\ Range(R) \subseteq Hosts /\ Range(G) \subseteq Hosts
      /\ \A s \in Resolvers : host[s] \in Hosts \cup {NoHost}
  BY FlowTypes, RangeIs
<1> DEFINE After(x) == /\ x[1] < argi'
                       /\ x[1] \notin Range(items'["filename"])
                       /\ \A r \in Requesters :
                            Busy(r)' /\ file'[r] = x[1] => x[2] < line'[r]
<1>1. \A y \in Hosts : Behind(y) => After(y)
  <2>1. ASSUME NEW y \in Hosts, Behind(y) PROVE After(y)
    <3>1. Behind(y)'
      BY <2>1, BehindStays, HostsArePairs
    <3> QED
      BY <3>1 DEF Behind
  <2> QED
    BY <2>1
<1>2. /\ \A x \in Range(L) \cup Range(R) \cup Range(G) : Behind(x)
      /\ \A s \in Resolvers : host[s] # NoHost => Behind(host[s])
  BY DEF PassedBehind
<1>3. /\ \A x \in Range(L) \cup Range(R) \cup Range(G) : After(x)
      /\ \A s \in Resolvers : host[s] # NoHost => After(host[s])
  <2> HIDE DEF After, L, R, G
  <2> QED
    BY <1>0, <1>1, <1>2
<1>4. SUFFICES /\ \A x \in Range(L') \cup Range(R') \cup Range(G') : After(x)
               /\ \A s \in Resolvers : host'[s] # NoHost => After(host'[s])
  BY DEF PassedBehind, Behind
<1> HIDE DEF L, R, G
<1>5. CASE FlowSame
  <2>1. L' = L /\ R' = R /\ G' = G /\ host' = host
    BY <1>5 DEF FlowSame, L, R, G
  <2> HIDE DEF After
  <2> QED
    BY <1>3, <2>1
<1>6. ASSUME NEW r \in Requesters, HostPut(r)
      PROVE  /\ \A x \in Range(L') \cup Range(R') \cup Range(G') : After(x)
             /\ \A s \in Resolvers : host'[s] # NoHost => After(host'[s])
  <2> DEFINE x == <<file[r], line[r]>>
  <2>1. /\ x \in Hosts /\ R' = R /\ G' = G /\ host' = host
        /\ L' = L \/ L' = Append(L, x)
    BY <1>6 DEF HostPut, L, R, G
  <2>2. After(x)
    <3>1. /\ Busy(r) /\ pc[r] = "r_put" /\ UNCHANGED <<argi, file>>
          /\ items'["filename"] = items["filename"] /\ line'[r] = line[r] + 1
          /\ \A u \in Requesters : Busy(u)' => Busy(u)
      BY <1>6, Roles DEF HostPut, LineRead, Busy, Moved
    <3>2. file[r] < argi /\ file[r] \notin Range(items["filename"]) /\ line[r] \in Nat
          /\ \A u \in Requesters : Busy(u) /\ file[u] = file[r] => u = r
      BY <3>1, GroundFacts DEF Reads
    <3> QED
      BY <3>1, <3>2
  <2> HIDE DEF x, After
  <2>3. Range(L') \subseteq Range(L) \cup {x}
    BY <1>0, <2>1, AppendElements
  <2> QED
    BY <1>3, <2>1, <2>2, <2>3
<1>7. ASSUME NEW s \in Resolvers, HostTaken(s)
      PROVE  /\ \A x \in Range(L') \cup Range(R') \cup Range(G') : After(x)
             /\ \A u \in Resolvers : host'[u] # NoHost => After(host'[u])
  <2>1. /\ L # <<>> /\ L' = Tail(L) /\ R' = R /\ G' = G
        /\ \A u \in Resolvers : host'[u] = IF u = s THEN Head(L) ELSE host[u]
    BY <1>7 DEF HostTaken, L, R, G
  <2>2. Range(L) = Range(L') \cup {Head(L)}
    BY <1>0, <2>1, TailElements
  <2> HIDE DEF After
  <2> QED
    BY <1>3, <2>1, <2>2
<1>8. ASSUME NEW s \in Resolvers, HostLogged(s)
      PROVE  /\ \A x \in Range(L') \cup Range(R') \cup Range(G') : After(x)
             /\ \A u \in Resolvers : host'[u] # NoHost => After(host'[u])
  <2> DEFINE x == host[s]
  <2>1. /\ x \in Hosts /\ L' = L /\ G' = G
        /\ \A u \in Resolvers : host'[u] = IF u = s THEN NoHost ELSE host[u]
        /\ R' = R \/ R' = Append(R, x)
    BY <1>8 DEF HostLogged, L, R, G
  <2>2. After(x)
    BY <1>3, <2>1, FlowTypes
  <2> HIDE DEF x, After
  <2>3. Range(R') \subseteq Range(R) \cup {x}
    BY <1>0, <2>1, AppendElements
  <2> QED
    BY <1>3, <2>1, <2>2, <2>3
<1>9. CASE AnswerWritten
  <2>1. R # <<>> /\ R' = Tail(R) /\ G' = Append(G, Head(R)) /\ L' = L /\ host' = host
    BY <1>9 DEF AnswerWritten, L, R, G
  <2>2. Range(R) = Range(R') \cup {Head(R)}
    BY <1>0, <2>1, TailElements
  <2>3. Head(R) \in Hosts
    BY <1>0, <2>2
  <2>4. Range(G') = Range(G) \cup {Head(R)}
    BY <1>0, <2>1, <2>3, AppendElements
  <2> HIDE DEF After
  <2> QED
    BY <1>3, <2>1, <2>2, <2>4
<1>10. CASE AnswerLost
  <2>1. L' = L /\ R' = R /\ host' = host /\ G' = SubSeq(G, 1, Len(G) - 1)
    BY <1>10 DEF AnswerLost, L, R, G
  <2>2. Range(G') \subseteq Range(G)
    <3>1. G \in Seq(Hosts)
      BY <1>0
    <3> QED
      BY <2>1, <3>1, FrontElements
  <2> HIDE DEF After
  <2> QED
    BY <1>3, <2>1, <2>2
<1> HIDE DEF After
<1> QED
  BY <1>5, <1>6, <1>7, <1>8, <1>9, <1>10, FlowSteps

Flow == FreedInv /\ Reads /\ PassedBehind /\ OnePlace

LEMMA FlowInit ==
  ASSUME Init
  PROVE  Reads /\ PassedBehind /\ OnePlace
<1>1. /\ \A r \in Requesters : pc[r] = "uncreated"
      /\ items["filename"] = <<>> /\ Asked = <<>> /\ Answering = <<>> /\ Answers = <<>>
      /\ \A s \in Resolvers : host[s] = NoHost
  BY Roles DEF Init, Queues, Asked, Answering, Answers, Loggers
<1>2. Range(<<>>) = {} /\ IsInjective(<<>>)
  BY DEF Range, IsInjective
<1> QED
  BY <1>1, <1>2 DEF Reads, PassedBehind, OnePlace, Busy

LEMMA FlowAlways == Spec => []Flow
<1>1. FreedInv /\ Reads /\ PassedBehind /\ OnePlace /\ [Next]_vars =>
        Reads' /\ PassedBehind' /\ OnePlace'
  BY ReadsStep, PassedBehindStep, OnePlaceStep DEF FreedInv
<1>2. Init => Reads /\ PassedBehind /\ OnePlace
  BY FlowInit
<1> QED
  BY <1>1, <1>2, FreedAlways, PTL DEF Spec, Flow

-----------------------------------------------------------------------------
(* Without a signal and without a failed allocation nothing that is due is  *)
(* lost on the way.                                                         *)

InFlow(x) ==
  \/ x \in Range(Asked) \cup Range(Answering) \cup Range(Answers)
  \/ \E s \in Resolvers : host[s] = x

AllPassed == victim = None /\ ~AllocFails => \A x \in Due : Behind(x) => InFlow(x)

(* What the requester is at when it hands a hostname on.                    *)
LEMMA HandsOn ==
  ASSUME Ground, [Next]_vars, NEW r \in Requesters, pc[r] = "r_put", pc'[r] = "r_read"
  PROVE  PutHost(r)
<1>1. WorkerStep(r) /\ r \in Requesters /\ r \notin Resolvers /\ r \notin Loggers
  BY Movers, Roles DEF Ground
<1>2. Requester(r)
  BY <1>1 DEF WorkerStep
<1>3. ~RequesterHangs(r)
  BY HangsDoes, Roles DEF Ground, Moved
<1> QED
  BY <1>2, <1>3 DEF Requester, RequestFile, OpenFile, SkipFile, ReadLine, LogRequest, LeaveFiles,
                    ExitReader, FreeHosts, FreeReqLog, At

LEMMA StaysInFlow ==
  ASSUME Ground, ~AllocFails, victim = None, [Next]_vars, NEW x \in Hosts, InFlow(x)
  PROVE  InFlow(x)'
<1> DEFINE L == Asked
           R == Answering
           G == Answers
<1>0. /\ L \in Seq(Hosts) /\ R \in Seq(Hosts) /\ G \in Seq(Hosts)
      /\ x # NoHost
      /\ x \in Range(L) \/ x \in Range(R) \/ x \in Range(G) \/ \E s \in Resolvers : host[s] = x
  BY FlowTypes DEF InFlow
<1>i. Inv
  BY DEF Ground
<1> SUFFICES x \in Range(L') \/ x \in Range(R') \/ x \in Range(G')
             \/ \E s \in Resolvers : host'[s] = x
  BY DEF InFlow
<1> HIDE DEF L, R, G
<1>1. CASE FlowSame
  BY <1>0, <1>1 DEF FlowSame, L, R, G
<1>2. ASSUME NEW r \in Requesters, HostPut(r) PROVE InFlow(x)'
  <2>1. /\ R' = R /\ G' = G /\ host' = host /\ <<file[r], line[r]>> \in Hosts
        /\ L' = L \/ L' = Append(L, <<file[r], line[r]>>)
    BY <1>2 DEF HostPut, L, R, G
  <2>2. Range(L) \subseteq Range(L')
    <3> DEFINE y == <<file[r], line[r]>>
    <3> HIDE DEF y
    <3>1. y \in Hosts /\ (L' = L \/ L' = Append(L, y))
      BY <2>1 DEF y
    <3>2. Range(Append(L, y)) = Range(L) \cup {y}
      BY <1>0, <3>1, AppendElements
    <3> QED
      BY <3>1, <3>2
  <2> QED
    BY <1>0, <2>1, <2>2 DEF InFlow, L, R, G
<1>3. ASSUME NEW s \in Resolvers, HostTaken(s) PROVE InFlow(x)'
  <2>1. /\ host[s] = NoHost /\ L # <<>> /\ L' = Tail(L) /\ R' = R /\ G' = G
        /\ \A u \in Resolvers : host'[u] = IF u = s THEN Head(L) ELSE host[u]
    BY <1>3 DEF HostTaken, L, R, G
  <2>2. Range(L) = Range(L') \cup {Head(L)}
    BY <1>0, <2>1, TailElements
  <2> QED
    BY <1>0, <2>1, <2>2 DEF InFlow, L, R, G
<1>4. ASSUME NEW s \in Resolvers, HostLogged(s) PROVE InFlow(x)'
  <2>1. /\ host[s] \in Hosts /\ L' = L /\ G' = G /\ pc[s] = "s_log"
        /\ \A u \in Resolvers : host'[u] = IF u = s THEN NoHost ELSE host[u]
        /\ R' = Append(R, host[s]) \/ shutdown["resolver_log"]
    BY <1>4 DEF HostLogged, L, R, G
  <2>2. R' = Append(R, host[s])
    BY <1>i, <2>1 DEF Inv, Order, ClosedToPutters, Gone
  <2>3. Range(R') = Range(R) \cup {host[s]}
    <3> DEFINE y == host[s]
    <3> HIDE DEF y
    <3>1. y \in Hosts /\ R' = Append(R, y)
      BY <2>1, <2>2 DEF y
    <3>2. Range(R') = Range(R) \cup {y}
      BY <1>0, <3>1, AppendElements
    <3> QED
      BY <3>2 DEF y
  <2> QED
    BY <1>0, <2>1, <2>3 DEF InFlow, L, R, G
<1>5. CASE AnswerWritten
  <2>1. R # <<>> /\ R' = Tail(R) /\ G' = Append(G, Head(R)) /\ L' = L /\ host' = host
    BY <1>5 DEF AnswerWritten, L, R, G
  <2>2. Range(R) = Range(R') \cup {Head(R)} /\ Head(R) \in Hosts
    BY <1>0, <2>1, TailElements
  <2>3. Range(G') = Range(G) \cup {Head(R)}
    BY <1>0, <2>1, <2>2, AppendElements
  <2> QED
    BY <1>0, <2>1, <2>2, <2>3
<1>6. ~AnswerLost
  BY <1>i DEF AnswerLost, Inv, Order, NoHandler
<1> QED
  BY <1>1, <1>2, <1>3, <1>4, <1>5, <1>6, FlowSteps DEF InFlow, L, R, G

LEMMA DueIs ==
  \A x \in Due : x \in Hosts /\ ~MayFail(x[1])
  BY DEF Due, MayFail

LEMMA AllPassedStep ==
  ASSUME Ground, Reads, AllPassed, [Next]_vars
  PROVE  AllPassed'
<1> SUFFICES ASSUME victim' = None, ~AllocFails, NEW x \in Due, Behind(x)'
             PROVE  InFlow(x)'
  BY DEF AllPassed
<1>1. victim = None /\ x \in Hosts /\ ~MayFail(x[1])
  BY VictimForGood, DueIs
<1>i. Inv
  BY <1>1 DEF Ground
<1>2. CASE Behind(x)
  BY <1>1, <1>2, StaysInFlow DEF AllPassed
<1>3. CASE ~Behind(x)
  <2>1. ~NameLost(x[1])
    BY <1>1, <1>i DEF NameLost, Inv, Order, OpenBefore
  <2>2. PICK r \in Requesters : pc[r] = "r_put" /\ pc'[r] = "r_read" /\ x = <<file[r], line[r]>>
    BY <1>1, <1>3, <2>1, NewlyBehind
  <2>3. PutHost(r)
    BY <2>2, HandsOn
  <2>4. ~shutdown["hostname"]
    BY <1>i, <2>2 DEF Inv, Order, ClosedToPutters, Reading
  <2>5. Appended("hostname", x)
    BY <2>2, <2>3, <2>4, PutHostDoes DEF Ground
  <2>6. Asked' = Append(Asked, x) /\ Asked \in Seq(Hosts)
    BY <2>5, FlowTypes DEF Appended, Asked, Queues
  <2>7. x \in Range(Asked')
    <3> HIDE DEF Asked
    <3> QED
      BY <1>1, <2>6, AppendElements
  <2> QED
    BY <2>7 DEF InFlow
<1> QED
  BY <1>2, <1>3

PassedInv == Flow /\ AllPassed

LEMMA PassedAlways == Spec => []PassedInv
<1>1. Init => AllPassed
  <2> SUFFICES ASSUME Init, NEW x \in Due PROVE ~Behind(x)
    BY DEF AllPassed
  <2>1. argi = 1 /\ x[1] \in Files
    BY DueIs, HostIs, PositionIs DEF Init
  <2> QED
    BY <2>1, InputShape DEF Behind
<1>2. Flow /\ AllPassed /\ [Next]_vars => AllPassed'
  BY AllPassedStep DEF Flow, FreedInv
<1> QED
  BY <1>1, <1>2, FlowAlways, PTL DEF Spec, PassedInv

LEMMA OccursOnce ==
  ASSUME NEW x, NEW s, \A i, j \in DOMAIN s : s[i] = x /\ s[j] = x => i = j
  PROVE  Occurrences(x, s) = IF x \in Range(s) THEN 1 ELSE 0
<1> DEFINE at == {i \in DOMAIN s : s[i] = x}
<1>1. Cardinality(at) = IF at = {} THEN 0 ELSE 1
  BY AtMostOne
<1>2. at = {} <=> x \notin Range(s)
  BY DEF Range
<1> QED
  BY <1>1, <1>2 DEF Occurrences

(* When main returns, every line of every file is behind the requesters,    *)
(* and all that was passed on is in the resolver log.                       *)
LEMMA ExitBehind ==
  ASSUME Flow, pc[Main] = "exit", NEW x \in Hosts
  PROVE  Behind(x)
<1>1. Ground /\ FreedInv /\ Launch
  BY DEF Flow, FreedInv, Ground
<1>2. argi \notin Files /\ argi \in Nat \ {0} /\ victim = None /\ Gone(Workers)
  BY <1>1 DEF Launch, AfterPC
<1>3. \A r \in Requesters : ~Busy(r)
  BY <1>2, Roles DEF Gone, Busy
<1>4. items["filename"] = <<>>
  BY <1>1, ExitDrained DEF Queues
<1>5. x[1] \in Files /\ x[1] \in Nat
  BY HostIs, PositionIs
<1>6. x[1] < argi
  BY <1>2, <1>5, InputShape
<1> QED
  BY <1>3, <1>4, <1>6 DEF Behind, Range

LEMMA ExitAnswered ==
  ASSUME PassedInv, pc[Main] = "exit", ~AllocFails, NEW x \in Due
  PROVE  x \in Range(Answers)
<1>1. Ground /\ FreedInv /\ Launch /\ Typed
  BY DEF PassedInv, Flow, FreedInv, Ground
<1>2. victim = None /\ Gone(Workers) /\ x \in Hosts
  BY <1>1, DueIs DEF Launch
<1>3. InFlow(x)
  BY <1>2, ExitBehind DEF PassedInv, AllPassed
<1>4. Asked = <<>> /\ Answering = <<>>
  BY <1>1, ExitDrained DEF Queues, Asked, Answering
<1>5. \A s \in Resolvers : host[s] = NoHost
  BY <1>1, <1>2, Roles DEF Gone, Typed, Holds
<1>6. x # NoHost
  BY <1>1, <1>2, FlowTypes
<1>7. Range(<<>>) = {}
  BY DEF Range
<1> QED
  BY <1>3, <1>4, <1>5, <1>6, <1>7 DEF InFlow

(* No hostname is ever in two places, and when the program exits without a  *)
(* failed allocation every hostname that is due has been answered once      *)
(* (test.c:235, for the whole pipeline).                                    *)
THEOREM ResolvedOnceCorrect == Spec => []ResolvedOnce
<1>1. PassedInv => ResolvedOnce
  <2> SUFFICES ASSUME PassedInv, NEW x \in Hosts
               PROVE  /\ Occurrences(x, Asked) + Occurrences(x, host)
                           + Occurrences(x, Answering) + Occurrences(x, Answers) <= 1
                      /\ Exited /\ ~AllocFails /\ x \in Due => Occurrences(x, Answers) = 1
    BY DEF ResolvedOnce, Asked, Answering, Answers
  <2>1. Ground /\ OnePlace
    BY DEF PassedInv, Flow, FreedInv
  <2>2. x # NoHost /\ DOMAIN host = Resolvers
    BY <2>1, FlowTypes DEF Ground, Typed
  <2>3. \A s, u \in DOMAIN host : host[s] = x /\ host[u] = x => s = u
    BY <2>1, <2>2 DEF OnePlace
  <2>4. Occurrences(x, host) = IF x \in Range(host) THEN 1 ELSE 0
    BY <2>3, OccursOnce
  <2>5. /\ Occurrences(x, Asked) = IF x \in Range(Asked) THEN 1 ELSE 0
        /\ Occurrences(x, Answering) = IF x \in Range(Answering) THEN 1 ELSE 0
        /\ Occurrences(x, Answers) = IF x \in Range(Answers) THEN 1 ELSE 0
    BY <2>1, OccursOnce DEF OnePlace, IsInjective
  <2>6. x \in Range(host) => x \notin Range(Asked) \cup Range(Answering) \cup Range(Answers)
    BY <2>1, <2>2 DEF OnePlace, Range
  <2>7. Exited /\ ~AllocFails /\ x \in Due => x \in Range(Answers)
    BY ExitAnswered DEF Exited
  <2> QED
    BY <2>1, <2>4, <2>5, <2>6, <2>7 DEF OnePlace
<1> QED
  BY <1>1, PassedAlways, PTL

-----------------------------------------------------------------------------
(* The requester log: the queue before it, and what is given to it.         *)

Logging == items["requester_log"]
Written == log[ReqLogger]

(* The lines of one file come in the file's order.                          *)
InOrder(s) == \A i, j \in DOMAIN s : i < j /\ s[i][1] = s[j][1] => s[i][2] < s[j][2]

LEMMA AppendInOrder ==
  ASSUME NEW S, NEW s \in Seq(S), NEW e \in S, InOrder(s),
         \A x \in Range(s) : x[1] = e[1] => x[2] < e[2]
  PROVE  InOrder(Append(s, e))
<1>1. /\ Len(s) \in Nat /\ DOMAIN s = 1 .. Len(s) /\ DOMAIN Append(s, e) = 1 .. Len(s) + 1
      /\ \A i \in 1 .. Len(s) : Append(s, e)[i] = s[i] /\ s[i] \in Range(s)
      /\ Append(s, e)[Len(s) + 1] = e
  BY DEF Range
<1> DEFINE a == Append(s, e)
<1> SUFFICES ASSUME NEW i \in 1 .. Len(s) + 1, NEW j \in 1 .. Len(s) + 1, i < j, a[i][1] = a[j][1]
             PROVE  a[i][2] < a[j][2]
  BY <1>1 DEF InOrder
<1>2. i \in 1 .. Len(s) /\ a[i] = s[i] /\ s[i] \in Range(s)
  BY <1>1
<1>3. CASE j \in 1 .. Len(s)
  BY <1>1, <1>2, <1>3 DEF InOrder
<1>4. CASE j = Len(s) + 1
  <2>1. a[j] = e
    BY <1>1, <1>4
  <2> HIDE DEF a
  <2> QED
    BY <1>2, <2>1
<1> QED
  BY <1>1, <1>3, <1>4

LEMMA TailInOrder ==
  ASSUME NEW S, NEW s \in Seq(S), s # <<>>, InOrder(s)
  PROVE  /\ InOrder(Tail(s))
         /\ \A x \in Range(Tail(s)) : x[1] = Head(s)[1] => Head(s)[2] < x[2]
<1>1. /\ Len(s) \in Nat \ {0} /\ DOMAIN s = 1 .. Len(s) /\ DOMAIN Tail(s) = 1 .. Len(s) - 1
      /\ \A i \in 1 .. Len(s) - 1 : Tail(s)[i] = s[i + 1]
      /\ Head(s) = s[1]
  OBVIOUS
<1>2. \A i, j \in 1 .. Len(s) : i < j /\ s[i][1] = s[j][1] => s[i][2] < s[j][2]
  BY <1>1 DEF InOrder
<1> DEFINE a == Tail(s)
           h == Head(s)
<1>3. DOMAIN a = 1 .. Len(s) - 1 /\ (\A i \in 1 .. Len(s) - 1 : a[i] = s[i + 1]) /\ h = s[1]
  BY <1>1
<1> HIDE DEF a, h
<1>4. InOrder(a)
  <2> SUFFICES ASSUME NEW i \in 1 .. Len(s) - 1, NEW j \in 1 .. Len(s) - 1, i < j,
                      a[i][1] = a[j][1]
               PROVE  a[i][2] < a[j][2]
    BY <1>3 DEF InOrder
  <2>1. i + 1 \in 1 .. Len(s) /\ j + 1 \in 1 .. Len(s) /\ i + 1 < j + 1
    BY <1>1
  <2> QED
    BY <1>2, <1>3, <2>1
<1>5. ASSUME NEW x \in Range(a), x[1] = h[1] PROVE h[2] < x[2]
  <2>1. PICK i \in 1 .. Len(s) - 1 : x = a[i]
    BY <1>3 DEF Range
  <2>2. i + 1 \in 1 .. Len(s) /\ 1 \in 1 .. Len(s) /\ 1 < i + 1
    BY <1>1
  <2>3. x = s[i + 1]
    BY <1>3, <2>1
  <2> QED
    BY <1>2, <1>3, <1>5, <2>2, <2>3
<1> QED
  BY <1>4, <1>5 DEF a, h

LEMMA FrontInOrder ==
  ASSUME NEW S, NEW s \in Seq(S), InOrder(s), NEW front, front = SubSeq(s, 1, Len(s) - 1)
  PROVE  InOrder(front)
<1>1. DOMAIN front \subseteq DOMAIN s /\ \A i \in DOMAIN front : front[i] = s[i]
  BY FrontElements
<1>2. \A i, j \in DOMAIN s : i < j /\ s[i][1] = s[j][1] => s[i][2] < s[j][2]
  BY DEF InOrder
<1> SUFFICES ASSUME NEW i \in DOMAIN front, NEW j \in DOMAIN front, i < j,
                    front[i][1] = front[j][1]
             PROVE  front[i][2] < front[j][2]
  BY DEF InOrder
<1>3. i \in DOMAIN s /\ j \in DOMAIN s /\ front[i] = s[i] /\ front[j] = s[j]
  BY <1>1
<1> QED
  BY <1>2, <1>3

LEMMA RequestedStays ==
  ASSUME Ground, Reads, [Next]_vars, NEW x, x[1] \in Nat, x[2] \in Nat, Requested(x)
  PROVE  Requested(x)'
<1> DEFINE F == items["filename"]
<1>0. /\ F \in Seq(Files) /\ argi \in Nat
      /\ x[1] < argi /\ x[1] \notin Range(F)
      /\ \A r \in Requesters :
           /\ Busy(r) /\ file[r] = x[1] => x[2] < line[r] \/ (x[2] = line[r] /\ pc[r] = "r_put")
           /\ line[r] \in Nat
  BY GroundFacts DEF Requested
<1>1. CASE ReaderSame
  BY <1>0, <1>1 DEF Requested, ReaderSame
<1>2. CASE NameQueued
  <2>1. /\ argi \in Files /\ argi' = argi + 1 /\ pc' = pc
        /\ \A r \in Requesters : Busy(r)' = Busy(r) /\ file'[r] = file[r] /\ line'[r] = line[r]
    BY <1>2 DEF NameQueued, Busy
  <2>2. x[1] \notin Range(F)'
    <3>1. CASE F' = F
      BY <1>0, <3>1
    <3>2. CASE F' = Append(F, argi)
      <4> HIDE DEF F
      <4> QED
        BY <1>0, <2>1, <3>2, AppendElements
    <3> QED
      BY <1>2, <3>1, <3>2 DEF NameQueued
  <2> QED
    BY <1>0, <2>1, <2>2 DEF Requested
<1>3. ASSUME NEW r \in Requesters, NameTaken(r) PROVE Requested(x)'
  <2>1. F # <<>> /\ F' = Tail(F) /\ UNCHANGED argi
    BY <1>3 DEF NameTaken
  <2>2. Range(F) = Range(F') \cup {Head(F)}
    <3> HIDE DEF F
    <3> QED
      BY <1>0, <2>1, TailElements
  <2>3. \A u \in Requesters : Busy(u)' =>
          \/ Busy(u) /\ file'[u] = file[u] /\ line'[u] = line[u] /\ pc'[u] = pc[u]
          \/ file'[u] = Head(F)
    BY <1>3, Roles DEF NameTaken, Moved, Busy
  <2> HIDE DEF F
  <2>4. \A u \in Requesters : Busy(u)' /\ file'[u] = x[1] =>
          x[2] < line'[u] \/ (x[2] = line'[u] /\ pc'[u] = "r_put")
    BY <1>0, <2>2, <2>3
  <2> QED
    BY <1>0, <2>1, <2>2, <2>4 DEF Requested, F
<1>4. ASSUME NEW r \in Requesters, LineRead(r) PROVE Requested(x)'
  <2>1. F' = F /\ UNCHANGED <<argi, file>>
    BY <1>4 DEF LineRead
  <2>2. \A u \in Requesters \ {r} : (Busy(u)' <=> Busy(u)) /\ line'[u] = line[u] /\ pc'[u] = pc[u]
    BY <1>4, Roles DEF LineRead, Moved, Busy
  <2>3. Busy(r) /\ (Busy(r)' => line'[r] = line[r] \/ line'[r] = line[r] + 1)
    BY <1>4, Roles DEF LineRead, Moved, Busy
  <2>4. Busy(r)' /\ pc[r] = "r_put" => line'[r] = line[r] + 1
    BY <1>4, Roles DEF LineRead, Moved, Busy
  <2>5. ASSUME NEW u \in Requesters, Busy(u)', file'[u] = x[1]
        PROVE  x[2] < line'[u] \/ (x[2] = line'[u] /\ pc'[u] = "r_put")
    <3>1. CASE u = r
      BY <1>0, <2>1, <2>3, <2>4, <2>5, <3>1
    <3>2. CASE u # r
      BY <1>0, <2>1, <2>2, <2>5, <3>2
    <3> QED
      BY <3>1, <3>2
  <2> QED
    BY <1>0, <2>1, <2>5 DEF Requested
<1>5. ASSUME NEW r \in Requesters, ReaderHangs(r) PROVE Requested(x)'
  BY <1>0, <1>5, HangsLate DEF Requested, ReaderHangs
<1> QED
  BY <1>1, <1>2, <1>3, <1>4, <1>5, ReaderSteps

LEMMA NewlyRequested ==
  ASSUME Ground, Reads, [Next]_vars, NEW x \in Hosts, ~Requested(x), Requested(x)'
  PROVE  \/ NameLost(x[1]) \/ victim # None
         \/ \E r \in Requesters : pc[r] = "r_log" /\ pc'[r] = "r_put" /\ x = <<file[r], line[r]>>
<1> DEFINE F == items["filename"]
<1>0. /\ F \in Seq(Files) /\ argi \in Nat
      /\ \A r \in Requesters : line[r] \in Nat /\ file[r] \in Nat
  BY GroundFacts
<1>x. /\ x = <<x[1], x[2]>> /\ x[1] \in Nat /\ x[2] \in Nat \ {0}
      /\ x[1] \in Files /\ x[2] <= Len(Lines[x[1]]) /\ Len(Lines[x[1]]) \in Nat
  BY PositionIs, HostIs, InputShape
<1>1. CASE ReaderSame
  BY <1>1 DEF Requested, ReaderSame
<1>2. CASE NameQueued
  <2>1. /\ argi \in Files /\ argi' = argi + 1 /\ pc' = pc
        /\ \A r \in Requesters : Busy(r)' = Busy(r) /\ file'[r] = file[r] /\ line'[r] = line[r]
    BY <1>2 DEF NameQueued, Busy
  <2>2. CASE F' = Append(F, argi)
    <3>1. Range(F') = Range(F) \cup {argi}
      <4> HIDE DEF F
      <4> QED
        BY <1>0, <2>1, <2>2, AppendElements
    <3>2. x[1] < argi /\ x[1] \notin Range(F)
      BY <1>0, <1>x, <2>1, <3>1 DEF Requested
    <3> QED
      BY <2>1, <3>2 DEF Requested
  <2>3. CASE F' = F /\ (MayFail(argi) \/ AllocFails \/ shutdown["filename"])
    <3>1. x[1] # argi => x[1] < argi
      BY <1>0, <1>x, <2>1 DEF Requested
    <3>2. x[1] = argi
      BY <2>1, <2>3, <3>1 DEF Requested
    <3> QED
      BY <1>2, <2>3, <3>2 DEF NameLost, NameQueued
  <2> QED
    BY <1>2, <2>2, <2>3 DEF NameQueued
<1>3. ASSUME NEW r \in Requesters, NameTaken(r) PROVE NameLost(x[1])
  <2>1. F # <<>> /\ F' = Tail(F) /\ UNCHANGED argi /\ pc[r] = "r_file"
    BY <1>3 DEF NameTaken
  <2>2. Range(F) = Range(F') \cup {Head(F)}
    <3> HIDE DEF F
    <3> QED
      BY <1>0, <2>1, TailElements
  <2>3. \A u \in Requesters : Busy(u) =>
          Busy(u)' /\ file'[u] = file[u] /\ line'[u] = line[u] /\ pc'[u] = pc[u]
    BY <1>3, <2>1, Roles DEF NameTaken, Moved, Busy
  <2>4. x[1] = Head(F)
    <3> HIDE DEF F
    <3> QED
      BY <2>1, <2>2, <2>3 DEF Requested, F
  <2>5. CASE Moved(r, "r_get") /\ MayFail(Head(F))
    BY <2>4, <2>5 DEF NameLost
  <2>6. CASE /\ Moved(r, "r_read")
             /\ \A u \in Requesters : /\ file'[u] = IF u = r THEN Head(F) ELSE file[u]
                                      /\ line'[u] = IF u = r THEN 1 ELSE line[u]
    <3>1. Busy(r)' /\ pc'[r] = "r_read" /\ file'[r] = x[1] /\ line'[r] = 1
      BY <2>4, <2>6, Roles DEF Moved, Busy
    <3> QED
      BY <1>x, <3>1 DEF Requested
  <2> QED
    BY <1>3, <2>5, <2>6 DEF NameTaken
<1>4. ASSUME NEW r \in Requesters, LineRead(r)
      PROVE  pc[r] = "r_log" /\ pc'[r] = "r_put" /\ x = <<file[r], line[r]>>
  <2>1. F' = F /\ UNCHANGED <<argi, file>>
    BY <1>4 DEF LineRead
  <2>2. \A u \in Requesters \ {r} : (Busy(u)' <=> Busy(u)) /\ line'[u] = line[u] /\ pc'[u] = pc[u]
    BY <1>4, Roles DEF LineRead, Moved, Busy
  <2>3. Busy(r) /\ file[r] = x[1] /\ ~(x[2] < line[r]) /\ ~(x[2] = line[r] /\ pc[r] = "r_put")
    BY <2>1, <2>2 DEF Requested
  <2>4. CASE pc[r] = "r_log" /\ Moved(r, "r_put") /\ UNCHANGED line
    <3>1. x[2] < line[r] \/ x[2] = line[r]
      <4>1. Busy(r)' /\ pc'[r] = "r_put"
        BY <2>4, Roles DEF Moved, Busy
      <4> QED
        BY <2>1, <2>3, <2>4, <4>1 DEF Requested
    <3>2. x[2] = line[r] /\ pc'[r] = "r_put"
      BY <2>3, <2>4, <3>1, Roles DEF Moved
    <3> QED
      BY <1>x, <2>3, <2>4, <3>2
  <2>5. CASE line[r] > Len(Lines[file[r]])
    BY <1>0, <1>x, <2>3, <2>5
  <2>6. CASE /\ line'[r] = line[r] + 1 /\ Busy(r)' /\ pc'[r] = "r_read"
             /\ pc[r] = "r_put" \/ <<file[r], line[r]>> \notin Hosts
    <3>1. x[2] < line[r] + 1
      BY <2>1, <2>3, <2>6 DEF Requested
    <3>2. x[2] = line[r]
      BY <1>0, <1>x, <2>3, <3>1
    <3>3. x = <<file[r], line[r]>>
      BY <1>x, <2>3, <3>2
    <3> QED
      BY <2>3, <2>6, <3>2, <3>3
  <2>7. \/ pc[r] = "r_log" /\ Moved(r, "r_put") /\ UNCHANGED line
        \/ line[r] > Len(Lines[file[r]])
        \/ /\ line'[r] = line[r] + 1 /\ Busy(r)' /\ pc'[r] = "r_read"
           /\ pc[r] = "r_put" \/ <<file[r], line[r]>> \notin Hosts
    BY <1>4, Roles DEF LineRead, Moved, Busy
  <2> QED
    BY <2>4, <2>5, <2>6, <2>7
<1>5. ASSUME NEW r \in Requesters, ReaderHangs(r) PROVE victim # None
  BY <1>5, HangsLate
<1> QED
  BY <1>1, <1>2, <1>3, <1>4, <1>5, ReaderSteps

(* What a step does to them.                                                *)
RequestsSame == UNCHANGED <<Logging, Written>>
RequestLogged(r) ==
  /\ pc[r] = "r_log" /\ <<file[r], line[r]>> \in Hosts
  /\ UNCHANGED <<argi, file, line>> /\ items'["filename"] = items["filename"]
  /\ Moved(r, "r_put") /\ UNCHANGED Written
  /\ \/ Logging' = Append(Logging, <<file[r], line[r]>>)
     \/ Logging' = Logging /\ (AllocFails \/ shutdown["requester_log"])
RequestWritten ==
  /\ Logging # <<>> /\ Logging' = Tail(Logging)
  /\ Written' = Append(Written, Head(Logging))
RequestLost ==
  /\ Written' = SubSeq(Written, 1, Len(Written) - 1) /\ UNCHANGED Logging
  /\ pc[Handler] = "a_exit" /\ pc'[Main] = "exit_signal"

LEMMA RequestTypes ==
  ASSUME Ground
  PROVE  Logging \in Seq(Hosts) /\ Written \in Seq(Hosts)
  BY DEF Ground, Typed, ItemsTyped, LogQueues, Logging, Written, Loggers

LEMMA RequestLoggedDoes ==
  ASSUME Ground, NEW r \in Requesters, LogRequest(r)
  PROVE  RequestLogged(r)
<1>1. /\ pc[r] = "r_log" /\ UNCHANGED <<argi, file, line, log>>
      /\ Moved(r, "r_put")
      /\ \/ Appended("requester_log", <<file[r], line[r]>>)
         \/ UNCHANGED items /\ (AllocFails \/ shutdown["requester_log"])
  BY LogRequestDoes DEF Ground
<1>2. <<file[r], line[r]>> \in Hosts
  BY <1>1 DEF Ground, Typed
<1>3. items'["filename"] = items["filename"]
  BY <1>1 DEF Appended, Queues
<1>4. \/ Logging' = Append(Logging, <<file[r], line[r]>>)
      \/ Logging' = Logging /\ (AllocFails \/ shutdown["requester_log"])
  BY <1>1 DEF Appended, Queues, Logging
<1> QED
  BY <1>1, <1>2, <1>3, <1>4 DEF RequestLogged, Written

LEMMA RequestSteps ==
  ASSUME Ground, [Next]_vars
  PROVE  \/ RequestsSame
         \/ \E r \in Requesters : RequestLogged(r)
         \/ RequestWritten
         \/ RequestLost
<1> Launch /\ Typed /\ ReqLogger \in Loggers /\ ReqLogger # ResLogger
  BY GroundFacts, ThreadAssumption DEF Loggers
<1> USE DEF Queues
<1>1. CASE Still
  BY <1>1 DEF Still, RequestsSame, Logging, Written
<1>2. CASE QueueName
  <2>1. UNCHANGED log /\ (Appended("filename", argi) \/ UNCHANGED items)
    BY <1>2, QueueNameDoes
  <2> QED
    BY <2>1 DEF RequestsSame, Appended, Logging, Written
<1>3. ASSUME NEW r \in Requesters, OpenFile(r) \/ ReadLine(r) PROVE RequestsSame
  <2>1. UNCHANGED log /\ (Removed("filename") \/ UNCHANGED items)
    BY <1>3, OpenFileDoes, ReadLineDoes
  <2> QED
    BY <2>1 DEF RequestsSame, Removed, Logging, Written
<1>4. ASSUME NEW r \in Requesters, LogRequest(r) PROVE RequestLogged(r)
  BY <1>4, RequestLoggedDoes
<1>5. ASSUME NEW r \in Requesters, PutHost(r) PROVE RequestsSame
  <2>1. UNCHANGED log /\ (Appended("hostname", <<file[r], line[r]>>) \/ UNCHANGED items)
    BY <1>5, PutHostDoes
  <2> QED
    BY <2>1 DEF RequestsSame, Appended, Logging, Written
<1>6. ASSUME NEW s \in Resolvers, TakeHost(s) \/ LogResolved(s) PROVE RequestsSame
  <2>1. /\ UNCHANGED log
        /\ Removed("hostname") \/ Appended("resolver_log", host[s]) \/ UNCHANGED items
    BY <1>6, TakeHostDoes, LogResolvedDoes
  <2> QED
    BY <2>1 DEF RequestsSame, Appended, Removed, Logging, Written
<1>7. ASSUME NEW t \in Loggers, WriteLine(t) PROVE RequestsSame \/ RequestWritten
  <2>1. /\ Removed(LogQueue[t])
        /\ LogQueue[t] \in {"requester_log", "resolver_log"}
        /\ LogQueue[t] = "requester_log" <=> t = ReqLogger
        /\ \A u \in Loggers :
              log'[u] = IF u = t THEN Append(log[t], Head(items[LogQueue[t]])) ELSE log[u]
    BY <1>7, WriteLineDoes
  <2>2. CASE t # ReqLogger
    BY <2>1, <2>2 DEF RequestsSame, Removed, Logging, Written
  <2>3. CASE t = ReqLogger
    BY <2>1, <2>3 DEF RequestWritten, Removed, Logging, Written
  <2> QED
    BY <2>2, <2>3
<1>8. CASE HandlerExits
  <2>1. /\ UNCHANGED items /\ Moved(Main, "exit_signal")
        /\ \A t \in Loggers :
             log'[t] = log[t] \/ log'[t] = SubSeq(log[t], 1, Len(log[t]) - 1)
    BY <1>8, HandlerExitsDoes
  <2>2. pc[Handler] = "a_exit"
    BY <1>8 DEF HandlerExits, At
  <2> QED
    BY <2>1, <2>2, Roles DEF RequestsSame, RequestLost, Moved, Logging, Written
<1>9. ASSUME NEW r \in Requesters, RequesterHangs(r) PROVE RequestsSame
  BY <1>9, HangsDoes, GroundFacts DEF RequestsSame, Logging, Written
<1> QED
  BY <1>1, <1>2, <1>3, <1>4, <1>5, <1>6, <1>7, <1>8, <1>9, StillSteps DEF Moving

(* The log is in order, the queue continues it, and both hold only what the *)
(* requesters have handed in.                                               *)
RequestOrder ==
  /\ InOrder(Written) /\ InOrder(Logging)
  /\ \A x \in Range(Written), y \in Range(Logging) : x[1] = y[1] => x[2] < y[2]
  /\ \A x \in Range(Written) \cup Range(Logging) : Requested(x)

LEMMA RequestOrderStep ==
  ASSUME Ground, Reads, RequestOrder, [Next]_vars
  PROVE  RequestOrder'
<1> DEFINE W == Written
           Q == Logging
           After(x) == /\ x[1] < argi'
                       /\ x[1] \notin Range(items'["filename"])
                       /\ \A r \in Requesters : Busy(r)' /\ file'[r] = x[1] =>
                            x[2] < line'[r] \/ (x[2] = line'[r] /\ pc'[r] = "r_put")
<1>0. /\ W \in Seq(Hosts) /\ Q \in Seq(Hosts)
      /\ Range(W) \subseteq Hosts /\ Range(Q) \subseteq Hosts
  BY RequestTypes, RangeIs
<1>1. \A y \in Hosts : Requested(y) => After(y)
  <2>1. ASSUME NEW y \in Hosts, Requested(y) PROVE After(y)
    <3>1. Requested(y)'
      BY <2>1, RequestedStays, HostsArePairs
    <3> QED
      BY <3>1 DEF Requested
  <2> QED
    BY <2>1
<1>2. /\ InOrder(W) /\ InOrder(Q)
      /\ \A x \in Range(W), y \in Range(Q) : x[1] = y[1] => x[2] < y[2]
      /\ \A x \in Range(W) \cup Range(Q) : Requested(x)
  BY DEF RequestOrder
<1> DEFINE Goal == /\ InOrder(W') /\ InOrder(Q')
                   /\ \A x \in Range(W'), y \in Range(Q') : x[1] = y[1] => x[2] < y[2]
                   /\ \A x \in Range(W') \cup Range(Q') : After(x)
<1> SUFFICES Goal
  BY DEF RequestOrder, Requested, InOrder
<1> HIDE DEF W, Q, After
<1>3. \A x \in Range(W) \cup Range(Q) : After(x)
  BY <1>0, <1>1, <1>2
<1>4. CASE RequestsSame
  BY <1>2, <1>3, <1>4 DEF RequestsSame, W, Q
<1>5. ASSUME NEW r \in Requesters, RequestLogged(r) PROVE Goal
  <2> DEFINE e == <<file[r], line[r]>>
  <2>1. /\ pc[r] = "r_log" /\ Busy(r) /\ e \in Hosts /\ Moved(r, "r_put") /\ W' = W
        /\ Q' = Append(Q, e) \/ Q' = Q
        /\ UNCHANGED <<argi, file, line>> /\ items'["filename"] = items["filename"]
    BY <1>5 DEF RequestLogged, Busy, W, Q
  <2>2. \A x \in Range(W) \cup Range(Q) : x[1] = e[1] => x[2] < e[2]
    BY <1>2, <2>1 DEF Requested
  <2>3. After(e)
    <3>1. /\ file[r] < argi /\ file[r] \notin Range(items["filename"])
          /\ \A u \in Requesters : Busy(u) /\ file[u] = file[r] => u = r
      BY <2>1 DEF Reads
    <3>2. \A u \in Requesters : Busy(u)' => Busy(u)
      BY <2>1, Roles DEF Busy, Moved
    <3>3. pc'[r] = "r_put"
      BY <2>1, Roles DEF Moved
    <3> QED
      BY <2>1, <3>1, <3>2, <3>3 DEF After
  <2> HIDE DEF e
  <2>4. Range(Append(Q, e)) = Range(Q) \cup {e}
    BY <1>0, <2>1, AppendElements
  <2>5. InOrder(Append(Q, e))
    BY <1>0, <1>2, <2>1, <2>2, AppendInOrder
  <2> QED
    BY <1>2, <1>3, <2>1, <2>2, <2>3, <2>4, <2>5
<1>6. CASE RequestWritten
  <2>1. Q # <<>> /\ Q' = Tail(Q) /\ W' = Append(W, Head(Q))
    BY <1>6 DEF RequestWritten, W, Q
  <2>2. Range(Q) = Range(Q') \cup {Head(Q)} /\ Head(Q) \in Hosts
    BY <1>0, <2>1, TailElements
  <2>3. InOrder(Q') /\ \A x \in Range(Q') : x[1] = Head(Q)[1] => Head(Q)[2] < x[2]
    BY <1>0, <1>2, <2>1, TailInOrder
  <2>4. Range(W') = Range(W) \cup {Head(Q)}
    BY <1>0, <2>1, <2>2, AppendElements
  <2>5. \A x \in Range(W) : x[1] = Head(Q)[1] => x[2] < Head(Q)[2]
    BY <1>2, <2>2
  <2>6. InOrder(W')
    BY <1>0, <1>2, <2>1, <2>2, <2>5, AppendInOrder
  <2>7. \A x \in Range(W'), y \in Range(Q') : x[1] = y[1] => x[2] < y[2]
    BY <1>2, <2>2, <2>3, <2>4
  <2> QED
    BY <1>3, <2>2, <2>3, <2>4, <2>6, <2>7
<1>7. CASE RequestLost
  <2>1. W' = SubSeq(W, 1, Len(W) - 1) /\ Q' = Q
    BY <1>7 DEF RequestLost, W, Q
  <2>2. Range(W') \subseteq Range(W)
    BY <1>0, <2>1, FrontElements
  <2>3. InOrder(W')
    BY <1>0, <1>2, <2>1, FrontInOrder
  <2> QED
    BY <1>2, <1>3, <2>1, <2>2, <2>3
<1> HIDE DEF Goal
<1> QED
  BY <1>4, <1>5, <1>6, <1>7, RequestSteps

(* Without a signal or a failed allocation, what was handed in is there.    *)
AllRequested ==
  victim = None /\ ~AllocFails =>
    \A x \in Due : Requested(x) => x \in Range(Logging) \cup Range(Written)

LEMMA HandsIn ==
  ASSUME Ground, [Next]_vars, NEW r \in Requesters, pc[r] = "r_log", pc'[r] = "r_put"
  PROVE  LogRequest(r)
<1>1. WorkerStep(r) /\ r \in Requesters /\ r \notin Resolvers /\ r \notin Loggers
  BY Movers, Roles DEF Ground
<1>2. Requester(r)
  BY <1>1 DEF WorkerStep
<1>3. ~RequesterHangs(r)
  BY HangsDoes, Roles DEF Ground, Moved
<1> QED
  BY <1>2, <1>3 DEF Requester, RequestFile, OpenFile, SkipFile, ReadLine, PutHost, LeaveFiles,
                    ExitReader, FreeHosts, FreeReqLog, At

LEMMA StaysRequested ==
  ASSUME Ground, victim' = None, [Next]_vars,
         NEW x \in Range(Logging) \cup Range(Written)
  PROVE  x \in Range(Logging') \cup Range(Written')
<1> DEFINE W == Written
           Q == Logging
<1>0. W \in Seq(Hosts) /\ Q \in Seq(Hosts) /\ (x \in Range(Q) \/ x \in Range(W))
  BY RequestTypes
<1>i. Inv
  BY VictimForGood DEF Ground
<1> SUFFICES x \in Range(Q') \/ x \in Range(W')
  OBVIOUS
<1> HIDE DEF W, Q
<1>1. CASE RequestsSame
  BY <1>0, <1>1 DEF RequestsSame, W, Q
<1>2. ASSUME NEW r \in Requesters, RequestLogged(r) PROVE x \in Range(Q') \/ x \in Range(W')
  <2> DEFINE e == <<file[r], line[r]>>
  <2>1. e \in Hosts /\ W' = W /\ (Q' = Append(Q, e) \/ Q' = Q)
    BY <1>2 DEF RequestLogged, W, Q
  <2> HIDE DEF e
  <2>2. Range(Append(Q, e)) = Range(Q) \cup {e}
    BY <1>0, <2>1, AppendElements
  <2> QED
    BY <1>0, <2>1, <2>2
<1>3. CASE RequestWritten
  <2>1. Q # <<>> /\ Q' = Tail(Q) /\ W' = Append(W, Head(Q))
    BY <1>3 DEF RequestWritten, W, Q
  <2>2. Range(Q) = Range(Q') \cup {Head(Q)} /\ Head(Q) \in Hosts
    BY <1>0, <2>1, TailElements
  <2>3. Range(W') = Range(W) \cup {Head(Q)}
    BY <1>0, <2>1, <2>2, AppendElements
  <2> QED
    BY <1>0, <2>2, <2>3
<1>4. ~RequestLost
  BY <1>i DEF RequestLost, Inv, Order, NoHandler
<1> QED
  BY <1>1, <1>2, <1>3, <1>4, RequestSteps

LEMMA AllRequestedStep ==
  ASSUME Ground, Reads, AllRequested, [Next]_vars
  PROVE  AllRequested'
<1> SUFFICES ASSUME victim' = None, ~AllocFails, NEW x \in Due, Requested(x)'
             PROVE  x \in Range(Logging') \cup Range(Written')
  BY DEF AllRequested
<1>1. victim = None /\ x \in Hosts /\ ~MayFail(x[1])
  BY VictimForGood, DueIs
<1>i. Inv
  BY <1>1 DEF Ground
<1>2. CASE Requested(x)
  BY <1>1, <1>2, StaysRequested DEF AllRequested
<1>3. CASE ~Requested(x)
  <2>1. ~NameLost(x[1])
    BY <1>1, <1>i DEF NameLost, Inv, Order, OpenBefore
  <2>2. PICK r \in Requesters : pc[r] = "r_log" /\ pc'[r] = "r_put" /\ x = <<file[r], line[r]>>
    BY <1>1, <1>3, <2>1, NewlyRequested
  <2>3. RequestLogged(r)
    BY <2>2, HandsIn, RequestLoggedDoes
  <2>4. ~shutdown["requester_log"]
    BY <1>i, <2>2 DEF Inv, Order, ClosedToPutters, Reading
  <2>5. Logging' = Append(Logging, x) /\ Logging \in Seq(Hosts)
    BY <2>2, <2>3, <2>4, RequestTypes DEF RequestLogged
  <2>6. x \in Range(Logging')
    <3> HIDE DEF Logging
    <3> QED
      BY <1>1, <2>5, AppendElements
  <2> QED
    BY <2>6
<1> QED
  BY <1>2, <1>3

RequestInv == Flow /\ RequestOrder /\ AllRequested

LEMMA RequestAlways == Spec => []RequestInv
<1>1. Init => RequestOrder /\ AllRequested
  <2> SUFFICES ASSUME Init PROVE RequestOrder /\ AllRequested
    OBVIOUS
  <2>1. Logging = <<>> /\ Written = <<>>
    BY DEF Init, Queues, Loggers, Logging, Written
  <2>2. RequestOrder
    BY <2>1 DEF RequestOrder, InOrder, Range
  <2>3. ASSUME NEW x \in Due PROVE ~Requested(x)
    <3>1. argi = 1 /\ x[1] \in Files
      BY DueIs, HostIs, PositionIs DEF Init
    <3> QED
      BY <3>1, InputShape DEF Requested
  <2> QED
    BY <2>2, <2>3 DEF AllRequested
<1>2. Flow /\ RequestOrder /\ AllRequested /\ [Next]_vars => RequestOrder' /\ AllRequested'
  BY RequestOrderStep, AllRequestedStep DEF Flow, FreedInv
<1> QED
  BY <1>1, <1>2, FlowAlways, PTL DEF Spec, RequestInv

(* The requester log holds the lines of each file in the file's order,      *)
(* though several requesters fill it; and when the program exits without a  *)
(* failed allocation every hostname that is due is in it once.              *)
THEOREM RequestedOnceCorrect == Spec => []RequestedOnceInOrder
<1>1. RequestInv => RequestedOnceInOrder
  <2> SUFFICES ASSUME RequestInv
               PROVE  /\ InOrder(Written)
                      /\ Exited /\ ~AllocFails => \A x \in Due : Occurrences(x, Written) = 1
    BY DEF RequestedOnceInOrder, InOrder, Written
  <2>1. Ground /\ InOrder(Written) /\ Written \in Seq(Hosts) /\ Flow
    BY RequestTypes DEF RequestInv, Flow, FreedInv, RequestOrder
  <2>2. ASSUME Exited, ~AllocFails, NEW x \in Due PROVE Occurrences(x, Written) = 1
    <3>1. pc[Main] = "exit" /\ victim = None /\ Gone(Workers) /\ x \in Hosts
      BY <2>1, <2>2, DueIs DEF Exited, Ground, Launch
    <3>2. Behind(x)
      BY <2>1, <3>1, ExitBehind
    <3>3. Requested(x)
      BY <3>2 DEF Behind, Requested
    <3>4. Logging = <<>>
      BY <3>1, ExitDrained DEF RequestInv, Flow, Queues, Logging
    <3>5. Range(<<>>) = {}
      BY DEF Range
    <3>6. x \in Range(Written)
      BY <2>2, <3>1, <3>3, <3>4, <3>5 DEF RequestInv, AllRequested
    <3>7. \A i, j \in DOMAIN Written : Written[i] = x /\ Written[j] = x => i = j
      <4>1. SUFFICES ASSUME NEW i \in DOMAIN Written, NEW j \in DOMAIN Written,
                            Written[i] = x, Written[j] = x
                     PROVE  ~(i < j)
        <5>1. DOMAIN Written \subseteq Nat
          BY <2>1
        <5>2. \A i, j \in DOMAIN Written : i = j \/ i < j \/ j < i
          BY <5>1
        <5> QED
          BY <4>1, <5>2
      <4>2. x[2] \in Nat
        BY <3>1, HostsArePairs
      <4>3. i < j => x[2] < x[2]
        BY <2>1, <4>1 DEF InOrder
      <4> QED
        BY <4>2, <4>3
    <3> QED
      BY <3>6, <3>7, OccursOnce
  <2> QED
    BY <2>1, <2>2
<1> QED
  BY <1>1, RequestAlways, PTL

-----------------------------------------------------------------------------
(* The program as HostLookup sees it: the resolver log and how it ended.    *)

Outcome == CASE pc[Main] = "exit"         -> "success"
             [] pc[Main] = "exit_failure" -> "failure"
             [] Running                   -> "running"
             [] OTHER                     -> "down"

(* There is no answer before the workers, and none of those due is missing  *)
(* when the program succeeds.                                               *)
NoAnswerYet == pc[Main] \in BeforePC \cup AbortPC => Answers = <<>>
AllAnswered == pc[Main] = "exit" /\ ~AllocFails => \A x \in Due : x \in Range(Answers)

(* A program that has ended does nothing any more.                          *)
LEMMA EndIsEnd ==
  ASSUME [Next]_vars, ~Running
  PROVE  UNCHANGED vars
<1>1. ~MainThread
  BY PutHung DEF MainThread, CheckArguments, CountValid, OpenLogs, StartReqLogger, StartResLogger,
         StartLogger, AllocateThreads, CleanUp, FreeAll, CreateRequesters, QueueName,
         CreateResolvers, FreeNames, JoinRequesters, JoinResolvers, Join, FreeReqLogAgain,
         FreeResLog, JoinLoggers, At
<1>2. ASSUME NEW t \in Workers PROVE ~WorkerStep(t)
  BY WorkerActs
<1>3. ~SignalHandler
  BY DEF SignalHandler, HandlerFrees, HandlerExits, FreeAll, At
<1>4. \A t \in Interrupted : ~Interrupt(t)
  BY DEF Interrupt
<1> QED
  BY <1>1, <1>2, <1>3, <1>4, Roles DEF Next, Ended, WorkerStep

LEMMA NoAnswerYetStep ==
  ASSUME FreedInv, NoAnswerYet, [Next]_vars
  PROVE  NoAnswerYet'
<1> SUFFICES ASSUME pc'[Main] \in BeforePC \cup AbortPC
             PROVE  Answers' = <<>>
  BY DEF NoAnswerYet
<1>1. pc[Main] \in BeforePC \cup AbortPC
  BY MainArrives DEF FreedInv
<1>2. Answers = <<>> /\ Answering = <<>>
  BY <1>1 DEF NoAnswerYet, FreedInv, FreedSoFar, Answering, Queues
<1>3. ~AnswerLost
  BY DEF AnswerLost, BeforePC, AbortPC
<1> QED
  BY <1>2, <1>3, FlowSteps DEF FreedInv, FlowSame, HostPut, HostTaken, HostLogged, AnswerWritten

LEMMA Promised ==
  ASSUME PassedInv, NoAnswerYet, AllAnswered', [Next]_vars
  PROVE  [HL!Next]_(HL!vars)
<1>0. Ground /\ OnePlace /\ Answering \in Seq(Hosts) /\ FreedInv
  BY FlowTypes DEF PassedInv, Flow, FreedInv
<1>a. \A x : HL!Answered(x) <=> x \in Range(Answers)
  BY DEF HL!Answered, Answers, Range
<1>1. CASE ~Running
  BY <1>1, EndIsEnd DEF HL!vars, vars, allButPc, Running
<1>2. CASE Running /\ Running'
  <2>1. Outcome = "running" /\ Outcome' = "running"
    BY <1>2 DEF Outcome, Running
  <2>2. CASE AnswerWritten
    <3> DEFINE x == Head(Answering)
    <3>1. x \in Hosts /\ x \notin Range(Answers)
      <4>1. x \in Range(Answering) /\ Range(Answering) \subseteq Hosts
        <5> DEFINE R == Answering
        <5>1. R \in Seq(Hosts) /\ R # <<>>
          BY <1>0, <2>2 DEF AnswerWritten
        <5> HIDE DEF R
        <5>2. Head(R) \in Range(R) /\ Range(R) \subseteq Hosts
          BY <5>1, TailElements, RangeIs
        <5> QED
          BY <5>2 DEF R
      <4> QED
        BY <1>0, <4>1 DEF OnePlace
    <3>2. log'[ResLogger] = Append(log[ResLogger], x)
      BY <2>2 DEF AnswerWritten, Answers
    <3>3. HL!Answer(x)
      BY <1>a, <2>1, <3>1, <3>2 DEF HL!Answer, Outcome
    <3> QED
      BY <3>1, <3>3 DEF HL!Next
  <2>3. CASE ~AnswerWritten
    <3>1. Answers' = Answers
      BY <1>0, <1>2, <2>3, FlowSteps DEF FlowSame, HostPut, HostTaken, HostLogged, AnswerLost,
                                         Running
    <3> QED
      BY <2>1, <3>1 DEF HL!vars, Outcome, Answers
  <2> QED
    BY <2>2, <2>3
<1>3. CASE Running /\ ~Running'
  <2>1. Outcome = "running" /\ pc'[Main] # pc[Main]
    BY <1>3 DEF Outcome, Running
  <2>2. \/ Answers' = Answers
        \/ Answers' = SubSeq(Answers, 1, Len(Answers) - 1) /\ pc'[Main] = "exit_signal"
    BY <1>0, <2>1, FlowSteps DEF FlowSame, HostPut, HostTaken, HostLogged, AnswerWritten,
                                 AnswerLost
  <2>3. CASE pc'[Main] = "exit"
    <3>1. Answers' = Answers /\ Outcome' = "success"
      BY <2>2, <2>3 DEF Outcome, Running
    <3>2. \A x \in IF AllocFails THEN {} ELSE Due : HL!Answered(x)
      BY <1>a, <2>3, <3>1 DEF AllAnswered
    <3> QED
      BY <2>1, <3>1, <3>2 DEF HL!Next, HL!Succeed, Outcome, Answers
  <2>4. CASE pc'[Main] = "exit_failure"
    <3>1. Answers' = Answers /\ Outcome' = "failure"
      BY <2>2, <2>4 DEF Outcome, Running
    <3>2. pc[Main] \in BeforePC \cup AbortPC
      BY <1>0, <2>4, MainArrives DEF FreedInv, AbortPC
    <3>3. Answers = <<>>
      BY <3>2 DEF NoAnswerYet
    <3> QED
      BY <2>1, <3>1, <3>3 DEF HL!Next, HL!Fail, Outcome, Answers
  <2>5. CASE pc'[Main] \in {"exit_signal", "crashed"}
    <3>1. Outcome' = "down"
      BY <1>3, <2>5 DEF Outcome
    <3> QED
      BY <2>1, <2>2, <3>1 DEF HL!Next, HL!BroughtDown, Outcome, Answers
  <2> QED
    BY <1>3, <2>3, <2>4, <2>5 DEF Running
<1> QED
  BY <1>1, <1>2, <1>3

(* The program does what HostLookup promises: each hostname is answered     *)
(* once; success means that all that are due were; failure comes before the *)
(* first answer; and a signal loses at most the answer being written.       *)
THEOREM HostLookupCorrect == Spec => ImplementsHostLookup
<1>1. Init => HL!Init /\ NoAnswerYet
  <2> SUFFICES ASSUME Init PROVE HL!Init /\ NoAnswerYet
    OBVIOUS
  <2>1. pc[Main] = "m_args" /\ log[ResLogger] = <<>>
    BY Roles DEF Init, Loggers
  <2> QED
    BY <2>1 DEF HL!Init, NoAnswerYet, Running, Answers
<1>2. PassedInv => AllAnswered
  BY ExitAnswered DEF AllAnswered
<1>3. PassedInv /\ NoAnswerYet /\ [Next]_vars => NoAnswerYet'
  BY NoAnswerYetStep DEF PassedInv, Flow
<1>4. PassedInv /\ NoAnswerYet /\ AllAnswered' /\ [Next]_vars => [HL!Next]_(HL!vars)
  BY Promised
<1> QED
  BY <1>1, <1>2, <1>3, <1>4, PassedAlways, PTL DEF Spec, ImplementsHostLookup, HL!Spec

-----------------------------------------------------------------------------
(* What has been passed on is in the requester log, or on its way there.    *)

LEMMA NeverBefore ==
  ASSUME Ground, [Next]_vars, pc[Main] \notin BeforePC
  PROVE  pc'[Main] \notin BeforePC
<1>1. CASE OtherStep
  BY <1>1 DEF OtherStep, MainPath, BeforePC
<1>2. CASE FreeStep
  <2>1. PICK t, q, here, next : At(t, here) /\ Free(t, q, next) /\ FreePath(t, q, here, next)
    BY <1>2 DEF FreeStep
  <2>2. t \in Threads /\ (UNCHANGED pc \/ Goto(t, "stuck") \/ Goto(t, next))
    BY <2>1, FreeKeeps, Roles DEF FreePath
  <2>3. t = Main => next \notin BeforePC
    BY <2>1, Roles DEF FreePath, AbortPath, BeforePC
  <2>4. CASE UNCHANGED pc
    BY <2>4
  <2>5. ASSUME NEW l, Goto(t, l), t = Main => l \notin BeforePC PROVE pc'[Main] \notin BeforePC
    BY <2>2, <2>5, PcMoves, Roles DEF Ground, Launch
  <2> QED
    BY <2>2, <2>3, <2>4, <2>5 DEF BeforePC
<1> QED
  BY <1>1, <1>2, Steps DEF Ground

LEMMA GoneForGood ==
  ASSUME Ground, [Next]_vars, Gone(Requesters), pc[Main] \notin BeforePC
  PROVE  Gone(Requesters)' /\ pc'[Main] \notin BeforePC
<1>1. ~CreateRequesters
  BY DEF CreateRequesters, At, BeforePC
<1>2. ASSUME NEW r \in Requesters, pc'[r] # pc[r] PROVE FALSE
  <2>1. WorkerStep(r)
    BY <1>1, <1>2, Movers, Roles DEF Ground
  <2> QED
    BY <2>1, WorkerActs, Roles DEF Gone
<1> QED
  BY <1>2, NeverBefore DEF Gone

(* When the requester log is closed the hostname queue was closed before it,*)
(* or there are no requesters any more.                                     *)
HostsClosedFirst ==
  shutdown["requester_log"] =>
    shutdown["hostname"] \/ (Gone(Requesters) /\ pc[Main] \notin BeforePC)

LEMMA HostsClosedFirstStep ==
  ASSUME FreedInv, HostsClosedFirst, [Next]_vars
  PROVE  HostsClosedFirst'
<1>0. Ground /\ Launch /\ "hostname" \in Queues /\ "requester_log" \in Queues
      /\ shutdown \in [Queues -> BOOLEAN]
  BY DEF FreedInv, Ground, Queues, Controlled
<1>1. shutdown["hostname"] => shutdown'["hostname"]
  BY <1>0, ClosedForGood
<1>2. CASE shutdown["requester_log"]
  BY <1>0, <1>1, <1>2, GoneForGood DEF HostsClosedFirst
<1>3. CASE ~shutdown["requester_log"] /\ OtherStep
  BY <1>3 DEF HostsClosedFirst, OtherStep
<1>4. CASE ~shutdown["requester_log"] /\ shutdown'["requester_log"] /\ FreeStep
  <2>1. PICK t, q, here, next : At(t, here) /\ Free(t, q, next) /\ FreePath(t, q, here, next)
    BY <1>4 DEF FreeStep
  <2>2. q = "requester_log" /\ UNCHANGED pc /\ pc[t] = here
    BY <1>0, <1>4, <2>1 DEF Free, At
  <2>3. \/ t = Main /\ here \in {"a_second", "m_free_reqlog"}
        \/ t = Handler /\ here = "a_second"
        \/ t \in Requesters /\ here = "r_free_log"
    BY <2>1, <2>2 DEF FreePath, AbortPath
  <2>4. CASE t # Main
    BY <1>1, <2>2, <2>3, <2>4 DEF FreedInv, FreedSoFar, Done, HostsClosedFirst
  <2>5. CASE t = Main /\ here = "a_second"
    <3>1. Gone(Requesters) /\ pc[Main] \notin BeforePC
      BY <1>0, <2>2, <2>5 DEF Launch, Unstarted, Gone, AbortPC, BeforePC
    <3> QED
      BY <2>2, <3>1 DEF HostsClosedFirst, Gone
  <2>6. CASE t = Main /\ here = "m_free_reqlog"
    <3>1. Gone(Requesters) /\ pc[Main] \notin BeforePC
      BY <1>0, <2>2, <2>6 DEF Launch, Joined, BeforePC
    <3> QED
      BY <2>2, <3>1 DEF HostsClosedFirst, Gone
  <2> QED
    BY <2>3, <2>4, <2>5, <2>6, Roles
<1> QED
  BY <1>0, <1>2, <1>3, <1>4, Steps DEF HostsClosedFirst, Ground

(* A requester that is about to pass a hostname on has had it recorded,     *)
(* unless it cannot pass it on any more.                                    *)
RecordedBefore ==
  pc[Main] # "exit_signal" =>
    \A r \in Requesters :
      pc[r] = "r_put" => <<file[r], line[r]>> \in Recorded \/ shutdown["hostname"]
PassedRecorded ==
  /\ pc[Main] # "exit_signal" => Passed \subseteq Recorded \cup {NoHost}
  /\ \E e : Passed \subseteq Recorded \cup {NoHost, e}

LEMMA ReachesPut ==
  ASSUME Ground, [Next]_vars, NEW r \in Requesters, pc'[r] = "r_put"
  PROVE  /\ pc[r] = "r_put" \/ (pc[r] = "r_log" /\ LogRequest(r))
         /\ file'[r] = file[r] /\ line'[r] = line[r]
<1>1. CASE ReaderSame
  BY <1>1 DEF ReaderSame
<1>2. CASE NameQueued
  BY <1>2 DEF NameQueued
<1>3. ASSUME NEW u \in Requesters, NameTaken(u)
      PROVE  pc[r] = "r_put" /\ file'[r] = file[r] /\ line'[r] = line[r]
  BY <1>3, Roles DEF NameTaken, Moved
<1>4. ASSUME NEW u \in Requesters, LineRead(u)
      PROVE  pc[r] \in {"r_put", "r_log"} /\ file'[r] = file[r] /\ line'[r] = line[r]
  BY <1>4, Roles DEF LineRead, Moved
<1>5. ASSUME NEW u \in Requesters, ReaderHangs(u)
      PROVE  pc[r] = "r_put" /\ file'[r] = file[r] /\ line'[r] = line[r]
  BY <1>5, HangsLate DEF ReaderHangs
<1>6. pc[r] \in {"r_put", "r_log"} /\ file'[r] = file[r] /\ line'[r] = line[r]
  BY <1>1, <1>2, <1>3, <1>4, <1>5, ReaderSteps
<1> QED
  BY <1>6, HandsIn

(* What is recorded stays so, but for the last line when the program exits. *)
LEMMA RecordedStays ==
  ASSUME Ground, [Next]_vars
  PROVE  /\ pc'[Main] # "exit_signal" => Recorded \subseteq Recorded'
         /\ \E e : Recorded \subseteq Recorded' \cup {e}
<1> DEFINE W == Written
           Q == Logging
<1>0. W \in Seq(Hosts) /\ Q \in Seq(Hosts)
      /\ Recorded = Range(W) \cup Range(Q) /\ Recorded' = Range(W') \cup Range(Q')
  BY RequestTypes DEF Recorded, Written, Logging
<1> HIDE DEF W, Q
<1>1. CASE RequestsSame
  BY <1>0, <1>1 DEF RequestsSame, W, Q
<1>2. ASSUME NEW r \in Requesters, RequestLogged(r) PROVE Recorded \subseteq Recorded'
  <2> DEFINE e == <<file[r], line[r]>>
  <2>1. e \in Hosts /\ W' = W /\ (Q' = Append(Q, e) \/ Q' = Q)
    BY <1>2 DEF RequestLogged, W, Q
  <2> HIDE DEF e
  <2>2. Range(Append(Q, e)) = Range(Q) \cup {e}
    BY <1>0, <2>1, AppendElements
  <2> QED
    BY <1>0, <2>1, <2>2
<1>3. CASE RequestWritten
  <2>1. Q # <<>> /\ Q' = Tail(Q) /\ W' = Append(W, Head(Q))
    BY <1>3 DEF RequestWritten, W, Q
  <2>2. Range(Q) = Range(Q') \cup {Head(Q)} /\ Head(Q) \in Hosts
    BY <1>0, <2>1, TailElements
  <2>3. Range(W') = Range(W) \cup {Head(Q)}
    BY <1>0, <2>1, <2>2, AppendElements
  <2> QED
    BY <1>0, <2>2, <2>3
<1>4. CASE RequestLost
  <2>1. W' = SubSeq(W, 1, Len(W) - 1) /\ Q' = Q /\ pc'[Main] = "exit_signal"
    BY <1>4 DEF RequestLost, W, Q
  <2> DEFINE front == SubSeq(W, 1, Len(W) - 1)
  <2>2. Range(W) \subseteq Range(front) \cup {W[Len(W)]}
    <3>1. W \in Seq(Hosts) /\ front = SubSeq(W, 1, Len(W) - 1)
      BY <1>0
    <3> HIDE DEF front
    <3> QED
      BY <3>1, FrontElements
  <2> QED
    BY <1>0, <2>1, <2>2
<1> QED
  BY <1>1, <1>2, <1>3, <1>4, RequestSteps

LEMMA RecordedBeforeStep ==
  ASSUME FreedInv, Reads, HostsClosedFirst, RecordedBefore, ~AllocFails, [Next]_vars
  PROVE  RecordedBefore'
<1>0. Ground /\ "hostname" \in Queues
  BY DEF FreedInv, Queues
<1> SUFFICES ASSUME pc'[Main] # "exit_signal", NEW r \in Requesters, pc'[r] = "r_put"
             PROVE  <<file'[r], line'[r]>> \in Recorded' \/ shutdown'["hostname"]
  BY DEF RecordedBefore
<1>1. /\ pc[r] = "r_put" \/ (pc[r] = "r_log" /\ LogRequest(r))
      /\ file'[r] = file[r] /\ line'[r] = line[r]
  BY <1>0, ReachesPut
<1>2. shutdown["hostname"] => shutdown'["hostname"]
  BY <1>0, ClosedForGood
<1>3. CASE pc[r] = "r_put"
  <2>1. pc[Main] # "exit_signal"
    <3>1. ASSUME pc[Main] = "exit_signal" PROVE FALSE
      BY <3>1, EndIsEnd DEF Running, vars
    <3> QED
      BY <3>1
  <2>2. Recorded \subseteq Recorded'
    BY <1>0, RecordedStays
  <2> QED
    BY <1>1, <1>2, <1>3, <2>1, <2>2 DEF RecordedBefore
<1>4. CASE pc[r] = "r_log" /\ LogRequest(r)
  <2>1. RequestLogged(r)
    BY <1>0, <1>4, RequestLoggedDoes
  <2>2. CASE shutdown["requester_log"]
    BY <1>2, <1>4, <2>2 DEF HostsClosedFirst, Gone
  <2>3. CASE ~shutdown["requester_log"]
    <3> DEFINE e == <<file[r], line[r]>>
               Q == Logging
    <3>1. Q' = Append(Q, e) /\ e \in Hosts /\ Q \in Seq(Hosts)
      BY <1>0, <2>1, <2>3, RequestTypes DEF RequestLogged
    <3>2. e \in Range(Q')
      <4> HIDE DEF Q, e
      <4> QED
        BY <3>1, AppendElements
    <3> QED
      BY <1>1, <3>2 DEF Recorded, Logging
  <2> QED
    BY <2>2, <2>3
<1> QED
  BY <1>1, <1>3, <1>4

LEMMA PassedGrows ==
  ASSUME FreedInv, ~AllocFails, RecordedBefore, pc[Main] # "exit_signal", [Next]_vars
  PROVE  Passed' \subseteq Passed \cup Recorded \cup {NoHost}
<1> DEFINE L == Asked
           R == Answering
           G == Answers
<1>0. /\ Ground
      /\ L \in Seq(Hosts) /\ R \in Seq(Hosts) /\ G \in Seq(Hosts)
      /\ host \in [Resolvers -> Hosts \cup {NoHost}]
  BY FlowTypes DEF FreedInv, Ground, Typed
<1>1. DOMAIN host' = Resolvers
  BY <1>0, TypedStep DEF Ground, Typed
<1>2. /\ Passed = Range(L) \cup {host[s] : s \in Resolvers} \cup Range(R) \cup Range(G)
      /\ Passed' = Range(L') \cup {host'[s] : s \in Resolvers} \cup Range(R') \cup Range(G')
  BY <1>0, <1>1 DEF Passed, Asked, Answering, Answers, Range
<1> HIDE DEF L, R, G
<1>3. CASE FlowSame
  BY <1>2, <1>3 DEF FlowSame, L, R, G
<1>4. ASSUME NEW r \in Requesters, HostPut(r)
      PROVE  Passed' \subseteq Passed \cup Recorded \cup {NoHost}
  <2> DEFINE e == <<file[r], line[r]>>
  <2>1. /\ e \in Hosts /\ R' = R /\ G' = G /\ host' = host
        /\ L' = L \/ L' = Append(L, e)
    BY <1>4 DEF HostPut, L, R, G
  <2>2. e \in Recorded \/ shutdown["hostname"]
    BY <1>4 DEF HostPut, RecordedBefore
  <2>3. shutdown["hostname"] => L' = L
    BY <1>4 DEF HostPut, L
  <2> HIDE DEF e
  <2>4. Range(Append(L, e)) = Range(L) \cup {e}
    BY <1>0, <2>1, AppendElements
  <2> QED
    BY <1>2, <2>1, <2>2, <2>3, <2>4
<1>5. ASSUME NEW s \in Resolvers, HostTaken(s) PROVE Passed' \subseteq Passed
  <2>1. /\ L # <<>> /\ L' = Tail(L) /\ R' = R /\ G' = G
        /\ \A u \in Resolvers : host'[u] = IF u = s THEN Head(L) ELSE host[u]
    BY <1>5 DEF HostTaken, L, R, G
  <2>2. Range(L) = Range(L') \cup {Head(L)}
    BY <1>0, <2>1, TailElements
  <2> QED
    BY <1>2, <2>1, <2>2
<1>6. ASSUME NEW s \in Resolvers, HostLogged(s) PROVE Passed' \subseteq Passed \cup {NoHost}
  <2>1. /\ host[s] \in Hosts /\ L' = L /\ G' = G
        /\ \A u \in Resolvers : host'[u] = IF u = s THEN NoHost ELSE host[u]
        /\ R' = R \/ R' = Append(R, host[s])
    BY <1>6 DEF HostLogged, L, R, G
  <2>2. Range(R') \subseteq Range(R) \cup {host[s]}
    <3> DEFINE x == host[s]
    <3>1. x \in Hosts /\ (R' = R \/ R' = Append(R, x))
      BY <2>1
    <3> HIDE DEF x
    <3>2. Range(Append(R, x)) = Range(R) \cup {x}
      BY <1>0, <3>1, AppendElements
    <3>3. Range(R') \subseteq Range(R) \cup {x}
      BY <3>1, <3>2
    <3> QED
      BY <3>3 DEF x
  <2> QED
    BY <1>2, <2>1, <2>2
<1>7. CASE AnswerWritten
  <2>1. R # <<>> /\ R' = Tail(R) /\ G' = Append(G, Head(R)) /\ L' = L /\ host' = host
    BY <1>7 DEF AnswerWritten, L, R, G
  <2>2. Range(R) = Range(R') \cup {Head(R)} /\ Head(R) \in Hosts
    BY <1>0, <2>1, TailElements
  <2>3. Range(G') = Range(G) \cup {Head(R)}
    BY <1>0, <2>1, <2>2, AppendElements
  <2> QED
    BY <1>2, <2>1, <2>2, <2>3
<1>8. CASE AnswerLost
  <2>1. L' = L /\ R' = R /\ host' = host /\ G' = SubSeq(G, 1, Len(G) - 1)
    BY <1>8 DEF AnswerLost, L, R, G
  <2>2. Range(G') \subseteq Range(G)
    <3>1. G \in Seq(Hosts)
      BY <1>0
    <3> QED
      BY <2>1, <3>1, FrontElements
  <2> QED
    BY <1>2, <2>1, <2>2
<1> QED
  BY <1>0, <1>3, <1>4, <1>5, <1>6, <1>7, <1>8, FlowSteps

LEMMA PassedRecordedStep ==
  ASSUME FreedInv, ~AllocFails, RecordedBefore, PassedRecorded, [Next]_vars
  PROVE  PassedRecorded'
<1>0. Ground
  BY DEF FreedInv
<1>1. CASE pc[Main] = "exit_signal"
  <2>1. UNCHANGED vars
    BY <1>1, EndIsEnd DEF Running
  <2> QED
    BY <2>1 DEF vars, allButPc, queues, input, PassedRecorded, Passed, Recorded
<1>2. CASE pc[Main] # "exit_signal"
  <2>1. Passed' \subseteq Recorded \cup {NoHost}
    BY <1>2, PassedGrows DEF PassedRecorded
  <2>2. /\ pc'[Main] # "exit_signal" => Recorded \subseteq Recorded'
        /\ \E e : Recorded \subseteq Recorded' \cup {e}
    BY <1>0, RecordedStays
  <2> QED
    BY <2>1, <2>2 DEF PassedRecorded
<1> QED
  BY <1>1, <1>2

RecordInv ==
  /\ Flow /\ HostsClosedFirst
  /\ ~AllocFails => RecordedBefore /\ PassedRecorded

LEMMA RecordAlways == Spec => []RecordInv
<1>1. Init => HostsClosedFirst /\ RecordedBefore /\ PassedRecorded
  <2> SUFFICES ASSUME Init PROVE HostsClosedFirst /\ RecordedBefore /\ PassedRecorded
    OBVIOUS
  <2>1. HostsClosedFirst /\ RecordedBefore
    BY Roles DEF Init, HostsClosedFirst, RecordedBefore, Queues
  <2>2. Passed \subseteq {NoHost}
    BY DEF Init, Passed, Queues, Loggers, Range
  <2> QED
    BY <2>1, <2>2 DEF PassedRecorded
<1>2. Flow /\ HostsClosedFirst /\ [Next]_vars => HostsClosedFirst'
  BY HostsClosedFirstStep DEF Flow
<1>3. Flow /\ HostsClosedFirst /\ (~AllocFails => RecordedBefore /\ PassedRecorded)
      /\ [Next]_vars => (~AllocFails => RecordedBefore /\ PassedRecorded)'
  BY RecordedBeforeStep, PassedRecordedStep DEF Flow
<1> QED
  BY <1>1, <1>2, <1>3, FlowAlways, PTL DEF Spec, RecordInv

(* As long as no allocation fails, a hostname that got as far as the        *)
(* resolvers is in the requester log or on its way there; only the exit of  *)
(* the signal handler can cost the last line of that log.                   *)
THEOREM OneUnrecordedCorrect == Spec => []OneUnrecordedAtMost
<1>1. RecordInv => OneUnrecordedAtMost
  <2> SUFFICES ASSUME RecordInv, ~AllocFails
               PROVE  Cardinality(Passed \ (Recorded \cup {NoHost}))
                        <= IF pc[Main] = "exit_signal" THEN 1 ELSE 0
    BY DEF OneUnrecordedAtMost
  <2> DEFINE lost == Passed \ (Recorded \cup {NoHost})
  <2>1. PassedRecorded
    BY DEF RecordInv
  <2>2. \A a, b \in lost : a = b
    BY <2>1 DEF PassedRecorded
  <2>3. pc[Main] # "exit_signal" => lost = {}
    BY <2>1 DEF PassedRecorded
  <2> HIDE DEF lost
  <2>4. Cardinality(lost) = IF lost = {} THEN 0 ELSE 1
    BY <2>2, AtMostOne
  <2> QED
    BY <2>3, <2>4 DEF lost
<1> QED
  BY <1>1, RecordAlways, PTL


-----------------------------------------------------------------------------
(* The statistics.  A hostname is counted when its message is queued for    *)
(* the resolver log, a file when it opens.                                  *)

LEMMA StatsSteps ==
  ASSUME [Next]_vars
  PROVE  \/ UNCHANGED stats
         \/ \E r \in Requesters : OpenFile(r)
         \/ \E s \in Resolvers : LogResolved(s)
<1>1. CASE MainThread
  <2>1. CASE CleanUp \/ FreeNames \/ FreeReqLogAgain \/ FreeResLog
    BY <2>1 DEF CleanUp, FreeAll, FreeNames, FreeReqLogAgain, FreeResLog, Free
  <2>2. CASE ~(CleanUp \/ FreeNames \/ FreeReqLogAgain \/ FreeResLog)
    BY <1>1, <2>2, PutHung DEF MainThread, CheckArguments, CountValid, OpenLogs, StartReqLogger,
         StartResLogger, StartLogger, AllocateThreads, CreateRequesters, QueueName,
         CreateResolvers, JoinRequesters, JoinResolvers, JoinLoggers, Join, allButPc
  <2> QED
    BY <2>1, <2>2
<1>2. ASSUME NEW r \in Requesters, Requester(r) PROVE UNCHANGED stats \/ OpenFile(r)
  <2>1. CASE FreeHosts(r) \/ FreeReqLog(r)
    BY <2>1 DEF FreeHosts, FreeReqLog, Free
  <2>2. CASE ~(FreeHosts(r) \/ FreeReqLog(r))
    BY <1>2, <2>2, PutHung DEF Requester, RequestFile, Enter, ReadLine, LogRequest, PutHost,
         LeaveFiles, ExitReader, allButPc
  <2> QED
    BY <2>1, <2>2
<1>3. ASSUME NEW s \in Resolvers, Resolver(s) PROVE UNCHANGED stats \/ LogResolved(s)
  BY <1>3, PutHung DEF Resolver, RequestHost, Enter, TakeHost, LeaveHosts, allButPc
<1>4. ASSUME NEW t \in Loggers, Logger(t) PROVE UNCHANGED stats
  BY <1>4 DEF Logger, RequestLine, Enter, WriteLine, LeaveLog, allButPc
<1>5. CASE SignalHandler
  BY <1>5 DEF SignalHandler, HandlerFrees, HandlerExits, FreeAll, Free
<1>6. ASSUME NEW t \in Interrupted, Interrupt(t) PROVE UNCHANGED stats
  BY <1>6 DEF Interrupt
<1>7. CASE UNCHANGED vars
  BY <1>7 DEF vars, allButPc
<1> QED
  BY <1>1, <1>2, <1>3, <1>4, <1>5, <1>6, <1>7 DEF Next, Ended

HostsCounted ==
  pc[Main] # "exit_signal" => Total(hosts_resolved) = Len(Answering) + Len(Answers)

LEMMA LogResolvedCounts ==
  ASSUME Ground, Controlled, NEW s \in Resolvers, HostLogged(s)
  PROVE  /\ pc'[Main] = pc[Main]
         /\ \/ UNCHANGED <<Answering, hosts_resolved>>
            \/ /\ Len(Answering') = Len(Answering) + 1
               /\ Total(hosts_resolved') = Total(hosts_resolved) + 1
<1>0. /\ hosts_resolved \in [Resolvers -> Nat] /\ hosts_resolved \in [Resolvers -> Int]
      /\ Launch /\ Typed /\ Answering \in Seq(Hosts) /\ host[s] \in Hosts
  BY FlowTypes DEF Controlled, Ground, HostLogged
<1>1. /\ Moved(s, "s_get")
      /\ Appended("resolver_log", host[s]) \/ UNCHANGED items
  BY <1>0, LogResolvedDoes DEF HostLogged
<1>2. hosts_resolved' = [hosts_resolved EXCEPT ![s] = IF items' # items THEN @ + 1 ELSE @]
  BY DEF HostLogged, LogResolved, CountQueued
<1>3. pc'[Main] = pc[Main]
  BY <1>1, Roles DEF Moved
<1>4. CASE UNCHANGED items
  BY <1>0, <1>2, <1>3, <1>4 DEF Answering
<1>5. CASE Appended("resolver_log", host[s])
  <2>1. Answering' = Append(Answering, host[s])
    BY <1>5 DEF Appended, Answering, Queues
  <2>2. Len(Answering') = Len(Answering) + 1 /\ Len(Answering) \in Nat
    BY <1>0, <2>1
  <2>3. items' # items
    BY <2>2 DEF Answering
  <2>4. Total(hosts_resolved') = Total(hosts_resolved) + 1
    BY <1>0, <1>2, <2>3, ThreadAssumption, TotalCounts
  <2> QED
    BY <1>3, <2>2, <2>4
<1> QED
  BY <1>1, <1>4, <1>5

LEMMA HostsCountedStep ==
  ASSUME Ground, Controlled, HostsCounted, [Next]_vars
  PROVE  HostsCounted'
<1>0. /\ Answering \in Seq(Hosts) /\ Answers \in Seq(Hosts)
      /\ Len(Answering) \in Int /\ Len(Answers) \in Int
      /\ Total(hosts_resolved) \in Int
  <2>1. Answering \in Seq(Hosts) /\ Answers \in Seq(Hosts)
    BY FlowTypes
  <2>2. hosts_resolved \in [Resolvers -> Int] /\ \E s \in Resolvers : TRUE
    BY ThreadAssumption DEF Controlled
  <2> QED
    BY <2>1, <2>2, TotalUpdate, ThreadAssumption
<1>1. CASE pc[Main] = "exit_signal"
  BY <1>1, EndIsEnd DEF HostsCounted, Running, vars
<1>2. ASSUME pc[Main] # "exit_signal", NEW s \in Resolvers, HostLogged(s) PROVE HostsCounted'
  <2>1. Answers' = Answers
    BY <1>2 DEF HostLogged
  <2> QED
    BY <1>0, <1>2, <2>1, LogResolvedCounts DEF HostsCounted
<1>3. CASE pc[Main] # "exit_signal" /\ ~ \E s \in Resolvers : HostLogged(s)
  <2>1. hosts_resolved' = hosts_resolved
    BY <1>3, StatsSteps, LogResolvedFlows DEF stats, OpenFile
  <2>2. CASE UNCHANGED <<Answering, Answers>>
    BY <1>3, <2>1, <2>2 DEF HostsCounted
  <2>3. CASE AnswerWritten
    <3>1. /\ Answering # <<>> /\ Answering' = Tail(Answering)
          /\ Answers' = Append(Answers, Head(Answering))
      BY <2>3 DEF AnswerWritten
    <3>2. Len(Answering') = Len(Answering) - 1 /\ Len(Answers') = Len(Answers) + 1
      BY <1>0, <3>1
    <3> QED
      BY <1>0, <1>3, <2>1, <3>2 DEF HostsCounted
  <2>4. CASE AnswerLost
    BY <2>4 DEF AnswerLost, HostsCounted
  <2> QED
    BY <1>3, <2>2, <2>3, <2>4, FlowSteps DEF FlowSame, HostPut, HostTaken
<1> QED
  BY <1>1, <1>2, <1>3


(* The files that have been read, are being read, or were lost.             *)
Served == {f \in Files : f < argi /\ f \notin Range(items["filename"])}

FilesCounted ==
  /\ Total(files_serviced) <= Cardinality(Served \ Unopenable)
  /\ ~AllocFails /\ victim = None =>
       Cardinality(Served \ (Unopenable \cup Flaky)) <= Total(files_serviced)

LEMMA ServedGrows ==
  ASSUME Ground, Reads, [Next]_vars
  PROVE  \/ UNCHANGED <<Served, files_serviced>>
         \/ \E f \in Files \ Served :
              /\ Served' = Served \cup {f}
              /\ \/ UNCHANGED files_serviced /\ NameLost(f)
                 \/ /\ f \notin Unopenable
                    /\ \E r \in Requesters :
                         files_serviced' = [files_serviced EXCEPT ![r] = @ + 1]
<1> DEFINE F == items["filename"]
<1>0. /\ F \in Seq(Files) /\ argi \in Nat /\ IsInjective(F) /\ Files \subseteq Nat
      /\ \A f \in Range(F) : f < argi
  BY GroundFacts, InputShape DEF Reads
<1>1. ASSUME NEW r \in Requesters, OpenFile(r)
      PROVE  \E f \in Files \ Served :
              /\ Served' = Served \cup {f}
              /\ \/ UNCHANGED files_serviced /\ NameLost(f)
                 \/ /\ f \notin Unopenable
                    /\ files_serviced' = [files_serviced EXCEPT ![r] = @ + 1]
  <2> DEFINE f == Head(F)
  <2>1. Removed("filename") /\ UNCHANGED argi
    BY <1>1, GroundFacts, OpenFileDoes
  <2>2. F # <<>> /\ F' = Tail(F)
    BY <2>1, QueueNames DEF Removed
  <2>3. Range(F) = Range(F') \cup {f} /\ f \notin Range(F') /\ f \in Range(F) /\ f \in Files
    <3> HIDE DEF F
    <3> QED
      BY <1>0, <2>2, TailElements, RangeIs
  <2>4. \/ UNCHANGED files_serviced /\ MayFail(f)
        \/ /\ f \notin Unopenable
           /\ files_serviced' = [files_serviced EXCEPT ![r] = @ + 1]
    BY <1>1 DEF OpenFile, Opens
  <2>5. f < argi /\ f \notin Served
    BY <1>0, <2>3 DEF Served
  <2>6. Served' = Served \cup {f}
    <3> HIDE DEF f
    <3> QED
      BY <2>1, <2>3, <2>5 DEF Served
  <2> QED
    BY <2>3, <2>4, <2>5, <2>6 DEF NameLost
<1>2. CASE UNCHANGED files_serviced /\ ~ \E r \in Requesters : OpenFile(r)
  <2>1. CASE NameQueued
    <3>1. argi \in Files /\ argi' = argi + 1 /\ argi \notin Range(F)
      BY <1>0, <2>1 DEF NameQueued
    <3>2. CASE F' = Append(F, argi)
      <4>1. Range(F') = Range(F) \cup {argi}
        <5> HIDE DEF F
        <5> QED
          BY <1>0, <3>1, <3>2, AppendElements
      <4>2. \A f \in Files : f < argi + 1 <=> f < argi \/ f = argi
        BY <1>0
      <4>3. Served' = {f \in Files : f < argi + 1 /\ f \notin Range(F) \cup {argi}}
        BY <3>1, <4>1 DEF Served
      <4>4. \A f \in Files : f < argi + 1 /\ f \notin Range(F) \cup {argi}
                               <=> f < argi /\ f \notin Range(F)
        BY <1>0, <4>2
      <4>5. Served' = Served
        BY <4>3, <4>4 DEF Served
      <4> QED
        BY <1>2, <4>5
    <3>3. CASE F' = F /\ (MayFail(argi) \/ AllocFails \/ shutdown["filename"])
      <4>1. \A f \in Files : f < argi + 1 <=> f < argi \/ f = argi
        BY <1>0
      <4>2. argi \notin Served /\ Served' = Served \cup {argi}
        <5>1. Served' = {f \in Files : f < argi + 1 /\ f \notin Range(F)}
          BY <3>1, <3>3 DEF Served
        <5>2. \A f \in Files : f < argi + 1 /\ f \notin Range(F)
                                 <=> (f < argi /\ f \notin Range(F)) \/ f = argi
          BY <3>1, <4>1
        <5>3. Served = {f \in Files : f < argi /\ f \notin Range(F)}
          BY DEF Served
        <5>4. ~(argi < argi) /\ argi \in Files
          BY <1>0, <3>1
        <5> HIDE DEF F
        <5>5. \A f \in Files : f \in Served' <=> f \in Served \/ f = argi
          BY <5>1, <5>2, <5>3
        <5>6. Served' \subseteq Files /\ Served \subseteq Files
          BY <5>1, <5>3
        <5>7. argi \notin Served
          BY <5>3, <5>4
        <5> QED
          BY <5>4, <5>5, <5>6, <5>7
      <4>3. NameLost(argi)
        BY <2>1, <3>3 DEF NameLost, NameQueued
      <4> QED
        BY <1>2, <3>1, <4>2, <4>3
    <3> QED
      BY <2>1, <3>2, <3>3 DEF NameQueued
  <2>2. CASE ReaderSame \/ \E r \in Requesters : LineRead(r) \/ ReaderHangs(r)
    BY <1>2, <2>2 DEF Served, ReaderSame, LineRead, ReaderHangs
  <2> QED
    BY <1>2, <2>1, <2>2, ReaderSteps DEF NameTaken
<1>3. UNCHANGED files_serviced \/ \E r \in Requesters : OpenFile(r)
  BY StatsSteps DEF stats, LogResolved
<1> QED
  BY <1>1, <1>2, <1>3

LEMMA ServedFinite ==
  /\ IsFiniteSet(Files)
  /\ \A S \in SUBSET Files : IsFiniteSet(S) /\ Cardinality(S) \in Nat
<1>1. IsFiniteSet(1 .. Len(Lines))
  <2> DEFINE n == Len(Lines)
  <2>1. 1 \in Int /\ n \in Int
    BY InputShape
  <2> HIDE DEF n
  <2> QED
    BY ONLY <2>1, FS_Interval
<1> QED
  BY <1>1, InputShape, FS_Subset, FS_CardinalityType

LEMMA FilesCountedStep ==
  ASSUME Ground, Controlled, Reads, FilesCounted, [Next]_vars
  PROVE  FilesCounted'
<1> DEFINE A == Served \ Unopenable
           B == Served \ (Unopenable \cup Flaky)
<1>0. /\ Total(files_serviced) \in Int
      /\ Cardinality(A) \in Nat /\ Cardinality(B) \in Nat
      /\ files_serviced \in [Requesters -> Int]
      /\ Total(files_serviced) <= Cardinality(A)
      /\ ~AllocFails /\ victim = None => Cardinality(B) <= Total(files_serviced)
  <2>1. files_serviced \in [Requesters -> Int] /\ \E r \in Requesters : TRUE
    BY ThreadAssumption DEF Controlled
  <2>2. Total(files_serviced) \in Int
    BY <2>1, TotalCounts, ThreadAssumption
  <2>3. A \in SUBSET Files /\ B \in SUBSET Files
    BY DEF Served
  <2> QED
    BY <2>1, <2>2, <2>3, ServedFinite DEF FilesCounted
<1>1. victim' = None => victim = None
  BY VictimForGood
<1>2. CASE UNCHANGED <<Served, files_serviced>>
  BY <1>1, <1>2 DEF FilesCounted
<1>3. ASSUME NEW f \in Files \ Served, Served' = Served \cup {f}
      PROVE  /\ Cardinality(A') = IF f \in Unopenable THEN Cardinality(A) ELSE Cardinality(A) + 1
             /\ Cardinality(B') = IF MayFail(f) THEN Cardinality(B) ELSE Cardinality(B) + 1
  <2>1. f \notin A /\ f \notin B /\ IsFiniteSet(A) /\ IsFiniteSet(B)
    BY ServedFinite DEF Served
  <2>2. A' = IF f \in Unopenable THEN A ELSE A \cup {f}
    BY <1>3
  <2>3. B' = IF MayFail(f) THEN B ELSE B \cup {f}
    BY <1>3 DEF MayFail
  <2> HIDE DEF A, B
  <2> QED
    BY <2>1, <2>2, <2>3, FS_AddElement
<1>4. ASSUME NEW f \in Files \ Served, Served' = Served \cup {f},
             UNCHANGED files_serviced, NameLost(f)
      PROVE  FilesCounted'
  <2>1. ~AllocFails /\ victim = None => MayFail(f)
    BY <1>4 DEF NameLost, Ground, Inv, Order, OpenBefore
  <2>2. /\ Cardinality(A') = IF f \in Unopenable THEN Cardinality(A) ELSE Cardinality(A) + 1
        /\ Cardinality(B') = IF MayFail(f) THEN Cardinality(B) ELSE Cardinality(B) + 1
    BY <1>3, <1>4
  <2> HIDE DEF A, B
  <2> QED
    BY <1>0, <1>1, <1>4, <2>1, <2>2 DEF FilesCounted, A, B
<1>5. ASSUME NEW f \in Files \ Served, Served' = Served \cup {f}, f \notin Unopenable,
             NEW r \in Requesters, files_serviced' = [files_serviced EXCEPT ![r] = @ + 1]
      PROVE  FilesCounted'
  <2>1. Total(files_serviced') = Total(files_serviced) + 1
    <3>1. files_serviced \in [Requesters -> Int] /\ IsFiniteSet(Requesters)
      BY <1>0, ThreadAssumption
    <3> QED
      BY <1>5, <3>1, TotalCounts
  <2>2. /\ Cardinality(A') = IF f \in Unopenable THEN Cardinality(A) ELSE Cardinality(A) + 1
        /\ Cardinality(B') = IF MayFail(f) THEN Cardinality(B) ELSE Cardinality(B) + 1
    BY <1>3, <1>5
  <2> HIDE DEF A, B
  <2> QED
    BY <1>0, <1>1, <1>5, <2>1, <2>2 DEF FilesCounted, A, B
<1> QED
  BY <1>2, <1>4, <1>5, ServedGrows

StatsInv == Flow /\ Controlled /\ HostsCounted /\ FilesCounted

LEMMA StatsAlways == Spec => []StatsInv
<1>1. Init => HostsCounted /\ FilesCounted
  <2> SUFFICES ASSUME Init PROVE HostsCounted /\ FilesCounted
    OBVIOUS
  <2>1. Total(hosts_resolved) = 0 /\ Total(files_serviced) = 0
    <3>1. /\ hosts_resolved \in [Resolvers -> Int] /\ \A s \in Resolvers : hosts_resolved[s] = 0
          /\ files_serviced \in [Requesters -> Int] /\ \A r \in Requesters : files_serviced[r] = 0
      BY DEF Init
    <3> QED
      BY <3>1, TotalZero, ThreadAssumption
  <2>2. Answering = <<>> /\ Answers = <<>>
    BY DEF Init, Answering, Answers, Queues, Loggers
  <2>3. Served = {}
    BY InputShape DEF Init, Served
  <2>4. Cardinality(Served \ Unopenable) = 0 /\ Cardinality(Served \ (Unopenable \cup Flaky)) = 0
    BY <2>3, FS_EmptySet
  <2> QED
    BY <2>1, <2>2, <2>4 DEF HostsCounted, FilesCounted
<1>2. Flow /\ Controlled /\ HostsCounted /\ FilesCounted /\ [Next]_vars
        => HostsCounted' /\ FilesCounted'
  BY HostsCountedStep, FilesCountedStep DEF Flow, FreedInv
<1> QED
  BY <1>1, <1>2, ControlledInit, ControlledStep, FlowAlways, PTL DEF Spec, StatsInv

(* When main returns every file has been read.                              *)
LEMMA ExitServed ==
  ASSUME Flow, Exited
  PROVE  Served = Files
<1>1. argi \notin Files /\ argi \in Nat \ {0}
  BY DEF Exited, Flow, FreedInv, Ground, Launch, AfterPC
<1>2. items["filename"] = <<>>
  BY ExitDrained DEF Exited, Flow, Queues
<1>3. \A f \in Files : f < argi
  BY <1>1, InputShape
<1> QED
  BY <1>2, <1>3 DEF Served, Range

(* The statistics main prints (dnsthreaded.c:509) agree with what was done: *)
(* the hostnames counted are those with a line in the resolver log or on    *)
(* its way there, no file is counted that did not open, and when main       *)
(* returns every file that opens has been counted.                          *)
THEOREM StatsCorrect == Spec => []StatsAgree
<1>1. StatsInv => StatsAgree
  <2> SUFFICES ASSUME StatsInv PROVE StatsAgree
    OBVIOUS
  <2>1. Total(files_serviced) <= Cardinality(Files \ Unopenable)
    <3> DEFINE S == Served \ Unopenable
               T == Files \ Unopenable
    <3>1. S \subseteq T /\ T \in SUBSET Files
      BY DEF Served
    <3>2. Total(files_serviced) <= Cardinality(S)
      BY DEF StatsInv, FilesCounted
    <3>3. Total(files_serviced) \in Int
      <4>1. files_serviced \in [Requesters -> Int] /\ \E r \in Requesters : TRUE
        BY ThreadAssumption DEF StatsInv, Controlled
      <4> QED
        BY <4>1, TotalCounts, ThreadAssumption
    <3> HIDE DEF S, T
    <3>4. Cardinality(S) <= Cardinality(T) /\ Cardinality(S) \in Nat /\ Cardinality(T) \in Nat
      BY <3>1, ServedFinite, FS_Subset
    <3>5. Total(files_serviced) <= Cardinality(T)
      BY <3>2, <3>3, <3>4
    <3> QED
      BY <3>5 DEF T
  <2>2. ASSUME Exited, ~AllocFails
        PROVE  Cardinality(Files \ (Unopenable \cup Flaky)) <= Total(files_serviced)
    <3>1. Served = Files
      BY <2>2, ExitServed DEF StatsInv
    <3>2. victim = None
      BY <2>2 DEF Exited, StatsInv, Flow, FreedInv, Ground, Launch
    <3> QED
      BY <2>2, <3>1, <3>2 DEF StatsInv, FilesCounted
  <2> QED
    BY <2>1, <2>2 DEF StatsInv, HostsCounted, StatsAgree, Total, Answering, Answers
<1> QED
  BY <1>1, StatsAlways, PTL


-----------------------------------------------------------------------------
(* The work that is left: every step of a thread takes more off than what   *)
(* it leaves in a queue, or in its own hands, puts on.                      *)

LEMMA RankIs ==
  /\ Rank["uncreated"] = 31 /\ Rank["m_args"] = 30 /\ Rank["m_count"] = 29
  /\ Rank["m_open"] = 28 /\ Rank["m_reqlog"] = 27 /\ Rank["m_reslog"] = 26
  /\ Rank["m_alloc"] = 25 /\ Rank["m_create"] = 24 /\ Rank["m_names"] = 23
  /\ Rank["m_free_names"] = 22 /\ Rank["m_join_req"] = 18 /\ Rank["m_join_res"] = 17
  /\ Rank["m_free_reqlog"] = 16 /\ Rank["m_free_reslog"] = 12 /\ Rank["m_join_log"] = 8
  /\ Rank["a_first"] = 19 /\ Rank["a_second"] = 15 /\ Rank["a_third"] = 11
  /\ Rank["a_fourth"] = 7 /\ Rank["a_exit"] = 3
  /\ Rank["r_read"] = 18 /\ Rank["r_get"] = 17 /\ Rank["r_log"] = 17
  /\ Rank["r_file"] = 16 /\ Rank["r_put"] = 14 /\ Rank["r_exit"] = 12
  /\ Rank["r_free_hosts"] = 11 /\ Rank["r_free_log"] = 7
  /\ Rank["s_log"] = 11 /\ Rank["s_get"] = 8 /\ Rank["s_host"] = 7
  /\ Rank["l_get"] = 8 /\ Rank["l_line"] = 7 /\ Rank["stuck"] = 6 /\ Rank["done"] = 3
  /\ Rank["stuck_get"] = 6
  /\ Rank["exit"] = 3 /\ Rank["exit_failure"] = 3 /\ Rank["exit_signal"] = 3
  /\ Rank["crashed"] = 3
BY DEF Rank

LEMMA PlacesRanked ==
  /\ \A t \in Threads : \A l : Place(t, l) => Rank[l] \in Nat /\ Rank[l] >= 3
  /\ \A l \in MainPlaces : l \in {"exit", "exit_failure", "exit_signal", "crashed"} \/ Rank[l] > 3
<1>1. \A l \in MainPlaces : /\ Rank[l] \in Nat /\ Rank[l] >= 3
                            /\ l \in {"exit", "exit_failure", "exit_signal", "crashed"} \/ Rank[l] > 3
  BY RankIs DEF MainPlaces, Freeing
<1>2. \A l \in RequesterPlaces \cup WorkerPlaces \cup {"s_get", "s_host", "s_log", "l_get", "l_line"} :
         Rank[l] \in Nat /\ Rank[l] >= 3
  BY RankIs DEF RequesterPlaces, WorkerPlaces
<1>3. \A l \in Freeing \cup {"uncreated", "stuck", "a_exit"} : Rank[l] \in Nat /\ Rank[l] >= 3
  BY RankIs DEF Freeing
<1>4. \A t \in Threads : \/ t = Main \/ t = Handler \/ t \in Requesters
                         \/ t \in Resolvers \/ t \in Loggers
  BY DEF Threads, Workers
<1>5. ASSUME NEW t \in Threads, NEW l, Place(t, l) PROVE Rank[l] \in Nat /\ Rank[l] >= 3
  BY <1>1, <1>2, <1>3, <1>4, <1>5 DEF Place, RequesterPlaces
<1> QED
  BY <1>1, <1>5

WorkOK ==
  /\ ThreadWork \in [Threads -> Nat]
  /\ FileWork \in [Files -> Nat]
  /\ QueueWork \in Nat
  /\ Total(ThreadWork) \in Nat /\ Total(FileWork) \in Nat
  /\ Work = Total(ThreadWork) + Total(FileWork) + QueueWork

LEMMA WorkSets == IsFiniteSet(Threads) /\ IsFiniteSet(Files)
<1>1. IsFiniteSet({Main, Handler}) /\ IsFiniteSet(Loggers)
  <2>1. \A a, b : IsFiniteSet({a, b})
    <3> SUFFICES ASSUME NEW a, NEW b PROVE IsFiniteSet({a, b})
      OBVIOUS
    <3>1. IsFiniteSet({a}) /\ {a, b} = {a} \cup {b}
      BY FS_Singleton
    <3> QED
      BY <3>1, FS_AddElement
  <2> QED
    BY <2>1 DEF Loggers
<1>2. IsFiniteSet(Requesters \cup Resolvers)
  BY ThreadAssumption, FS_Union
<1>3. IsFiniteSet(Requesters \cup Resolvers \cup Loggers)
  BY <1>1, <1>2, FS_Union
<1> QED
  BY <1>1, <1>3, FS_Union, ServedFinite DEF Threads, Workers

LEMMA WorkTyped == Ground => WorkOK
<1> SUFFICES ASSUME Ground PROVE WorkOK
  OBVIOUS
<1>0. \A f \in Files : Len(Lines[f]) \in Nat
  BY InputShape
<1>1. \A r \in Requesters : LinesLeft(r) \in Nat
  <2> SUFFICES ASSUME NEW r \in Requesters, Busy(r), line[r] <= Len(Lines[file[r]])
               PROVE  Len(Lines[file[r]]) + 1 - line[r] \in Nat
    BY DEF LinesLeft, Busy
  <2> QED
    BY <1>0, GroundFacts
<1>2. ThreadWork \in [Threads -> Nat]
  <2> SUFFICES ASSUME NEW t \in Threads
               PROVE  Rank[pc[t]]
                        - (IF t \in Freers THEN StagesDone[stage[t]] ELSE 0)
                        + (IF t \in Requesters THEN 10 * LinesLeft(t) ELSE 0) \in Nat
    BY DEF ThreadWork
  <2>1. Rank[pc[t]] \in Nat /\ Rank[pc[t]] >= 3
    BY PlacesRanked DEF Ground, Controlled
  <2>2. t \in Freers => StagesDone[stage[t]] \in 0 .. 3
    BY DEF Ground, Controlled, StagesDone
  <2> QED
    BY <1>1, <2>1, <2>2
<1>3. FileWork \in [Files -> Nat]
  BY <1>0 DEF FileWork
<1>4. QueueWork \in Nat
  <2>1. \A q \in LogQueues : items[q] \in Seq(Hosts)
    BY DEF Ground, Typed, ItemsTyped
  <2>2. \A q \in LogQueues : Len(items[q]) \in Nat
    BY <2>1
  <2>3. /\ Len(items["hostname"]) \in Nat /\ Len(items["requester_log"]) \in Nat
        /\ Len(items["resolver_log"]) \in Nat
    BY <2>2 DEF LogQueues
  <2>4. \A a, b, c \in Nat : 5 * a + 2 * b + 2 * c \in Nat
    OBVIOUS
  <2> QED
    BY <2>3, <2>4 DEF QueueWork
<1>5. Total(ThreadWork) \in Nat /\ Total(FileWork) \in Nat
  BY <1>2, <1>3, WorkSets, TotalNat
<1>6. Work = Total(ThreadWork) + Total(FileWork) + QueueWork
  BY DEF Work, Total
<1> QED
  BY <1>2, <1>3, <1>4, <1>5, <1>6 DEF WorkOK

(* What the other threads have left to do does not grow.                    *)
LEMMA OneThread ==
  ASSUME WorkOK, WorkOK', NEW t \in Threads,
         \A u \in Threads \ {t} : ThreadWork'[u] <= ThreadWork[u],
         ThreadWork'[t] + Total(FileWork') + QueueWork'
           < ThreadWork[t] + Total(FileWork) + QueueWork
  PROVE  0 <= Work' /\ Work' < Work
<1>1. /\ ThreadWork \in [Threads -> Int] /\ ThreadWork' \in [Threads -> Int]
      /\ Total(ThreadWork) \in Nat /\ Total(ThreadWork') \in Nat
      /\ Total(FileWork) \in Nat /\ Total(FileWork') \in Nat
      /\ QueueWork \in Nat /\ QueueWork' \in Nat
      /\ Work = Total(ThreadWork) + Total(FileWork) + QueueWork
      /\ Work' = Total(ThreadWork') + Total(FileWork') + QueueWork'
  BY DEF WorkOK
<1>2. Total(ThreadWork') - ThreadWork'[t] <= Total(ThreadWork) - ThreadWork[t]
  <2> DEFINE f == ThreadWork
             k == ThreadWork'
  <2>1. f \in [Threads -> Int] /\ k \in [Threads -> Int] /\ \A u \in Threads \ {t} : k[u] <= f[u]
    BY <1>1
  <2> HIDE DEF f, k
  <2>2. Total(k) - k[t] <= Total(f) - f[t]
    BY <2>1, WorkSets, TotalDrops
  <2> QED
    BY <2>2 DEF f, k
<1>3. ThreadWork[t] \in Int /\ ThreadWork'[t] \in Int
  BY <1>1
<1> QED
  BY <1>1, <1>2, <1>3

LEMMA SameThread ==
  ASSUME NEW u \in Threads, pc'[u] = pc[u], u \in Freers => stage'[u] = stage[u],
         u \in Requesters => file'[u] = file[u] /\ line'[u] = line[u]
  PROVE  ThreadWork'[u] = ThreadWork[u]
  BY DEF ThreadWork, LinesLeft

(* A step of t that leaves the files alone.                                 *)
LEMMA ThreadShrinks ==
  ASSUME WorkOK, WorkOK', NEW t \in Threads,
         \A u \in Threads \ {t} : pc'[u] = pc[u],
         \A u \in Freers \ {t} : stage'[u] = stage[u],
         \A u \in Requesters \ {t} : file'[u] = file[u] /\ line'[u] = line[u],
         argi' = argi, items'["filename"] = items["filename"],
         ThreadWork'[t] + QueueWork' < ThreadWork[t] + QueueWork
  PROVE  0 <= Work' /\ Work' < Work
<1>1. FileWork' = FileWork
  BY DEF FileWork
<1>2. ASSUME NEW u \in Threads \ {t} PROVE ThreadWork'[u] <= ThreadWork[u]
  <2>1. ThreadWork'[u] = ThreadWork[u]
    BY SameThread
  <2>2. ThreadWork[u] \in Int
    BY DEF WorkOK
  <2> QED
    BY <2>1, <2>2
<1>3. /\ ThreadWork[t] \in Nat /\ ThreadWork'[t] \in Nat /\ QueueWork \in Nat
      /\ QueueWork' \in Nat /\ Total(FileWork) \in Nat
  BY DEF WorkOK
<1>4. ThreadWork'[t] + Total(FileWork') + QueueWork' < ThreadWork[t] + Total(FileWork) + QueueWork
  BY <1>1, <1>3
<1> QED
  BY <1>2, <1>4, OneThread

(* A thread goes to a place with less behind it.                            *)
Kept == UNCHANGED <<items, argi, file, line, stage>>

LEMMA ThreadIs ==
  ASSUME NEW t \in Threads
  PROVE  /\ ThreadWork[t] = Rank[pc[t]]
                              - (IF t \in Freers THEN StagesDone[stage[t]] ELSE 0)
                              + (IF t \in Requesters THEN 10 * LinesLeft(t) ELSE 0)
         /\ ThreadWork'[t] = Rank[pc'[t]]
                               - (IF t \in Freers THEN StagesDone[stage'[t]] ELSE 0)
                               + (IF t \in Requesters THEN 10 * LinesLeft(t)' ELSE 0)
  BY DEF ThreadWork

LEMMA GoShrinks ==
  ASSUME Ground, WorkOK, WorkOK', NEW t \in Threads, NEW l, Moved(t, l), Kept,
         Rank[l] \in Nat, Rank[l] < Rank[pc[t]],
         t \in Requesters => {pc[t], l} \cap {"r_read", "r_log", "r_put"} = {}
  PROVE  0 <= Work' /\ Work' < Work
<1>1. pc'[t] = l /\ \A u \in Threads \ {t} : pc'[u] = pc[u]
  BY DEF Moved
<1>2. QueueWork' = QueueWork /\ QueueWork \in Nat
  BY DEF Kept, QueueWork, WorkOK
<1>3. t \in Requesters => LinesLeft(t) = 0 /\ LinesLeft(t)' = 0
  BY <1>1 DEF LinesLeft
<1>4. Rank[pc[t]] \in Nat
  BY PlacesRanked DEF Ground, Controlled
<1>5. t \in Freers => StagesDone[stage[t]] \in 0 .. 3 /\ stage'[t] = stage[t]
  BY DEF Ground, Controlled, StagesDone, Kept
<1>6. ThreadWork'[t] < ThreadWork[t] /\ ThreadWork'[t] \in Int /\ ThreadWork[t] \in Int
  BY <1>1, <1>3, <1>4, <1>5, ThreadIs
<1> QED
  BY <1>1, <1>2, <1>6, ThreadShrinks DEF Kept

(* A step of array_free.                                                    *)
LEMMA FreeShrinks ==
  ASSUME Ground, FreeProgress, WorkOK, WorkOK', NEW t, NEW q, NEW here, NEW next,
         At(t, here), Free(t, q, next), FreePath(t, q, here, next)
  PROVE  0 <= Work' /\ Work' < Work
<1>1. /\ t \in Freers /\ t \in Threads /\ pc[t] = here
      /\ DOMAIN pc' = Threads /\ \A u \in Threads \ {t} : pc'[u] = pc[u]
  BY FreeGoes
<1>2. /\ Rank[here] \in Nat /\ Rank[next] \in Nat /\ Rank[next] + 4 <= Rank[here]
      /\ Rank["stuck"] = 6 /\ Rank["stuck"] < Rank[here]
  BY RankIs DEF FreePath, AbortPath
<1>3. {here, next, "stuck"} \cap {"r_read", "r_log", "r_put"} = {}
  BY DEF FreePath, AbortPath
<1>4. /\ stage \in [Freers -> {"close", "drain", "count", "destroy"}]
      /\ DOMAIN pc = Threads
  BY DEF Ground, Controlled
<1>5. /\ UNCHANGED <<items, argi, file, line>>
      /\ \A u \in Freers \ {t} : stage'[u] = stage[u]
  BY <1>1, <1>4, FreeKeeps DEF Free, Advance
<1>6. \/ stage[t] = "close" /\ stage'[t] = "drain" /\ pc'[t] = here
      \/ stage'[t] = stage[t] /\ pc'[t] = "stuck"
      \/ stage[t] = "drain" /\ stage'[t] = "count" /\ pc'[t] = here
      \/ stage[t] = "count" /\ stage'[t] = "destroy" /\ pc'[t] = here
      \/ stage[t] = "destroy" /\ stage'[t] = "close" /\ pc'[t] = next
  BY <1>1, <1>4 DEF Free, Advance, Goto
<1>7. t \in Requesters => LinesLeft(t) = 0 /\ LinesLeft(t)' = 0
  BY <1>1, <1>3, <1>6 DEF LinesLeft
<1>8. /\ ThreadWork[t] = Rank[here] - StagesDone[stage[t]]
      /\ ThreadWork'[t] = Rank[pc'[t]] - StagesDone[stage'[t]]
  <2>1. /\ Rank[here] \in Int /\ Rank[pc'[t]] \in Int
        /\ StagesDone[stage[t]] \in Int /\ StagesDone[stage'[t]] \in Int
    BY <1>1, <1>2, <1>4, <1>6 DEF StagesDone
  <2> QED
    BY <1>1, <1>7, <2>1, ThreadIs
<1>9. ThreadWork'[t] < ThreadWork[t]
  <2>1. /\ StagesDone["close"] = 0 /\ StagesDone["drain"] = 1 /\ StagesDone["count"] = 2
        /\ StagesDone["destroy"] = 3
    BY DEF StagesDone
  <2>2. CASE stage'[t] = stage[t] /\ pc'[t] = "stuck"
    <3>1. StagesDone[stage[t]] \in Int
      BY <1>1, <1>4, <2>1
    <3> QED
      BY <1>2, <1>8, <2>2, <3>1
  <2>3. CASE pc'[t] = here /\ StagesDone[stage'[t]] = StagesDone[stage[t]] + 1
                           /\ StagesDone[stage[t]] \in Int
    BY <1>2, <1>8, <2>3
  <2>4. CASE stage[t] = "destroy" /\ stage'[t] = "close" /\ pc'[t] = next
    BY <1>2, <1>8, <2>1, <2>4
  <2> QED
    BY <1>6, <2>1, <2>2, <2>3, <2>4
<1>10. ThreadWork[t] \in Int /\ ThreadWork'[t] \in Int /\ QueueWork \in Nat
  BY <1>1 DEF WorkOK
<1>11. QueueWork' = QueueWork
  BY <1>5 DEF QueueWork
<1>12. ThreadWork'[t] + QueueWork' < ThreadWork[t] + QueueWork
  BY <1>9, <1>10, <1>11
<1> QED
  BY <1>1, <1>5, <1>12, ThreadShrinks

(* What a requester has left to do while it does not free anything.         *)
LEMMA RequesterIs ==
  ASSUME Ground, NEW r \in Requesters, stage' = stage,
         Place(r, pc'[r]), LinesLeft(r) \in Nat, LinesLeft(r)' \in Nat
  PROVE  \E d \in Int : /\ ThreadWork[r] = Rank[pc[r]] + 10 * LinesLeft(r) - d
                       /\ ThreadWork'[r] = Rank[pc'[r]] + 10 * LinesLeft(r)' - d
<1>1. r \in Threads /\ r \in Freers
  BY Roles DEF Freers
<1>2. StagesDone[stage[r]] \in Int
  BY <1>1 DEF Ground, Controlled, StagesDone
<1>3. Rank[pc[r]] \in Int /\ Rank[pc'[r]] \in Int
  BY <1>1, PlacesRanked DEF Ground, Controlled
<1>4. /\ ThreadWork[r] = Rank[pc[r]] - StagesDone[stage[r]] + 10 * LinesLeft(r)
      /\ ThreadWork'[r] = Rank[pc'[r]] - StagesDone[stage[r]] + 10 * LinesLeft(r)'
  BY <1>1, ThreadIs
<1>5. \A a, d, n \in Int : a - d + 10 * n = a + 10 * n - d
  OBVIOUS
<1> QED
  BY <1>2, <1>3, <1>4, <1>5

(* The steps of the requesters that read files.                             *)
LEMMA OpenFileShrinks ==
  ASSUME Ground, Reads, WorkOK, WorkOK', NEW r \in Requesters, OpenFile(r)
  PROVE  0 <= Work' /\ Work' < Work
<1> DEFINE F == items["filename"]
           f == Head(F)
           n == Len(Lines[f])
<1>0. /\ F \in Seq(Files) /\ argi \in Nat /\ IsInjective(F) /\ Files \subseteq Nat
      /\ \A x \in Range(F) : x < argi
      /\ r \in Threads /\ \A u \in Threads \ {r} : u \in Requesters => u # r
  BY GroundFacts, InputShape, Roles DEF Reads
<1>1. /\ pc[r] = "r_file" /\ Removed("filename") /\ UNCHANGED argi
      /\ \/ /\ \A u \in Requesters :
                 /\ file'[u] = IF u = r THEN f ELSE file[u]
                 /\ line'[u] = IF u = r THEN 1 ELSE line[u]
            /\ Moved(r, "r_read")
         \/ UNCHANGED <<file, line>> /\ Moved(r, "r_get")
  BY GroundFacts, OpenFileDoes
<1>2. F # <<>> /\ F' = Tail(F)
  BY <1>1, QueueNames DEF Removed
<1>3. Range(F) = Range(F') \cup {f} /\ f \notin Range(F') /\ f \in Range(F) /\ f \in Files
  <2> HIDE DEF F
  <2> QED
    BY <1>0, <1>2, TailElements, RangeIs
<1>4. n \in Nat /\ f < argi /\ f \in Nat
  BY <1>0, <1>3, InputShape
<1>5. /\ FileWork[f] = 10 * n + 3 /\ FileWork'[f] = 0
      /\ \A g \in Files \ {f} : FileWork'[g] = FileWork[g]
  <2> HIDE DEF F, n
  <2>1. ~(f >= argi) /\ ~(f >= argi')
    BY <1>0, <1>1, <1>4
  <2>2. \A g \in Files \ {f} : g \in Range(F) <=> g \in Range(F')
    BY <1>3
  <2> HIDE DEF f
  <2> QED
    BY <1>1, <1>3, <2>1, <2>2 DEF FileWork, F, n
<1>6. Total(FileWork') = Total(FileWork) - (10 * n + 3)
  <2> DEFINE v == FileWork
             w == FileWork'
  <2>1. /\ v \in [Files -> Int] /\ w \in [Files -> Int]
        /\ \A y \in Files \ {f} : w[y] = v[y]
        /\ Total(v) \in Int
    BY <1>5 DEF WorkOK
  <2> HIDE DEF v, w, f
  <2>2. Total(w) = Total(v) - v[f] + w[f]
    BY <1>3, <2>1, WorkSets, TotalUpdate
  <2>3. v[f] = 10 * n + 3 /\ w[f] = 0
    BY <1>5 DEF v, w
  <2> HIDE DEF n
  <2> QED
    BY <1>4, <2>1, <2>2, <2>3 DEF v, w
<1>7. stage' = stage /\ QueueWork' = QueueWork
  <2>1. \A q \in LogQueues : items'[q] = items[q]
    BY <1>1, QueueNames DEF Removed
  <2> QED
    BY <2>1 DEF OpenFile, quiet, QueueWork, LogQueues
<1>8. \A u \in Threads \ {r} : ThreadWork'[u] <= ThreadWork[u]
  <2> SUFFICES ASSUME NEW u \in Threads \ {r} PROVE ThreadWork'[u] <= ThreadWork[u]
    OBVIOUS
  <2>1. pc'[u] = pc[u] /\ (u \in Requesters => file'[u] = file[u] /\ line'[u] = line[u])
    BY <1>1 DEF Moved
  <2>2. ThreadWork'[u] = ThreadWork[u] /\ ThreadWork[u] \in Int
    BY <1>7, <2>1, SameThread DEF WorkOK
  <2> QED
    BY <2>2
<1>9. ThreadWork'[r] <= ThreadWork[r] + 10 * n + 2
  <2>1. LinesLeft(r) = 0
    BY <1>1 DEF LinesLeft
  <2>2. \/ pc'[r] = "r_get" /\ LinesLeft(r)' = 0
        \/ pc'[r] = "r_read" /\ LinesLeft(r)' \in Nat /\ LinesLeft(r)' <= n
    <3>1. CASE Moved(r, "r_get")
      BY <1>0, <3>1 DEF Moved, LinesLeft
    <3>2. CASE Moved(r, "r_read") /\ file'[r] = f /\ line'[r] = 1
      <4>1. pc'[r] = "r_read"
        BY <1>0, <3>2 DEF Moved
      <4>2. LinesLeft(r)' = IF 1 <= n THEN n + 1 - 1 ELSE 0
        BY <3>2, <4>1 DEF LinesLeft
      <4> HIDE DEF n
      <4> QED
        BY <1>4, <4>1, <4>2
    <3> QED
      BY <1>1, <3>1, <3>2
  <2>3. Place(r, pc'[r])
    BY <2>2, Roles DEF Place, RequesterPlaces
  <2> HIDE DEF n
  <2>4. PICK d \in Int : /\ ThreadWork[r] = Rank[pc[r]] + 10 * LinesLeft(r) - d
                        /\ ThreadWork'[r] = Rank[pc'[r]] + 10 * LinesLeft(r)' - d
    BY <1>4, <1>7, <2>1, <2>2, <2>3, RequesterIs
  <2>5. Rank["r_get"] = 17 /\ Rank["r_read"] = 18 /\ Rank["r_file"] = 16
    BY RankIs
  <2>6. ThreadWork[r] = 16 - d
    BY <1>1, <2>1, <2>4, <2>5
  <2> QED
    BY <1>4, <2>2, <2>4, <2>5, <2>6
<1>10. /\ ThreadWork[r] \in Int /\ ThreadWork'[r] \in Int /\ QueueWork \in Nat
       /\ Total(FileWork) \in Nat
  BY <1>0 DEF WorkOK
<1>11. ThreadWork'[r] + Total(FileWork') + QueueWork'
         < ThreadWork[r] + Total(FileWork) + QueueWork
  <2> HIDE DEF n
  <2> QED
    BY <1>4, <1>6, <1>7, <1>9, <1>10
<1> QED
  BY <1>0, <1>8, <1>11, OneThread

(* What a hostname in a queue leaves to do.                                 *)
Cost(q) == IF q = "hostname" THEN 5 ELSE 2

LEMMA QueueCosts ==
  ASSUME Ground, NEW q \in LogQueues
  PROVE  /\ items' = items => QueueWork' = QueueWork
         /\ \A x : Appended(q, x) => QueueWork' = QueueWork + Cost(q)
         /\ Removed(q) => QueueWork' = QueueWork - Cost(q)
         /\ (items' = items \/ Removed(q) \/ \E x : Appended(q, x))
              => items'["filename"] = items["filename"]
<1> DEFINE h == items["hostname"]
           a == items["requester_log"]
           b == items["resolver_log"]
<1>1. h \in Seq(Hosts) /\ a \in Seq(Hosts) /\ b \in Seq(Hosts)
  BY DEF Ground, Typed, ItemsTyped, LogQueues
<1>2. LogQueues \subseteq Queues /\ "filename" \in Queues /\ "filename" \notin LogQueues
  BY QueueNames
<1>3. QueueWork = 5 * Len(h) + 2 * Len(a) + 2 * Len(b)
      /\ QueueWork' = 5 * Len(h') + 2 * Len(a') + 2 * Len(b')
  BY DEF QueueWork
<1>4. items' = items => QueueWork' = QueueWork
  BY <1>3
<1>5. q = "hostname" \/ q = "requester_log" \/ q = "resolver_log"
  BY DEF LogQueues
<1>6. \A s \in Seq(Hosts) : \A x : Len(Append(s, x)) = Len(s) + 1 /\ Len(s) \in Nat
  OBVIOUS
<1>7. \A s \in Seq(Hosts) : s # <<>> => Len(Tail(s)) = Len(s) - 1
  OBVIOUS
<1>8. ASSUME NEW x, Appended(q, x) PROVE QueueWork' = QueueWork + Cost(q)
  <2>1. /\ h' = IF q = "hostname" THEN Append(h, x) ELSE h
        /\ a' = IF q = "requester_log" THEN Append(a, x) ELSE a
        /\ b' = IF q = "resolver_log" THEN Append(b, x) ELSE b
    BY <1>2, <1>5, <1>8 DEF Appended, LogQueues
  <2> HIDE DEF h, a, b
  <2>2. /\ Len(h') = IF q = "hostname" THEN Len(h) + 1 ELSE Len(h)
        /\ Len(a') = IF q = "requester_log" THEN Len(a) + 1 ELSE Len(a)
        /\ Len(b') = IF q = "resolver_log" THEN Len(b) + 1 ELSE Len(b)
        /\ Len(h) \in Nat /\ Len(a) \in Nat /\ Len(b) \in Nat
    BY <1>1, <1>6, <2>1
  <2> DEFINE k == Len(h)
             l == Len(a)
             m == Len(b)
  <2>3. k \in Nat /\ l \in Nat /\ m \in Nat
    BY <2>2
  <2>4. CASE q = "hostname"
    <3>1. QueueWork' = 5 * (k + 1) + 2 * l + 2 * m /\ Cost(q) = 5
      BY <1>3, <2>2, <2>4 DEF Cost
    <3> HIDE DEF k, l, m
    <3>2. QueueWork = 5 * k + 2 * l + 2 * m
      BY <1>3 DEF k, l, m
    <3> QED
      BY <2>3, <3>1, <3>2
  <2>5. CASE q = "requester_log"
    <3>1. QueueWork' = 5 * k + 2 * (l + 1) + 2 * m /\ Cost(q) = 2
      BY <1>3, <2>2, <2>5 DEF Cost
    <3> HIDE DEF k, l, m
    <3>2. QueueWork = 5 * k + 2 * l + 2 * m
      BY <1>3 DEF k, l, m
    <3> QED
      BY <2>3, <3>1, <3>2
  <2>6. CASE q = "resolver_log"
    <3>1. QueueWork' = 5 * k + 2 * l + 2 * (m + 1) /\ Cost(q) = 2
      BY <1>3, <2>2, <2>6 DEF Cost
    <3> HIDE DEF k, l, m
    <3>2. QueueWork = 5 * k + 2 * l + 2 * m
      BY <1>3 DEF k, l, m
    <3> QED
      BY <2>3, <3>1, <3>2
  <2> QED
    BY <1>5, <2>4, <2>5, <2>6
<1>9. ASSUME Removed(q) PROVE QueueWork' = QueueWork - Cost(q)
  <2>1. /\ h' = IF q = "hostname" THEN Tail(h) ELSE h
        /\ a' = IF q = "requester_log" THEN Tail(a) ELSE a
        /\ b' = IF q = "resolver_log" THEN Tail(b) ELSE b
        /\ q = "hostname" => h # <<>>
        /\ q = "requester_log" => a # <<>>
        /\ q = "resolver_log" => b # <<>>
    BY <1>2, <1>5, <1>9 DEF Removed, LogQueues
  <2> HIDE DEF h, a, b
  <2>2. /\ Len(h') = IF q = "hostname" THEN Len(h) - 1 ELSE Len(h)
        /\ Len(a') = IF q = "requester_log" THEN Len(a) - 1 ELSE Len(a)
        /\ Len(b') = IF q = "resolver_log" THEN Len(b) - 1 ELSE Len(b)
        /\ Len(h) \in Nat /\ Len(a) \in Nat /\ Len(b) \in Nat
    BY <1>1, <1>6, <1>7, <2>1
  <2> DEFINE k == Len(h)
             l == Len(a)
             m == Len(b)
  <2>3. k \in Nat /\ l \in Nat /\ m \in Nat
    BY <2>2
  <2>4. CASE q = "hostname"
    <3>1. QueueWork' = 5 * (k - 1) + 2 * l + 2 * m /\ Cost(q) = 5
      BY <1>3, <2>2, <2>4 DEF Cost
    <3> HIDE DEF k, l, m
    <3>2. QueueWork = 5 * k + 2 * l + 2 * m
      BY <1>3 DEF k, l, m
    <3> QED
      BY <2>3, <3>1, <3>2
  <2>5. CASE q = "requester_log"
    <3>1. QueueWork' = 5 * k + 2 * (l - 1) + 2 * m /\ Cost(q) = 2
      BY <1>3, <2>2, <2>5 DEF Cost
    <3> HIDE DEF k, l, m
    <3>2. QueueWork = 5 * k + 2 * l + 2 * m
      BY <1>3 DEF k, l, m
    <3> QED
      BY <2>3, <3>1, <3>2
  <2>6. CASE q = "resolver_log"
    <3>1. QueueWork' = 5 * k + 2 * l + 2 * (m - 1) /\ Cost(q) = 2
      BY <1>3, <2>2, <2>6 DEF Cost
    <3> HIDE DEF k, l, m
    <3>2. QueueWork = 5 * k + 2 * l + 2 * m
      BY <1>3 DEF k, l, m
    <3> QED
      BY <2>3, <3>1, <3>2
  <2> QED
    BY <1>5, <2>4, <2>5, <2>6
<1>10. items' = items \/ Removed(q) \/ (\E x : Appended(q, x))
         => items'["filename"] = items["filename"]
  BY <1>2 DEF Removed, Appended
<1> QED
  BY <1>4, <1>8, <1>9, <1>10

LEMMA ReaderShrinks ==
  ASSUME Ground, WorkOK, WorkOK', NEW r \in Requesters,
         ReadLine(r) \/ LogRequest(r) \/ PutHost(r)
  PROVE  0 <= Work' /\ Work' < Work
<1> DEFINE n == Len(Lines[file[r]])
<1>0. /\ Launch /\ Typed /\ r \in Threads /\ Busy(r)
      /\ n \in Nat /\ line[r] \in Nat /\ stage' = stage
      /\ Rank["r_get"] = 17 /\ Rank["r_log"] = 17 /\ Rank["r_read"] = 18 /\ Rank["r_put"] = 14
      /\ Place(r, "r_get") /\ Place(r, "r_log") /\ Place(r, "r_read") /\ Place(r, "r_put")
      /\ LinesLeft(r) = IF line[r] <= n THEN n + 1 - line[r] ELSE 0
      /\ QueueWork \in Nat /\ ThreadWork[r] \in Int /\ ThreadWork'[r] \in Int
  <2>1. Launch /\ Typed /\ r \in Threads
    BY Roles, GroundFacts
  <2>2. Busy(r)
    BY DEF ReadLine, LogRequest, PutHost, At, Busy
  <2>3. n \in Nat /\ line[r] \in Nat
    BY <2>2, GroundFacts, InputShape
  <2>4. stage' = stage
    BY DEF ReadLine, LogRequest, PutHost, quiet
  <2>5. Place(r, "r_get") /\ Place(r, "r_log") /\ Place(r, "r_read") /\ Place(r, "r_put")
    BY Roles DEF Place, RequesterPlaces
  <2> QED
    BY <2>1, <2>2, <2>3, <2>4, <2>5, RankIs DEF LinesLeft, Busy, WorkOK
<1>1. ASSUME NEW a, NEW b, pc[r] = a, pc'[r] = b, Place(r, b),
             \A u \in Threads \ {r} : pc'[u] = pc[u],
             \A u \in Requesters \ {r} : file'[u] = file[u] /\ line'[u] = line[u],
             argi' = argi, items'["filename"] = items["filename"],
             LinesLeft(r)' \in Nat, QueueWork' \in Nat,
             Rank[a] \in Nat, Rank[b] \in Nat,
             Rank[b] + 10 * LinesLeft(r)' + QueueWork' < Rank[a] + 10 * LinesLeft(r) + QueueWork
      PROVE  0 <= Work' /\ Work' < Work
  <2>1. LinesLeft(r) \in Nat
    BY <1>0
  <2>2. PICK d \in Int : /\ ThreadWork[r] = Rank[pc[r]] + 10 * LinesLeft(r) - d
                         /\ ThreadWork'[r] = Rank[pc'[r]] + 10 * LinesLeft(r)' - d
    BY <1>0, <1>1, <2>1, RequesterIs
  <2>3. ThreadWork'[r] + QueueWork' < ThreadWork[r] + QueueWork
    <3>1. /\ ThreadWork[r] = Rank[a] + 10 * LinesLeft(r) - d
          /\ ThreadWork'[r] = Rank[b] + 10 * LinesLeft(r)' - d
      BY <1>1, <2>2
    <3>2. QueueWork \in Int /\ QueueWork' \in Int
      BY <1>0, <1>1
    <3> QED
      BY <1>1, <2>1, <3>1, <3>2
  <2> QED
    BY <1>0, <1>1, <2>3, ThreadShrinks
<1>2. QueueWork' \in Nat
  BY DEF WorkOK
<1> HIDE DEF n
<1>3. CASE ReadLine(r)
  <2>1. /\ pc[r] = "r_read" /\ UNCHANGED <<items, argi, file>>
        /\ \/ UNCHANGED line /\ Moved(r, "r_get") /\ line[r] > n
           \/ UNCHANGED line /\ Moved(r, "r_log") /\ <<file[r], line[r]>> \in Hosts
           \/ /\ UNCHANGED pc
              /\ \A u \in Requesters : line'[u] = IF u = r THEN line[r] + 1 ELSE line[u]
              /\ line[r] <= n
    BY <1>0, <1>3, ReadLineDoes DEF ReadLine, n
  <2>2. QueueWork' = QueueWork
    BY <2>1 DEF QueueWork
  <2>3. CASE UNCHANGED line /\ Moved(r, "r_get") /\ line[r] > n
    <3>1. pc'[r] = "r_get" /\ \A u \in Threads \ {r} : pc'[u] = pc[u]
      BY <1>0, <2>3 DEF Moved
    <3>2. LinesLeft(r) = 0 /\ LinesLeft(r)' = 0
      BY <1>0, <2>3, <3>1 DEF LinesLeft
    <3> QED
      BY <1>0, <1>1, <1>2, <2>1, <2>2, <2>3, <3>1, <3>2
  <2>4. CASE UNCHANGED line /\ Moved(r, "r_log")
    <3>1. pc'[r] = "r_log" /\ \A u \in Threads \ {r} : pc'[u] = pc[u]
      BY <1>0, <2>4 DEF Moved
    <3>2. LinesLeft(r)' = LinesLeft(r) /\ LinesLeft(r) \in Nat
      BY <1>0, <2>1, <2>4, <3>1 DEF LinesLeft
    <3> QED
      BY <1>0, <1>1, <1>2, <2>1, <2>2, <2>4, <3>1, <3>2
  <2>5. CASE /\ UNCHANGED pc
             /\ \A u \in Requesters : line'[u] = IF u = r THEN line[r] + 1 ELSE line[u]
             /\ line[r] <= n
    <3>1. LinesLeft(r)' = IF line[r] + 1 <= n THEN n + 1 - (line[r] + 1) ELSE 0
      BY <2>1, <2>5 DEF LinesLeft, n
    <3>2. LinesLeft(r)' \in Nat /\ LinesLeft(r) \in Nat /\ LinesLeft(r)' < LinesLeft(r)
      BY <1>0, <2>5, <3>1
    <3> QED
      BY <1>0, <1>1, <1>2, <2>1, <2>2, <2>5, <3>2
  <2> QED
    BY <2>1, <2>3, <2>4, <2>5
<1>4. CASE LogRequest(r)
  <2>1. /\ pc[r] = "r_log" /\ UNCHANGED <<argi, file, line>> /\ Moved(r, "r_put")
        /\ Appended("requester_log", <<file[r], line[r]>>) \/ UNCHANGED items
    BY <1>0, <1>4, LogRequestDoes
  <2>2. /\ QueueWork' <= QueueWork + 2 /\ items'["filename"] = items["filename"]
    BY <1>0, <2>1, QueueCosts DEF LogQueues, Cost
  <2>3. pc'[r] = "r_put" /\ \A u \in Threads \ {r} : pc'[u] = pc[u]
    BY <1>0, <2>1 DEF Moved
  <2>4. LinesLeft(r)' = LinesLeft(r) /\ LinesLeft(r) \in Nat
    BY <1>0, <2>1, <2>3 DEF LinesLeft
  <2>5. Rank["r_put"] + 10 * LinesLeft(r)' + QueueWork' < Rank["r_log"] + 10 * LinesLeft(r) + QueueWork
    BY <1>0, <1>2, <2>2, <2>4
  <2> QED
    BY <1>0, <1>1, <1>2, <2>1, <2>2, <2>3, <2>4, <2>5
<1>5. CASE PutHost(r)
  <2>1. /\ pc[r] = "r_put" /\ UNCHANGED <<argi, file>> /\ Moved(r, "r_read")
        /\ \A u \in Requesters : line'[u] = IF u = r THEN line[r] + 1 ELSE line[u]
        /\ Appended("hostname", <<file[r], line[r]>>) \/ UNCHANGED items
    BY <1>0, <1>5, PutHostDoes
  <2>2. /\ QueueWork' <= QueueWork + 5 /\ items'["filename"] = items["filename"]
    BY <1>0, <2>1, QueueCosts DEF LogQueues, Cost
  <2>3. pc'[r] = "r_read" /\ \A u \in Threads \ {r} : pc'[u] = pc[u]
    BY <1>0, <2>1 DEF Moved
  <2>4. line[r] <= n
    BY <1>0, <2>1, HostIs, PositionIs DEF Typed, n
  <2>5. LinesLeft(r)' = IF line[r] + 1 <= n THEN n + 1 - (line[r] + 1) ELSE 0
    BY <2>1, <2>3 DEF LinesLeft, n
  <2>6. LinesLeft(r)' \in Nat /\ LinesLeft(r) \in Nat /\ LinesLeft(r)' < LinesLeft(r)
    BY <1>0, <2>4, <2>5
  <2>7. Rank["r_read"] + 10 * LinesLeft(r)' + QueueWork' < Rank["r_put"] + 10 * LinesLeft(r) + QueueWork
    BY <1>0, <1>2, <2>2, <2>6
  <2> QED
    BY <1>0, <1>1, <1>2, <2>1, <2>2, <2>3, <2>6, <2>7
<1> QED
  BY <1>3, <1>4, <1>5

(* The steps of the resolvers and of the log threads that move a string.    *)
LEMMA HandsOnShrinks ==
  ASSUME Ground, WorkOK, WorkOK', NEW t \in Resolvers \cup Loggers, NEW l, NEW q \in LogQueues,
         Place(t, l), Moved(t, l), UNCHANGED <<argi, file, line, stage>>,
         \/ Rank[l] < Rank[pc[t]] + Cost(q) /\ Removed(q)
         \/ Rank[l] + Cost(q) < Rank[pc[t]] /\ (items' = items \/ \E x : Appended(q, x))
  PROVE  0 <= Work' /\ Work' < Work
<1>1. /\ t \in Threads /\ t \notin Freers /\ t \notin Requesters
      /\ pc'[t] = l /\ \A u \in Threads \ {t} : pc'[u] = pc[u]
  BY Roles DEF Moved, Freers
<1>2. Rank[pc[t]] \in Nat /\ Rank[l] \in Nat /\ Cost(q) \in Nat
  BY <1>1, PlacesRanked DEF Ground, Controlled, Cost
<1>3. /\ ThreadWork[t] = Rank[pc[t]] /\ ThreadWork'[t] = Rank[l]
      /\ QueueWork \in Nat /\ QueueWork' \in Nat
  BY <1>1, <1>2, ThreadIs DEF WorkOK
<1>4. ThreadWork'[t] + QueueWork' < ThreadWork[t] + QueueWork
  <2>1. CASE Rank[l] < Rank[pc[t]] + Cost(q) /\ Removed(q)
    <3>1. QueueWork' = QueueWork - Cost(q)
      BY <2>1, QueueCosts
    <3> QED
      BY <1>2, <1>3, <2>1, <3>1
  <2>2. CASE Rank[l] + Cost(q) < Rank[pc[t]] /\ (items' = items \/ \E x : Appended(q, x))
    <3>1. QueueWork' = QueueWork \/ QueueWork' = QueueWork + Cost(q)
      BY <2>2, QueueCosts
    <3> QED
      BY <1>2, <1>3, <2>2, <3>1
  <2> QED
    BY <2>1, <2>2
<1>5. items'["filename"] = items["filename"]
  BY QueueCosts
<1> QED
  BY <1>1, <1>4, <1>5, ThreadShrinks

LEMMA TakeHostShrinks ==
  ASSUME Ground, WorkOK, WorkOK', NEW s \in Resolvers, TakeHost(s) \/ LogResolved(s)
  PROVE  0 <= Work' /\ Work' < Work
<1>0. /\ Launch /\ Typed /\ stage' = stage
      /\ Place(s, "s_log") /\ Place(s, "s_get")
      /\ Rank["s_host"] = 7 /\ Rank["s_log"] = 11 /\ Rank["s_get"] = 8
      /\ Cost("hostname") = 5 /\ Cost("resolver_log") = 2
      /\ "hostname" \in LogQueues /\ "resolver_log" \in LogQueues
  BY GroundFacts, Roles, RankIs DEF TakeHost, LogResolved, quiet, Place, Cost, LogQueues
<1>1. CASE TakeHost(s)
  <2>1. /\ pc[s] = "s_host" /\ UNCHANGED <<argi, file, line>>
        /\ Removed("hostname") /\ Moved(s, "s_log")
    BY <1>0, <1>1, TakeHostDoes
  <2>2. Rank["s_log"] < Rank[pc[s]] + Cost("hostname")
    BY <1>0, <2>1
  <2> QED
    BY <1>0, <2>1, <2>2, HandsOnShrinks
<1>2. CASE LogResolved(s)
  <2>1. /\ pc[s] = "s_log" /\ UNCHANGED <<argi, file, line>> /\ Moved(s, "s_get")
        /\ items' = items \/ \E x : Appended("resolver_log", x)
    BY <1>0, <1>2, LogResolvedDoes
  <2>2. Rank["s_get"] + Cost("resolver_log") < Rank[pc[s]]
    BY <1>0, <2>1
  <2> QED
    BY <1>0, <2>1, <2>2, HandsOnShrinks
<1> QED
  BY <1>1, <1>2

LEMMA WriteLineShrinks ==
  ASSUME Ground, WorkOK, WorkOK', NEW t \in Loggers, WriteLine(t)
  PROVE  0 <= Work' /\ Work' < Work
<1>1. /\ pc[t] = "l_line" /\ UNCHANGED <<argi, file, line>>
      /\ LogQueue[t] \in {"requester_log", "resolver_log"}
      /\ Removed(LogQueue[t]) /\ Moved(t, "l_get")
  BY GroundFacts, WriteLineDoes
<1>2. /\ stage' = stage /\ Place(t, "l_get") /\ LogQueue[t] \in LogQueues
      /\ Rank["l_line"] = 7 /\ Rank["l_get"] = 8 /\ Cost(LogQueue[t]) = 2
  BY <1>1, Roles, RankIs DEF WriteLine, quiet, Place, Cost, LogQueues
<1>3. Rank["l_get"] < Rank[pc[t]] + Cost(LogQueue[t])
  BY <1>1, <1>2
<1> QED
  BY <1>1, <1>2, <1>3, HandsOnShrinks

(* A file name is queued, or passed over.                                   *)
LEMMA QueueNameShrinks ==
  ASSUME Ground, WorkOK, WorkOK', QueueName
  PROVE  0 <= Work' /\ Work' < Work
<1> DEFINE F == items["filename"]
           n == Len(Lines[argi])
<1>1. /\ argi \in Files /\ argi \in Nat /\ argi' = argi + 1
      /\ UNCHANGED <<pc, file, line, stage>>
      /\ Appended("filename", argi) \/ UNCHANGED items
      /\ F \in Seq(Files) /\ Files \subseteq Nat /\ n \in Nat
  BY GroundFacts, QueueNameDoes, InputShape DEF QueueName, quiet
<1>2. QueueWork' = QueueWork
  BY <1>1, QueueNames DEF QueueWork, Appended, LogQueues
<1>3. F' = F \/ F' = Append(F, argi)
  BY <1>1, QueueNames DEF Appended
<1>4. Range(F') \subseteq Range(F) \cup {argi} /\ Range(F) \subseteq Range(F')
  <2> HIDE DEF F
  <2>1. CASE F' = F
    BY <2>1
  <2>2. CASE F' = Append(F, argi)
    <3>1. Range(Append(F, argi)) = Range(F) \cup {argi}
      BY <1>1, AppendElements
    <3> QED
      BY <2>2, <3>1
  <2> QED
    BY <1>3, <2>1, <2>2
<1>5. /\ FileWork[argi] = 10 * n + 4 /\ FileWork'[argi] <= 10 * n + 3
      /\ \A g \in Files \ {argi} : FileWork'[g] = FileWork[g]
  <2> HIDE DEF F
  <2>1. argi >= argi /\ ~(argi >= argi')
    BY <1>1
  <2>2. \A g \in Files \ {argi} : g >= argi <=> g >= argi'
    BY <1>1
  <2>3. \A g \in Files \ {argi} : g \in Range(F) <=> g \in Range(F')
    BY <1>4
  <2>4. FileWork'[argi] = IF argi \in Range(F') THEN 10 * n + 3 ELSE 0
    BY <1>1, <2>1 DEF FileWork, F
  <2>5. FileWork[argi] = 10 * n + 4
    BY <1>1, <2>1 DEF FileWork
  <2>6. \A g \in Files \ {argi} : FileWork'[g] = FileWork[g]
    BY <2>2, <2>3 DEF FileWork, F
  <2> HIDE DEF n
  <2> QED
    BY <1>1, <2>4, <2>5, <2>6
<1>6. Total(FileWork') < Total(FileWork)
  <2> DEFINE v == FileWork
             w == FileWork'
             x == argi
  <2>0. v \in [Files -> Int] /\ w \in [Files -> Int]
    BY DEF WorkOK
  <2> HIDE DEF n
  <2>1. /\ v \in [Files -> Int] /\ w \in [Files -> Int] /\ x \in Files
        /\ \A y \in Files \ {x} : w[y] = v[y]
        /\ v[x] = 10 * n + 4 /\ w[x] <= 10 * n + 3
    BY <1>1, <1>5, <2>0
  <2> HIDE DEF v, w, x
  <2>2. Total(v) \in Int /\ Total(w) = Total(v) - v[x] + w[x]
    BY <2>1, WorkSets, TotalUpdate
  <2>3. v[x] \in Int /\ w[x] \in Int
    BY <2>1
  <2>4. Total(w) < Total(v)
    BY <1>1, <2>1, <2>2, <2>3
  <2> QED
    BY <2>4 DEF v, w
<1>7. ThreadWork' = ThreadWork
  BY <1>1 DEF ThreadWork, LinesLeft
<1>8. /\ \A u \in Threads : ThreadWork[u] \in Int
      /\ QueueWork \in Nat /\ Total(FileWork) \in Nat /\ Total(FileWork') \in Nat
  BY DEF WorkOK
<1>9. /\ Main \in Threads
      /\ \A u \in Threads \ {Main} : ThreadWork'[u] <= ThreadWork[u]
      /\ ThreadWork'[Main] + Total(FileWork') + QueueWork'
           < ThreadWork[Main] + Total(FileWork) + QueueWork
  BY <1>2, <1>6, <1>7, <1>8, Roles
<1> QED
  BY <1>9, OneThread

(* Main creates threads.                                                    *)
LEMMA CreateShrinks ==
  ASSUME Ground, WorkOK, WorkOK', NEW next, Kept,
         DOMAIN pc' = Threads, pc'[Main] = next, Place(Main, next), Rank[next] < Rank[pc[Main]],
         \A u \in Threads \ {Main} :
           \/ pc'[u] = pc[u]
           \/ pc[u] = "uncreated" /\ Rank[pc'[u]] < 31
              /\ pc'[u] \notin {"r_read", "r_log", "r_put"} /\ Place(u, pc'[u])
  PROVE  0 <= Work' /\ Work' < Work
<1>1. Main \in Threads /\ Main \notin Requesters
  BY Roles
<1>2. FileWork' = FileWork /\ QueueWork' = QueueWork
  BY DEF Kept, FileWork, QueueWork
<1>3. \A u \in Threads : u \in Freers => stage'[u] = stage[u] /\ StagesDone[stage[u]] \in Int
  BY DEF Kept, Ground, Controlled, StagesDone
<1>4. ASSUME NEW u \in Threads \ {Main} PROVE ThreadWork'[u] <= ThreadWork[u]
  <2>1. CASE pc'[u] = pc[u]
    <3>1. ThreadWork'[u] = ThreadWork[u] /\ ThreadWork[u] \in Int
      BY <1>3, <2>1, SameThread DEF Kept, WorkOK
    <3> QED
      BY <3>1
  <2>2. CASE /\ pc[u] = "uncreated" /\ Rank[pc'[u]] < 31
             /\ pc'[u] \notin {"r_read", "r_log", "r_put"} /\ Place(u, pc'[u])
    <3>1. Rank[pc'[u]] \in Nat /\ Rank[pc[u]] = 31
      BY <2>2, PlacesRanked, RankIs
    <3>2. LinesLeft(u) = 0 /\ LinesLeft(u)' = 0
      BY <2>2 DEF LinesLeft
    <3> QED
      BY <1>3, <2>2, <3>1, <3>2, ThreadIs
  <2> QED
    BY <1>4, <2>1, <2>2
<1>5. /\ ThreadWork'[Main] < ThreadWork[Main]
      /\ ThreadWork'[Main] \in Nat /\ ThreadWork[Main] \in Nat
      /\ QueueWork \in Nat /\ Total(FileWork) \in Nat
  <2>1. Rank[next] \in Nat /\ Rank[pc[Main]] \in Nat
    BY <1>1, PlacesRanked DEF Ground, Controlled
  <2> QED
    BY <1>1, <1>3, <2>1, ThreadIs DEF WorkOK
<1>6. ThreadWork'[Main] + Total(FileWork') + QueueWork'
        < ThreadWork[Main] + Total(FileWork) + QueueWork
  BY <1>2, <1>5
<1> QED
  BY <1>1, <1>4, <1>6, OneThread

(* The steps of main.                                                       *)
LEMMA MainShrinks ==
  ASSUME Ground, LoggersUp, FreeProgress, WorkOK, WorkOK', MainThread
  PROVE  0 <= Work' /\ Work' < Work
<1> USE DEF allButPc, queues, quiet, input
<1>0. /\ Launch /\ DOMAIN pc = Threads /\ Main \in Threads /\ Main \notin Requesters
      /\ \A u \in Loggers : u # Main
  BY GroundFacts, Roles DEF Launch
<1>1. ASSUME NEW l, Goto(Main, l), Kept, Rank[l] \in Nat, Rank[l] < Rank[pc[Main]]
      PROVE  0 <= Work' /\ Work' < Work
  <2>1. Moved(Main, l)
    BY <1>0, <1>1, GotoMoves
  <2> QED
    BY <1>0, <1>1, <2>1, GoShrinks
<1>2. CASE CheckArguments \/ CountValid \/ OpenLogs \/ AllocateThreads
  <2>1. PICK here, l :
          /\ pc[Main] = here /\ Goto(Main, l)
          /\ \/ here = "m_args" /\ l \in {"m_count", "exit_failure"}
             \/ here = "m_count" /\ l \in {"m_open", "exit_failure"}
             \/ here = "m_open" /\ l \in {"m_reqlog", "exit_failure"}
             \/ here = "m_alloc" /\ l \in {"m_create", "a_first"}
    BY <1>2 DEF CheckArguments, CountValid, OpenLogs, AllocateThreads, At
  <2>2. Kept
    BY <1>2 DEF CheckArguments, CountValid, OpenLogs, AllocateThreads, Kept
  <2>3. Rank[l] \in Nat /\ Rank[l] < Rank[here]
    BY <2>1, RankIs
  <2> QED
    BY <1>1, <2>1, <2>2, <2>3
<1>3. CASE JoinRequesters \/ JoinResolvers \/ JoinLoggers
  <2>1. PICK here, l :
          /\ pc[Main] = here /\ Goto(Main, l)
          /\ \/ here = "m_join_req" /\ l \in {"m_join_res", "crashed"}
             \/ here = "m_join_res" /\ l \in {"m_free_reqlog", "crashed"}
             \/ here = "m_join_log" /\ l \in {"exit", "crashed"}
    BY <1>3 DEF JoinRequesters, JoinResolvers, JoinLoggers, Join, At
  <2>2. Kept
    BY <1>3 DEF JoinRequesters, JoinResolvers, JoinLoggers, Join, Kept
  <2>3. Rank[l] \in Nat /\ Rank[l] < Rank[here]
    BY <2>1, RankIs
  <2> QED
    BY <1>1, <2>1, <2>2, <2>3
<1>4. CASE StartReqLogger \/ StartResLogger
  <2>1. PICK t, here, next :
          /\ \/ t = ReqLogger /\ here = "m_reqlog" /\ next = "m_reslog"
             \/ t = ResLogger /\ here = "m_reslog" /\ next = "m_alloc"
          /\ StartLogger(t, here, next)
    BY <1>4 DEF StartReqLogger, StartResLogger
  <2>2. /\ pc[Main] = here /\ Kept
        /\ \/ pc' = [pc EXCEPT ![t] = "l_get", ![Main] = next]
           \/ Goto(Main, "a_first")
    BY <2>1 DEF StartLogger, At, Kept
  <2>3. /\ Rank["a_first"] \in Nat /\ Rank["a_first"] < Rank[here] /\ Rank[next] < Rank[here]
        /\ Rank["l_get"] < 31 /\ Place(Main, next)
    BY <2>1, RankIs, Roles DEF Place, MainPlaces
  <2>4. t \in Loggers /\ pc[t] = "uncreated" /\ Place(t, "l_get") /\ t \in Threads
    BY <2>1, <2>2, Roles DEF LoggersUp, EarlyPC, Loggers, Place
  <2>5. CASE pc' = [pc EXCEPT ![t] = "l_get", ![Main] = next]
    <3>1. /\ DOMAIN pc' = Threads /\ pc'[Main] = next
          /\ \A u \in Threads \ {Main} : pc'[u] = IF u = t THEN "l_get" ELSE pc[u]
      BY <1>0, <2>4, <2>5
    <3> QED
      BY <2>2, <2>3, <2>4, <3>1, CreateShrinks
  <2>6. CASE Goto(Main, "a_first")
    BY <1>1, <2>2, <2>3, <2>6
  <2> QED
    BY <2>2, <2>5, <2>6
<1>5. CASE CreateRequesters
  <2>1. PICK failed \in SUBSET (CreateFails \cap Requesters) :
          pc' = [t \in Threads |->
                   CASE t \in Requesters \ failed -> "r_get"
                     [] t = Main                  -> "m_names"
                     [] OTHER                     -> pc[t]]
    BY <1>5 DEF CreateRequesters
  <2>2. pc[Main] = "m_create" /\ Kept
    BY <1>5 DEF CreateRequesters, At, Kept
  <2>3. /\ DOMAIN pc' = Threads /\ pc'[Main] = "m_names"
        /\ \A u \in Threads \ {Main} : pc'[u] = pc[u] \/ (u \in Requesters /\ pc'[u] = "r_get")
    BY <1>0, <2>1
  <2>4. \A r \in Requesters : pc[r] = "uncreated" /\ Place(r, "r_get")
    BY <1>0, <2>2, Roles DEF Launch, Unstarted, BeforePC, Place, RequesterPlaces
  <2>5. /\ Place(Main, "m_names") /\ Rank["m_names"] < Rank[pc[Main]] /\ Rank["r_get"] < 31
    BY <2>2, RankIs, Roles DEF Place, MainPlaces
  <2> QED
    BY <2>2, <2>3, <2>4, <2>5, CreateShrinks
<1>6. CASE CreateResolvers
  <2>1. PICK failed \in SUBSET (CreateFails \cap Resolvers) :
          pc' = [t \in Threads |->
                   CASE t \in Resolvers \ failed -> "s_get"
                     [] t = Main                 -> "m_free_names"
                     [] OTHER                    -> pc[t]]
    BY <1>6 DEF CreateResolvers
  <2>2. pc[Main] = "m_names" /\ Kept
    BY <1>6 DEF CreateResolvers, At, Kept
  <2>3. /\ DOMAIN pc' = Threads /\ pc'[Main] = "m_free_names"
        /\ \A u \in Threads \ {Main} : pc'[u] = pc[u] \/ (u \in Resolvers /\ pc'[u] = "s_get")
    BY <1>0, <2>1, Roles
  <2>4. \A s \in Resolvers : pc[s] = "uncreated" /\ Place(s, "s_get")
    BY <1>0, <2>2, Roles DEF Launch, Place
  <2>5. /\ Place(Main, "m_free_names") /\ Rank["m_free_names"] < Rank[pc[Main]] /\ Rank["s_get"] < 31
    BY <2>2, RankIs, Roles DEF Place, MainPlaces
  <2> QED
    BY <2>2, <2>3, <2>4, <2>5, CreateShrinks
<1>7. CASE FreeNames \/ FreeReqLogAgain \/ FreeResLog \/ CleanUp
  <2>1. FreeStep
    BY <1>7, FreeAllSteps DEF FreeNames, FreeReqLogAgain, FreeResLog, CleanUp, FreeStep, FreePath
  <2> QED
    BY <2>1, FreeShrinks DEF FreeStep
<1>8. CASE QueueHangs
  <2>1. /\ pc[Main] = "m_names" /\ Goto(Main, "stuck") /\ Kept
    BY <1>8, PutHung DEF Kept
  <2>2. Rank["stuck"] \in Nat /\ Rank["stuck"] < Rank["m_names"]
    BY RankIs
  <2> QED
    BY <1>1, <2>1, <2>2
<1> QED
  BY <1>2, <1>3, <1>4, <1>5, <1>6, <1>7, <1>8, QueueNameShrinks DEF MainThread

LEMMA HangShrinks ==
  ASSUME Ground, WorkOK, WorkOK', NEW r \in Requesters, RequesterHangs(r)
  PROVE  0 <= Work' /\ Work' < Work
<1>1. /\ pc[r] \in {"r_log", "r_put"} /\ UNCHANGED <<items, argi, file, line, stage>>
      /\ Moved(r, "stuck") /\ r \in Threads /\ Busy(r)
  BY HangsDoes, PutHung, Roles DEF Ground, allButPc, quiet, Busy
<1>2. pc'[r] = "stuck" /\ \A u \in Threads \ {r} : pc'[u] = pc[u]
  BY <1>1 DEF Moved
<1>3. Place(r, "stuck")
  BY Roles DEF Place, RequesterPlaces, WorkerPlaces
<1>4. LinesLeft(r) \in Nat /\ LinesLeft(r)' = 0
  BY <1>1, <1>2, GroundFacts, InputShape DEF LinesLeft
<1>5. PICK d \in Int : /\ ThreadWork[r] = Rank[pc[r]] + 10 * LinesLeft(r) - d
                       /\ ThreadWork'[r] = Rank[pc'[r]] + 10 * LinesLeft(r)' - d
  BY <1>1, <1>2, <1>3, <1>4, RequesterIs
<1>6. Rank["r_log"] = 17 /\ Rank["r_put"] = 14 /\ Rank["stuck"] = 6
  BY RankIs
<1>7. ThreadWork'[r] < ThreadWork[r]
  BY <1>1, <1>2, <1>4, <1>5, <1>6
<1>8. QueueWork' = QueueWork
  BY <1>1 DEF QueueWork
<1>9. QueueWork \in Nat /\ ThreadWork[r] \in Int /\ ThreadWork'[r] \in Int
  BY <1>1 DEF WorkOK
<1> QED
  BY <1>1, <1>2, <1>7, <1>8, <1>9, ThreadShrinks

(* The steps of the workers, of the signal and of its handler.              *)
LEMMA WorkerShrinks ==
  ASSUME Ground, Reads, FreeProgress, WorkOK, WorkOK', NEW t \in Workers, WorkerStep(t)
  PROVE  0 <= Work' /\ Work' < Work
<1> USE DEF allButPc, queues, quiet, input
<1>0. t \in Threads /\ Launch
  BY GroundFacts, Roles
<1>1. ASSUME NEW here, NEW l, pc[t] = here, Goto(t, l), Kept, Rank[l] \in Nat, Rank[l] < Rank[here],
             t \in Requesters => {here, l} \cap {"r_read", "r_log", "r_put"} = {}
      PROVE  0 <= Work' /\ Work' < Work
  <2>1. Moved(t, l)
    BY <1>0, <1>1, GotoMoves
  <2> QED
    BY <1>0, <1>1, <2>1, GoShrinks
<1>2. CASE t \in Requesters /\ (RequestFile(t) \/ LeaveFiles(t) \/ ExitReader(t))
  <2>1. PICK here, l :
          /\ pc[t] = here /\ Goto(t, l)
          /\ \/ here = "r_get" /\ l \in {"r_file", "stuck_get"}
             \/ here = "r_file" /\ l = "r_exit"
             \/ here = "r_exit" /\ l \in {"r_free_hosts", "done"}
    BY <1>2 DEF RequestFile, Enter, LeaveFiles, ExitReader, At
  <2>2. Kept
    BY <1>2 DEF RequestFile, Enter, LeaveFiles, ExitReader, Kept
  <2>3. /\ Rank[l] \in Nat /\ Rank[l] < Rank[here]
        /\ {here, l} \cap {"r_read", "r_log", "r_put"} = {}
    BY <2>1, RankIs
  <2> QED
    BY <1>1, <2>1, <2>2, <2>3
<1>3. CASE t \in Resolvers /\ (RequestHost(t) \/ LeaveHosts(t))
  <2>1. PICK here, l :
          /\ pc[t] = here /\ Goto(t, l)
          /\ \/ here = "s_get" /\ l \in {"s_host", "stuck_get"}
             \/ here = "s_host" /\ l = "done"
    BY <1>3 DEF RequestHost, Enter, LeaveHosts, At
  <2>2. Kept
    BY <1>3 DEF RequestHost, Enter, LeaveHosts, Kept
  <2>3. Rank[l] \in Nat /\ Rank[l] < Rank[here]
    BY <2>1, RankIs
  <2> QED
    BY <1>1, <1>3, <2>1, <2>2, <2>3, Roles
<1>4. CASE t \in Loggers /\ (RequestLine(t) \/ LeaveLog(t))
  <2>1. PICK here, l :
          /\ pc[t] = here /\ Goto(t, l)
          /\ \/ here = "l_get" /\ l \in {"l_line", "stuck_get"}
             \/ here = "l_line" /\ l = "done"
    BY <1>4 DEF RequestLine, Enter, LeaveLog, At
  <2>2. Kept
    BY <1>4 DEF RequestLine, Enter, LeaveLog, Kept
  <2>3. Rank[l] \in Nat /\ Rank[l] < Rank[here]
    BY <2>1, RankIs
  <2> QED
    BY <1>1, <1>4, <2>1, <2>2, <2>3, Roles
<1>5. CASE t \in Requesters /\ (FreeHosts(t) \/ FreeReqLog(t))
  <2>1. FreeStep
    BY <1>5 DEF FreeHosts, FreeReqLog, FreeStep, FreePath
  <2> QED
    BY <2>1, FreeShrinks DEF FreeStep
<1>6. CASE t \in Resolvers /\ ResolverHangs(t)
  <2>1. pc[t] = "s_log" /\ Goto(t, "stuck") /\ Kept
    BY <1>6, PutHung DEF Kept
  <2>2. Rank["stuck"] \in Nat /\ Rank["stuck"] < Rank["s_log"]
    BY RankIs
  <2> QED
    BY <1>1, <1>6, <2>1, <2>2, Roles
<1> QED
  BY <1>2, <1>3, <1>4, <1>5, <1>6, HangShrinks, OpenFileShrinks, ReaderShrinks, TakeHostShrinks,
     WriteLineShrinks DEF WorkerStep, Requester, Resolver, Logger

WorkInv == Flow /\ WaitInv

LEMMA StepShrinks ==
  ASSUME WorkInv, WorkOK, WorkOK', Next
  PROVE  vars' = vars \/ (0 <= Work' /\ Work' < Work)
<1> USE DEF allButPc, queues, quiet, input
<1>0. /\ Ground /\ LoggersUp /\ FreeProgress /\ Reads /\ Launch
      /\ Main \in Threads /\ Handler \in Threads /\ {Main, Handler} \cap Requesters = {}
      /\ Workers \subseteq Threads
  BY Roles DEF WorkInv, Flow, WaitInv, FreedInv, Ground
<1>1. CASE MainThread
  BY <1>0, <1>1, MainShrinks
<1>2. ASSUME NEW t \in Workers, WorkerStep(t) PROVE 0 <= Work' /\ Work' < Work
  BY <1>0, <1>2, WorkerShrinks
<1>3. CASE HandlerFrees
  <2>1. FreeStep
    BY <1>3, FreeAllSteps, Roles DEF HandlerFrees
  <2> QED
    BY <1>0, <2>1, FreeShrinks DEF FreeStep
<1>4. CASE HandlerExits
  <2>1. Moved(Main, "exit_signal") /\ Kept
    BY <1>0, <1>4, GotoMoves DEF HandlerExits, Kept
  <2>2. Rank["exit_signal"] = 3 /\ Rank[pc[Main]] > 3
    <3>1. pc[Main] \in MainPlaces
      BY <1>0 DEF Ground, Controlled, Place
    <3>2. pc[Main] \notin {"exit", "exit_failure", "exit_signal", "crashed"}
      BY <1>4 DEF HandlerExits, At, Running
    <3> QED
      BY <3>1, <3>2, PlacesRanked, RankIs
  <2>3. Rank["exit_signal"] \in Nat /\ Rank["exit_signal"] < Rank[pc[Main]]
    BY <1>0, <2>2, PlacesRanked DEF Ground, Controlled
  <2> QED
    BY <1>0, <2>1, <2>3, GoShrinks
<1>5. ASSUME NEW t \in Interrupted, Interrupt(t) PROVE 0 <= Work' /\ Work' < Work
  <2>1. Moved(Handler, "a_first") /\ Kept
    BY <1>0, <1>5, GotoMoves DEF Interrupt, Kept
  <2>2. pc[Handler] = "uncreated"
    BY <1>0, <1>5 DEF Interrupt, Ground, Inv, Order, NoHandler
  <2>3. Rank["a_first"] \in Nat /\ Rank["a_first"] < Rank[pc[Handler]]
    BY <2>2, RankIs
  <2> QED
    BY <1>0, <2>1, <2>3, GoShrinks
<1> QED
  BY <1>1, <1>2, <1>3, <1>4, <1>5, Roles DEF Next, Ended, SignalHandler, WorkerStep

(* Every step leaves less to do, so the program takes finitely many: it     *)
(* cannot be kept busy for ever by full queues, by the order in which its   *)
(* threads run, by anything that fails, or by a signal.                     *)
THEOREM WorkShrinksCorrect == Spec => WorkShrinks
<1>1. WorkInv /\ WorkOK /\ WorkOK' /\ [Next]_vars => [0 <= Work' /\ Work' < Work]_vars
  BY StepShrinks
<1>2. WorkInv => WorkOK
  BY WorkTyped DEF WorkInv, Flow, FreedInv
<1> QED
  BY <1>1, <1>2, FlowAlways, WaitAlways, PTL DEF Spec, WorkShrinks, WorkInv

=============================================================================
