------------------------------ MODULE DnsSimple ------------------------------
(***************************************************************************)
(* The sequential resolver, dnssimple.c: one thread that reads the files   *)
(* in turn and logs each line's answer before it reads the next.           *)
(*                                                                         *)
(* As in DnsThreaded a line is its position <<file, line>>.  An empty line *)
(* is looked up and logged like any other: process_file has no test for    *)
(* it.  The signal handler does nothing but exit, and exit flushes what    *)
(* fprintf was given, so that a signal finds an answer logged or not.      *)
(***************************************************************************)
EXTENDS Integers, Sequences

CONSTANTS
  CommandLines,    (* argc                                                 *)
  Lines,           (* argv[2..]: how many lines each file has              *)
  Unopenable,      (* files fopen always fails on                          *)
  Flaky,           (* files fopen fails on at times                        *)
  OpenFails        (* may fopen of the log file fail                       *)

Files == DOMAIN Lines
Positions == UNION {{<<f, k>> : k \in 1 .. Lines[f]} : f \in Files}

ASSUME InputAssumption ==
  /\ Lines \in Seq(Nat)
  /\ Unopenable \subseteq Files /\ Flaky \subseteq Files
  /\ OpenFails \in BOOLEAN
  /\ \A argc \in CommandLines : argc >= 3 => argc = 2 + Len(Lines)

VARIABLES
  pc,              (* where main is                                        *)
  argi,            (* its next file                                        *)
  line,            (* the next line of the open file, 0 when none is open  *)
  log              (* the lines of the log file                            *)

vars == <<pc, argi, line, log>>

MayFail(f) == f \in Unopenable \cup Flaky
AtFile == pc = "files" /\ argi \in Files /\ line = 0
InFile == pc = "files" /\ line > 0

Init ==
  /\ pc = "args"
  /\ argi = 1
  /\ line = 0
  /\ log = <<>>

CheckArguments ==
  /\ pc = "args"
  /\ \E argc \in CommandLines :
       pc' = IF argc < 3 THEN "exit_failure" ELSE "count"
  /\ UNCHANGED <<argi, line, log>>

(* Every file is opened once to count the valid ones.                       *)
CountValid ==
  /\ pc = "count"
  /\ \E valid \in SUBSET Files :
       /\ {f \in Files : ~MayFail(f)} \subseteq valid
       /\ valid \cap Unopenable = {}
       /\ pc' = IF valid = {} THEN "exit_failure" ELSE "open"
  /\ UNCHANGED <<argi, line, log>>

OpenLog ==
  /\ pc = "open"
  /\ \/ pc' = "files"
     \/ OpenFails /\ pc' = "exit_failure"
  /\ UNCHANGED <<argi, line, log>>

(* process_file opens the file again, and skips it if that fails.           *)
OpenFile ==
  /\ AtFile
  /\ argi \notin Unopenable
  /\ line' = 1
  /\ UNCHANGED <<pc, argi, log>>

SkipFileStops ==                              (* mutant: gives up         *)
  /\ AtFile
  /\ MayFail(argi)
  /\ pc' = "exit"
  /\ UNCHANGED <<argi, line, log>>

SkipFile ==
  /\ AtFile
  /\ MayFail(argi)
  /\ argi' = argi + 1
  /\ UNCHANGED <<pc, line, log>>

ProcessLineTwice ==                           (* mutant: retries the line  *)
  /\ InFile
  /\ line <= Lines[argi]
  /\ log' = Append(log, <<argi, line>>)
  /\ line' \in {line, line + 1}
  /\ UNCHANGED <<pc, argi>>

(* getline, dns_resolve, and one line of the log whatever it answered.      *)
ProcessLine ==
  /\ InFile
  /\ line <= Lines[argi]
  /\ log' = Append(log, <<argi, line>>)
  /\ line' = line + 1
  /\ UNCHANGED <<pc, argi>>

CloseFileEarly ==                             (* mutant: off by one        *)
  /\ InFile
  /\ line >= Lines[argi]
  /\ argi' = argi + 1
  /\ line' = 0
  /\ UNCHANGED <<pc, log>>

CloseFile ==
  /\ InFile
  /\ line > Lines[argi]
  /\ argi' = argi + 1
  /\ line' = 0
  /\ UNCHANGED <<pc, log>>

Finish ==
  /\ pc = "files"
  /\ argi \notin Files
  /\ pc' = "exit"
  /\ UNCHANGED <<argi, line, log>>

Ended == pc \in {"exit", "exit_failure", "exit_signal"}

(* SIGINT or SIGTERM, at any time.                                          *)
HandleSignal ==
  /\ ~Ended
  /\ pc' = "exit_signal"
  /\ UNCHANGED <<argi, line, log>>

Run ==
  \/ CheckArguments
  \/ CountValid
  \/ OpenLog
  \/ OpenFile
  \/ SkipFile
  \/ ProcessLine
  \/ CloseFile
  \/ Finish

Next == Run \/ HandleSignal \/ (Ended /\ UNCHANGED vars)

Spec == Init /\ [][Next]_vars

(* main goes on, and getaddrinfo returns.                                   *)
FairSpec == Spec /\ WF_vars(Run)

-----------------------------------------------------------------------------
Due == {x \in Positions : x[1] \notin Unopenable \cup Flaky}

(* The program answers every line of the input as module HostLookup says.   *)
HL == INSTANCE HostLookup WITH
        Hosts   <- Positions,
        outcome <- CASE pc = "exit"         -> "success"
                     [] pc = "exit_failure" -> "failure"
                     [] pc = "exit_signal"  -> "down"
                     [] OTHER               -> "running"

ImplementsHostLookup == HL!Spec

(* dnssimple.c:134, "Process each file sequentially": the log is in the     *)
(* order of the input, whichever files could not be opened, and has no gap  *)
(* within a file.                                                           *)
InInputOrder ==
  \A i \in 1 .. Len(log) - 1 :
    LET x == log[i]  y == log[i + 1] IN
      \/ y = <<x[1], x[2] + 1>>
      \/ y[1] > x[1] /\ y[2] = 1 /\ x[2] = Lines[x[1]]

(* A file is logged to its last line; only one that failed to open is left  *)
(* out.                                                                     *)
Logged(f) == {k \in 1 .. Lines[f] : \E i \in DOMAIN log : log[i] = <<f, k>>}
WholeFiles ==
  \A f \in Files : Logged(f) = 1 .. Lines[f] \/ (MayFail(f) /\ Logged(f) = {})

(* The program ends, and unless a signal or a failed start ends it, not in  *)
(* the middle of the input (dnssimple.c:51-55, 135-137): every file is      *)
(* there to its last line, one that failed to open is passed over and keeps *)
(* out neither a line of another nor the files behind it.                   *)
Ends == <>(Ended /\ (pc = "exit" => WholeFiles))
=============================================================================
