----------------------------- MODULE HostLookup ------------------------------
(***************************************************************************)
(* What both programs, dnsthreaded.c and dnssimple.c, promise: each        *)
(* hostname of the input is answered in the log, once, in any order, and a *)
(* program that succeeds has answered all it had to.  A program that fails *)
(* says so before its first answer.  A program that is brought down (by a  *)
(* signal) may lose the last answer that it was writing.                   *)
(*                                                                         *)
(* There are no threads, files or queues here: DnsThreaded and DnsSimple   *)
(* are the implementations and are checked to refine this module.          *)
(***************************************************************************)
EXTENDS Sequences, Integers

CONSTANTS
  Hosts,      (* the hostnames of the input                                *)
  Due         (* those that nothing excuses the program from answering     *)

VARIABLES
  log,        (* the answers                                               *)
  outcome     (* "running", or how the program ended                       *)

vars == <<log, outcome>>

Answered(x) == \E i \in DOMAIN log : log[i] = x

Init ==
  /\ log = <<>>
  /\ outcome = "running"

Answer(x) ==
  /\ outcome = "running"
  /\ ~Answered(x)
  /\ log' = Append(log, x)
  /\ UNCHANGED outcome

Succeed ==
  /\ outcome = "running"
  /\ \A x \in Due : Answered(x)
  /\ outcome' = "success"
  /\ UNCHANGED log

Fail ==
  /\ outcome = "running"
  /\ log = <<>>
  /\ outcome' = "failure"
  /\ UNCHANGED log

BroughtDown ==
  /\ outcome = "running"
  /\ outcome' = "down"
  /\ log' \in {log, SubSeq(log, 1, Len(log) - 1)}

Next ==
  \/ \E x \in Hosts : Answer(x)
  \/ Succeed
  \/ Fail
  \/ BroughtDown

Spec == Init /\ [][Next]_vars
=============================================================================
