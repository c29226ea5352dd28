---------------------------- MODULE MCDnsThreaded ---------------------------
(* Inputs for DnsThreaded: names do not matter, only which lines are blank. *)
EXTENDS DnsThreaded, TLC

(* Two files, one with an empty line.                                       *)
TwoFiles == << <<"a", "", "b">>, <<"c">> >>

(* The same the other way round, for a first file that may not open.        *)
FlakyFirst == << <<"c">>, <<"a", "", "b">> >>

(* The same, shorter, for runs in which much can fail.                      *)
ShortFiles == << <<"", "a">>, <<"b">> >>

(* One file more than the filename queue (one) and a single requester hold. *)
ThreeFiles == << <<"a", "b">>, <<"c">>, <<"d">> >>

(* The command line that asks for these threads and files, and wrong ones:  *)
(* too few arguments, no files, no requesters, a negative number.           *)
ProperUse == {[argc |-> 5 + Len(Lines),
               num_requesters |-> Cardinality(Requesters),
               num_resolvers |-> Cardinality(Resolvers)]}
AnyUse == ProperUse \cup
            {[argc |-> n, num_requesters |-> p, num_resolvers |-> s] :
               n \in {1, 4, 5}, p \in {0, 1}, s \in {1}} \cup
            {[argc |-> 6, num_requesters |-> 0, num_resolvers |-> 1],
             [argc |-> 6, num_requesters |-> 1, num_resolvers |-> -1]}

(* Threads of a kind are interchangeable (safety runs only).                *)
Symmetry == Permutations(Requesters) \cup Permutations(Resolvers)
=============================================================================
