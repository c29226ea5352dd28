---------------------------- MODULE MCArrayQueue ----------------------------
(* ArrayQueue on small sets of threads and strings.                         *)
EXTENDS ArrayQueue, TLC

(* Threads of a role, and strings, are interchangeable (safety runs only).  *)
Symmetry == Permutations(Putters) \cup Permutations(Getters)
              \cup Permutations(Freers) \cup Permutations(Items)
=============================================================================
