---------------------------- MODULE BoundedQueue ----------------------------
(***************************************************************************)
(* What array.h promises of the queue that every pair of stages of the     *)
(* resolver shares: a bounded FIFO queue that can be closed.  A closed     *)
(* queue accepts nothing, hands out what it still holds, tells a getter    *)
(* "shutdown" only when nothing is left, and is released (its mutex and    *)
(* condition variables destroyed) only when it is closed and empty.        *)
(*                                                                         *)
(* There is no lock, no ring, no waiting and no counter here: ArrayQueue   *)
(* is the implementation and is checked to refine this module.             *)
(***************************************************************************)
EXTENDS Integers, Sequences

CONSTANTS
  Putters,   (* threads that put                                           *)
  Getters,   (* threads that get                                           *)
  Items,     (* the strings that are put                                   *)
  Capacity,  (* most items the queue holds                                 *)
  None       (* no item                                                    *)

VARIABLES
  items,     (* the queue                                                  *)
  closed,    (* shutdown was requested                                     *)
  released,  (* the queue's resources are gone                             *)
  hand,      (* the item each thread holds                                 *)
  finished   (* getters that were told "shutdown"                          *)

vars == <<items, closed, released, hand, finished>>

Init ==
  /\ items = <<>>
  /\ closed = FALSE
  /\ released = FALSE
  /\ hand = [t \in Putters \cup Getters |-> None]
  /\ finished = {}

(* A putter comes with an item.                                            *)
Offer(p, v) ==
  /\ hand[p] = None
  /\ hand' = [hand EXCEPT ![p] = v]
  /\ UNCHANGED <<items, closed, released, finished>>

(* The item is accepted at the end of an open queue that has room ...      *)
Put(p) ==
  /\ hand[p] # None
  /\ ~closed
  /\ Len(items) < Capacity
  /\ items' = Append(items, hand[p])
  /\ hand' = [hand EXCEPT ![p] = None]
  /\ UNCHANGED <<closed, released, finished>>

(* ... or refused by a closed one, and the putter disposes of it.          *)
Refuse(p) ==
  /\ hand[p] # None
  /\ closed
  /\ hand' = [hand EXCEPT ![p] = None]
  /\ UNCHANGED <<items, closed, released, finished>>

(* A getter receives the oldest item, closed or not.                       *)
Get(g) ==
  /\ hand[g] = None
  /\ items # <<>>
  /\ hand' = [hand EXCEPT ![g] = Head(items)]
  /\ items' = Tail(items)
  /\ UNCHANGED <<closed, released, finished>>

Use(g) ==
  /\ hand[g] # None
  /\ hand' = [hand EXCEPT ![g] = None]
  /\ UNCHANGED <<items, closed, released, finished>>

Finish(g) ==
  /\ hand[g] = None
  /\ closed
  /\ items = <<>>
  /\ finished' = finished \cup {g}
  /\ UNCHANGED <<items, closed, released, hand>>

Close ==
  /\ closed' = TRUE
  /\ UNCHANGED <<items, released, hand, finished>>

Release ==
  /\ closed
  /\ items = <<>>
  /\ released' = TRUE
  /\ UNCHANGED <<items, closed, hand, finished>>

Next ==
  \/ \E p \in Putters : Put(p) \/ Refuse(p) \/ (\E v \in Items : Offer(p, v))
  \/ \E g \in Getters : Get(g) \/ Use(g) \/ Finish(g)
  \/ Close
  \/ Release

Spec == Init /\ [][Next]_vars
=============================================================================
