--------------------------- MODULE BoundedStream ---------------------------
(***************************************************************************)
(* What the events of a cuda_buffer are for, seen from the GPU: items are  *)
(* stored in a memory of Capacity items in order, every reader takes every *)
(* item after it is stored, and no item is stored in the place of one that *)
(* some reader has still to take.  It speaks of what is executed, not of   *)
(* what the threads have enqueued.                                         *)
(***************************************************************************)
EXTENDS Integers

CONSTANTS Takers, Capacity

VARIABLES
  stored,   \* number of items stored so far
  taken     \* taken[r]: number of items reader r is done with

vars == <<stored, taken>>

Init ==
  /\ stored = 0
  /\ taken = [r \in Takers |-> 0]

Store(n) ==
  /\ \A r \in Takers : stored + n - taken[r] <= Capacity
  /\ stored' = stored + n
  /\ UNCHANGED taken

Take(r, n) ==
  /\ taken[r] + n <= stored
  /\ taken' = [taken EXCEPT ![r] = @ + n]
  /\ UNCHANGED stored

Next == \E n \in 1..Capacity : Store(n) \/ \E r \in Takers : Take(r, n)

Spec == Init /\ [][Next]_vars
=============================================================================
