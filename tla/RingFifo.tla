------------------------------ MODULE RingFifo ------------------------------
(***************************************************************************)
(* What a cuda_buffer promises to the blocks connected to it, with no      *)
(* ring, no indices and no memory: one writer appends numbered items, and  *)
(* every reader takes all of them, in order and exactly once, while no     *)
(* reader is ever more than Capacity items behind.                         *)
(***************************************************************************)
EXTENDS Integers, Sequences

CONSTANTS Readers, Capacity

VARIABLES
  sent,   \* number of items the writer has published
  queue   \* queue[r]: the published items reader r has not consumed yet

Numbers(first, n) == [i \in 1..n |-> first + i - 1]

Init ==
  /\ sent = 0
  /\ queue = [r \in Readers |-> <<>>]

Send(n) ==
  /\ \A r \in Readers : Len(queue[r]) + n <= Capacity
  /\ sent' = sent + n
  /\ queue' = [r \in Readers |-> queue[r] \o Numbers(sent, n)]

Take(r, n) ==
  /\ n <= Len(queue[r])
  /\ queue' = [queue EXCEPT ![r] = SubSeq(@, n + 1, Len(@))]
  /\ UNCHANGED sent

Next ==
  \/ \E n \in 1..Capacity : Send(n)
  \/ \E r \in Readers, n \in 1..Capacity : Take(r, n)

Spec == Init /\ [][Next]_<<sent, queue>>
=============================================================================
