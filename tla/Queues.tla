-------------------------------- MODULE Queues --------------------------------
(***************************************************************************)
(* The circular doubly linked queues of the nanokernel (SDblQue, and one   *)
(* priority of a TPriListBase) as sequences.                               *)
(***************************************************************************)
EXTENDS Integers, SequencesExt

\* SDblQueLink::Deque of t, which is on queue q.
Without(q, t) == RemoveAt(q, CHOOSE i \in DOMAIN q : q[i] = t)

\* Nothing is linked into the queue twice.
Inj(q) == \A i, j \in DOMAIN q : q[i] = q[j] => i = j
=============================================================================
