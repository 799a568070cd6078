----------------------------- MODULE MessageQueue -----------------------------
(***************************************************************************)
(* What a message queue promises: messages are received in the order they  *)
(* were sent, at most Slots of them are kept, and at most one thread waits *)
(* for data and one for space.  A thread waits for data only while there   *)
(* is none, for space only while there is none, and the step that changes  *)
(* this tells it.  Module KMsgQueue implements this specification.         *)
(***************************************************************************)
EXTENDS Sequences, Integers

CONSTANTS Client, Msg, Slots, Null

VARIABLES
    q,        \* the messages
    waiter    \* who is waiting for "data" and for "space"

qvars == <<q, waiter>>

QInit == q = <<>> /\ waiter = [k \in {"data", "space"} |-> Null]

Put(x) ==
    /\ Len(q) < Slots
    /\ q' = Append(q, x)
    /\ waiter' = [waiter EXCEPT !["data"] = Null]

Get ==
    /\ q # <<>>
    /\ q' = Tail(q)
    /\ waiter' = [waiter EXCEPT !["space"] = Null]

\* Asked for in vain, by t; whoever waited before was dead.
Ask(k, t) ==
    /\ IF k = "data" THEN q = <<>> ELSE Len(q) = Slots
    /\ waiter' = [waiter EXCEPT ![k] = t]
    /\ UNCHANGED q

\* Cancelled, or forgotten since the thread is dead.
Leave(k) ==
    /\ waiter' = [waiter EXCEPT ![k] = Null]
    /\ UNCHANGED q

\* The queue is deleted.
Drop ==
    /\ waiter = [k \in {"data", "space"} |-> Null]
    /\ q' = <<>>
    /\ UNCHANGED waiter

QNext ==
    \/ \E x \in Msg : Put(x)
    \/ Get \/ Drop
    \/ \E k \in {"data", "space"} : Leave(k) \/ \E t \in Client : Ask(k, t)

QSpec == QInit /\ [][QNext]_qvars

-----------------------------------------------------------------------------
\* Nobody is told too late: while somebody waits for data there is none, and
\* while somebody waits for space there is none.
NoneWaitsInVain ==
    /\ waiter["data"] # Null => q = <<>>
    /\ waiter["space"] # Null => Len(q) = Slots

Bounded == q \in Seq(Msg) /\ Len(q) =< Slots
=============================================================================
