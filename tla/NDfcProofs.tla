------------------------------ MODULE NDfcProofs ------------------------------
(***************************************************************************)
(* Proofs about DFCs (module NDfc), for all sets of IDFCs, DFCs and        *)
(* queues: every queued call is linked in one place, none is forgotten,    *)
(* and none runs that is not queued.  What is built on DFCs follows:       *)
(* asynchronous requests (module NAsync) and the timeouts of waits (module *)
(* NTimeout).                                                              *)
(***************************************************************************)
EXTENDS NDfc, NAsync, NTimeout, QueueProofs, FiniteSetTheorems, WellFoundedInduction, TLAPS

-----------------------------------------------------------------------------
\* The queues

\* Drop takes one element off a queue, if it is there.
LEMMA DropQueue ==
    ASSUME NEW S, NEW q \in Seq(S), NEW d \in S, Inj(q)
    PROVE  /\ Drop(q, d) \in Seq(S)
           /\ Inj(Drop(q, d))
           /\ Range(Drop(q, d)) = Range(q) \ {d}
<1>1. CASE d \in Range(q)
  BY <1>1, WithoutQueue DEF Drop
<1>2. CASE d \notin Range(q)
  BY <1>2 DEF Drop
<1> QED
  BY <1>1, <1>2

\* Some element of a nonempty set of numbers is the least.
LEMMA LeastOf ==
    ASSUME NEW T \in SUBSET Nat, T # {}
    PROVE  \E x \in T : \A y \in T : x =< y
<1>1. PICK x \in T : \A y \in T : ~(<<y, x>> \in OpToRel(<, Nat))
  BY NatLessThanWellFounded, WFMin
<1>2. \A y \in T : ~(y < x)
  BY <1>1 DEF OpToRel
<1> QED
  BY <1>2

\* TDfcQue::First finds a DFC on the queue whenever there is one.
LEMMA FirstIsThere ==
    ASSUME NEW w \in Queue, final \in [Queue -> Seq(Dfc)], final[w] # <<>>
    PROVE  FirstDfc(w) \in Range(final[w]) /\ FirstDfc(w) \in Dfc
<1> DEFINE q == final[w]
           P(i) == Priority[q[i]]
           top(i) == \A j \in DOMAIN q : P(j) =< P(i)
           T == {7 - P(i) : i \in DOMAIN q}
           U == {i \in DOMAIN q : top(i)}
<1>1. q \in Seq(Dfc) /\ Len(q) \in Nat \ {0} /\ DOMAIN q = 1..Len(q) /\ 1 \in DOMAIN q
  OBVIOUS
<1>2. \A i \in DOMAIN q : q[i] \in Dfc /\ P(i) \in 0..7
  BY <1>1, DfcAssumption
<1>3. T \in SUBSET Nat /\ T # {}
  <2>1. \A i \in DOMAIN q : 7 - P(i) \in Nat
    BY <1>2
  <2> QED
    BY <1>1, <2>1
<1>4. PICK x \in T : \A y \in T : x =< y
  BY <1>3, LeastOf
<1>5. PICK i \in DOMAIN q : x = 7 - P(i)
  BY <1>4
<1> HIDE DEF P
<1>6. \A j \in DOMAIN q : 7 - P(i) =< 7 - P(j)
  BY <1>4, <1>5
<1>7. \A j \in DOMAIN q : P(j) =< P(i)
  BY <1>2, <1>6
<1>8. U \in SUBSET Nat /\ U # {}
  <2>1. i \in U
    BY <1>7
  <2>2. DOMAIN q \subseteq Nat
    BY <1>1
  <2> QED
    BY <2>1, <2>2
<1>9. PICK n \in U : \A y \in U : n =< y
  BY <1>8, LeastOf
<1>10. n \in DOMAIN q /\ top(n) /\ \A j \in 1..(n - 1) : ~top(j)
  <2>1. n \in DOMAIN q /\ top(n)
    BY <1>9
  <2>2. ASSUME NEW j \in 1..(n - 1) PROVE ~top(j)
    <3>1. n \in 1..Len(q)
      BY <1>1, <2>1
    <3>2. j \in DOMAIN q /\ ~(n =< j)
      BY <1>1, <3>1
    <3> QED
      BY <1>9, <3>2
  <2> QED
    BY <2>1, <2>2
<1> DEFINE c == CHOOSE i1 \in DOMAIN q : top(i1) /\ \A j \in 1..(i1 - 1) : ~top(j)
<1>11. c \in DOMAIN q
  <2> HIDE DEF top
  <2> QED
    BY <1>10
<1>12. FirstDfc(w) = q[c]
  BY DEF FirstDfc, P
<1> HIDE DEF c
<1> QED
  BY <1>1, <1>11, <1>12 DEF Range

-----------------------------------------------------------------------------
\* The invariant

\* The queues hold each call once; a DFC is on no final queue but its own.
QueuesOK ==
    /\ Inj(pending) /\ Inj(idle)
    /\ \A w \in Queue : Inj(final[w]) /\ \A d \in Range(final[w]) : QueueOf[d] = w
    /\ \A d \in Call : onFinal[d] <=> d \in Dfc /\ d \in Range(final[QueueOf[d]])

Taken(d) == kern = "taken" /\ cur = d
Unlinked(d) == unlinked /\ victim = d

\* A call is in one of five places if iQueued is set, and in none if not.
PlaceOK(d) ==
    /\ queued[d] <=> \/ d \in Range(pending)
                     \/ d \in Range(idle)
                     \/ onFinal[d]
                     \/ Taken(d)
                     \/ Unlinked(d)
    /\ d \in Range(pending) => d \notin Range(idle)
    /\ Taken(d) \/ Unlinked(d) \/ onFinal[d] => d \notin Range(pending) \cup Range(idle)
    /\ Taken(d) \/ Unlinked(d) => ~onFinal[d]
    /\ ~(Taken(d) /\ Unlinked(d))

\* What QueueDfcs has taken, and what Cancel is at, are there.
HandsOK ==
    /\ kern = "taken" => cur # Null
    /\ unlinked => victim # Null
    /\ victim # Null => queued[victim]

\* iDfcPendingFlag is set already when the first call becomes pending.
WakeOK == NoLostWakeup /\ (pending # <<>> => flag)

IInv == TypeOK /\ QueuesOK /\ (\A d \in Call : PlaceOK(d)) /\ HandsOK /\ WakeOK

LEMMA InitOK == Init => IInv
<1> SUFFICES ASSUME Init PROVE IInv
  OBVIOUS
<1>1. Range(<<>>) = {} /\ Inj(<<>>)
  BY DEF Range, Inj
<1>2. TypeOK
  <2>1. /\ queued \in [Call -> BOOLEAN] /\ onFinal \in [Call -> BOOLEAN]
        /\ pending \in Seq(Call) /\ idle \in Seq(Call)
        /\ final \in [Queue -> Seq(Dfc)]
    BY DEF Init
  <2>2. /\ thread \in [Queue -> {"EWaitDfc", "ready", "function"}]
        /\ fn \in [Queue -> Dfc \cup {Null}]
        /\ \A w \in Queue : fn[w] = Null /\ thread[w] = "EWaitDfc"
    BY DEF Init
  <2> QED
    BY <2>1, <2>2 DEF Init, TypeOK
<1>3. QueuesOK
  BY <1>1, DfcAssumption DEF Init, QueuesOK, Call
<1>4. \A d \in Call : PlaceOK(d)
  BY <1>1 DEF Init, PlaceOK, Taken, Unlinked
<1>5. HandsOK /\ WakeOK
  BY DEF Init, HandsOK, WakeOK, NoLostWakeup
<1> QED
  BY <1>2, <1>3, <1>4, <1>5 DEF IInv

-----------------------------------------------------------------------------
\* Queueing

\* TDfc::RawAdd puts a call that is in no place on the pending queue.
LEMMA RawAddOK ==
    ASSUME IInv, NEW d \in Call, RawAdd(d)
    PROVE  IInv'
<1> USE DEF RawAdd, MarkQueued
<1>1. TypeOK /\ QueuesOK /\ PlaceOK(d) /\ HandsOK /\ WakeOK /\ ~queued[d]
  BY DEF IInv
<1>2. d \notin Range(pending)
  BY <1>1 DEF PlaceOK
<1>3. /\ pending' \in Seq(Call) /\ Inj(pending')
      /\ Range(pending') = Range(pending) \cup {d}
  BY <1>1, <1>2, AppendQueue DEF TypeOK, QueuesOK
<1>4. TypeOK'
  BY <1>1, <1>3 DEF TypeOK, dthreads
<1>5. QueuesOK'
  BY <1>1, <1>3 DEF QueuesOK
<1>6. ASSUME NEW e \in Call PROVE PlaceOK(e)'
  <2>1. PlaceOK(e)
    BY DEF IInv
  <2>2. queued'[e] = IF e = d THEN TRUE ELSE queued[e]
    BY <1>1 DEF TypeOK
  <2>3. Taken(e)' <=> Taken(e)
    BY DEF Taken
  <2>4. Unlinked(e)' <=> Unlinked(e)
    BY DEF Unlinked
  <2> QED
    BY <1>1, <1>3, <2>1, <2>2, <2>3, <2>4 DEF PlaceOK
<1>7. HandsOK' /\ WakeOK'
  BY <1>1 DEF HandsOK, WakeOK, NoLostWakeup, TypeOK, dthreads
<1> QED
  BY <1>4, <1>5, <1>6, <1>7 DEF IInv

\* TDfc::QueueOnIdle likewise, on the idle queue.
LEMMA QueueOnIdleOK ==
    ASSUME IInv, NEW d \in Call, QueueOnIdle(d)
    PROVE  IInv'
<1> USE DEF QueueOnIdle, MarkQueued, lock
<1>1. TypeOK /\ QueuesOK /\ PlaceOK(d) /\ HandsOK /\ WakeOK /\ ~queued[d]
  BY DEF IInv
<1>2. d \notin Range(idle)
  BY <1>1 DEF PlaceOK
<1>3. /\ idle' \in Seq(Call) /\ Inj(idle')
      /\ Range(idle') = Range(idle) \cup {d}
  BY <1>1, <1>2, AppendQueue DEF TypeOK, QueuesOK
<1>4. TypeOK'
  BY <1>1, <1>3 DEF TypeOK, dthreads
<1>5. QueuesOK'
  BY <1>1, <1>3 DEF QueuesOK
<1>6. ASSUME NEW e \in Call PROVE PlaceOK(e)'
  <2>1. PlaceOK(e)
    BY DEF IInv
  <2>2. queued'[e] = IF e = d THEN TRUE ELSE queued[e]
    BY <1>1 DEF TypeOK
  <2>3. (Taken(e)' <=> Taken(e)) /\ (Unlinked(e)' <=> Unlinked(e))
    BY DEF Taken, Unlinked
  <2> QED
    BY <1>1, <1>3, <2>1, <2>2, <2>3 DEF PlaceOK
<1>7. HandsOK' /\ WakeOK'
  BY <1>1 DEF HandsOK, WakeOK, NoLostWakeup, TypeOK, dthreads
<1> QED
  BY <1>4, <1>5, <1>6, <1>7 DEF IInv

\* TDfc::DoEnqueFinal puts a DFC on its final queue and wakes the thread; what
\* becomes of the other places is left to the caller.
LEMMA FinalOK ==
    ASSUME TypeOK, QueuesOK, NoLostWakeup, NEW d \in Dfc, ~onFinal[d], DoEnqueFinal(d),
           UNCHANGED <<pending, idle, fn>>
    PROVE  /\ final' \in [Queue -> Seq(Dfc)]
           /\ thread' \in [Queue -> {"EWaitDfc", "ready", "function"}]
           /\ \A w \in Queue : fn'[w] # Null <=> thread'[w] = "function"
           /\ onFinal' \in [Call -> BOOLEAN]
           /\ \A e \in Call : onFinal'[e] <=> onFinal[e] \/ e = d
           /\ QueuesOK'
           /\ NoLostWakeup'
<1> DEFINE v == QueueOf[d]
<1> USE DEF DoEnqueFinal
<1>1. v \in Queue /\ d \in Call
  BY DfcAssumption DEF Call
<1>2. d \notin Range(final[v])
  BY <1>1 DEF QueuesOK
<1>3. /\ Append(final[v], d) \in Seq(Dfc) /\ Inj(Append(final[v], d))
      /\ Range(Append(final[v], d)) = Range(final[v]) \cup {d}
  BY <1>1, <1>2, AppendQueue DEF TypeOK, QueuesOK
<1>4. /\ final' = [final EXCEPT ![v] = Append(@, d)]
      /\ thread' = [thread EXCEPT ![v] = IF @ = "EWaitDfc" THEN "ready" ELSE @]
      /\ onFinal' = [onFinal EXCEPT ![d] = TRUE]
  OBVIOUS
<1> HIDE DEF DoEnqueFinal, v
<1>5. /\ final' \in [Queue -> Seq(Dfc)]
      /\ \A w \in Queue : final'[w] = IF w = v THEN Append(final[v], d) ELSE final[w]
  BY <1>1, <1>3, <1>4 DEF TypeOK
<1>6. /\ thread' \in [Queue -> {"EWaitDfc", "ready", "function"}]
      /\ \A w \in Queue : fn'[w] # Null <=> thread'[w] = "function"
  BY <1>1, <1>4 DEF TypeOK
<1>7. onFinal' \in [Call -> BOOLEAN] /\ \A e \in Call : onFinal'[e] <=> onFinal[e] \/ e = d
  BY <1>1, <1>4 DEF TypeOK
<1>8. QueuesOK'
  <2>1. ASSUME NEW w \in Queue
        PROVE  Inj(final'[w]) /\ \A e \in Range(final'[w]) : QueueOf[e] = w
    BY <1>3, <1>5 DEF QueuesOK, v
  <2>2. ASSUME NEW e \in Call
        PROVE  onFinal'[e] <=> e \in Dfc /\ e \in Range(final'[QueueOf[e]])
    <3>1. e \in Dfc => QueueOf[e] \in Queue
      BY DfcAssumption
    <3>2. onFinal[e] <=> e \in Dfc /\ e \in Range(final[QueueOf[e]])
      BY DEF QueuesOK
    <3>3. e = d => QueueOf[e] = v /\ e \in Range(final'[v])
      BY <1>1, <1>3, <1>5 DEF v
    <3>4. e \in Dfc /\ e # d =>
             (e \in Range(final'[QueueOf[e]]) <=> e \in Range(final[QueueOf[e]]))
      BY <1>1, <1>3, <1>5, <3>1
    <3> QED
      BY <1>7, <3>2, <3>3, <3>4
  <2> QED
    BY <2>1, <2>2 DEF QueuesOK
<1>9. NoLostWakeup'
  BY <1>1, <1>4, <1>5 DEF NoLostWakeup, TypeOK
<1> QED
  BY <1>5, <1>6, <1>7, <1>8, <1>9

LEMMA DoEnqueOK ==
    ASSUME IInv, NEW d \in Dfc, DoEnque(d)
    PROVE  IInv'
<1> USE DEF DoEnque, MarkQueued, lock
<1>1. TypeOK /\ QueuesOK /\ PlaceOK(d) /\ HandsOK /\ WakeOK /\ ~queued[d] /\ d \in Call
  BY DEF IInv, Call
<1>2. ~onFinal[d]
  BY <1>1 DEF PlaceOK
<1>3. /\ final' \in [Queue -> Seq(Dfc)]
      /\ thread' \in [Queue -> {"EWaitDfc", "ready", "function"}]
      /\ \A w \in Queue : fn'[w] # Null <=> thread'[w] = "function"
      /\ onFinal' \in [Call -> BOOLEAN]
      /\ \A e \in Call : onFinal'[e] <=> onFinal[e] \/ e = d
      /\ QueuesOK'
      /\ NoLostWakeup'
  BY <1>1, <1>2, FinalOK DEF WakeOK
<1>4. queued' \in [Call -> BOOLEAN] /\ \A e \in Call : queued'[e] <=> queued[e] \/ e = d
  BY <1>1 DEF TypeOK
<1>5. TypeOK'
  BY <1>1, <1>3, <1>4 DEF TypeOK
<1>6. ASSUME NEW e \in Call PROVE PlaceOK(e)'
  <2>1. PlaceOK(e)
    BY DEF IInv
  <2>2. (Taken(e)' <=> Taken(e)) /\ (Unlinked(e)' <=> Unlinked(e))
    BY DEF Taken, Unlinked
  <2> QED
    BY <1>1, <1>3, <1>4, <2>1, <2>2 DEF PlaceOK
<1>7. HandsOK' /\ WakeOK'
  BY <1>1, <1>3, <1>4 DEF HandsOK, WakeOK, TypeOK
<1> QED
  BY <1>3, <1>5, <1>6, <1>7 DEF IInv

-----------------------------------------------------------------------------
\* TDfc::Cancel

LEMMA CancelFindsOK ==
    ASSUME IInv, NEW d \in Call, CancelFinds(d)
    PROVE  IInv'
<1> USE DEF CancelFinds, flags, lists, dthreads
<1>1. TypeOK /\ QueuesOK /\ HandsOK /\ WakeOK /\ queued[d]
  BY DEF IInv
<1>2. d # Null /\ ~unlinked
  BY <1>1, DfcAssumption DEF HandsOK, Call
<1>3. TypeOK'
  BY <1>1 DEF TypeOK
<1>4. QueuesOK' /\ HandsOK' /\ WakeOK'
  BY <1>1, <1>2 DEF QueuesOK, HandsOK, WakeOK, NoLostWakeup
<1>5. ASSUME NEW e \in Call PROVE PlaceOK(e)'
  BY <1>2 DEF IInv, PlaceOK, Taken, Unlinked
<1> QED
  BY <1>3, <1>4, <1>5 DEF IInv

\* iOnFinalQ tells on which queue the victim is; off that, it is nowhere else.
LEMMA CancelUnlinksOK == IInv /\ CancelUnlinks => IInv'
<1> SUFFICES ASSUME IInv, CancelUnlinks PROVE IInv'
  OBVIOUS
<1> DEFINE d == victim
<1>1. /\ TypeOK /\ QueuesOK /\ HandsOK /\ WakeOK /\ d # Null /\ ~unlinked /\ d \in Call
      /\ kern \in {"thread", "IDFC"} /\ queued[d] /\ PlaceOK(d)
  BY DEF IInv, CancelUnlinks, TypeOK, HandsOK
<1>2. /\ unlinked' = TRUE
      /\ UNCHANGED <<queued, flag, kern, cur, victim, thread, fn>>
  BY DEF CancelUnlinks, dthreads
<1>3. ASSUME NEW e \in Call
      PROVE  ~Taken(e) /\ ~Taken(e)' /\ ~Unlinked(e) /\ (Unlinked(e)' <=> e = d)
  BY <1>1, <1>2 DEF Taken, Unlinked
<1>4. CASE onFinal[d]
  <2> DEFINE v == QueueOf[d]
  <2>1. /\ final' = [final EXCEPT ![v] = Drop(@, d)]
        /\ onFinal' = [onFinal EXCEPT ![d] = FALSE]
        /\ UNCHANGED <<pending, idle>>
    BY <1>4 DEF CancelUnlinks
  <2>2. d \in Dfc /\ v \in Queue /\ d \in Range(final[v])
    BY <1>1, <1>4, DfcAssumption DEF QueuesOK
  <2>3. /\ Drop(final[v], d) \in Seq(Dfc) /\ Inj(Drop(final[v], d))
        /\ Range(Drop(final[v], d)) = Range(final[v]) \ {d}
    <3>1. final[v] \in Seq(Dfc) /\ Inj(final[v])
      BY <1>1, <2>2 DEF TypeOK, QueuesOK
    <3> HIDE DEF d, v
    <3> QED
      BY <2>2, <3>1, DropQueue
  <2> HIDE DEF d
  <2>4. /\ final' \in [Queue -> Seq(Dfc)]
        /\ \A w \in Queue : final'[w] = IF w = v THEN Drop(final[v], d) ELSE final[w]
    BY <1>1, <2>1, <2>2, <2>3 DEF TypeOK
  <2>5. onFinal' \in [Call -> BOOLEAN] /\ \A e \in Call : onFinal'[e] <=> onFinal[e] /\ e # d
    BY <1>1, <2>1 DEF TypeOK
  <2>6. TypeOK'
    BY <1>1, <1>2, <2>1, <2>4, <2>5 DEF TypeOK
  <2>7. QueuesOK'
    <3>1. ASSUME NEW w \in Queue
          PROVE  Inj(final'[w]) /\ \A e \in Range(final'[w]) : QueueOf[e] = w
      BY <1>1, <2>3, <2>4 DEF QueuesOK
    <3>2. ASSUME NEW e \in Call
          PROVE  onFinal'[e] <=> e \in Dfc /\ e \in Range(final'[QueueOf[e]])
      <4>1. e \in Dfc => QueueOf[e] \in Queue
        BY DfcAssumption
      <4>2. onFinal[e] <=> e \in Dfc /\ e \in Range(final[QueueOf[e]])
        BY <1>1 DEF QueuesOK
      <4>3. e \in Dfc => (e \in Range(final'[QueueOf[e]])
                          <=> e # d /\ e \in Range(final[QueueOf[e]]))
        BY <2>3, <2>4, <4>1
      <4> QED
        BY <2>5, <4>2, <4>3
    <3> QED
      BY <1>1, <2>1, <3>1, <3>2 DEF QueuesOK
  <2>8. ASSUME NEW e \in Call PROVE PlaceOK(e)'
    <3>1. PlaceOK(e)
      BY DEF IInv
    <3> QED
      BY <1>1, <1>2, <1>3, <1>4, <2>1, <2>5, <3>1 DEF PlaceOK
  <2>9. HandsOK'
    BY <1>1, <1>2 DEF HandsOK, d
  <2>10. WakeOK'
    <3>1. \A w \in Queue : final[w] = <<>> => final'[w] = <<>>
      BY <2>2, <2>4 DEF Range
    <3> QED
      BY <1>1, <1>2, <2>1, <3>1 DEF WakeOK, NoLostWakeup
  <2> QED
    BY <2>6, <2>7, <2>8, <2>9, <2>10 DEF IInv
<1>5. CASE ~onFinal[d]
  <2>1. /\ pending' = Drop(pending, d) /\ idle' = Drop(idle, d)
        /\ UNCHANGED <<final, onFinal>>
    BY <1>5 DEF CancelUnlinks
  <2>2. /\ pending' \in Seq(Call) /\ Inj(pending') /\ Range(pending') = Range(pending) \ {d}
        /\ idle' \in Seq(Call) /\ Inj(idle') /\ Range(idle') = Range(idle) \ {d}
    <3>1. pending \in Seq(Call) /\ Inj(pending) /\ idle \in Seq(Call) /\ Inj(idle)
      BY <1>1 DEF TypeOK, QueuesOK
    <3> HIDE DEF d
    <3> QED
      BY <1>1, <2>1, <3>1, DropQueue
  <2>3. TypeOK'
    BY <1>1, <1>2, <2>1, <2>2 DEF TypeOK
  <2>4. QueuesOK'
    BY <1>1, <2>1, <2>2 DEF QueuesOK
  <2>5. ASSUME NEW e \in Call PROVE PlaceOK(e)'
    <3>1. PlaceOK(e)
      BY DEF IInv
    <3> HIDE DEF d
    <3> QED
      BY <1>1, <1>2, <1>3, <1>5, <2>1, <2>2, <3>1 DEF PlaceOK
  <2>6. HandsOK'
    BY <1>1, <1>2 DEF HandsOK
  <2>7. WakeOK'
    <3>1. pending = <<>> => pending' = <<>>
      BY <2>1 DEF Drop, Range
    <3> QED
      BY <1>1, <1>2, <2>1, <3>1 DEF WakeOK, NoLostWakeup
  <2> QED
    BY <2>3, <2>4, <2>5, <2>6, <2>7 DEF IInv
<1> QED
  BY <1>4, <1>5

LEMMA CancelEndsOK == IInv /\ CancelEnds => IInv'
<1> SUFFICES ASSUME IInv, CancelEnds PROVE IInv'
  OBVIOUS
<1> USE DEF CancelEnds, lists, dthreads
<1>1. TypeOK /\ QueuesOK /\ HandsOK /\ WakeOK /\ victim \in Call /\ unlinked
  BY DEF IInv, TypeOK
<1>2. queued' \in [Call -> BOOLEAN] /\ \A e \in Call : queued'[e] <=> queued[e] /\ e # victim
  BY <1>1 DEF TypeOK
<1>3. TypeOK'
  BY <1>1, <1>2 DEF TypeOK
<1>4. QueuesOK' /\ HandsOK' /\ WakeOK'
  BY <1>1 DEF QueuesOK, HandsOK, WakeOK, NoLostWakeup
<1>5. ASSUME NEW e \in Call PROVE PlaceOK(e)'
  <2>1. PlaceOK(e)
    BY DEF IInv
  <2>2. (Taken(e)' <=> Taken(e)) /\ (Unlinked(e) <=> e = victim) /\ ~Unlinked(e)'
    BY <1>1 DEF Taken, Unlinked
  <2> QED
    BY <1>1, <1>2, <2>1, <2>2 DEF PlaceOK
<1> QED
  BY <1>3, <1>4, <1>5 DEF IInv

-----------------------------------------------------------------------------
\* TScheduler::QueueDfcs

LEMMA TakePendingOK == IInv /\ TakePending => IInv'
<1> SUFFICES ASSUME IInv, TakePending PROVE IInv'
  OBVIOUS
<1> USE DEF TakePending, flags, dthreads
<1>1. TypeOK /\ QueuesOK /\ HandsOK /\ WakeOK /\ victim = Null /\ ~unlinked
  BY DEF IInv, TypeOK, HandsOK
<1>2. /\ pending \in Seq(Call) /\ Inj(pending) /\ pending # <<>>
      /\ cur' = Head(pending) /\ pending' = Tail(pending)
  BY <1>1 DEF TypeOK, QueuesOK
<1>3. /\ cur' \in Range(pending) /\ cur' \in Call
      /\ pending' \in Seq(Call) /\ Inj(pending')
      /\ Range(pending') = Range(pending) \ {cur'}
  BY <1>2, TailQueue
<1>4. TypeOK'
  BY <1>1, <1>3 DEF TypeOK
<1>5. QueuesOK' /\ HandsOK' /\ WakeOK'
  BY <1>1, <1>2, <1>3, DfcAssumption DEF QueuesOK, HandsOK, WakeOK, NoLostWakeup, Call
<1>6. ASSUME NEW e \in Call PROVE PlaceOK(e)'
  <2>1. PlaceOK(e)
    BY DEF IInv
  <2>2. ~Taken(e) /\ (Taken(e)' <=> e = cur') /\ ~Unlinked(e) /\ ~Unlinked(e)'
    BY <1>1 DEF Taken, Unlinked
  <2> QED
    BY <1>3, <2>1, <2>2 DEF PlaceOK
<1> QED
  BY <1>4, <1>5, <1>6 DEF IInv

LEMMA StartIdfcOK == IInv /\ StartIdfc => IInv'
<1> SUFFICES ASSUME IInv, StartIdfc PROVE IInv'
  OBVIOUS
<1> USE DEF StartIdfc, lists, dthreads
<1>1. /\ TypeOK /\ QueuesOK /\ HandsOK /\ WakeOK /\ victim = Null /\ ~unlinked
      /\ cur \in Call
  BY DEF IInv, TypeOK, HandsOK, Call
<1>2. queued' \in [Call -> BOOLEAN] /\ \A e \in Call : queued'[e] <=> queued[e] /\ e # cur
  BY <1>1 DEF TypeOK
<1>3. TypeOK'
  BY <1>1, <1>2 DEF TypeOK
<1>4. QueuesOK' /\ HandsOK' /\ WakeOK'
  BY <1>1 DEF QueuesOK, HandsOK, WakeOK, NoLostWakeup
<1>5. ASSUME NEW e \in Call PROVE PlaceOK(e)'
  <2>1. PlaceOK(e)
    BY DEF IInv
  <2>2. (Taken(e) <=> e = cur) /\ ~Taken(e)' /\ ~Unlinked(e) /\ ~Unlinked(e)'
    BY <1>1 DEF Taken, Unlinked
  <2> QED
    BY <1>1, <1>2, <2>1, <2>2 DEF PlaceOK
<1> QED
  BY <1>3, <1>4, <1>5 DEF IInv

LEMMA MoveDfcOK == IInv /\ MoveDfc => IInv'
<1> SUFFICES ASSUME IInv, MoveDfc PROVE IInv'
  OBVIOUS
<1> DEFINE d == cur
<1>1. /\ TypeOK /\ QueuesOK /\ HandsOK /\ WakeOK /\ victim = Null /\ ~unlinked
      /\ d \in Dfc /\ d \in Call /\ PlaceOK(d) /\ kern = "taken"
  BY DEF IInv, TypeOK, HandsOK, MoveDfc, Call
<1>2. ~onFinal[d]
  BY <1>1 DEF PlaceOK, Taken
<1>3. /\ DoEnqueFinal(d) /\ kern' = "QueueDfcs" /\ cur' = Null
      /\ UNCHANGED <<queued, pending, idle, flag, victim, unlinked, fn>>
  BY DEF MoveDfc
<1>4. /\ final' \in [Queue -> Seq(Dfc)]
      /\ thread' \in [Queue -> {"EWaitDfc", "ready", "function"}]
      /\ \A w \in Queue : fn'[w] # Null <=> thread'[w] = "function"
      /\ onFinal' \in [Call -> BOOLEAN]
      /\ \A e \in Call : onFinal'[e] <=> onFinal[e] \/ e = d
      /\ QueuesOK'
      /\ NoLostWakeup'
  <2> HIDE DEF d
  <2> QED
    BY <1>1, <1>2, <1>3, FinalOK DEF WakeOK
<1>5. TypeOK'
  BY <1>1, <1>3, <1>4 DEF TypeOK
<1>6. ASSUME NEW e \in Call PROVE PlaceOK(e)'
  <2>1. PlaceOK(e)
    BY DEF IInv
  <2>2. (Taken(e) <=> e = d) /\ ~Taken(e)' /\ ~Unlinked(e) /\ ~Unlinked(e)'
    BY <1>1, <1>3 DEF Taken, Unlinked
  <2> HIDE DEF d
  <2> QED
    BY <1>3, <1>4, <2>1, <2>2 DEF PlaceOK
<1>7. HandsOK' /\ WakeOK'
  BY <1>1, <1>3, <1>4 DEF HandsOK, WakeOK
<1> QED
  BY <1>4, <1>5, <1>6, <1>7 DEF IInv

-----------------------------------------------------------------------------
\* DFC threads and the idle thread

\* What a DFC thread takes off its queue was queued, and is in no place then.
LEMMA DfcThreadLoopOK ==
    ASSUME IInv, NEW w \in Queue, DfcThreadLoop(w)
    PROVE  /\ IInv'
           /\ \A x \in Queue : fn'[x] # fn[x] => queued[fn'[x]] /\ ~queued'[fn'[x]]
<1>1. /\ TypeOK /\ QueuesOK /\ HandsOK /\ WakeOK /\ kern = "unlocked" /\ thread[w] = "ready"
      /\ victim = Null /\ ~unlinked
  BY DEF IInv, TypeOK, HandsOK, DfcThreadLoop
<1>2. /\ kern' \in {"unlocked", "QueueDfcs"}
      /\ UNCHANGED <<pending, idle, flag, cur, victim, unlinked>>
  BY DEF DfcThreadLoop
<1>3. ASSUME NEW e \in Call
      PROVE  ~Taken(e) /\ ~Taken(e)' /\ ~Unlinked(e) /\ ~Unlinked(e)'
  BY <1>1, <1>2 DEF Taken, Unlinked
<1>4. HandsOK'
  BY <1>1, <1>2 DEF HandsOK
<1>5. CASE final[w] = <<>>
  <2>1. /\ thread' = [thread EXCEPT ![w] = "EWaitDfc"]
        /\ UNCHANGED <<queued, onFinal, final, fn>>
    BY <1>5 DEF DfcThreadLoop, flags
  <2>2. TypeOK'
    BY <1>1, <1>2, <2>1 DEF TypeOK
  <2>3. QueuesOK' /\ WakeOK'
    BY <1>1, <1>2, <1>5, <2>1 DEF QueuesOK, WakeOK, NoLostWakeup, TypeOK
  <2>4. ASSUME NEW e \in Call PROVE PlaceOK(e)'
    <3>1. PlaceOK(e)
      BY DEF IInv
    <3> QED
      BY <1>2, <1>3, <2>1, <3>1 DEF PlaceOK
  <2> QED
    BY <1>4, <2>1, <2>2, <2>3, <2>4 DEF IInv
<1>6. CASE final[w] # <<>>
  <2> DEFINE d == FirstDfc(w)
  <2>1. /\ final' = [final EXCEPT ![w] = Drop(@, d)]
        /\ onFinal' = [onFinal EXCEPT ![d] = FALSE]
        /\ queued' = [queued EXCEPT ![d] = FALSE]
        /\ thread' = [thread EXCEPT ![w] = "function"]
        /\ fn' = [fn EXCEPT ![w] = d]
    BY <1>6 DEF DfcThreadLoop
  <2>2. d \in Range(final[w]) /\ d \in Dfc
    BY <1>1, <1>6, FirstIsThere DEF TypeOK
  <2> HIDE DEF d
  <2>3. d \in Call /\ QueueOf[d] = w /\ onFinal[d] /\ d # Null
    BY <1>1, <2>2, DfcAssumption DEF QueuesOK, Call
  <2>4. final[w] \in Seq(Dfc) /\ Inj(final[w])
    BY <1>1 DEF TypeOK, QueuesOK
  <2>5. /\ Drop(final[w], d) \in Seq(Dfc) /\ Inj(Drop(final[w], d))
        /\ Range(Drop(final[w], d)) = Range(final[w]) \ {d}
    BY <2>2, <2>4, DropQueue
  <2>6. /\ final' \in [Queue -> Seq(Dfc)]
        /\ \A x \in Queue : final'[x] = IF x = w THEN Drop(final[w], d) ELSE final[x]
    BY <1>1, <2>1, <2>5 DEF TypeOK
  <2>7. /\ onFinal' \in [Call -> BOOLEAN] /\ \A e \in Call : onFinal'[e] <=> onFinal[e] /\ e # d
        /\ queued' \in [Call -> BOOLEAN] /\ \A e \in Call : queued'[e] <=> queued[e] /\ e # d
    BY <1>1, <2>1, <2>3 DEF TypeOK
  <2>8. /\ thread' \in [Queue -> {"EWaitDfc", "ready", "function"}]
        /\ fn' \in [Queue -> Dfc \cup {Null}]
        /\ \A x \in Queue : fn'[x] # Null <=> thread'[x] = "function"
    BY <1>1, <2>1, <2>2, <2>3 DEF TypeOK
  <2>9. TypeOK'
    BY <1>1, <1>2, <2>6, <2>7, <2>8 DEF TypeOK
  <2>10. QueuesOK'
    <3>1. ASSUME NEW x \in Queue
          PROVE  Inj(final'[x]) /\ \A e \in Range(final'[x]) : QueueOf[e] = x
      BY <1>1, <2>5, <2>6 DEF QueuesOK
    <3>2. ASSUME NEW e \in Call
          PROVE  onFinal'[e] <=> e \in Dfc /\ e \in Range(final'[QueueOf[e]])
      <4>1. e \in Dfc => QueueOf[e] \in Queue
        BY DfcAssumption
      <4>2. onFinal[e] <=> e \in Dfc /\ e \in Range(final[QueueOf[e]])
        BY <1>1 DEF QueuesOK
      <4>3. e \in Dfc => (e \in Range(final'[QueueOf[e]])
                          <=> e # d /\ e \in Range(final[QueueOf[e]]))
        BY <2>3, <2>5, <2>6, <4>1
      <4> QED
        BY <2>7, <4>2, <4>3
    <3> QED
      BY <1>1, <1>2, <3>1, <3>2 DEF QueuesOK
  <2>11. ASSUME NEW e \in Call PROVE PlaceOK(e)'
    <3>1. PlaceOK(e)
      BY DEF IInv
    <3> QED
      BY <1>2, <1>3, <2>3, <2>7, <3>1 DEF PlaceOK
  <2>12. WakeOK'
    <3>1. \A x \in Queue : thread'[x] = "EWaitDfc" => x # w /\ thread[x] = "EWaitDfc"
      BY <1>1, <2>1 DEF TypeOK
    <3> QED
      BY <1>1, <1>2, <2>6, <3>1 DEF WakeOK, NoLostWakeup
  <2>13. queued[d] /\ ~queued'[d]
    BY <2>3, <2>7 DEF IInv, PlaceOK
  <2>14. \A x \in Queue : fn'[x] # fn[x] => fn'[x] = d
    BY <1>1, <2>1 DEF TypeOK
  <2> QED
    BY <1>4, <2>9, <2>10, <2>11, <2>12, <2>13, <2>14 DEF IInv
<1> QED
  BY <1>5, <1>6

\* NKern::Idle moves the idle queue to the end of the pending queue.
LEMMA IdleOK == IInv /\ Idle => IInv'
<1> SUFFICES ASSUME IInv, Idle PROVE IInv'
  OBVIOUS
<1> USE DEF Idle, flags, lock, dthreads
<1>1. TypeOK /\ QueuesOK /\ HandsOK /\ WakeOK
  BY DEF IInv
<1>2. \A d \in Call : d \in Range(pending) => d \notin Range(idle)
  BY DEF IInv, PlaceOK
<1>3. pending \in Seq(Call) /\ Inj(pending) /\ idle \in Seq(Call) /\ Inj(idle)
  BY <1>1 DEF TypeOK, QueuesOK
<1>4. Range(pending) \cap Range(idle) = {}
  <2>1. Range(pending) \subseteq Call
    BY <1>3 DEF Range
  <2> QED
    BY <1>2, <2>1
<1>5. /\ pending' \in Seq(Call) /\ Inj(pending')
      /\ Range(pending') = Range(pending) \cup Range(idle)
  BY <1>3, <1>4, ConcatQueue
<1>6. idle' \in Seq(Call) /\ Inj(idle') /\ Range(idle') = {}
  BY DEF Inj, Range
<1>7. TypeOK' /\ QueuesOK' /\ HandsOK' /\ WakeOK'
  <2>1. TypeOK'
    BY <1>1, <1>5, <1>6 DEF TypeOK
  <2>2. QueuesOK'
    BY <1>1, <1>5, <1>6 DEF QueuesOK
  <2>3. HandsOK' /\ WakeOK'
    BY <1>1 DEF HandsOK, WakeOK, NoLostWakeup
  <2> QED
    BY <2>1, <2>2, <2>3
<1>8. ASSUME NEW e \in Call PROVE PlaceOK(e)'
  <2>1. PlaceOK(e)
    BY DEF IInv
  <2>2. (Taken(e)' <=> Taken(e)) /\ (Unlinked(e)' <=> Unlinked(e))
    BY DEF Taken, Unlinked
  <2> QED
    BY <1>5, <1>6, <2>1, <2>2 DEF PlaceOK
<1> QED
  BY <1>7, <1>8 DEF IInv

\* The others only lock and unlock the kernel, or return from a function.
LEMMA OthersOK ==
    ASSUME IInv,
           \/ Lock \/ Unlock \/ EndIdfc \/ AllQueued \/ Interrupt
           \/ \E w \in Queue : FunctionReturns(w)
           \/ UNCHANGED vars
    PROVE  IInv'
<1> USE DEF flags, lists, lock, dthreads
<1>1. /\ TypeOK /\ QueuesOK /\ HandsOK /\ WakeOK
  BY DEF IInv
<1>2. UNCHANGED <<queued, onFinal, pending, idle, final, victim, unlinked>>
  BY DEF Lock, Unlock, EndIdfc, AllQueued, Interrupt, FunctionReturns, vars
<1>3. /\ kern' = "taken" <=> kern = "taken"
      /\ kern = "taken" => cur' = cur
      /\ cur' \in {cur, Null}
  BY DEF Lock, Unlock, EndIdfc, AllQueued, Interrupt, FunctionReturns, vars
<1>4. /\ kern' \in {"unlocked", "thread", "QueueDfcs", "taken", "IDFC"}
      /\ victim # Null => kern' \in {"thread", "IDFC"}
      /\ flag' \in BOOLEAN
      /\ pending # <<>> => flag'
  BY <1>1 DEF TypeOK, WakeOK, Lock, Unlock, EndIdfc, AllQueued, Interrupt, FunctionReturns, vars
<1>5. /\ thread' \in [Queue -> {"EWaitDfc", "ready", "function"}]
      /\ fn' \in [Queue -> Dfc \cup {Null}]
      /\ \A w \in Queue : fn'[w] # Null <=> thread'[w] = "function"
      /\ \A w \in Queue : thread'[w] = "EWaitDfc" => thread[w] = "EWaitDfc"
  <2>1. CASE UNCHANGED <<thread, fn>>
    BY <1>1, <2>1 DEF TypeOK
  <2>2. ASSUME NEW w \in Queue, FunctionReturns(w)
        PROVE  <1>5!1 /\ <1>5!2 /\ <1>5!3 /\ <1>5!4
    BY <1>1, <2>2 DEF TypeOK, FunctionReturns
  <2> QED
    BY <2>1, <2>2 DEF Lock, Unlock, EndIdfc, AllQueued, Interrupt, vars
<1>6. TypeOK'
  BY <1>1, <1>2, <1>3, <1>4, <1>5 DEF TypeOK
<1>7. QueuesOK' /\ HandsOK' /\ WakeOK'
  BY <1>1, <1>2, <1>3, <1>4, <1>5 DEF QueuesOK, HandsOK, WakeOK, NoLostWakeup
<1>8. ASSUME NEW e \in Call PROVE PlaceOK(e)'
  <2>1. PlaceOK(e)
    BY DEF IInv
  <2>2. (Taken(e)' <=> Taken(e)) /\ (Unlinked(e)' <=> Unlinked(e))
    BY <1>2, <1>3 DEF Taken, Unlinked
  <2> QED
    BY <1>2, <2>1, <2>2 DEF PlaceOK
<1> QED
  BY <1>6, <1>7, <1>8 DEF IInv

-----------------------------------------------------------------------------
\* The theorems

LEMMA NextOK == IInv /\ [Next]_vars => IInv'
<1> SUFFICES ASSUME IInv, [Next]_vars PROVE IInv'
  OBVIOUS
<1>1. CASE Queueing
  BY <1>1, RawAddOK, QueueOnIdleOK, DoEnqueOK DEF Queueing
<1>2. ASSUME NEW d \in Call, CancelFinds(d) PROVE IInv'
  BY <1>2, CancelFindsOK
<1>3. CASE CancelUnlinks \/ CancelEnds
  BY <1>3, CancelUnlinksOK, CancelEndsOK
<1>4. CASE TakePending \/ StartIdfc \/ MoveDfc
  BY <1>4, TakePendingOK, StartIdfcOK, MoveDfcOK
<1>5. ASSUME NEW w \in Queue, DfcThreadLoop(w) PROVE IInv'
  BY <1>5, DfcThreadLoopOK
<1>6. CASE Idle
  BY <1>6, IdleOK
<1>7. CASE Lock \/ Unlock \/ EndIdfc \/ AllQueued \/ Interrupt
           \/ (\E w \in Queue : FunctionReturns(w)) \/ UNCHANGED vars
  BY <1>7, OthersOK
<1> QED
  BY <1>1, <1>2, <1>3, <1>4, <1>5, <1>6, <1>7 DEF Next, QueueDfcs

\* The places of NDfc are those of the invariant.
LEMMA OnePlace ==
    ASSUME IInv, NEW d \in Call
    PROVE  Cardinality(Places(d)) = IF queued[d] THEN 1 ELSE 0
<1> DEFINE P == <<"pending", d \in Range(pending)>>
           I == <<"idle", d \in Range(idle)>>
           T == <<"taken", kern = "taken" /\ cur = d>>
           U == <<"unlinked", unlinked /\ victim = d>>
           F(w) == <<w, d \in Range(final[w])>>
<1>1. \A x : x \in Places(d) <=> /\ x \in {P, I, T, U} \/ \E w \in Queue : x = F(w)
                                 /\ x[2]
  BY DEF Places
<1>2. /\ P[2] <=> d \in Range(pending)
      /\ I[2] <=> d \in Range(idle)
      /\ T[2] <=> Taken(d)
      /\ U[2] <=> Unlinked(d)
      /\ \A w \in Queue : F(w)[2] <=> d \in Range(final[w])
  BY DEF Taken, Unlinked
<1> HIDE DEF P, I, T, U, F
<1>3. PlaceOK(d)
  BY DEF IInv
<1>4. /\ onFinal[d] => QueueOf[d] \in Queue /\ d \in Range(final[QueueOf[d]])
      /\ \A w \in Queue : d \in Range(final[w]) => onFinal[d] /\ w = QueueOf[d]
  <2>1. \A w \in Queue : Range(final[w]) \subseteq Dfc
    BY DEF IInv, TypeOK, Range
  <2> QED
    BY <2>1, DfcAssumption DEF IInv, QueuesOK
<1>5. CASE d \in Range(pending)
  <2>1. Places(d) = {P}
    BY <1>1, <1>2, <1>3, <1>4, <1>5 DEF PlaceOK
  <2> QED
    BY <1>3, <1>5, <2>1, FS_Singleton DEF PlaceOK
<1>6. CASE d \in Range(idle)
  <2>1. Places(d) = {I}
    BY <1>1, <1>2, <1>3, <1>4, <1>6 DEF PlaceOK
  <2> QED
    BY <1>3, <1>6, <2>1, FS_Singleton DEF PlaceOK
<1>7. CASE Taken(d)
  <2>1. Places(d) = {T}
    BY <1>1, <1>2, <1>3, <1>4, <1>7 DEF PlaceOK
  <2> QED
    BY <1>3, <1>7, <2>1, FS_Singleton DEF PlaceOK
<1>8. CASE Unlinked(d)
  <2>1. Places(d) = {U}
    BY <1>1, <1>2, <1>3, <1>4, <1>8 DEF PlaceOK
  <2> QED
    BY <1>3, <1>8, <2>1, FS_Singleton DEF PlaceOK
<1>9. CASE onFinal[d]
  <2>1. Places(d) = {F(QueueOf[d])}
    BY <1>1, <1>2, <1>3, <1>4, <1>9 DEF PlaceOK
  <2> QED
    BY <1>3, <1>9, <2>1, FS_Singleton DEF PlaceOK
<1>10. CASE ~queued[d]
  <2>1. Places(d) = {}
    BY <1>1, <1>2, <1>3, <1>4, <1>10 DEF PlaceOK
  <2> QED
    BY <1>10, <2>1, FS_EmptySet
<1> QED
  BY <1>3, <1>5, <1>6, <1>7, <1>8, <1>9, <1>10 DEF PlaceOK

\* Whatever interrupts, threads and IDFCs queue and cancel, every queued call is
\* linked in one place, once, and iOnFinalQ says in which.
THEOREM QueuesAreExact == Spec => []QueuesExact
<1>1. Init => IInv
  BY InitOK
<1>2. IInv /\ [Next]_vars => IInv'
  BY NextOK
<1>3. IInv => QueuesExact
  BY OnePlace DEF IInv, QueuesOK, QueuesExact, LinkedOnce
<1> QED
  BY <1>1, <1>2, <1>3, PTL DEF Spec

\* No DFC thread sleeps while a DFC is on its queue, and no call is pending while
\* iDfcPendingFlag is clear, so that the end of the interrupt or Unlock runs it.
THEOREM NothingIsForgotten == Spec => []NothingForgotten
<1>1. Init => IInv
  BY InitOK
<1>2. IInv /\ [Next]_vars => IInv'
  BY NextOK
<1>3. IInv => NothingForgotten
  BY DEF IInv, WakeOK, NothingForgotten, PendingFlagged
<1> QED
  BY <1>1, <1>2, <1>3, PTL DEF Spec

\* A call that TDfc::Cancel has dequeued does not execute, and each call that was
\* queued executes at most once.
THEOREM OnlyQueuedRun == Spec => RunsOnlyIfQueued
<1> DEFINE Runs(d) == \/ kern' = "IDFC" /\ kern # "IDFC" /\ cur = d
                      \/ \E w \in Queue : fn'[w] = d /\ fn[w] # d
<1>1. Init => IInv
  BY InitOK
<1>2. IInv /\ [Next]_vars => IInv'
  BY NextOK
<1>3. IInv /\ [Next]_vars => [\A d \in Call : Runs(d) => queued[d] /\ ~queued'[d]]_vars
  <2> SUFFICES ASSUME IInv, Next, NEW d \in Call, Runs(d)
               PROVE  queued[d] /\ ~queued'[d]
    OBVIOUS
  <2>1. TypeOK /\ PlaceOK(d) /\ d # Null
    BY DfcAssumption DEF IInv, Call
  <2>2. CASE kern' = "IDFC" /\ kern # "IDFC" /\ cur = d
    <3>1. StartIdfc
      BY <2>2 DEF Next, Queueing, RawAdd, QueueOnIdle, DoEnque, Lock, Unlock, CancelFinds,
                  CancelUnlinks, CancelEnds, QueueDfcs, TakePending, EndIdfc, MoveDfc,
                  AllQueued, DfcThreadLoop, FunctionReturns, Idle, Interrupt, lock
    <3> QED
      BY <2>1, <2>2, <3>1 DEF StartIdfc, PlaceOK, Taken, TypeOK
  <2>3. ASSUME NEW w \in Queue, fn'[w] = d, fn[w] # d
        PROVE  queued[d] /\ ~queued'[d]
    <3>1. (\E x \in Queue : DfcThreadLoop(x)) \/ (\E x \in Queue : FunctionReturns(x))
      BY <2>3 DEF Next, Queueing, RawAdd, QueueOnIdle, DoEnque, Lock, Unlock, CancelFinds,
                  CancelUnlinks, CancelEnds, QueueDfcs, TakePending, StartIdfc, EndIdfc,
                  MoveDfc, AllQueued, Idle, Interrupt, lock, dthreads
    <3>2. ASSUME NEW x \in Queue, FunctionReturns(x) PROVE FALSE
      BY <2>1, <2>3, <3>2 DEF FunctionReturns, TypeOK
    <3> QED
      BY <2>3, <3>1, <3>2, DfcThreadLoopOK
  <2> QED
    BY <2>2, <2>3
<1> QED
  BY <1>1, <1>2, <1>3, PTL DEF Spec, RunsOnlyIfQueued

-----------------------------------------------------------------------------
(***************************************************************************)
(* TAsyncRequest, which is a DFC (module NAsync), for every number of      *)
(* cancelling threads: each request is completed once, and the client      *)
(* reads its own result.                                                   *)
(***************************************************************************)

-----------------------------------------------------------------------------
\* The invariant

InHand(c) == at[c] \in {"complete", "swapped", "stored"}
NoHand == \A c \in Completer : ~InHand(c)

AsyncType ==
    /\ send \in {"idle", "cleared", "stored", "waiting"}
    /\ at \in [Completer -> {"idle", "flagged", "complete", "swapped", "stored"}]
    /\ DOMAIN mine = Completer
    /\ iQueued \in BOOLEAN /\ iCompletionObject \in BOOLEAN

\* The request goes from the queue to one pair of hands, and from there to the
\* signal.
OneStage ==
    /\ \A c, d \in Completer : InHand(c) /\ InHand(d) => c = d
    /\ iQueued \/ signals > 0 => NoHand
    /\ iQueued => signals = 0
    /\ signals \in {0, 1}
    /\ send = "waiting" <=> iQueued \/ signals = 1 \/ ~NoHand

\* The completion object is there until the one that completes the request swaps
\* it, and therefore finds it.
ObjectOK ==
    iCompletionObject <=> \/ send = "stored"
                          \/ iQueued
                          \/ \E c \in Completer : at[c] = "complete"

\* The result is that of the request that waits from the moment it is stored.
ResultOK ==
    /\ \A c \in Completer : InHand(c) => mine[c] = number
    /\ signals = 1 \/ (\E c \in Completer : at[c] = "stored") => iResult[1] = number

AsyncInv == AsyncType /\ OneStage /\ ObjectOK /\ ResultOK

LEMMA AsyncInitOK == AsyncInit => AsyncInv
<1> SUFFICES ASSUME AsyncInit PROVE AsyncInv
  OBVIOUS
<1>1. \A c \in Completer : at[c] = "idle" /\ ~InHand(c)
  BY DEF AsyncInit, InHand
<1>2. AsyncType
  BY DEF AsyncInit, AsyncType
<1>3. OneStage /\ ObjectOK /\ ResultOK
  BY <1>1 DEF AsyncInit, OneStage, ObjectOK, ResultOK, NoHand
<1> QED
  BY <1>2, <1>3 DEF AsyncInv

-----------------------------------------------------------------------------
\* The steps

\* The client starts a request when nobody has the last one, and ends it when it
\* has been signalled.
LEMMA ClientOK == AsyncInv /\ (Send \/ Receive) => AsyncInv'
<1> SUFFICES ASSUME AsyncInv, Send \/ Receive PROVE AsyncInv'
  OBVIOUS
<1> USE DEF AsyncInv, AsyncType, OneStage, ObjectOK, ResultOK, InHand, NoHand
<1>1. CASE SendClearsCancel
  BY <1>1 DEF SendClearsCancel
<1>2. CASE SendStoresObject
  BY <1>2 DEF SendStoresObject
<1>3. CASE SendEnque
  BY <1>3 DEF SendEnque
<1>4. CASE Receive
  BY <1>4 DEF Receive
<1> QED
  BY <1>1, <1>2, <1>3, <1>4 DEF Send

\* The handler or a canceller takes the request off the queue.
LEMMA TakenOK ==
    ASSUME AsyncInv, NEW c \in Completer, iQueued, iQueued' = FALSE,
           mine' = [mine EXCEPT ![c] = number], Goes(c, "complete"),
           UNCHANGED <<iCompletionObject, iCancel, iResult, signals, send, number>>
    PROVE  AsyncInv'
<1>1. NoHand /\ signals = 0 /\ send = "waiting" /\ iCompletionObject
  BY DEF AsyncInv, OneStage, ObjectOK
<1>2. AsyncType'
  BY DEF AsyncInv, AsyncType, Goes
<1>3. \A d \in Completer : /\ at'[d] = IF d = c THEN "complete" ELSE at[d]
                           /\ mine'[d] = IF d = c THEN number ELSE mine[d]
                           /\ InHand(d)' <=> d = c
  BY <1>1 DEF AsyncInv, AsyncType, Goes, InHand, NoHand
<1>4. OneStage'
  BY <1>1, <1>3 DEF OneStage, NoHand
<1>5. ObjectOK'
  BY <1>1, <1>3 DEF ObjectOK
<1>6. ResultOK'
  BY <1>1, <1>3 DEF ResultOK, InHand, NoHand
<1> QED
  BY <1>2, <1>4, <1>5, <1>6 DEF AsyncInv

LEMMA HandlerStartsOK == AsyncInv /\ HandlerStarts => AsyncInv'
  BY TakenOK DEF HandlerStarts, Completer

LEMMA CancelOK ==
    ASSUME AsyncInv, NEW c \in Canceller, CancelSetsFlag(c) \/ CancelDequeues(c)
    PROVE  AsyncInv'
<1>1. c \in Completer
  BY DEF Completer
<1>2. CASE CancelDequeues(c) /\ iQueued
  BY <1>1, <1>2, TakenOK DEF CancelDequeues
<1>3. CASE CancelSetsFlag(c) \/ (CancelDequeues(c) /\ ~iQueued)
  <2>1. /\ at[c] \in {"idle", "flagged"}
        /\ \E place \in {"idle", "flagged"} : Goes(c, place)
        /\ mine' \in {mine, [mine EXCEPT ![c] = NoRequest]}
        /\ UNCHANGED <<iCompletionObject, iResult, iQueued, signals, send, number>>
    BY <1>3 DEF CancelSetsFlag, CancelDequeues, AsyncInv, AsyncType
  <2>2. AsyncType'
    BY <1>1, <2>1 DEF AsyncInv, AsyncType, Goes
  <2>3. \A d \in Completer : /\ InHand(d)' <=> InHand(d)
                             /\ InHand(d) => mine'[d] = mine[d] /\ at'[d] = at[d]
    <3>1. PICK place \in {"idle", "flagged"} : at' = [at EXCEPT ![c] = place]
      BY <2>1 DEF Goes
    <3>2. \A d \in Completer : at'[d] = IF d = c THEN place ELSE at[d]
      BY <3>1 DEF AsyncInv, AsyncType
    <3>3. \A d \in Completer : d # c => mine'[d] = mine[d]
      BY <2>1 DEF AsyncInv, AsyncType
    <3> QED
      BY <2>1, <3>2, <3>3 DEF InHand
  <2>4. OneStage'
    BY <2>1, <2>3 DEF AsyncInv, OneStage, NoHand
  <2>5. ObjectOK' /\ ResultOK'
    BY <2>1, <2>3 DEF AsyncInv, ObjectOK, ResultOK, InHand
  <2> QED
    BY <2>2, <2>4, <2>5 DEF AsyncInv
<1> QED
  BY <1>2, <1>3

\* Complete: the object is found, the result stored, and then the signal given.
LEMMA CompleteOK ==
    ASSUME AsyncInv, NEW c \in Completer, Complete(c)
    PROVE  AsyncInv'
<1>1. /\ InHand(c) /\ ~iQueued /\ signals = 0 /\ send = "waiting"
      /\ \A d \in Completer : InHand(d) => d = c
      /\ at[c] = "complete" => iCompletionObject
  BY DEF AsyncInv, OneStage, ObjectOK, NoHand, InHand, Complete, CompleteSwaps,
         CompleteStoresResult, CompleteSignals
<1>2. \A place : Goes(c, place) =>
         \A d \in Completer : at'[d] = IF d = c THEN place ELSE at[d]
  BY DEF Goes, AsyncInv, AsyncType
<1>3. CASE CompleteSwaps(c)
  <2>1. /\ Goes(c, "swapped") /\ ~iCompletionObject'
        /\ UNCHANGED <<iResult, iQueued, signals, send, number, mine>>
    BY <1>1, <1>3 DEF CompleteSwaps
  <2>2. AsyncType'
    BY <1>3, <2>1 DEF AsyncInv, AsyncType, Goes, CompleteSwaps
  <2>3. OneStage' /\ ObjectOK' /\ ResultOK'
    BY <1>1, <1>2, <2>1 DEF AsyncInv, OneStage, ObjectOK, ResultOK, InHand, NoHand
  <2> QED
    BY <2>2, <2>3 DEF AsyncInv
<1>4. CASE CompleteStoresResult(c)
  <2>1. /\ at[c] = "swapped" /\ Goes(c, "stored") /\ iResult'[1] = mine[c]
        /\ UNCHANGED <<iCompletionObject, iQueued, signals, send, number, mine>>
    BY <1>4 DEF CompleteStoresResult
  <2>2. AsyncType'
    BY <2>1 DEF AsyncInv, AsyncType, Goes
  <2>3. OneStage' /\ ObjectOK'
    BY <1>1, <1>2, <2>1 DEF AsyncInv, OneStage, ObjectOK, InHand, NoHand
  <2>4. ResultOK'
    BY <1>1, <1>2, <2>1 DEF AsyncInv, ResultOK, InHand
  <2> QED
    BY <2>2, <2>3, <2>4 DEF AsyncInv
<1>5. CASE CompleteSignals(c)
  <2>1. /\ at[c] = "stored" /\ Goes(c, "idle") /\ signals' = 1
        /\ mine' = [mine EXCEPT ![c] = NoRequest]
        /\ UNCHANGED <<iCompletionObject, iResult, iQueued, send, number>>
    BY <1>1, <1>5 DEF CompleteSignals
  <2>2. AsyncType'
    BY <2>1 DEF AsyncInv, AsyncType, Goes
  <2>3. NoHand'
    BY <1>1, <1>2, <2>1 DEF InHand, NoHand
  <2>4. OneStage'
    BY <1>1, <2>1, <2>3 DEF OneStage, NoHand
  <2>5. ObjectOK' /\ ResultOK'
    BY <1>1, <1>2, <2>1, <2>3 DEF AsyncInv, ObjectOK, ResultOK, InHand, NoHand
  <2> QED
    BY <2>2, <2>4, <2>5 DEF AsyncInv
<1> QED
  BY <1>3, <1>4, <1>5 DEF Complete

LEMMA AsyncNextOK == AsyncInv /\ [AsyncNext]_asyncVars => AsyncInv'
<1> SUFFICES ASSUME AsyncInv, [AsyncNext]_asyncVars PROVE AsyncInv'
  OBVIOUS
<1>1. CASE UNCHANGED asyncVars
  BY <1>1 DEF asyncVars, AsyncInv, AsyncType, OneStage, ObjectOK, ResultOK, InHand, NoHand
<1> QED
  BY <1>1, ClientOK, HandlerStartsOK, CancelOK, CompleteOK DEF AsyncNext

-----------------------------------------------------------------------------
\* The theorems

\* Nobody completes a request twice or too late, in whatever order the handler and
\* the cancellers take it off the queue and swap its completion object.
THEOREM RequestsCompleteOnce == AsyncSpec => []CompletedExactly
<1>1. AsyncInit => AsyncInv
  BY AsyncInitOK
<1>2. AsyncInv /\ [AsyncNext]_asyncVars => AsyncInv'
  BY AsyncNextOK
<1>3. AsyncInv => CompletedExactly
  <2> SUFFICES ASSUME AsyncInv PROVE CompletedExactly
    OBVIOUS
  <2> DEFINE hands == {c \in Completer : at[c] \in {"complete", "swapped", "stored"}}
  <2>1. hands = {c \in Completer : InHand(c)}
    BY DEF InHand
  <2>2. CompletedOnce <=>
           IF send = "waiting"
           THEN Cardinality(hands) + signals + (IF iQueued THEN 1 ELSE 0) = 1
           ELSE hands = {} /\ signals = 0 /\ ~iQueued
    BY DEF CompletedOnce
  <2> HIDE DEF hands
  <2>3. CASE NoHand
    <3>1. hands = {} /\ Cardinality(hands) = 0
      BY <2>1, <2>3, FS_EmptySet DEF NoHand
    <3>2. CompletedOnce
      BY <2>2, <2>3, <3>1 DEF AsyncInv, OneStage
    <3> QED
      BY <3>2 DEF AsyncInv, OneStage, ObjectOK, NoHand, InHand, CompletedExactly, NoneOutstanding
  <2>4. CASE ~NoHand
    <3>1. PICK c \in Completer : InHand(c)
      BY <2>4 DEF NoHand
    <3>2. hands = {c}
      BY <2>1, <3>1 DEF AsyncInv, OneStage
    <3>3. Cardinality(hands) = 1
      BY <3>2, FS_Singleton
    <3>4. send = "waiting" /\ signals = 0 /\ ~iQueued
      BY <2>4 DEF AsyncInv, OneStage
    <3> QED
      BY <2>2, <3>3, <3>4 DEF CompletedExactly, NoneOutstanding
  <2> QED
    BY <2>3, <2>4
<1> QED
  BY <1>1, <1>2, <1>3, PTL DEF AsyncSpec

\* The client that is signalled finds the result of the request it sent.
THEOREM ResultsAreMine == AsyncSpec => []ResultIsMine
<1>1. AsyncInit => AsyncInv
  BY AsyncInitOK
<1>2. AsyncInv /\ [AsyncNext]_asyncVars => AsyncInv'
  BY AsyncNextOK
<1>3. AsyncInv => ResultIsMine
  BY DEF AsyncInv, OneStage, ResultOK, ResultIsMine
<1> QED
  BY <1>1, <1>2, <1>3, PTL DEF AsyncSpec

-----------------------------------------------------------------------------
(***************************************************************************)
(* Timed waits, which a DFC ends (module NTimeout).  One bit of iTimer.iPtr *)
(* is enough for every number of threads: the cookie tells TimerExpired    *)
(* whether the wait it was called for is still on, so that no wait ends    *)
(* with another one's timeout.                                             *)
(***************************************************************************)

Code == {"KErrNone", "KErrDied", "KErrTimedOut"}

\* The fields have their types, the completed queue holds the expired timers,
\* and a timer that is in use is flagged, so that Release will cancel it.
StateOK(r) ==
    /\ r \in KState
    /\ Range(r.completed) = {t \in Thread : r.timer[t] = "expired"}
    /\ Inj(r.completed)
    /\ \A t \in Thread : r.timer[t] # "idle" => r.userFlags[t]

\* NTimer::Cancel: the timer is idle and off the completed queue.
LEMMA CancelFacts ==
    ASSUME NEW r, StateOK(r), NEW t \in Thread
    PROVE  LET r1 == Cancel(r, t)
           IN  /\ StateOK(r1)
               /\ r1.timer = [r.timer EXCEPT ![t] = "idle"]
               /\ r1.nstate = r.nstate /\ r1.mstate = r.mstate /\ r1.killed = r.killed
               /\ r1.userFlags = r.userFlags /\ r1.ptr = r.ptr /\ r1.returned = r.returned
<1> DEFINE q1 == IF r.timer[t] = "expired" THEN Without(r.completed, t) ELSE r.completed
           r1 == Cancel(r, t)
<1>1. /\ q1 \in Seq(Thread) /\ Inj(q1)
      /\ Range(q1) = Range(r.completed) \ {t}
  <2>1. r.completed \in Seq(Thread) /\ Inj(r.completed)
        /\ (t \in Range(r.completed) <=> r.timer[t] = "expired")
    BY DEF StateOK, KState
  <2>2. CASE r.timer[t] = "expired"
    BY <2>1, <2>2, WithoutQueue
  <2>3. CASE r.timer[t] # "expired"
    BY <2>1, <2>3
  <2> QED
    BY <2>2, <2>3
<1>2. /\ r1.timer = [r.timer EXCEPT ![t] = "idle"] /\ r1.completed = q1
      /\ r1.nstate = r.nstate /\ r1.mstate = r.mstate /\ r1.killed = r.killed
      /\ r1.userFlags = r.userFlags /\ r1.ptr = r.ptr /\ r1.returned = r.returned
  BY DEF Cancel, StateOK, KState
<1>3. r1 \in KState
  <2> HIDE DEF q1
  <2>1. r1 = [r EXCEPT !.timer = [r.timer EXCEPT ![t] = "idle"], !.completed = q1]
    BY DEF Cancel, StateOK, KState, q1
  <2>2. r1 = [nstate |-> r.nstate, mstate |-> r.mstate, killed |-> r.killed,
              timer |-> [r.timer EXCEPT ![t] = "idle"], userFlags |-> r.userFlags,
              ptr |-> r.ptr, returned |-> r.returned, completed |-> q1]
    BY <2>1 DEF StateOK, KState
  <2>3. [r.timer EXCEPT ![t] = "idle"] \in [Thread -> {"idle", "running", "expired"}]
    BY DEF StateOK, KState
  <2> QED
    BY <1>1, <2>2, <2>3 DEF StateOK, KState
<1> HIDE DEF q1, r1
<1>4. Range(r1.completed) = {u \in Thread : r1.timer[u] = "expired"}
  BY <1>1, <1>2 DEF StateOK, KState
<1>5. \A u \in Thread : r1.timer[u] # "idle" => r1.userFlags[u]
  BY <1>2 DEF StateOK, KState
<1>6. StateOK(r1)
  BY <1>1, <1>2, <1>3, <1>4, <1>5 DEF StateOK
<1> QED
  BY <1>2, <1>6 DEF r1

\* The wait of t is ended: no timer is left, and the cookie is flipped if the timer
\* has been taken off its queue already.
Ended(r, r1, t, code) ==
    /\ StateOK(r1)
    /\ r1.nstate = [r.nstate EXCEPT ![t] = "EReady"]
    /\ r1.killed = r.killed
    /\ r1.timer = [r.timer EXCEPT ![t] = "idle"]
    /\ r1.userFlags = [r.userFlags EXCEPT ![t] = FALSE]
    /\ r1.ptr = [r.ptr EXCEPT ![t] = IF r.userFlags[t] /\ r.timer[t] = "idle" THEN ~@ ELSE @]
    /\ r1.returned = [r.returned EXCEPT ![t] = code]

\* NThreadBase::Release ends a wait.
LEMMA ReleaseFacts ==
    ASSUME NEW r, StateOK(r), NEW t \in Thread, NEW code \in Code, r.nstate[t] # "EDead"
    PROVE  /\ Ended(r, Release(r, t, code), t, code)
           /\ Release(r, t, code).mstate = r.mstate
<1> DEFINE ns == [r.nstate EXCEPT ![t] = IF r.nstate[t] \in Waiting THEN "EReady" ELSE @]
           ra == Woken(r, t)
           rc == Cancel(ra, t)
           rb == [rc EXCEPT !.ptr[t] = IF ra.timer[t] = "idle" THEN ~@ ELSE @,
                            !.userFlags[t] = FALSE]
           pt == [r.ptr EXCEPT ![t] = IF r.userFlags[t] /\ r.timer[t] = "idle" THEN ~@ ELSE @]
           uf == [r.userFlags EXCEPT ![t] = FALSE]
           rt == [r.returned EXCEPT ![t] = code]
           tm == [r.timer EXCEPT ![t] = "idle"]
<1>1. /\ ns \in [Thread -> Waiting \cup {"EReady", "EDead"}]
      /\ pt \in [Thread -> BOOLEAN] /\ uf \in [Thread -> BOOLEAN]
      /\ rt \in [Thread -> Code] /\ tm \in [Thread -> {"idle", "running", "expired"}]
  <2> DEFINE p == IF r.userFlags[t] /\ r.timer[t] = "idle" THEN ~r.ptr[t] ELSE r.ptr[t]
  <2>1. p \in BOOLEAN
    BY DEF StateOK, KState
  <2> HIDE DEF p
  <2>2. pt = [r.ptr EXCEPT ![t] = p]
    BY DEF p
  <2>3. pt \in [Thread -> BOOLEAN]
    BY <2>1, <2>2 DEF StateOK, KState
  <2> QED
    BY <2>3 DEF StateOK, KState, Waiting, Code
<1>2. ra = [nstate |-> ns, mstate |-> r.mstate, killed |-> r.killed, timer |-> r.timer,
            userFlags |-> r.userFlags, ptr |-> r.ptr, returned |-> r.returned,
            completed |-> r.completed]
  <2>1. ra = [r EXCEPT !.nstate = ns]
    BY DEF Woken, StateOK, KState
  <2> HIDE DEF ns, ra
  <2> QED
    BY <2>1 DEF StateOK, KState
<1> HIDE DEF ns, ra
<1>3. StateOK(ra)
  BY <1>1, <1>2 DEF StateOK, KState
<1>4. /\ StateOK(rc) /\ rc.timer = tm
      /\ rc.nstate = ns /\ rc.mstate = r.mstate /\ rc.killed = r.killed
      /\ rc.userFlags = r.userFlags /\ rc.ptr = r.ptr /\ rc.returned = r.returned
  BY <1>2, <1>3, CancelFacts
<1> HIDE DEF rc
<1> DEFINE r1 == Release(r, t, code)
<1>5. ASSUME r.userFlags[t]
      PROVE  /\ StateOK(r1) /\ r1.nstate = ns /\ r1.mstate = r.mstate /\ r1.killed = r.killed
      /\ r1.timer = tm /\ r1.userFlags = uf /\ r1.ptr = pt /\ r1.returned = rt
  <2>1. ra.userFlags[t] /\ r1 = IF r.nstate[t] = "EDead" THEN r
                                ELSE [(IF ~ra.userFlags[t] THEN ra ELSE rb)
                                         EXCEPT !.returned[t] = code]
    BY <1>2, <1>5 DEF Release, ra, rc
  <2>2. r1 = [rb EXCEPT !.returned[t] = code]
    BY <2>1
  <2>3. [rc.ptr EXCEPT ![t] = IF ra.timer[t] = "idle" THEN ~@ ELSE @] = pt
    BY <1>2, <1>4, <1>5
  <2>4. [rc.userFlags EXCEPT ![t] = FALSE] = uf
    BY <1>4
  <2> DEFINE q == rc.completed
  <2> HIDE DEF pt, uf, rt, tm, r1, q
  <2>5. rc = [nstate |-> ns, mstate |-> r.mstate, killed |-> r.killed, timer |-> tm,
              userFlags |-> r.userFlags, ptr |-> r.ptr, returned |-> r.returned,
              completed |-> q]
    BY <1>4 DEF StateOK, KState, q
  <2>6. rb = [rc EXCEPT !.ptr = pt, !.userFlags = uf]
    BY <2>3, <2>4, <2>5
  <2> HIDE DEF rb
  <2>7. r1 = [nstate |-> ns, mstate |-> r.mstate, killed |-> r.killed, timer |-> tm,
              userFlags |-> uf, ptr |-> pt, returned |-> rt, completed |-> q]
    <3>1. rb = [nstate |-> ns, mstate |-> r.mstate, killed |-> r.killed, timer |-> tm,
                userFlags |-> uf, ptr |-> pt, returned |-> r.returned,
                completed |-> q]
      BY <2>5, <2>6
    <3>2. r1 = [rb EXCEPT !.returned = rt]
      BY <2>2, <3>1 DEF rt
    <3> QED
      BY <3>1, <3>2
  <2>8. StateOK(r1)
    BY <1>1, <1>4, <2>7 DEF StateOK, KState, Code, uf, tm, q
  <2> QED
    BY <2>7, <2>8 DEF pt, uf, rt, tm, r1
<1>6. ASSUME ~r.userFlags[t]
      PROVE  /\ StateOK(r1) /\ r1.nstate = ns /\ r1.mstate = r.mstate /\ r1.killed = r.killed
      /\ r1.timer = tm /\ r1.userFlags = uf /\ r1.ptr = pt /\ r1.returned = rt
  <2>1. r1 = [ra EXCEPT !.returned[t] = code]
    BY <1>2, <1>6 DEF Release, ra
  <2>2. r1 = [nstate |-> ns, mstate |-> r.mstate, killed |-> r.killed, timer |-> r.timer,
              userFlags |-> r.userFlags, ptr |-> r.ptr, returned |-> rt,
              completed |-> r.completed]
    BY <1>2, <2>1 DEF StateOK, KState
  <2>3. r.timer = tm /\ r.userFlags = uf /\ r.ptr = pt
    BY <1>6 DEF StateOK, KState
  <2>4. StateOK(r1)
    BY <1>1, <2>2 DEF StateOK, KState, Code
  <2> QED
    BY <2>2, <2>3, <2>4
<1>7. ns = [r.nstate EXCEPT ![t] = "EReady"]
  BY DEF ns, StateOK, KState
<1> QED
  BY <1>5, <1>6, <1>7 DEF Ended

-----------------------------------------------------------------------------
\* DfcThread1 may still look at the cookie.
Looking == {"TimerExpired", "ETimeoutPreamble", "locked"}

\* The wait that DfcThread1 was called for is on, and its timer is idle already.
WaitIsOn == valid => dfc # "idle" /\ k.nstate[who] \in Waiting /\ k.timer[who] = "idle"

\* The only timer that is flagged and idle is that of the wait DfcThread1 was
\* called for, until it has looked at the cookie; so Release flips that cookie once.
FlaggedIdle ==
    \A t \in Thread :
        k.userFlags[t] /\ k.timer[t] = "idle" <=> t = who /\ valid /\ dfc \in Looking

\* The handler is called for threads of the Symbian OS layer, and ends the wait
\* DfcThread1 was called for.
HandlerPlace ==
    /\ dfc = "ETimeoutPostamble" => valid
    /\ dfc \in {"ETimeoutPreamble", "locked", "ETimeoutPostamble", "ETimeoutSpurious"} =>
           who \in Epoc

\* Nobody wakes a dead thread.
DeadForGood == \A t \in Thread : k.nstate[t] = "EDead" => k.mstate[t] # "EWait"

Types ==
    /\ StateOK(k)
    /\ dfc \in {"idle", "TimerExpired", "ETimeoutPreamble", "locked",
                "ETimeoutPostamble", "ETimeoutSpurious"}
    /\ who \in Thread \cup {NoThread} /\ cookie \in BOOLEAN /\ valid \in BOOLEAN
    /\ dfc = "idle" <=> who = NoThread

TimeoutInv ==
    /\ Types
    /\ TimerFree
    /\ CookieExact
    /\ StatesAgree
    /\ WaitIsOn
    /\ FlaggedIdle
    /\ HandlerPlace
    /\ DeadForGood

\* What holds when a wait has ended by Release, other than by the handler.
LEMMA WaitEnds ==
    ASSUME TimeoutInv, NEW t \in Thread, NEW s \in {"EReady", "EDead"},
           t \in Epoc => SysFree,
           StateOK(k)', k.nstate[t] # "EDead",
           k'.nstate = [k.nstate EXCEPT ![t] = s],
           k'.timer = [k.timer EXCEPT ![t] = "idle"],
           k'.userFlags = [k.userFlags EXCEPT ![t] = FALSE],
           k'.ptr = [k.ptr EXCEPT
                        ![t] = IF k.userFlags[t] /\ k.timer[t] = "idle" THEN ~@ ELSE @],
           StillValid, UNCHANGED <<dfc, who, cookie>>
    PROVE  /\ Types' /\ TimerFree' /\ CookieExact'
           /\ WaitIsOn' /\ FlaggedIdle' /\ HandlerPlace'
<1> USE DEF TimeoutInv
<1>1. Types'
  BY DEF Types, StillValid
<1>2. TimerFree'
  BY DEF Types, StateOK, KState, TimerFree
<1>3. CookieExact'
  <2> SUFFICES ASSUME dfc \in Looking
               PROVE  (cookie = k.ptr[who] <=> valid)'
    BY DEF CookieExact, Looking
  <2>1. who \in Thread /\ (cookie = k.ptr[who] <=> valid)
        /\ (k.userFlags[t] /\ k.timer[t] = "idle" <=> t = who /\ valid)
    BY DEF Types, CookieExact, Looking, FlaggedIdle
  <2>2. CASE t = who
    BY <2>1, <2>2 DEF Types, StateOK, KState, StillValid, Waiting
  <2>3. CASE t # who
    BY <2>1, <2>3 DEF Types, StateOK, KState, StillValid, WaitIsOn
  <2> QED
    BY <2>2, <2>3
<1>4. WaitIsOn'
  BY DEF Types, StateOK, KState, StillValid, WaitIsOn, Waiting
<1>5. FlaggedIdle'
  BY DEF Types, StateOK, KState, StillValid, WaitIsOn, FlaggedIdle, Waiting
<1>6. HandlerPlace'
  BY DEF Types, StateOK, KState, StillValid, WaitIsOn, HandlerPlace, SysFree
<1> QED
  BY <1>1, <1>2, <1>3, <1>4, <1>5, <1>6

\* A step that may end a wait with KErrTimedOut ends the one DfcThread1 was called for.
OwnTimeout ==
    \A t \in Thread :
        k.nstate[t] \in Waiting /\ k'.nstate[t] \notin Waiting
            /\ k'.returned[t] = "KErrTimedOut"
        => who = t /\ valid

\* A thread that is ready begins to wait.
LEMMA WaitBegins ==
    ASSUME TimeoutInv, NEW t \in Thread, NEW s \in Waiting, NEW timed \in BOOLEAN,
           k.nstate[t] = "EReady", ~k.killed[t],
           k'.nstate = [k.nstate EXCEPT ![t] = s],
           k'.mstate = [k.mstate EXCEPT
                           ![t] = IF s = "EBlocked" /\ t \in Epoc THEN "EWait" ELSE @],
           k'.killed = k.killed,
           k'.timer = [k.timer EXCEPT ![t] = IF timed THEN "running" ELSE @],
           k'.userFlags = [k.userFlags EXCEPT ![t] = IF timed THEN TRUE ELSE @],
           k'.ptr = k.ptr, k'.completed = k.completed, k' \in KState,
           UNCHANGED <<dfc, who, cookie, valid>>
    PROVE  TimeoutInv' /\ OwnTimeout
<1> USE DEF TimeoutInv
<1>1. k.timer[t] = "idle" /\ ~k.userFlags[t] /\ (valid => t # who)
  BY DEF TimerFree, WaitIsOn, Waiting
<1>2. StateOK(k)'
  <2>1. Range(k'.completed) = {u \in Thread : k'.timer[u] = "expired"}
    BY <1>1 DEF Types, StateOK, KState
  <2>2. \A u \in Thread : k'.timer[u] # "idle" => k'.userFlags[u]
    BY <1>1 DEF Types, StateOK, KState
  <2> QED
    BY <2>1, <2>2 DEF Types, StateOK
<1>3. Types'
  BY <1>2 DEF Types
<1>4. TimerFree'
  BY DEF Types, StateOK, KState, TimerFree
<1>5. CookieExact'
  BY DEF CookieExact
<1>6. StatesAgree'
  BY TimeoutAssumption DEF Types, StateOK, KState, StatesAgree, Waiting
<1>7. WaitIsOn'
  BY <1>1 DEF Types, StateOK, KState, WaitIsOn
<1>8. FlaggedIdle'
  BY <1>1 DEF Types, StateOK, KState, FlaggedIdle
<1>9. HandlerPlace'
  BY DEF HandlerPlace
<1>10. DeadForGood'
  BY DEF Types, StateOK, KState, DeadForGood, Waiting
<1>11. OwnTimeout
  BY DEF Types, StateOK, KState, OwnTimeout
<1> QED
  BY <1>3, <1>4, <1>5, <1>6, <1>7, <1>8, <1>9, <1>10, <1>11

\* A thread blocks, with a timeout or without.
LEMMA BlockKeeps ==
    ASSUME TimeoutInv, NEW t \in Thread, NEW timed \in BOOLEAN, Block(t, timed)
    PROVE  TimeoutInv' /\ OwnTimeout
<1> DEFINE r1 == StartTimer(k, t, timed)
<1>1. k \in KState /\ k.timer[t] = "idle"
  BY DEF TimeoutInv, Types, StateOK, TimerFree, Block, Waiting
<1>2. /\ r1 \in KState /\ r1.nstate = k.nstate /\ r1.mstate = k.mstate
      /\ r1.killed = k.killed /\ r1.ptr = k.ptr /\ r1.completed = k.completed
      /\ r1.timer = [k.timer EXCEPT ![t] = IF timed THEN "running" ELSE @]
      /\ r1.userFlags = [k.userFlags EXCEPT ![t] = IF timed THEN TRUE ELSE @]
  <2>1. CASE timed
    BY <1>1, <2>1 DEF StartTimer, KState
  <2>2. CASE ~timed
    BY <1>1, <2>2 DEF StartTimer, KState
  <2> QED
    BY <2>1, <2>2
<1> HIDE DEF r1
<1>3. k' = [r1 EXCEPT !.nstate[t] = "EBlocked",
                      !.mstate[t] = IF t \in Epoc THEN "EWait" ELSE @,
                      !.returned[t] = "KErrNone"]
  BY DEF Block, r1
<1>4. /\ k' \in KState
      /\ k'.nstate = [k.nstate EXCEPT ![t] = "EBlocked"]
      /\ k'.mstate = [k.mstate EXCEPT ![t] = IF t \in Epoc THEN "EWait" ELSE @]
      /\ k'.killed = k.killed /\ k'.timer = r1.timer /\ k'.userFlags = r1.userFlags
      /\ k'.ptr = k.ptr /\ k'.completed = k.completed
  BY <1>1, <1>2, <1>3 DEF KState, Waiting
<1>5. k'.mstate = [k.mstate EXCEPT ![t] = IF "EBlocked" = "EBlocked" /\ t \in Epoc
                                          THEN "EWait" ELSE @]
  BY <1>4
<1> QED
  BY <1>2, <1>4, <1>5, WaitBegins DEF Block, Waiting

\* A thread sleeps.
LEMMA SleepKeeps ==
    ASSUME TimeoutInv, NEW t \in Thread, Sleep(t)
    PROVE  TimeoutInv' /\ OwnTimeout
<1>1. k \in KState /\ k.timer[t] = "idle"
  BY DEF TimeoutInv, Types, StateOK, TimerFree, Sleep, Waiting
<1>2. /\ k' \in KState
      /\ k'.nstate = [k.nstate EXCEPT ![t] = "ESleep"]
      /\ k'.mstate = k.mstate /\ k'.killed = k.killed
      /\ k'.timer = [k.timer EXCEPT ![t] = "running"]
      /\ k'.userFlags = [k.userFlags EXCEPT ![t] = TRUE]
      /\ k'.ptr = k.ptr /\ k'.completed = k.completed
  BY <1>1 DEF Sleep, StartTimer, KState, Waiting
<1>3. k'.mstate = [k.mstate EXCEPT ![t] = IF "ESleep" = "EBlocked" /\ t \in Epoc
                                          THEN "EWait" ELSE @]
  BY <1>1, <1>2 DEF KState
<1> QED
  BY <1>1, <1>2, <1>3, WaitBegins DEF Sleep, Waiting

\* DThread::ReleaseWait is Release after the M-state has been set.
LEMMA ReleaseWaitFacts ==
    ASSUME NEW r, StateOK(r), NEW t \in Thread, NEW code \in Code,
           r.nstate[t] # "EDead", r.mstate[t] = "EWait"
    PROVE  /\ Ended(r, ReleaseWait(r, t, code), t, code)
           /\ ReleaseWait(r, t, code).mstate = [r.mstate EXCEPT ![t] = "EReady"]
<1> DEFINE r0 == [r EXCEPT !.mstate[t] = "EReady"]
<1>1. /\ r0 \in KState
      /\ r0.mstate = [r.mstate EXCEPT ![t] = "EReady"] /\ r0.nstate = r.nstate
      /\ r0.killed = r.killed /\ r0.timer = r.timer /\ r0.userFlags = r.userFlags
      /\ r0.ptr = r.ptr /\ r0.returned = r.returned /\ r0.completed = r.completed
  BY DEF StateOK, KState
<1>2. ReleaseWait(r, t, code) = Release(r0, t, code)
  BY DEF ReleaseWait
<1> HIDE DEF r0
<1>3. StateOK(r0) /\ r0.nstate[t] # "EDead"
  BY <1>1 DEF StateOK
<1>4. Ended(r0, Release(r0, t, code), t, code) /\ Release(r0, t, code).mstate = r0.mstate
  BY <1>3, ReleaseFacts
<1> QED
  BY <1>1, <1>2, <1>4 DEF Ended

\* Somebody ends the wait of t.
LEMMA WakeKeeps ==
    ASSUME TimeoutInv, NEW t \in Thread, Wake(t)
    PROVE  TimeoutInv' /\ OwnTimeout
<1>1. /\ StateOK(k) /\ "KErrNone" \in Code
      /\ (t \in Epoc => SysFree) /\ StillValid /\ UNCHANGED <<dfc, who, cookie>>
  BY DEF TimeoutInv, Types, Wake, Code
<1>2. /\ k.nstate[t] # "EDead" /\ Ended(k, k', t, "KErrNone")
      /\ k'.mstate = [k.mstate EXCEPT ![t] = IF t \in Epoc THEN "EReady" ELSE @]
  <2>1. CASE t \in Epoc
    <3>1. k.mstate[t] = "EWait" /\ k.nstate[t] # "EDead"
          /\ k' = ReleaseWait(k, t, "KErrNone")
      BY <2>1 DEF Wake, TimeoutInv, DeadForGood
    <3> QED
      BY <1>1, <2>1, <3>1, ReleaseWaitFacts
  <2>2. CASE t \notin Epoc
    <3>1. k.nstate[t] # "EDead" /\ k' = Release(k, t, "KErrNone")
      BY <2>2 DEF Wake, Waiting
    <3>2. [k.mstate EXCEPT ![t] = IF t \in Epoc THEN "EReady" ELSE @] = k.mstate
      BY <1>1, <2>2 DEF StateOK, KState
    <3> QED
      BY <1>1, <3>1, <3>2, ReleaseFacts
  <2> QED
    BY <2>1, <2>2
<1>3. /\ Types' /\ TimerFree' /\ CookieExact'
      /\ WaitIsOn' /\ FlaggedIdle' /\ HandlerPlace'
  BY <1>1, <1>2, WaitEnds DEF Ended
<1>4. StatesAgree' /\ DeadForGood'
  BY <1>1, <1>2, TimeoutAssumption DEF Ended, TimeoutInv, StateOK, KState,
        StatesAgree, DeadForGood
<1>5. OwnTimeout
  BY <1>1, <1>2 DEF Ended, StateOK, KState, OwnTimeout
<1> QED
  BY <1>3, <1>4, <1>5 DEF TimeoutInv

\* A thread is killed, which ends its wait.
LEMMA KillKeeps ==
    ASSUME TimeoutInv, NEW t \in Thread, Kill(t)
    PROVE  TimeoutInv' /\ OwnTimeout
<1> DEFINE r1 == Release(k, t, "KErrDied")
<1>1. /\ StateOK(k) /\ "KErrDied" \in Code /\ k.nstate[t] # "EDead"
      /\ (t \in Epoc => SysFree) /\ StillValid /\ UNCHANGED <<dfc, who, cookie>>
  BY DEF TimeoutInv, Types, Kill, Code
<1>2. Ended(k, r1, t, "KErrDied") /\ r1.mstate = k.mstate
  BY <1>1, ReleaseFacts
<1>3. k' = [r1 EXCEPT !.killed[t] = TRUE]
  BY DEF Kill
<1> HIDE DEF r1
<1>4. /\ k' \in KState /\ k'.killed = [k.killed EXCEPT ![t] = TRUE]
      /\ k'.nstate = r1.nstate /\ k'.mstate = r1.mstate /\ k'.timer = r1.timer
      /\ k'.userFlags = r1.userFlags /\ k'.ptr = r1.ptr /\ k'.returned = r1.returned
      /\ k'.completed = r1.completed
  BY <1>2, <1>3 DEF Ended, StateOK, KState
<1>5. StateOK(k')
  BY <1>2, <1>4 DEF Ended, StateOK
<1>6. /\ Types' /\ TimerFree' /\ CookieExact'
      /\ WaitIsOn' /\ FlaggedIdle' /\ HandlerPlace'
  BY <1>1, <1>2, <1>4, <1>5, WaitEnds DEF Ended
<1>7. StatesAgree' /\ DeadForGood'
  BY <1>1, <1>2, <1>4, TimeoutAssumption DEF Ended, TimeoutInv, StateOK, KState,
        StatesAgree, DeadForGood
<1>8. OwnTimeout
  BY <1>1, <1>2, <1>4 DEF Ended, StateOK, KState, OwnTimeout
<1> QED
  BY <1>6, <1>7, <1>8 DEF TimeoutInv

\* A killed thread exits; its timer is idle already.
LEMMA ExitKeeps ==
    ASSUME TimeoutInv, NEW t \in Thread, ExitThread(t)
    PROVE  TimeoutInv' /\ OwnTimeout
<1> DEFINE r1 == ReleaseWait(k, t, "KErrDied")
<1>1. /\ StateOK(k) /\ "KErrDied" \in Code
      /\ k.nstate[t] = "EReady" /\ k.killed[t]
      /\ k.timer[t] = "idle" /\ ~k.userFlags[t]
      /\ (t \in Epoc => SysFree) /\ StillValid /\ UNCHANGED <<dfc, who, cookie>>
  BY DEF TimeoutInv, Types, TimerFree, Waiting, ExitThread, Code
<1>2. /\ StateOK(r1)
      /\ r1.nstate = k.nstate /\ r1.killed = k.killed /\ r1.timer = k.timer
      /\ r1.userFlags = k.userFlags /\ r1.ptr = k.ptr
      /\ r1.mstate[t] # "EWait"
      /\ r1.mstate \in [Thread -> {"EReady", "EWait", "EDead"}]
      /\ \A u \in Thread \ {t} : r1.mstate[u] = k.mstate[u]
  <2>1. CASE k.mstate[t] = "EWait"
    <3>1. /\ Ended(k, r1, t, "KErrDied")
          /\ r1.mstate = [k.mstate EXCEPT ![t] = "EReady"]
      BY <1>1, <2>1, ReleaseWaitFacts
    <3> HIDE DEF r1
    <3>2. /\ [k.nstate EXCEPT ![t] = "EReady"] = k.nstate
          /\ [k.timer EXCEPT ![t] = "idle"] = k.timer
      BY <1>1 DEF StateOK, KState
    <3>3. [k.userFlags EXCEPT ![t] = FALSE] = k.userFlags
      BY <1>1 DEF StateOK, KState
    <3>4. [k.ptr EXCEPT ![t] = IF k.userFlags[t] /\ k.timer[t] = "idle" THEN ~@ ELSE @]
          = k.ptr
      BY <1>1 DEF StateOK, KState
    <3> QED
      BY <1>1, <3>1, <3>2, <3>3, <3>4 DEF Ended, StateOK, KState
  <2>2. CASE k.mstate[t] # "EWait"
    BY <1>1, <2>2 DEF ReleaseWait, StateOK, KState
  <2> QED
    BY <2>1, <2>2
<1>3. k' = [r1 EXCEPT !.nstate[t] = "EDead",
                      !.mstate[t] = IF t \in Epoc THEN "EDead" ELSE @]
  BY DEF ExitThread
<1> HIDE DEF r1
<1>4. /\ k' \in KState /\ k'.nstate = [k.nstate EXCEPT ![t] = "EDead"]
      /\ k'.mstate = [r1.mstate EXCEPT ![t] = IF t \in Epoc THEN "EDead" ELSE @]
      /\ k'.killed = k.killed /\ k'.timer = k.timer /\ k'.userFlags = k.userFlags
      /\ k'.ptr = k.ptr /\ k'.completed = r1.completed
  BY <1>2, <1>3 DEF StateOK, KState
<1>5. StateOK(k')
  BY <1>2, <1>4 DEF StateOK
<1>6. /\ k'.timer = [k.timer EXCEPT ![t] = "idle"]
      /\ k'.userFlags = [k.userFlags EXCEPT ![t] = FALSE]
  BY <1>1, <1>4 DEF StateOK, KState
<1>7. k'.ptr = [k.ptr EXCEPT ![t] = IF k.userFlags[t] /\ k.timer[t] = "idle" THEN ~@ ELSE @]
  BY <1>1, <1>4 DEF StateOK, KState
<1>8. /\ Types' /\ TimerFree' /\ CookieExact'
      /\ WaitIsOn' /\ FlaggedIdle' /\ HandlerPlace'
  BY <1>1, <1>4, <1>5, <1>6, <1>7, WaitEnds
<1>9. StatesAgree' /\ DeadForGood'
  BY <1>1, <1>2, <1>4, TimeoutAssumption DEF TimeoutInv, StateOK, KState, StatesAgree, DeadForGood
<1>10. OwnTimeout
  BY <1>1, <1>4 DEF StateOK, KState, OwnTimeout, Waiting
<1> QED
  BY <1>8, <1>9, <1>10 DEF TimeoutInv

\* The timer of t expires, and is called later.
LEMMA ExpireKeeps ==
    ASSUME TimeoutInv, NEW t \in Thread, Expire(t)
    PROVE  TimeoutInv' /\ OwnTimeout
<1> DEFINE q == Append(k.completed, t)
<1>1. StateOK(k) /\ k.timer[t] = "running" /\ UNCHANGED <<dfc, who, cookie, valid>>
  BY DEF TimeoutInv, Types, Expire
<1>2. q \in Seq(Thread) /\ Inj(q) /\ Range(q) = Range(k.completed) \cup {t}
  <2>1. k.completed \in Seq(Thread) /\ Inj(k.completed) /\ t \notin Range(k.completed)
    BY <1>1 DEF StateOK, KState
  <2> QED
    BY <2>1, AppendQueue
<1> HIDE DEF q
<1>3. k' = [nstate |-> k.nstate, mstate |-> k.mstate, killed |-> k.killed,
            timer |-> [k.timer EXCEPT ![t] = "expired"], userFlags |-> k.userFlags,
            ptr |-> k.ptr, returned |-> k.returned, completed |-> q]
  BY <1>1 DEF Expire, StateOK, KState, q
<1>4. StateOK(k')
  BY <1>1, <1>2, <1>3 DEF StateOK, KState
<1>5. Types' /\ CookieExact' /\ StatesAgree' /\ HandlerPlace' /\ DeadForGood'
  BY <1>1, <1>3, <1>4 DEF TimeoutInv, Types, CookieExact, StatesAgree, HandlerPlace, DeadForGood
<1>6. TimerFree'
  BY <1>1, <1>3 DEF TimeoutInv, TimerFree, StateOK, KState
<1>7. WaitIsOn' /\ FlaggedIdle'
  BY <1>1, <1>3 DEF TimeoutInv, WaitIsOn, FlaggedIdle, StateOK, KState
<1>8. OwnTimeout
  BY <1>3 DEF OwnTimeout
<1> QED
  BY <1>5, <1>6, <1>7, <1>8 DEF TimeoutInv

\* The wait of the first timer on the completed queue is on when TimerExpired is called.
LEMMA CallKeeps ==
    ASSUME TimeoutInv, CallTimerExpired
    PROVE  TimeoutInv' /\ OwnTimeout
<1> DEFINE t == Head(k.completed)
           q == Tail(k.completed)
<1>1. StateOK(k) /\ dfc = "idle" /\ k.completed # <<>>
      /\ who' = t /\ cookie' = k.ptr[t] /\ valid' = TRUE /\ dfc' = "TimerExpired"
  BY DEF TimeoutInv, Types, CallTimerExpired
<1>2. /\ t \in Thread /\ t \in Range(k.completed)
      /\ q \in Seq(Thread) /\ Inj(q) /\ Range(q) = Range(k.completed) \ {t}
  <2>1. k.completed \in Seq(Thread) /\ Inj(k.completed)
    BY <1>1 DEF StateOK, KState
  <2> QED
    BY <1>1, <2>1, TailQueue
<1>3. k' = [k EXCEPT !.completed = q, !.timer[t] = "idle"]
  BY DEF CallTimerExpired
<1> HIDE DEF q, t
<1>4. k' = [nstate |-> k.nstate, mstate |-> k.mstate, killed |-> k.killed,
            timer |-> [k.timer EXCEPT ![t] = "idle"], userFlags |-> k.userFlags,
            ptr |-> k.ptr, returned |-> k.returned, completed |-> q]
  BY <1>1, <1>3 DEF StateOK, KState
<1>5. k.timer[t] = "expired" /\ k.userFlags[t] /\ k.nstate[t] \in Waiting
  BY <1>1, <1>2 DEF TimeoutInv, TimerFree, StateOK, KState
<1>6. StateOK(k')
  BY <1>1, <1>2, <1>4 DEF StateOK, KState
<1>7. Types'
  BY <1>1, <1>2, <1>6, TimeoutAssumption DEF Types, StateOK, KState
<1>8. TimerFree' /\ StatesAgree' /\ DeadForGood'
  BY <1>1, <1>4 DEF TimeoutInv, TimerFree, StatesAgree, DeadForGood, StateOK, KState
<1>9. CookieExact' /\ HandlerPlace'
  BY <1>1, <1>4 DEF CookieExact, HandlerPlace
<1>10. WaitIsOn'
  BY <1>1, <1>2, <1>4, <1>5 DEF WaitIsOn, StateOK, KState
<1>11. FlaggedIdle'
  BY <1>1, <1>2, <1>4, <1>5 DEF TimeoutInv, FlaggedIdle, Looking, StateOK, KState
<1>12. OwnTimeout
  BY <1>4 DEF OwnTimeout
<1> QED
  BY <1>7, <1>8, <1>9, <1>10, <1>11, <1>12 DEF TimeoutInv

\* TimerExpired, when it does not leave it to the handler.
LEMMA TimerExpiredKeeps ==
    ASSUME TimeoutInv, TimerExpired
    PROVE  TimeoutInv' /\ OwnTimeout
<1>1. /\ StateOK(k) /\ dfc = "TimerExpired" /\ who \in Thread
      /\ (cookie = k.ptr[who] <=> valid)
  BY DEF TimeoutInv, Types, CookieExact, TimerExpired
<1>2. CASE who \in Epoc /\ k.nstate[who] = "EBlocked"
  <2>1. dfc' = "ETimeoutPreamble" /\ UNCHANGED <<k, who, cookie, valid>>
    BY <1>2 DEF TimerExpired
  <2>2. Types' /\ TimerFree' /\ CookieExact' /\ StatesAgree' /\ WaitIsOn' /\ DeadForGood'
    BY <1>1, <2>1, TimeoutAssumption
       DEF TimeoutInv, Types, TimerFree, CookieExact, StatesAgree, WaitIsOn, DeadForGood
  <2>3. FlaggedIdle' /\ HandlerPlace' /\ OwnTimeout
    BY <1>1, <1>2, <2>1 DEF TimeoutInv, FlaggedIdle, HandlerPlace, Looking, OwnTimeout
  <2> QED
    BY <2>2, <2>3 DEF TimeoutInv
<1>3. CASE ~(who \in Epoc /\ k.nstate[who] = "EBlocked")
  <2>1. Done
    BY <1>3 DEF TimerExpired
  <2>2. CookieExact' /\ WaitIsOn' /\ HandlerPlace'
    BY <2>1, TimeoutAssumption DEF Done, CookieExact, WaitIsOn, HandlerPlace
  <2>3. CASE ~valid
    <3>1. k' = k
      BY <1>1, <1>3, <2>3 DEF TimerExpired
    <3>2. Types' /\ TimerFree' /\ StatesAgree' /\ DeadForGood' /\ FlaggedIdle'
      BY <1>1, <2>1, <2>3, <3>1 DEF Done, TimeoutInv, Types, TimerFree, StatesAgree, DeadForGood,
         FlaggedIdle
    <3> QED
      BY <2>2, <3>1, <3>2 DEF TimeoutInv, OwnTimeout
  <2>4. CASE valid
    <3>1. k.nstate[who] \in Waiting /\ k.timer[who] = "idle"
      BY <2>4 DEF TimeoutInv, WaitIsOn
    <3>2. k' = [Woken(k, who) EXCEPT !.userFlags[who] = FALSE,
                                     !.returned[who] = "KErrTimedOut"]
      BY <1>1, <1>3, <2>4, <3>1 DEF TimerExpired
    <3>3. Woken(k, who) = [k EXCEPT !.nstate[who] = "EReady"]
      BY <1>1, <3>1 DEF Woken, StateOK, KState
    <3>4. k' = [nstate |-> [k.nstate EXCEPT ![who] = "EReady"], mstate |-> k.mstate,
                killed |-> k.killed, timer |-> k.timer,
                userFlags |-> [k.userFlags EXCEPT ![who] = FALSE], ptr |-> k.ptr,
                returned |-> [k.returned EXCEPT ![who] = "KErrTimedOut"],
                completed |-> k.completed]
      BY <1>1, <3>2, <3>3 DEF StateOK, KState
    <3>5. StateOK(k')
      BY <1>1, <3>1, <3>4 DEF StateOK, KState
    <3>6. Types'
      BY <2>1, <3>5 DEF Types, Done
    <3>7. TimerFree'
      BY <1>1, <3>1, <3>4 DEF TimeoutInv, TimerFree, StateOK, KState
    <3>8. StatesAgree'
      BY <1>1, <1>3, <3>1, <3>4, TimeoutAssumption DEF TimeoutInv, StatesAgree, StateOK, KState, Waiting
    <3>9. FlaggedIdle'
      BY <1>1, <2>1, <2>4, <3>1, <3>4, TimeoutAssumption
         DEF TimeoutInv, FlaggedIdle, Done, StateOK, KState
    <3>10. DeadForGood' /\ OwnTimeout
      BY <1>1, <2>4, <3>4 DEF TimeoutInv, DeadForGood, OwnTimeout, StateOK, KState
    <3> QED
      BY <2>2, <3>6, <3>7, <3>8, <3>9, <3>10 DEF TimeoutInv
  <2> QED
    BY <2>3, <2>4
<1> QED
  BY <1>2, <1>3

\* The handler locks the system.
LEMMA PreambleKeeps ==
    ASSUME TimeoutInv, Preamble
    PROVE  TimeoutInv' /\ OwnTimeout
<1>1. dfc = "ETimeoutPreamble" /\ dfc' = "locked" /\ UNCHANGED <<k, who, cookie, valid>>
  BY DEF Preamble
<1>2. Types' /\ TimerFree' /\ CookieExact' /\ StatesAgree' /\ WaitIsOn' /\ DeadForGood'
  BY <1>1 DEF TimeoutInv, Types, TimerFree, CookieExact, StatesAgree, WaitIsOn, DeadForGood
<1>3. FlaggedIdle' /\ HandlerPlace' /\ OwnTimeout
  BY <1>1 DEF TimeoutInv, FlaggedIdle, HandlerPlace, Looking, OwnTimeout
<1> QED
  BY <1>2, <1>3 DEF TimeoutInv

\* The handler goes on to end the wait only if it is still on.
LEMMA SecondCheckKeeps ==
    ASSUME TimeoutInv, SecondCheck
    PROVE  TimeoutInv' /\ OwnTimeout
<1>1. /\ StateOK(k) /\ dfc = "locked" /\ who \in Thread /\ who \in Epoc
      /\ (cookie = k.ptr[who] <=> valid) /\ UNCHANGED <<who, cookie, valid>>
  BY DEF TimeoutInv, Types, CookieExact, HandlerPlace, SecondCheck
<1>2. CASE ~valid
  <2>1. dfc' = "ETimeoutSpurious" /\ k' = k
    BY <1>1, <1>2 DEF SecondCheck
  <2>2. Types' /\ TimerFree' /\ CookieExact' /\ StatesAgree' /\ WaitIsOn' /\ DeadForGood'
    BY <1>1, <1>2, <2>1
       DEF TimeoutInv, Types, TimerFree, CookieExact, StatesAgree, WaitIsOn, DeadForGood
  <2>3. FlaggedIdle' /\ HandlerPlace' /\ OwnTimeout
    BY <1>1, <1>2, <2>1 DEF TimeoutInv, FlaggedIdle, HandlerPlace, OwnTimeout
  <2> QED
    BY <2>2, <2>3 DEF TimeoutInv
<1>3. CASE valid
  <2>1. /\ dfc' = "ETimeoutPostamble"
        /\ k' = [k EXCEPT !.userFlags[who] = FALSE]
        /\ k.nstate[who] \in Waiting /\ k.timer[who] = "idle"
    BY <1>1, <1>3 DEF SecondCheck, TimeoutInv, WaitIsOn
  <2>2. k' = [nstate |-> k.nstate, mstate |-> k.mstate, killed |-> k.killed,
              timer |-> k.timer, userFlags |-> [k.userFlags EXCEPT ![who] = FALSE],
              ptr |-> k.ptr, returned |-> k.returned, completed |-> k.completed]
    BY <1>1, <2>1 DEF StateOK, KState
  <2>3. StateOK(k')
    <3>1. [k.userFlags EXCEPT ![who] = FALSE] \in [Thread -> BOOLEAN]
      BY <1>1 DEF StateOK, KState
    <3>2. k' \in KState
      BY <1>1, <2>2, <3>1 DEF StateOK, KState
    <3>3. \A u \in Thread : k'.timer[u] # "idle" => k'.userFlags[u]
      BY <1>1, <2>1, <2>2 DEF StateOK, KState
    <3> QED
      BY <1>1, <2>2, <3>2, <3>3 DEF StateOK
  <2>4. Types' /\ CookieExact' /\ StatesAgree' /\ DeadForGood'
    BY <1>1, <2>1, <2>2, <2>3 DEF TimeoutInv, Types, CookieExact, StatesAgree, DeadForGood
  <2>5. TimerFree'
    BY <1>1, <2>1, <2>2 DEF TimeoutInv, TimerFree, StateOK, KState
  <2>6. WaitIsOn' /\ HandlerPlace' /\ OwnTimeout
    BY <1>1, <1>3, <2>1, <2>2 DEF WaitIsOn, HandlerPlace, OwnTimeout
  <2>7. FlaggedIdle'
    BY <1>1, <1>3, <2>1, <2>2 DEF TimeoutInv, FlaggedIdle, Looking, StateOK, KState
  <2> QED
    BY <2>4, <2>5, <2>6, <2>7 DEF TimeoutInv
<1> QED
  BY <1>2, <1>3

\* The handler ends the wait it was called for, or nothing.
LEMMA PostambleKeeps ==
    ASSUME TimeoutInv, Postamble
    PROVE  TimeoutInv' /\ OwnTimeout
<1>1. /\ StateOK(k) /\ who \in Thread /\ who \in Epoc /\ Done
      /\ dfc \in {"ETimeoutPostamble", "ETimeoutSpurious"}
  BY DEF TimeoutInv, Types, HandlerPlace, Postamble
<1>2. CookieExact' /\ WaitIsOn' /\ HandlerPlace'
  BY <1>1, TimeoutAssumption DEF Done, CookieExact, WaitIsOn, HandlerPlace
<1>3. \A t \in Thread : ~(k.userFlags[t] /\ k.timer[t] = "idle")
  BY <1>1 DEF TimeoutInv, FlaggedIdle, Looking
<1>4. CASE k' = k
  <2>1. Types' /\ TimerFree' /\ StatesAgree' /\ DeadForGood'
    BY <1>1, <1>4 DEF Done, TimeoutInv, Types, TimerFree, StatesAgree, DeadForGood
  <2>2. FlaggedIdle'
    BY <1>1, <1>3, <1>4 DEF Done, FlaggedIdle
  <2> QED
    BY <1>2, <1>4, <2>1, <2>2 DEF TimeoutInv, OwnTimeout
<1>5. CASE k' # k
  <2>1. /\ valid /\ k.nstate[who] \in Waiting /\ k.mstate[who] = "EWait"
        /\ k' = ReleaseWait(k, who, "KErrTimedOut")
    BY <1>1, <1>5 DEF Postamble, ReleaseWait, TimeoutInv, HandlerPlace, WaitIsOn
  <2>2. /\ Ended(k, k', who, "KErrTimedOut")
        /\ k'.mstate = [k.mstate EXCEPT ![who] = "EReady"]
    <3>1. "KErrTimedOut" \in Code /\ k.nstate[who] # "EDead"
      BY <2>1 DEF Code, Waiting
    <3> QED
      BY <1>1, <2>1, <3>1, ReleaseWaitFacts
  <2>3. Types'
    BY <1>1, <2>2 DEF Ended, Done, Types
  <2>4. TimerFree'
    BY <1>1, <2>2 DEF TimeoutInv, Ended, TimerFree, StateOK, KState
  <2>5. StatesAgree' /\ DeadForGood'
    BY <1>1, <2>2, TimeoutAssumption DEF TimeoutInv, Ended, StatesAgree, DeadForGood, StateOK, KState
  <2>6. FlaggedIdle'
    BY <1>1, <1>3, <2>2 DEF Ended, Done, FlaggedIdle, StateOK, KState
  <2>7. OwnTimeout
    BY <1>1, <2>1, <2>2 DEF Ended, OwnTimeout, StateOK, KState
  <2> QED
    BY <1>2, <2>3, <2>4, <2>5, <2>6, <2>7 DEF TimeoutInv
<1> QED
  BY <1>4, <1>5

-----------------------------------------------------------------------------
\* The invariant holds when no thread has waited yet.
LEMMA InitEstablishes == TimeoutInit => TimeoutInv
<1> SUFFICES ASSUME TimeoutInit PROVE TimeoutInv
  OBVIOUS
<1>1. StateOK(k)
  BY DEF TimeoutInit, StateOK, KState, Range, Inj
<1>2. Types
  BY <1>1, TimeoutAssumption DEF TimeoutInit, Types
<1>3. TimerFree /\ CookieExact /\ StatesAgree /\ WaitIsOn /\ FlaggedIdle
      /\ HandlerPlace /\ DeadForGood
  BY TimeoutAssumption DEF TimeoutInit, TimerFree, CookieExact, StatesAgree, WaitIsOn,
     FlaggedIdle, HandlerPlace, DeadForGood
<1> QED
  BY <1>2, <1>3 DEF TimeoutInv

\* Every step keeps the invariant and times out only the wait that is on.
LEMMA StepKeeps == TimeoutInv /\ [TimeoutNext]_timeoutVars => TimeoutInv' /\ [OwnTimeout]_timeoutVars
<1> SUFFICES ASSUME TimeoutInv, [TimeoutNext]_timeoutVars PROVE TimeoutInv' /\ [OwnTimeout]_timeoutVars
  OBVIOUS
<1>1. CASE UNCHANGED timeoutVars
  BY <1>1 DEF timeoutVars, TimeoutInv, Types, TimerFree, CookieExact, StatesAgree, WaitIsOn,
     FlaggedIdle, HandlerPlace, DeadForGood
<1>2. ASSUME NEW t \in Thread, NEW timed \in BOOLEAN, Block(t, timed)
      PROVE  TimeoutInv' /\ OwnTimeout
  BY <1>2, BlockKeeps
<1>3. ASSUME NEW t \in Thread,
             Sleep(t) \/ Wake(t) \/ Kill(t) \/ ExitThread(t) \/ Expire(t)
      PROVE  TimeoutInv' /\ OwnTimeout
  BY <1>3, SleepKeeps, WakeKeeps, KillKeeps, ExitKeeps, ExpireKeeps
<1>4. ASSUME TimerDfc PROVE TimeoutInv' /\ OwnTimeout
  BY <1>4, CallKeeps, TimerExpiredKeeps, PreambleKeeps, SecondCheckKeeps, PostambleKeeps
     DEF TimerDfc
<1> QED
  BY <1>1, <1>2, <1>3, <1>4 DEF TimeoutNext

\* The invariant holds in every behaviour.
LEMMA InvariantHolds == TimeoutSpec => []TimeoutInv
  BY InitEstablishes, StepKeeps, PTL DEF TimeoutSpec

\* NThreadBase's fields have their types, and a timer is on NTimerQ::iCompletedQ,
\* once, exactly if it has expired and nobody has cancelled it.
THEOREM TypeCorrect == TimeoutSpec => []TimeoutTypeOK
<1>1. TimeoutInv => TimeoutTypeOK
  BY DEF TimeoutInv, Types, StateOK, TimeoutTypeOK
<1> QED
  BY <1>1, InvariantHolds, PTL

\* One bit of iTimer.iPtr tells NThreadBase::TimerExpired, for every number of
\* threads, whether the wait it was called for is on.
THEOREM CookieTells == TimeoutSpec => []CookieExact
<1>1. TimeoutInv => CookieExact
  BY DEF TimeoutInv
<1> QED
  BY <1>1, InvariantHolds, PTL

\* The result of OneShot may be ignored in NKern::Block: the timer is idle.
THEOREM TimersAreFree == TimeoutSpec => []TimerFree
<1>1. TimeoutInv => TimerFree
  BY DEF TimeoutInv
<1> QED
  BY <1>1, InvariantHolds, PTL

\* Timers, cookies and waits agree in every behaviour.
THEOREM TimersAreExact == TimeoutSpec => []TimersExact
<1>1. TimeoutTypeOK /\ CookieExact /\ TimerFree => TimersExact
  BY DEF TimersExact
<1> QED
  BY <1>1, TypeCorrect, CookieTells, TimersAreFree, PTL

\* The N-state and the M-state of a thread that is not being killed agree.
THEOREM LayersAgree == TimeoutSpec => []StatesAgree
<1>1. TimeoutInv => StatesAgree
  BY DEF TimeoutInv
<1> QED
  BY <1>1, InvariantHolds, PTL

\* No wait ends with the timeout of another one.
THEOREM TimeoutIsOwn == TimeoutSpec => OnlyOwnTimeout
<1>1. TimeoutInv /\ [TimeoutNext]_timeoutVars => [OwnTimeout]_timeoutVars
  BY StepKeeps
<1>2. TimeoutSpec => [][OwnTimeout]_timeoutVars
  BY <1>1, InvariantHolds, PTL DEF TimeoutSpec
<1> QED
  BY <1>2 DEF OwnTimeout, OnlyOwnTimeout
===============================================================================
