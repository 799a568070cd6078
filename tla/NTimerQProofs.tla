---------------------------- MODULE NTimerQProofs ----------------------------
(***************************************************************************)
(* The timer queues agree with the states of the timers; what the timer    *)
(* DFC holds on to while interrupts are enabled stays right; and every     *)
(* timer expires at its tick, so that NTimerQ implements Timers, for any   *)
(* number of timers and of queues.                                         *)
(***************************************************************************)
EXTENDS NTimerQ, QueueProofs, SequenceTheorems, FiniteSetTheorems,
        WellFoundedInduction, TLAPS

-----------------------------------------------------------------------------
\* The queues

\* Timer u is on no queue.
Nowhere(r, u) ==
    /\ u \notin Range(r.holding) /\ u \notin Range(r.ordered)
    /\ u \notin Range(r.expired) /\ u \notin Range(r.completed)
    /\ \A i \in Slot : u \notin Range(r.intQ[i]) /\ u \notin Range(r.dfcQ[i])

\* Timer u is on the queue its state says.
Place(r, u) ==
    LET i == SlotOf(r, u)
    IN  /\ u \in Range(r.holding) <=> r.state[u] = "EHolding"
        /\ u \in Range(r.ordered) <=> r.state[u] \in {"EOrdered", "ECritical"}
        /\ r.state[u] = "EFinal" <=> \/ u \in Range(r.intQ[i]) \/ u \in Range(r.dfcQ[i])
                                     \/ u \in Range(r.expired) \/ u \in Range(r.completed)
        /\ u \in Range(r.intQ[i]) => /\ u \notin Range(r.dfcQ[i])
                                     /\ u \notin Range(r.expired)
                                     /\ u \notin Range(r.completed)
        /\ u \in Range(r.dfcQ[i]) => u \notin Range(r.expired) /\ u \notin Range(r.completed)
        /\ u \in Range(r.expired) => u \notin Range(r.completed)
        /\ \A j \in Slot \ {i} : u \notin Range(r.intQ[j]) /\ u \notin Range(r.dfcQ[j])

\* No timer is linked twice into one queue.
Once(r) ==
    /\ Inj(r.holding) /\ Inj(r.ordered) /\ Inj(r.expired) /\ Inj(r.completed)
    /\ \A i \in Slot : Inj(r.intQ[i]) /\ Inj(r.dfcQ[i])

\* iPresent has the bit of every slot whose final queues hold a timer.
PresentOK(r) == \A i \in Slot : i \in r.present <=> r.intQ[i] # <<>> \/ r.dfcQ[i] # <<>>

\* The queues are exact, and the timers of X are on none of them.
Exact(r, X) ==
    /\ r \in QState /\ Once(r) /\ PresentOK(r)
    /\ \A u \in Timer : IF u \in X THEN Nowhere(r, u) ELSE Place(r, u)

\* What the DFC's locals c and n rely on when it is at d.
Pointers(r, d, c, n) ==
    /\ d \in {"walk", "critical"} =>
           c \in Timer /\ (r.transCancelled <=> r.state[c] # "ETransferring")
    /\ d = "critical" => n \in Timer /\ (r.critCancelled <=> r.state[n] # "ECritical")
    /\ \A t \in Timer :
           /\ r.state[t] = "ETransferring" => d \in {"walk", "critical"} /\ c = t
           /\ r.state[t] = "ECritical" => d = "critical" /\ n = t

-----------------------------------------------------------------------------
\* Slots and tick counts are integers, periodic timers are timers, and the ticks
\* wrap into their range.
LEMMA Constants ==
    /\ Null \notin Timer /\ Periodic \subseteq Timer
    /\ NumQueues \in Nat \ {0} /\ Modulus \in Nat \ {0}
    /\ \A x \in Int : x % NumQueues \in Slot /\ x % Modulus \in Tick32
    /\ Tick32 \subseteq Nat /\ Slot \subseteq Nat /\ 0 \in Tick32 /\ 0 \in Slot
<1>1. /\ Null \notin Timer /\ Periodic \subseteq Timer
      /\ NumQueues \in Nat \ {0} /\ Modulus \in Nat \ {0}
  <2>1. /\ Null \notin Timer /\ Periodic \subseteq Timer
        /\ NumQueues \in Nat \ {0} /\ Modulus \in Nat /\ Modulus >= 4 * NumQueues
    BY TimerAssumption, Zenon
  <2> QED
    BY <2>1
<1>2. \A x \in Int : x % NumQueues \in Slot
  BY <1>1 DEF Slot
<1>3. \A x \in Int : x % Modulus \in Tick32
  BY <1>1 DEF Tick32
<1>4. Tick32 \subseteq Nat /\ 0 \in Tick32
  BY <1>1 DEF Tick32
<1>5. Slot \subseteq Nat /\ 0 \in Slot
  BY <1>1 DEF Slot
<1> QED
  BY <1>1, <1>2, <1>3, <1>4, <1>5, Zenon

\* The slot of a timer, by the low bits of its trigger time.
LEMMA SlotType ==
    ASSUME NEW r \in QState, NEW t \in Timer
    PROVE  SlotOf(r, t) \in Slot
<1>1. r.triggerTime[t] \in Tick32
  BY DEF QState
<1>2. r.triggerTime[t] \in Int
  BY <1>1 DEF Tick32
<1> QED
  BY <1>2, Constants DEF SlotOf

\* A timer is taken off a queue it may be on.
LEMMA DropQueue ==
    ASSUME NEW s \in Seq(Timer), NEW t \in Timer, Inj(s)
    PROVE  /\ Drop(s, t) \in Seq(Timer)
           /\ Inj(Drop(s, t))
           /\ Range(Drop(s, t)) = Range(s) \ {t}
           /\ t \notin Range(s) => Drop(s, t) = s
<1>1. CASE t \in Range(s)
  BY <1>1, WithoutQueue DEF Drop
<1>2. CASE t \notin Range(s)
  BY <1>2 DEF Drop
<1> QED
  BY <1>1, <1>2

\* Only the queues, iPresent, the states and the trigger times matter, and of
\* the states not which of the two of a timer on the ordered queue.
LEMMA ExactFrame ==
    ASSUME NEW r, NEW s \in QState, NEW X, Exact(r, X),
           s.holding = r.holding, s.ordered = r.ordered, s.intQ = r.intQ,
           s.dfcQ = r.dfcQ, s.expired = r.expired, s.completed = r.completed,
           s.present = r.present,
           \A u \in Timer : u \notin X => SlotOf(s, u) = SlotOf(r, u),
           \A u \in Timer : u \notin X =>
               \/ s.state[u] = r.state[u]
               \/ {s.state[u], r.state[u]} \subseteq {"EOrdered", "ECritical"}
               \/ {s.state[u], r.state[u]} \subseteq {"EIdle", "ETransferring"}
    PROVE  Exact(s, X)
<1>1. Once(s) /\ PresentOK(s)
  BY DEF Exact, Once, PresentOK
<1>2. ASSUME NEW u \in Timer, u \in X PROVE Nowhere(s, u)
  <2>1. Nowhere(r, u)
    BY <1>2 DEF Exact
  <2> QED
    BY <2>1 DEF Nowhere
<1>3. ASSUME NEW u \in Timer, u \notin X PROVE Place(s, u)
  <2>1. Place(r, u) /\ SlotOf(s, u) = SlotOf(r, u)
    BY <1>3 DEF Exact
  <2>2. /\ s.state[u] = "EHolding" <=> r.state[u] = "EHolding"
        /\ s.state[u] \in {"EOrdered", "ECritical"} <=> r.state[u] \in {"EOrdered", "ECritical"}
        /\ s.state[u] = "EFinal" <=> r.state[u] = "EFinal"
    BY <1>3
  <2> QED
    BY <2>1, <2>2 DEF Place
<1> QED
  BY <1>1, <1>2, <1>3 DEF Exact

\* A timer that is idle or in transfer is on no queue, and the reverse.
LEMMA NoQueue ==
    ASSUME NEW r, NEW t \in Timer, Exact(r, {}), r.state[t] \in {"EIdle", "ETransferring"}
    PROVE  Exact(r, {t})
<1>1. r \in QState /\ Once(r) /\ PresentOK(r) /\ \A u \in Timer : Place(r, u)
  BY DEF Exact
<1>2. Nowhere(r, t)
  <2>1. SlotOf(r, t) \in Slot /\ Place(r, t)
    BY <1>1, SlotType
  <2> QED
    BY <2>1 DEF Place, Nowhere
<1> QED
  BY <1>1, <1>2 DEF Exact

\* ... and so it is on none at all.
LEMMA OnNoQueue ==
    ASSUME NEW r, NEW t \in Timer, Exact(r, {t}), r.state[t] \in {"EIdle", "ETransferring"}
    PROVE  Exact(r, {})
<1>1. r \in QState /\ Once(r) /\ PresentOK(r) /\ Nowhere(r, t)
      /\ \A u \in Timer : u # t => Place(r, u)
  BY DEF Exact
<1>2. Place(r, t)
  <2>1. SlotOf(r, t) \in Slot
    BY <1>1, SlotType
  <2> QED
    BY <1>1, <2>1 DEF Place, Nowhere
<1> QED
  BY <1>1, <1>2 DEF Exact

-----------------------------------------------------------------------------
\* What Deque changes.
LEMMA DequeFields ==
    ASSUME NEW r, Exact(r, {}), NEW t \in Timer, NEW d, d = Deque(r, t)
    PROVE  /\ d \in QState
           /\ d.holding = Drop(r.holding, t) /\ d.ordered = Drop(r.ordered, t)
           /\ d.expired = Drop(r.expired, t) /\ d.completed = Drop(r.completed, t)
           /\ d.intQ = [r.intQ EXCEPT ![SlotOf(r, t)] = Drop(@, t)]
           /\ d.dfcQ = [r.dfcQ EXCEPT ![SlotOf(r, t)] = Drop(@, t)]
           /\ d.state = r.state /\ d.triggerTime = r.triggerTime /\ d.inDfc = r.inDfc
           /\ d.msCount = r.msCount /\ d.present = r.present
           /\ d.transCancelled = r.transCancelled /\ d.critCancelled = r.critCancelled
<1>1. r \in QState /\ Once(r) /\ SlotOf(r, t) \in Slot
  BY SlotType DEF Exact
<1>2. /\ d.holding = Drop(r.holding, t) /\ d.ordered = Drop(r.ordered, t)
      /\ d.expired = Drop(r.expired, t) /\ d.completed = Drop(r.completed, t)
      /\ d.intQ = [r.intQ EXCEPT ![SlotOf(r, t)] = Drop(@, t)]
      /\ d.dfcQ = [r.dfcQ EXCEPT ![SlotOf(r, t)] = Drop(@, t)]
      /\ d.state = r.state /\ d.triggerTime = r.triggerTime /\ d.inDfc = r.inDfc
      /\ d.msCount = r.msCount /\ d.present = r.present
      /\ d.transCancelled = r.transCancelled /\ d.critCancelled = r.critCancelled
  BY <1>1 DEF Deque, QState
<1>3. /\ Drop(r.holding, t) \in Seq(Timer) /\ Drop(r.ordered, t) \in Seq(Timer)
      /\ Drop(r.expired, t) \in Seq(Timer) /\ Drop(r.completed, t) \in Seq(Timer)
      /\ Drop(r.intQ[SlotOf(r, t)], t) \in Seq(Timer)
      /\ Drop(r.dfcQ[SlotOf(r, t)], t) \in Seq(Timer)
  <2>1. /\ r.holding \in Seq(Timer) /\ r.ordered \in Seq(Timer)
        /\ r.expired \in Seq(Timer) /\ r.completed \in Seq(Timer)
        /\ r.intQ[SlotOf(r, t)] \in Seq(Timer) /\ r.dfcQ[SlotOf(r, t)] \in Seq(Timer)
    BY <1>1 DEF QState
  <2> QED
    BY <1>1, <2>1, DropQueue DEF Once
<1>4. d \in QState
  BY <1>1, <1>3 DEF Deque, QState
<1> QED
  BY <1>2, <1>4

\* A timer is taken off the queue it is on.
LEMMA DequeOnce ==
    ASSUME NEW r, Exact(r, {}), NEW t \in Timer, NEW d, d = Deque(r, t)
    PROVE  /\ Once(d) /\ Nowhere(d, t)
           /\ \A u \in Timer : u # t => Place(d, u)
           /\ \A j \in Slot \ {SlotOf(r, t)} :
                 d.intQ[j] = r.intQ[j] /\ d.dfcQ[j] = r.dfcQ[j]
           /\ r.state[t] # "EFinal" => d.intQ = r.intQ /\ d.dfcQ = r.dfcQ
<1> DEFINE i == SlotOf(r, t)
<1>0. /\ d.holding = Drop(r.holding, t) /\ d.ordered = Drop(r.ordered, t)
      /\ d.expired = Drop(r.expired, t) /\ d.completed = Drop(r.completed, t)
      /\ d.intQ = [r.intQ EXCEPT ![i] = Drop(@, t)]
      /\ d.dfcQ = [r.dfcQ EXCEPT ![i] = Drop(@, t)]
      /\ d.state = r.state /\ d.triggerTime = r.triggerTime
  BY DequeFields
<1>1. r \in QState /\ Once(r) /\ i \in Slot /\ \A u \in Timer : Place(r, u)
  BY SlotType DEF Exact
<1>2. /\ r.holding \in Seq(Timer) /\ r.ordered \in Seq(Timer)
      /\ r.expired \in Seq(Timer) /\ r.completed \in Seq(Timer)
      /\ \A j \in Slot : r.intQ[j] \in Seq(Timer) /\ r.dfcQ[j] \in Seq(Timer)
      /\ DOMAIN r.intQ = Slot /\ DOMAIN r.dfcQ = Slot
      /\ r.intQ \in [Slot -> Seq(Timer)] /\ r.dfcQ \in [Slot -> Seq(Timer)]
  BY <1>1 DEF QState
<1>3. \A u \in Timer : SlotOf(d, u) = SlotOf(r, u) /\ d.state[u] = r.state[u]
  BY <1>0 DEF SlotOf
<1>drop. \A s \in Seq(Timer) :
            Inj(s) => Inj(Drop(s, t)) /\ Range(Drop(s, t)) = Range(s) \ {t}
  BY DropQueue
<1>4. /\ Inj(d.holding) /\ Range(d.holding) = Range(r.holding) \ {t}
      /\ Inj(d.ordered) /\ Range(d.ordered) = Range(r.ordered) \ {t}
      /\ Inj(d.expired) /\ Range(d.expired) = Range(r.expired) \ {t}
      /\ Inj(d.completed) /\ Range(d.completed) = Range(r.completed) \ {t}
  <2>1. Inj(r.holding) /\ Inj(r.ordered) /\ Inj(r.expired) /\ Inj(r.completed)
    BY <1>1 DEF Once
  <2> QED
    BY <1>0, <1>2, <1>drop, <2>1
<1>5. \A j \in Slot : d.intQ[j] = (IF j = i THEN Drop(r.intQ[j], t) ELSE r.intQ[j])
                      /\ d.dfcQ[j] = (IF j = i THEN Drop(r.dfcQ[j], t) ELSE r.dfcQ[j])
  BY <1>0, <1>1, <1>2
<1>6. ASSUME NEW j \in Slot
      PROVE  /\ Inj(d.intQ[j]) /\ Range(d.intQ[j]) = Range(r.intQ[j]) \ {t}
             /\ Inj(d.dfcQ[j]) /\ Range(d.dfcQ[j]) = Range(r.dfcQ[j]) \ {t}
  <2>1. Inj(r.intQ[j]) /\ Inj(r.dfcQ[j]) /\ Place(r, t)
    BY <1>1 DEF Once
  <2>2. CASE j = i
    BY <1>2, <1>5, <1>drop, <2>1, <2>2
  <2>3. CASE j # i
    <3>1. t \notin Range(r.intQ[j]) /\ t \notin Range(r.dfcQ[j])
      BY <2>1, <2>3 DEF Place
    <3> QED
      BY <1>5, <2>1, <2>3, <3>1
  <2> QED
    BY <2>2, <2>3
<1>7. Once(d) /\ Nowhere(d, t)
  BY <1>4, <1>6 DEF Once, Nowhere
<1>8. ASSUME NEW u \in Timer, u # t PROVE Place(d, u)
  <2>1. Place(r, u) /\ SlotOf(d, u) = SlotOf(r, u) /\ d.state[u] = r.state[u]
        /\ SlotOf(r, u) \in Slot
    BY <1>1, <1>3, SlotType
  <2>2. /\ u \in Range(d.holding) <=> u \in Range(r.holding)
        /\ u \in Range(d.ordered) <=> u \in Range(r.ordered)
        /\ u \in Range(d.expired) <=> u \in Range(r.expired)
        /\ u \in Range(d.completed) <=> u \in Range(r.completed)
        /\ \A j \in Slot : /\ u \in Range(d.intQ[j]) <=> u \in Range(r.intQ[j])
                           /\ u \in Range(d.dfcQ[j]) <=> u \in Range(r.dfcQ[j])
    BY <1>4, <1>6, <1>8
  <2> QED
    BY <2>1, <2>2 DEF Place
<1>9. ASSUME r.state[t] # "EFinal" PROVE d.intQ = r.intQ /\ d.dfcQ = r.dfcQ
  <2>1. t \notin Range(r.intQ[i]) /\ t \notin Range(r.dfcQ[i])
    BY <1>1, <1>9 DEF Place
  <2>2. Drop(r.intQ[i], t) = r.intQ[i] /\ Drop(r.dfcQ[i], t) = r.dfcQ[i]
    BY <2>1 DEF Drop
  <2> QED
    BY <1>0, <1>1, <1>2, <2>2
<1> QED
  BY <1>5, <1>7, <1>8, <1>9

\* A timer that is on the same queues with the same state is still in place.
LEMMA PlaceSame ==
    ASSUME NEW r \in QState, NEW s, NEW u \in Timer, Place(r, u),
           SlotOf(s, u) = SlotOf(r, u), s.state[u] = r.state[u],
           u \in Range(s.holding) <=> u \in Range(r.holding),
           u \in Range(s.ordered) <=> u \in Range(r.ordered),
           u \in Range(s.expired) <=> u \in Range(r.expired),
           u \in Range(s.completed) <=> u \in Range(r.completed),
           \A j \in Slot : /\ u \in Range(s.intQ[j]) <=> u \in Range(r.intQ[j])
                           /\ u \in Range(s.dfcQ[j]) <=> u \in Range(r.dfcQ[j])
    PROVE  Place(s, u)
<1>1. SlotOf(r, u) \in Slot
  BY SlotType
<1> QED
  BY <1>1 DEF Place

\* The types of the members of TheTimerQ.
LEMMA Fields ==
    ASSUME NEW r \in QState
    PROVE  /\ r.holding \in Seq(Timer) /\ r.ordered \in Seq(Timer)
           /\ r.expired \in Seq(Timer) /\ r.completed \in Seq(Timer)
           /\ r.intQ \in [Slot -> Seq(Timer)] /\ r.dfcQ \in [Slot -> Seq(Timer)]
           /\ r.state \in [Timer -> TState] /\ r.triggerTime \in [Timer -> Tick32]
           /\ r.inDfc \in [Timer -> BOOLEAN] /\ r.msCount \in Tick32
           /\ r.present \in SUBSET Slot
           /\ r.transCancelled \in BOOLEAN /\ r.critCancelled \in BOOLEAN
BY DEF QState

\* iState=EIdle, the timer being on no queue.
LEMMA MakeIdleExact ==
    ASSUME NEW r, NEW t \in Timer, Exact(r, {t}), NEW s, s = MakeIdle(r, t)
    PROVE  /\ Exact(s, {})
           /\ s.state = [r.state EXCEPT ![t] = "EIdle"]
           /\ s.holding = r.holding /\ s.ordered = r.ordered /\ s.intQ = r.intQ
           /\ s.dfcQ = r.dfcQ /\ s.expired = r.expired /\ s.completed = r.completed
           /\ s.present = r.present /\ s.msCount = r.msCount
           /\ s.transCancelled = r.transCancelled /\ s.critCancelled = r.critCancelled
           /\ \A u \in Timer : u # t => s.triggerTime[u] = r.triggerTime[u]
<1>1. r \in QState
  BY DEF Exact
<1>2. s \in QState
  BY <1>1, Constants DEF MakeIdle, QState, TState
<1>3. /\ s.state = [r.state EXCEPT ![t] = "EIdle"]
      /\ s.holding = r.holding /\ s.ordered = r.ordered /\ s.intQ = r.intQ
      /\ s.dfcQ = r.dfcQ /\ s.expired = r.expired /\ s.completed = r.completed
      /\ s.present = r.present /\ s.msCount = r.msCount
      /\ s.transCancelled = r.transCancelled /\ s.critCancelled = r.critCancelled
  BY <1>1 DEF MakeIdle, QState
<1>4. \A u \in Timer : u # t => s.triggerTime[u] = r.triggerTime[u]
  BY <1>1 DEF MakeIdle, QState
<1>5. Exact(s, {t})
  <2>1. \A u \in Timer : u \notin {t} => SlotOf(s, u) = SlotOf(r, u)
    BY <1>4 DEF SlotOf
  <2>2. \A u \in Timer : u \notin {t} =>
            \/ s.state[u] = r.state[u]
            \/ {s.state[u], r.state[u]} \subseteq {"EOrdered", "ECritical"}
            \/ {s.state[u], r.state[u]} \subseteq {"EIdle", "ETransferring"}
    BY <1>1, <1>3, Fields
  <2>3. /\ s.holding = r.holding /\ s.ordered = r.ordered /\ s.intQ = r.intQ
        /\ s.dfcQ = r.dfcQ /\ s.expired = r.expired /\ s.completed = r.completed
        /\ s.present = r.present
    BY <1>3
  <2> QED
    BY <1>2, <2>1, <2>2, <2>3, ExactFrame
<1>6. s.state[t] = "EIdle"
  BY <1>1, <1>3, Fields
<1>7. Exact(s, {})
  BY <1>5, <1>6, OnNoQueue
<1> QED
  BY <1>3, <1>4, <1>7

\* NTimer::Cancel.
LEMMA CancelExact ==
    ASSUME NEW r, NEW t \in Timer, Exact(r, {}), NEW s, s = CancelTimer(r, t)
    PROVE  /\ Exact(s, {})
           /\ s.state = [r.state EXCEPT ![t] = "EIdle"]
           /\ s.msCount = r.msCount
           /\ s.ordered = Drop(r.ordered, t) /\ s.holding = Drop(r.holding, t)
           /\ s.expired = Drop(r.expired, t) /\ s.completed = Drop(r.completed, t)
           /\ \A u \in Timer : u # t => s.triggerTime[u] = r.triggerTime[u]
           /\ s.transCancelled <=> r.transCancelled \/ r.state[t] = "ETransferring"
           /\ s.critCancelled <=> r.critCancelled \/ r.state[t] = "ECritical"
<1> DEFINE i == SlotOf(r, t)
<1>1. r \in QState /\ PresentOK(r) /\ i \in Slot
  BY SlotType DEF Exact
<1>2. PICK d : d = Deque(r, t)
  OBVIOUS
<1>3. /\ d \in QState
      /\ d.holding = Drop(r.holding, t) /\ d.ordered = Drop(r.ordered, t)
      /\ d.expired = Drop(r.expired, t) /\ d.completed = Drop(r.completed, t)
      /\ d.intQ = [r.intQ EXCEPT ![i] = Drop(@, t)]
      /\ d.dfcQ = [r.dfcQ EXCEPT ![i] = Drop(@, t)]
      /\ d.state = r.state /\ d.triggerTime = r.triggerTime
      /\ d.msCount = r.msCount /\ d.present = r.present
      /\ d.transCancelled = r.transCancelled /\ d.critCancelled = r.critCancelled
  BY <1>2, DequeFields
<1>4. /\ Once(d) /\ Nowhere(d, t)
      /\ \A u \in Timer : u # t => Place(d, u)
      /\ \A j \in Slot \ {i} : d.intQ[j] = r.intQ[j] /\ d.dfcQ[j] = r.dfcQ[j]
      /\ r.state[t] # "EFinal" => d.intQ = r.intQ /\ d.dfcQ = r.dfcQ
  BY <1>2, DequeOnce
<1>5. PICK c : c = CancelSwitch(d, t, r.state[t])
  OBVIOUS
<1>6. SlotOf(d, t) = i /\ s = MakeIdle(c, t)
  BY <1>2, <1>3, <1>5 DEF CancelTimer, SlotOf
<1> HIDE DEF i
<1>7. /\ c \in QState
      /\ c.holding = d.holding /\ c.ordered = d.ordered /\ c.intQ = d.intQ
      /\ c.dfcQ = d.dfcQ /\ c.expired = d.expired /\ c.completed = d.completed
      /\ c.state = d.state /\ c.triggerTime = d.triggerTime /\ c.msCount = d.msCount
      /\ c.present = IF r.state[t] = "EFinal" /\ d.intQ[i] = <<>> /\ d.dfcQ[i] = <<>>
                     THEN d.present \ {i} ELSE d.present
      /\ c.transCancelled <=> d.transCancelled \/ r.state[t] = "ETransferring"
      /\ c.critCancelled <=> d.critCancelled \/ r.state[t] = "ECritical"
  <2>1. CASE r.state[t] = "ETransferring"
    BY <1>3, <1>5, <2>1 DEF CancelSwitch, QState
  <2>2. CASE r.state[t] = "ECritical"
    BY <1>3, <1>5, <2>2 DEF CancelSwitch, QState
  <2>3. CASE r.state[t] = "EFinal" /\ d.intQ[i] = <<>> /\ d.dfcQ[i] = <<>>
    <3>1. c = [d EXCEPT !.present = @ \ {i}]
      BY <1>5, <1>6, <2>3 DEF CancelSwitch
    <3> QED
      BY <1>3, <2>3, <3>1 DEF QState
  <2>4. CASE /\ r.state[t] # "ETransferring" /\ r.state[t] # "ECritical"
             /\ ~(r.state[t] = "EFinal" /\ d.intQ[i] = <<>> /\ d.dfcQ[i] = <<>>)
    <3>1. c = d
      BY <1>5, <1>6, <2>4 DEF CancelSwitch
    <3> QED
      BY <1>3, <2>4, <3>1
  <2> QED
    BY <2>1, <2>2, <2>3, <2>4
<1>8. PresentOK(c)
  <2>1. SUFFICES ASSUME NEW j \in Slot
                 PROVE  j \in c.present <=> c.intQ[j] # <<>> \/ c.dfcQ[j] # <<>>
    BY DEF PresentOK
  <2>2. j \in r.present <=> r.intQ[j] # <<>> \/ r.dfcQ[j] # <<>>
    BY <1>1 DEF PresentOK
  <2>3. CASE j # i
    BY <1>3, <1>4, <1>7, <2>2, <2>3
  <2>4. CASE j = i /\ r.state[t] # "EFinal"
    BY <1>3, <1>4, <1>7, <2>2, <2>4
  <2>5. CASE j = i /\ r.state[t] = "EFinal"
    <3>1. d.intQ[i] = Drop(r.intQ[i], t) /\ d.dfcQ[i] = Drop(r.dfcQ[i], t)
      BY <1>1, <1>3, Fields
    <3>2. Drop(<<>>, t) = <<>>
      BY DEF Drop, Range
    <3>3. d.intQ[i] # <<>> \/ d.dfcQ[i] # <<>> => i \in r.present
      BY <2>2, <2>5, <3>1, <3>2
    <3> QED
      BY <1>3, <1>7, <2>5, <3>3
  <2> QED
    BY <2>3, <2>4, <2>5
<1>9. Once(c) /\ Nowhere(c, t)
  BY <1>4, <1>7 DEF Once, Nowhere
<1>10. ASSUME NEW u \in Timer, u # t PROVE Place(c, u)
  <2>1. Place(d, u) /\ SlotOf(c, u) = SlotOf(d, u)
    BY <1>4, <1>7, <1>10 DEF SlotOf
  <2> QED
    BY <1>3, <1>7, <2>1, PlaceSame
<1>11. Exact(c, {t})
  BY <1>7, <1>8, <1>9, <1>10 DEF Exact
<1>12. /\ Exact(s, {}) /\ s.state = [c.state EXCEPT ![t] = "EIdle"]
       /\ s.msCount = c.msCount /\ s.ordered = c.ordered /\ s.holding = c.holding
       /\ s.expired = c.expired /\ s.completed = c.completed
       /\ s.transCancelled = c.transCancelled /\ s.critCancelled = c.critCancelled
       /\ \A u \in Timer : u # t => s.triggerTime[u] = c.triggerTime[u]
  BY <1>6, <1>11, MakeIdleExact
<1> QED
  BY <1>3, <1>7, <1>12

\* AddFinal, the timer being on no queue.
LEMMA AddFinalExact ==
    ASSUME NEW r, NEW t \in Timer, Exact(r, {t}), NEW s, s = AddFinal(r, t)
    PROVE  /\ Exact(s, {})
           /\ s.state = [r.state EXCEPT ![t] = "EFinal"]
           /\ s.holding = r.holding /\ s.ordered = r.ordered
           /\ s.expired = r.expired /\ s.completed = r.completed
           /\ s.msCount = r.msCount /\ s.triggerTime = r.triggerTime
           /\ s.transCancelled = r.transCancelled /\ s.critCancelled = r.critCancelled
<1> DEFINE i == SlotOf(r, t)
<1>1. /\ r \in QState /\ Once(r) /\ PresentOK(r) /\ Nowhere(r, t) /\ i \in Slot
      /\ \A u \in Timer : u # t => Place(r, u)
  BY SlotType DEF Exact
<1>2. /\ s.holding = r.holding /\ s.ordered = r.ordered
      /\ s.expired = r.expired /\ s.completed = r.completed
      /\ s.state = [r.state EXCEPT ![t] = "EFinal"]
      /\ s.present = r.present \cup {i}
      /\ s.msCount = r.msCount /\ s.triggerTime = r.triggerTime /\ s.inDfc = r.inDfc
      /\ s.transCancelled = r.transCancelled /\ s.critCancelled = r.critCancelled
      /\ s.intQ = IF r.inDfc[t] THEN r.intQ ELSE [r.intQ EXCEPT ![i] = Append(@, t)]
      /\ s.dfcQ = IF r.inDfc[t] THEN [r.dfcQ EXCEPT ![i] = Append(@, t)] ELSE r.dfcQ
  BY <1>1 DEF AddFinal, QState
<1>3. s \in QState
  <2>1. /\ r.intQ[i] \in Seq(Timer) /\ r.dfcQ[i] \in Seq(Timer)
        /\ r.state \in [Timer -> TState] /\ "EFinal" \in TState
    BY <1>1, Fields DEF TState
  <2>2. Append(r.intQ[i], t) \in Seq(Timer) /\ Append(r.dfcQ[i], t) \in Seq(Timer)
        /\ r.present \cup {i} \in SUBSET Slot
    BY <1>1, <2>1, Fields
  <2>5. [r.state EXCEPT ![t] = "EFinal"] \in [Timer -> TState]
        /\ [r.intQ EXCEPT ![i] = Append(r.intQ[i], t)] \in [Slot -> Seq(Timer)]
        /\ [r.dfcQ EXCEPT ![i] = Append(r.dfcQ[i], t)] \in [Slot -> Seq(Timer)]
    BY <1>1, <2>1, <2>2, Fields
  <2>3. CASE r.inDfc[t]
    <3>1. s = [r EXCEPT !.present = @ \cup {i}, !.state[t] = "EFinal",
                        !.dfcQ[i] = Append(@, t)]
      BY <1>1, <2>3 DEF AddFinal, QState
    <3> HIDE DEF i
    <3> QED
      BY <1>1, <2>1, <2>2, <2>5, <3>1 DEF QState
  <2>4. CASE ~r.inDfc[t]
    <3>1. s = [r EXCEPT !.present = @ \cup {i}, !.state[t] = "EFinal",
                        !.intQ[i] = Append(@, t)]
      BY <1>1, <2>4 DEF AddFinal, QState
    <3> HIDE DEF i
    <3> QED
      BY <1>1, <2>1, <2>2, <2>5, <3>1 DEF QState
  <2> QED
    BY <2>3, <2>4
<1> HIDE DEF i
<1>4. r.intQ \in [Slot -> Seq(Timer)] /\ r.dfcQ \in [Slot -> Seq(Timer)]
      /\ r.state \in [Timer -> TState]
  BY <1>1, Fields
<1>append. \A x \in Seq(Timer) : Inj(x) /\ t \notin Range(x) =>
              /\ Inj(Append(x, t)) /\ Range(Append(x, t)) = Range(x) \cup {t}
  BY AppendQueue
<1>5. ASSUME NEW j \in Slot
      PROVE  /\ Inj(s.intQ[j]) /\ Inj(s.dfcQ[j])
             /\ Range(s.intQ[j]) = Range(r.intQ[j]) \cup
                                     (IF j = i /\ ~r.inDfc[t] THEN {t} ELSE {})
             /\ Range(s.dfcQ[j]) = Range(r.dfcQ[j]) \cup
                                     (IF j = i /\ r.inDfc[t] THEN {t} ELSE {})
             /\ j # i => s.intQ[j] = r.intQ[j] /\ s.dfcQ[j] = r.dfcQ[j]
  <2>1. /\ r.intQ[j] \in Seq(Timer) /\ Inj(r.intQ[j]) /\ t \notin Range(r.intQ[j])
        /\ r.dfcQ[j] \in Seq(Timer) /\ Inj(r.dfcQ[j]) /\ t \notin Range(r.dfcQ[j])
    BY <1>1, <1>4 DEF Once, Nowhere
  <2>2. CASE j # i
    <3>1. s.intQ[j] = r.intQ[j] /\ s.dfcQ[j] = r.dfcQ[j]
      BY <1>1, <1>2, <1>4, <2>2
    <3> QED
      BY <2>1, <2>2, <3>1
  <2>3. CASE j = i /\ r.inDfc[t]
    <3>1. s.intQ[j] = r.intQ[j] /\ s.dfcQ[j] = Append(r.dfcQ[j], t)
      BY <1>1, <1>2, <1>4, <2>3
    <3> QED
      BY <1>append, <2>1, <2>3, <3>1
  <2>4. CASE j = i /\ ~r.inDfc[t]
    <3>1. s.intQ[j] = Append(r.intQ[j], t) /\ s.dfcQ[j] = r.dfcQ[j]
      BY <1>1, <1>2, <1>4, <2>4
    <3> QED
      BY <1>append, <2>1, <2>4, <3>1
  <2> QED
    BY <2>2, <2>3, <2>4
<1>6. Once(s)
  BY <1>1, <1>2, <1>5 DEF Once
<1>7. PresentOK(s)
  <2>1. SUFFICES ASSUME NEW j \in Slot
                 PROVE  j \in s.present <=> s.intQ[j] # <<>> \/ s.dfcQ[j] # <<>>
    BY DEF PresentOK
  <2>2. CASE j # i
    BY <1>1, <1>2, <1>5, <2>2 DEF PresentOK
  <2>3. CASE j = i
    <3>1. t \in Range(s.intQ[j]) \/ t \in Range(s.dfcQ[j])
      BY <1>5, <2>3
    <3>2. s.intQ[j] # <<>> \/ s.dfcQ[j] # <<>>
      BY <3>1 DEF Range
    <3> QED
      BY <1>2, <2>3, <3>2
  <2> QED
    BY <2>2, <2>3
<1>8. ASSUME NEW u \in Timer, u # t PROVE Place(s, u)
  <2>1. Place(r, u) /\ SlotOf(s, u) = SlotOf(r, u) /\ s.state[u] = r.state[u]
    BY <1>1, <1>2, <1>4, <1>8 DEF SlotOf
  <2>2. \A j \in Slot : /\ u \in Range(s.intQ[j]) <=> u \in Range(r.intQ[j])
                        /\ u \in Range(s.dfcQ[j]) <=> u \in Range(r.dfcQ[j])
    BY <1>5, <1>8
  <2> QED
    BY <1>1, <1>2, <2>1, <2>2, PlaceSame
<1>9. Place(s, t)
  <2>1. SlotOf(s, t) = i /\ s.state[t] = "EFinal"
    BY <1>2, <1>4 DEF SlotOf, i
  <2> QED
    BY <1>1, <1>2, <1>5, <2>1 DEF Place, Nowhere
<1>10. \A u \in Timer : Place(s, u)
  BY <1>8, <1>9
<1> QED
  BY <1>2, <1>3, <1>6, <1>7, <1>10 DEF Exact

\* Queues and states after a timer was put on the holding or the ordered queue.
LEMMA PutExact ==
    ASSUME NEW r, NEW t \in Timer, Exact(r, {t}), NEW s \in QState,
           s.expired = r.expired, s.completed = r.completed, s.present = r.present,
           s.intQ = r.intQ, s.dfcQ = r.dfcQ, s.triggerTime = r.triggerTime,
           Inj(s.holding), Inj(s.ordered),
           \/ /\ s.state = [r.state EXCEPT ![t] = "EHolding"]
              /\ Range(s.holding) = Range(r.holding) \cup {t} /\ s.ordered = r.ordered
           \/ /\ s.state = [r.state EXCEPT ![t] = "EOrdered"]
              /\ Range(s.ordered) = Range(r.ordered) \cup {t} /\ s.holding = r.holding
    PROVE  Exact(s, {})
<1>1. /\ r \in QState /\ Once(r) /\ PresentOK(r) /\ Nowhere(r, t)
      /\ SlotOf(r, t) \in Slot /\ r.state \in [Timer -> TState]
      /\ \A u \in Timer : u # t => Place(r, u)
  BY SlotType, Fields DEF Exact
<1>2. Once(s) /\ PresentOK(s)
  BY <1>1 DEF Once, PresentOK
<1>3. ASSUME NEW u \in Timer, u # t PROVE Place(s, u)
  <2>1. Place(r, u) /\ SlotOf(s, u) = SlotOf(r, u) /\ s.state[u] = r.state[u]
    BY <1>1, <1>3 DEF SlotOf
  <2>2. /\ u \in Range(s.holding) <=> u \in Range(r.holding)
        /\ u \in Range(s.ordered) <=> u \in Range(r.ordered)
    BY <1>3
  <2> QED
    BY <1>1, <2>1, <2>2, PlaceSame
<1>4. Place(s, t)
  <2>1. SlotOf(s, t) = SlotOf(r, t)
    BY DEF SlotOf
  <2>2. CASE s.state = [r.state EXCEPT ![t] = "EHolding"]
             /\ Range(s.holding) = Range(r.holding) \cup {t} /\ s.ordered = r.ordered
    <3>1. s.state[t] = "EHolding"
      BY <1>1, <2>2
    <3> QED
      BY <1>1, <2>1, <2>2, <3>1 DEF Place, Nowhere
  <2>3. CASE s.state = [r.state EXCEPT ![t] = "EOrdered"]
             /\ Range(s.ordered) = Range(r.ordered) \cup {t} /\ s.holding = r.holding
    <3>1. s.state[t] = "EOrdered"
      BY <1>1, <2>3
    <3> QED
      BY <1>1, <2>1, <2>3, <3>1 DEF Place, Nowhere
  <2> QED
    BY <2>2, <2>3
<1>5. \A u \in Timer : Place(s, u)
  BY <1>3, <1>4
<1> QED
  BY <1>2, <1>5 DEF Exact

\* AddTimer, the timer being on no queue.
LEMMA AddTimerExact ==
    ASSUME NEW r, NEW t \in Timer, Exact(r, {t}), NEW s, s = AddTimer(r, t)
    PROVE  /\ Exact(s, {})
           /\ \E x \in {"EFinal", "EHolding"} : s.state = [r.state EXCEPT ![t] = x]
           /\ Remain(r, t) < NumQueues => s.state = [r.state EXCEPT ![t] = "EFinal"]
           /\ ~(Remain(r, t) < NumQueues) => s.state = [r.state EXCEPT ![t] = "EHolding"]
           /\ s.ordered = r.ordered /\ s.expired = r.expired
           /\ s.completed = r.completed
           /\ s.msCount = r.msCount /\ s.triggerTime = r.triggerTime
           /\ s.transCancelled = r.transCancelled /\ s.critCancelled = r.critCancelled
<1>1. CASE Remain(r, t) < NumQueues
  <2>1. s = AddFinal(r, t)
    BY <1>1 DEF AddTimer
  <2>2. /\ Exact(s, {})
        /\ s.state = [r.state EXCEPT ![t] = "EFinal"]
        /\ s.holding = r.holding /\ s.ordered = r.ordered
        /\ s.expired = r.expired /\ s.completed = r.completed
        /\ s.msCount = r.msCount /\ s.triggerTime = r.triggerTime
        /\ s.transCancelled = r.transCancelled /\ s.critCancelled = r.critCancelled
    BY <2>1, AddFinalExact
  <2> QED
    BY <1>1, <2>2
<1>2. CASE ~(Remain(r, t) < NumQueues)
  <2>1. s = [r EXCEPT !.state[t] = "EHolding", !.holding = Append(@, t)]
    BY <1>2 DEF AddTimer
  <2>2. r \in QState /\ Once(r) /\ Nowhere(r, t)
    BY DEF Exact
  <2>3. /\ Append(r.holding, t) \in Seq(Timer) /\ Inj(Append(r.holding, t))
        /\ Range(Append(r.holding, t)) = Range(r.holding) \cup {t}
    <3>1. r.holding \in Seq(Timer) /\ Inj(r.holding) /\ t \notin Range(r.holding)
      BY <2>2, Fields DEF Once, Nowhere
    <3> QED
      BY <3>1, AppendQueue
  <2>4. /\ s.holding = Append(r.holding, t) /\ s.ordered = r.ordered
        /\ s.state = [r.state EXCEPT ![t] = "EHolding"]
        /\ s.expired = r.expired /\ s.completed = r.completed /\ s.present = r.present
        /\ s.intQ = r.intQ /\ s.dfcQ = r.dfcQ /\ s.triggerTime = r.triggerTime
        /\ s.msCount = r.msCount
        /\ s.transCancelled = r.transCancelled /\ s.critCancelled = r.critCancelled
    BY <2>1, <2>2 DEF QState
  <2>5. s \in QState
    <3>1. [r.state EXCEPT ![t] = "EHolding"] \in [Timer -> TState]
      BY <2>2, Fields DEF TState
    <3> QED
      BY <2>1, <2>2, <2>3, <3>1 DEF QState
  <2>6. Inj(s.holding) /\ Inj(s.ordered)
        /\ Range(s.holding) = Range(r.holding) \cup {t}
    BY <2>2, <2>3, <2>4 DEF Once
  <2>7. Exact(s, {})
    BY <2>4, <2>5, <2>6, PutExact
  <2> QED
    BY <1>2, <2>4, <2>7
<1> QED
  BY <1>1, <1>2

\* A timer is taken off the expired or the completed queue, and becomes idle.
LEMMA TakenOff ==
    ASSUME NEW r, Exact(r, {}), NEW t \in Timer, NEW d \in QState,
           d.holding = r.holding, d.ordered = r.ordered, d.intQ = r.intQ,
           d.dfcQ = r.dfcQ, d.state = r.state, d.triggerTime = r.triggerTime,
           d.present = r.present, Inj(d.expired), Inj(d.completed),
           t \in Range(r.expired) \cup Range(r.completed),
           Range(d.expired) = Range(r.expired) \ {t},
           Range(d.completed) = Range(r.completed) \ {t}
    PROVE  Exact(d, {t}) /\ r.state[t] = "EFinal"
<1>1. r \in QState /\ Once(r) /\ PresentOK(r) /\ \A u \in Timer : Place(r, u)
  BY DEF Exact
<1>2. Once(d) /\ PresentOK(d)
  BY <1>1 DEF Once, PresentOK
<1>3. r.state[t] = "EFinal" /\ Nowhere(d, t)
  <2>1. Place(r, t) /\ SlotOf(r, t) \in Slot
    BY <1>1, SlotType
  <2> QED
    BY <2>1 DEF Place, Nowhere
<1>4. ASSUME NEW u \in Timer, u # t PROVE Place(d, u)
  <2>1. Place(r, u) /\ SlotOf(d, u) = SlotOf(r, u)
    BY <1>1 DEF SlotOf
  <2>2. /\ u \in Range(d.expired) <=> u \in Range(r.expired)
        /\ u \in Range(d.completed) <=> u \in Range(r.completed)
    BY <1>4
  <2> QED
    BY <1>1, <2>1, <2>2, PlaceSame
<1> QED
  BY <1>2, <1>3, <1>4 DEF Exact

\* A callback: the first timer of the expired or of the completed queue is taken
\* off it, and becomes idle.
LEMMA CallbackExact ==
    ASSUME NEW r, Exact(r, {}), NEW t, NEW d \in QState,
           d.holding = r.holding, d.ordered = r.ordered, d.intQ = r.intQ,
           d.dfcQ = r.dfcQ, d.state = r.state, d.triggerTime = r.triggerTime,
           d.present = r.present,
           \/ /\ r.expired # <<>> /\ t = Head(r.expired)
              /\ d.expired = Tail(r.expired) /\ d.completed = r.completed
           \/ /\ r.completed # <<>> /\ t = Head(r.completed)
              /\ d.completed = Tail(r.completed) /\ d.expired = r.expired
    PROVE  Exact(d, {t}) /\ t \in Timer /\ r.state[t] = "EFinal"
<1>1. /\ r \in QState /\ r.expired \in Seq(Timer) /\ Inj(r.expired)
      /\ r.completed \in Seq(Timer) /\ Inj(r.completed) /\ \A u \in Timer : Place(r, u)
  BY Fields DEF Exact, Once
<1>2. \A u \in Timer : u \in Range(r.expired) => u \notin Range(r.completed)
  BY <1>1 DEF Place
<1>3. CASE r.expired # <<>> /\ t = Head(r.expired)
           /\ d.expired = Tail(r.expired) /\ d.completed = r.completed
  <2>1. /\ t \in Range(r.expired) /\ t \in Timer /\ Inj(Tail(r.expired))
        /\ Range(Tail(r.expired)) = Range(r.expired) \ {t}
    BY <1>1, <1>3, TailQueue
  <2>2. Inj(d.expired) /\ Inj(d.completed)
        /\ Range(d.expired) = Range(r.expired) \ {t}
        /\ Range(d.completed) = Range(r.completed) \ {t}
        /\ t \in Range(r.expired) \cup Range(r.completed)
    BY <1>1, <1>2, <1>3, <2>1
  <2> QED
    BY <2>1, <2>2, TakenOff
<1>4. CASE r.completed # <<>> /\ t = Head(r.completed)
           /\ d.completed = Tail(r.completed) /\ d.expired = r.expired
  <2>1. /\ t \in Range(r.completed) /\ t \in Timer /\ Inj(Tail(r.completed))
        /\ Range(Tail(r.completed)) = Range(r.completed) \ {t}
    BY <1>1, <1>4, TailQueue
  <2>2. Inj(d.expired) /\ Inj(d.completed)
        /\ Range(d.expired) = Range(r.expired) \ {t}
        /\ Range(d.completed) = Range(r.completed) \ {t}
        /\ t \in Range(r.expired) \cup Range(r.completed)
    BY <1>1, <1>2, <1>4, <2>1
  <2> QED
    BY <2>1, <2>2, TakenOff
<1> QED
  BY <1>3, <1>4

\* What a tick leaves alone when it takes the final queues.
LEMMA TailFields ==
    ASSUME NEW r \in QState
    PROVE  /\ \A d : r.expired # <<>> /\ d = [r EXCEPT !.expired = Tail(@)] =>
                  /\ d \in QState /\ d.expired = Tail(r.expired)
                  /\ d.completed = r.completed
                  /\ d.holding = r.holding /\ d.ordered = r.ordered /\ d.intQ = r.intQ
                  /\ d.dfcQ = r.dfcQ /\ d.state = r.state
                  /\ d.triggerTime = r.triggerTime /\ d.msCount = r.msCount
                  /\ d.present = r.present /\ d.transCancelled = r.transCancelled
                  /\ d.critCancelled = r.critCancelled
           /\ \A d : r.completed # <<>> /\ d = [r EXCEPT !.completed = Tail(@)] =>
                  /\ d \in QState /\ d.completed = Tail(r.completed)
                  /\ d.expired = r.expired
                  /\ d.holding = r.holding /\ d.ordered = r.ordered /\ d.intQ = r.intQ
                  /\ d.dfcQ = r.dfcQ /\ d.state = r.state
                  /\ d.triggerTime = r.triggerTime /\ d.msCount = r.msCount
                  /\ d.present = r.present /\ d.transCancelled = r.transCancelled
                  /\ d.critCancelled = r.critCancelled
<1>1. /\ r.expired # <<>> => Tail(r.expired) \in Seq(Timer)
      /\ r.completed # <<>> => Tail(r.completed) \in Seq(Timer)
  BY Fields
<1>2. ASSUME NEW d, r.expired # <<>>, d = [r EXCEPT !.expired = Tail(@)]
      PROVE  /\ d \in QState /\ d.expired = Tail(r.expired)
             /\ d.completed = r.completed
             /\ d.holding = r.holding /\ d.ordered = r.ordered /\ d.intQ = r.intQ
             /\ d.dfcQ = r.dfcQ /\ d.state = r.state
             /\ d.triggerTime = r.triggerTime /\ d.msCount = r.msCount
             /\ d.present = r.present /\ d.transCancelled = r.transCancelled
             /\ d.critCancelled = r.critCancelled
  BY <1>1, <1>2 DEF QState
<1>3. ASSUME NEW d, r.completed # <<>>, d = [r EXCEPT !.completed = Tail(@)]
      PROVE  /\ d \in QState /\ d.completed = Tail(r.completed)
             /\ d.expired = r.expired
             /\ d.holding = r.holding /\ d.ordered = r.ordered /\ d.intQ = r.intQ
             /\ d.dfcQ = r.dfcQ /\ d.state = r.state
             /\ d.triggerTime = r.triggerTime /\ d.msCount = r.msCount
             /\ d.present = r.present /\ d.transCancelled = r.transCancelled
             /\ d.critCancelled = r.critCancelled
  BY <1>1, <1>3 DEF QState
<1> QED
  BY <1>2, <1>3

\* What a tick does to the queues before its callbacks.
TickQueues(r, i) ==
    [r EXCEPT !.msCount = (@ + 1) % Modulus, !.present = @ \ {i},
              !.completed = @ \o r.dfcQ[i], !.dfcQ[i] = <<>>,
              !.expired = r.intQ[i], !.intQ[i] = <<>>]

\* A tick takes the timers of a slot: they are expired, or for the DFC to call back.
LEMMA TickExact ==
    ASSUME NEW r, Exact(r, {}), r.expired = <<>>, NEW i \in Slot,
           NEW s, s = TickQueues(r, i)
    PROVE  /\ Exact(s, {})
           /\ s.msCount = (r.msCount + 1) % Modulus /\ s.expired = r.intQ[i]
           /\ s.holding = r.holding /\ s.ordered = r.ordered
           /\ s.state = r.state /\ s.triggerTime = r.triggerTime
           /\ s.transCancelled = r.transCancelled /\ s.critCancelled = r.critCancelled
           /\ Range(s.completed) = Range(r.completed) \cup Range(r.dfcQ[i])
<1>1. r \in QState /\ Once(r) /\ PresentOK(r) /\ \A u \in Timer : Place(r, u)
  BY DEF Exact
<1>2. /\ r.intQ \in [Slot -> Seq(Timer)] /\ r.dfcQ \in [Slot -> Seq(Timer)]
      /\ r.intQ[i] \in Seq(Timer) /\ r.dfcQ[i] \in Seq(Timer)
      /\ r.completed \in Seq(Timer) /\ <<>> \in Seq(Timer)
      /\ (r.msCount + 1) % Modulus \in Tick32
  <2>1. r.msCount \in Int
    BY <1>1, Fields DEF Tick32
  <2>2. (r.msCount + 1) % Modulus \in Tick32
    <3>1. r.msCount + 1 \in Int
      BY <2>1
    <3> QED
      BY <3>1, Constants
  <2> QED
    BY <1>1, <2>2, Fields
<1>3. ASSUME NEW u \in Timer, u \in Range(r.dfcQ[i]) \/ u \in Range(r.intQ[i])
      PROVE  /\ SlotOf(r, u) = i /\ r.state[u] = "EFinal"
             /\ u \notin Range(r.completed)
             /\ ~(u \in Range(r.dfcQ[i]) /\ u \in Range(r.intQ[i]))
  BY <1>1, <1>3 DEF Place
<1>4. /\ r.completed \o r.dfcQ[i] \in Seq(Timer)
      /\ Inj(r.completed \o r.dfcQ[i])
      /\ Range(r.completed \o r.dfcQ[i]) = Range(r.completed) \cup Range(r.dfcQ[i])
  <2>1. Inj(r.completed) /\ Inj(r.dfcQ[i])
    BY <1>1 DEF Once
  <2>2. \A u \in Range(r.dfcQ[i]) : u \in Timer
    BY <1>2 DEF Range
  <2>3. Range(r.completed) \cap Range(r.dfcQ[i]) = {}
    BY <1>3, <2>2
  <2> QED
    BY <1>2, <2>1, <2>3, ConcatQueue
<1>5. /\ s.msCount = (r.msCount + 1) % Modulus /\ s.present = r.present \ {i}
      /\ s.completed = r.completed \o r.dfcQ[i] /\ s.expired = r.intQ[i]
      /\ s.dfcQ = [r.dfcQ EXCEPT ![i] = <<>>] /\ s.intQ = [r.intQ EXCEPT ![i] = <<>>]
      /\ s.holding = r.holding /\ s.ordered = r.ordered
      /\ s.state = r.state /\ s.triggerTime = r.triggerTime
      /\ s.transCancelled = r.transCancelled /\ s.critCancelled = r.critCancelled
  BY <1>1 DEF TickQueues, QState
<1>6. s \in QState
  <2>1. r.present \ {i} \in SUBSET Slot
    BY <1>1, Fields
  <2> QED
    BY <1>1, <1>2, <1>4, <2>1 DEF TickQueues, QState
<1>7. \A j \in Slot : /\ s.intQ[j] = (IF j = i THEN <<>> ELSE r.intQ[j])
                      /\ s.dfcQ[j] = (IF j = i THEN <<>> ELSE r.dfcQ[j])
  BY <1>2, <1>5
<1>8. Range(<<>>) = {} /\ Inj(<<>>)
  BY DEF Range, Inj
<1>9. Once(s)
  BY <1>1, <1>4, <1>5, <1>7, <1>8 DEF Once
<1>10. PresentOK(s)
  BY <1>1, <1>5, <1>7 DEF PresentOK
<1>11. ASSUME NEW u \in Timer PROVE Place(s, u)
  <2>1. Place(r, u) /\ SlotOf(s, u) = SlotOf(r, u) /\ SlotOf(r, u) \in Slot
    BY <1>1, <1>5, SlotType DEF SlotOf
  <2>2. /\ u \in Range(s.completed) <=> u \in Range(r.completed) \/ u \in Range(r.dfcQ[i])
        /\ u \in Range(s.expired) <=> u \in Range(r.intQ[i])
        /\ u \notin Range(r.expired)
        /\ \A j \in Slot : /\ u \in Range(s.intQ[j]) <=> j # i /\ u \in Range(r.intQ[j])
                           /\ u \in Range(s.dfcQ[j]) <=> j # i /\ u \in Range(r.dfcQ[j])
    BY <1>4, <1>5, <1>7, <1>8
  <2>3. CASE SlotOf(r, u) = i
    BY <1>5, <2>1, <2>2, <2>3 DEF Place
  <2>4. CASE SlotOf(r, u) # i
    <3>1. u \notin Range(r.intQ[i]) /\ u \notin Range(r.dfcQ[i])
      BY <1>3, <2>4
    <3> QED
      BY <1>5, <2>1, <2>2, <2>4, <3>1 DEF Place
  <2> QED
    BY <2>3, <2>4
<1> QED
  BY <1>4, <1>5, <1>6, <1>9, <1>10, <1>11 DEF Exact

-----------------------------------------------------------------------------
\* Arithmetic of the tick count

\* Ticks between two checks for transfers.
Span == NumQueues \div 2

\* A remainder is known when a quotient is.
LEMMA ModIs ==
    ASSUME NEW x \in Int, NEW n \in Nat \ {0}, NEW k \in Int, NEW y \in 0..(n - 1),
           x = n * k + y
    PROVE  x % n = y
  OBVIOUS

\* What a remainder is.
LEMMA ModHas ==
    ASSUME NEW x \in Int, NEW n \in Nat \ {0}
    PROVE  x % n \in 0..(n - 1) /\ \E k \in Int : x = (n * k) + (x % n)
<1>1. x = (n * (x \div n)) + (x % n) /\ x \div n \in Int
  OBVIOUS
<1>2. x % n \in 0..(n - 1)
  OBVIOUS
<1> QED
  BY <1>1, <1>2

\* The sizes: the queues are two spans, the tick count many.
LEMMA Sizes ==
    /\ Span \in Nat \ {0} /\ NumQueues = 2 * Span
    /\ Half \in Nat \ {0} /\ Modulus = 2 * Half /\ Half >= 4 * Span
    /\ \E k \in Nat : Modulus = NumQueues * (2 * k) /\ Modulus = Span * (4 * k)
<1>1. NumQueues \in Nat \ {0} /\ NumQueues % 2 = 0 /\ Modulus \in Nat \ {0}
      /\ Modulus % (2 * NumQueues) = 0 /\ Modulus >= 4 * NumQueues
  BY TimerAssumption
<1>2. Span \in Nat \ {0} /\ NumQueues = 2 * Span
  BY <1>1 DEF Span
<1>3. PICK k \in Int : Modulus = (2 * NumQueues) * k
  <2>1. PICK n \in Nat \ {0} : n = 2 * NumQueues
    BY <1>1
  <2>2. Modulus % n = 0
    BY <1>1, <2>1
  <2>6. Modulus \in Int
    BY <1>1
  <2>3. PICK k \in Int : Modulus = (n * k) + (Modulus % n)
    BY <2>6, ModHas, Zenon
  <2>4. n * k \in Int
    OBVIOUS
  <2>5. Modulus = n * k
    BY <2>2, <2>3, <2>4
  <2> QED
    BY <2>1, <2>5
<1>4. k \in Nat
  <2>1. (2 * NumQueues) * k > 0 /\ 2 * NumQueues > 0
    BY <1>1, <1>3
  <2>2. \A a, b \in Int : a * b > 0 /\ a > 0 => b > 0
    OBVIOUS
  <2> QED
    BY <1>1, <2>1, <2>2
<1>5. /\ (2 * NumQueues) * k = NumQueues * (2 * k)
      /\ (2 * NumQueues) * k = 2 * (NumQueues * k)
      /\ (2 * (2 * Span)) * k = Span * (4 * k)
      /\ NumQueues * k \in Nat /\ NumQueues * (2 * k) \in Nat /\ Span * (4 * k) \in Nat
  BY <1>1, <1>2, <1>4
<1>6. Modulus = NumQueues * (2 * k) /\ Modulus = Span * (4 * k)
  BY <1>2, <1>3, <1>5
<1>7. Half = NumQueues * k
  BY <1>3, <1>5 DEF Half
<1>8. Half \in Nat /\ Modulus = 2 * Half
  BY <1>3, <1>5, <1>7
<1>9. Half \in Nat \ {0} /\ Half >= 4 * Span
  BY <1>1, <1>2, <1>8
<1> QED
  BY <1>2, <1>4, <1>6, <1>8, <1>9

\* x - y as TInt, from a difference that may be off by the modulus.
LEMMA AsIntIs ==
    ASSUME NEW x \in Int, NEW v \in (-Half)..(Half - 1), NEW e \in {-1, 0, 1},
           x = v + e * Modulus
    PROVE  AsInt(x % Modulus) = v
<1>1. Half \in Nat \ {0} /\ Modulus = 2 * Half /\ Modulus \in Nat \ {0}
  BY Sizes
<1>2. CASE v >= 0
  <2>1. v \in 0..(Modulus - 1) /\ x = Modulus * e + v /\ e \in Int
    BY <1>1, <1>2
  <2>2. x % Modulus = v
    BY <1>1, <2>1, ModIs
  <2> QED
    BY <1>1, <1>2, <2>2 DEF AsInt
<1>3. CASE v < 0
  <2>1. v + Modulus \in 0..(Modulus - 1) /\ x = Modulus * (e - 1) + (v + Modulus)
        /\ e - 1 \in Int
    BY <1>1, <1>3
  <2>2. x % Modulus = v + Modulus
    BY <1>1, <2>1, ModIs
  <2>3. ~(v + Modulus < Half) /\ (v + Modulus) - Modulus = v
    BY <1>1, <1>3
  <2> QED
    BY <2>2, <2>3 DEF AsInt
<1> QED
  BY <1>2, <1>3

\* The range of a difference read as a signed number.
LEMMA AsIntRange ==
    ASSUME NEW x \in Int
    PROVE  /\ AsInt(x % Modulus) \in (-Half)..(Half - 1)
           /\ \E e \in Int : x = AsInt(x % Modulus) + e * Modulus
<1>1. Half \in Nat \ {0} /\ Modulus = 2 * Half /\ Modulus \in Nat \ {0}
  BY Sizes
<1>2. x % Modulus \in 0..(Modulus - 1)
  BY <1>1, ModHas
<1>3. PICK k \in Int : x = (Modulus * k) + (x % Modulus)
  BY <1>1, ModHas
<1> DEFINE y == x % Modulus
<1>4. y \in 0..(Modulus - 1) /\ x = (Modulus * k) + y
  BY <1>2, <1>3
<1> HIDE DEF y
<1>5. CASE y < Half
  <2>1. AsInt(y) = y
    BY <1>5 DEF AsInt
  <2>2. x = y + k * Modulus
    BY <1>1, <1>4
  <2>3. y \in (-Half)..(Half - 1)
    BY <1>1, <1>4, <1>5
  <2> QED
    BY <2>1, <2>2, <2>3 DEF y
<1>6. CASE ~(y < Half)
  <2>1. AsInt(y) = y - Modulus
    BY <1>6 DEF AsInt
  <2>2. x = (y - Modulus) + (k + 1) * Modulus /\ k + 1 \in Int
    BY <1>1, <1>4
  <2>3. y - Modulus \in (-Half)..(Half - 1)
    BY <1>1, <1>4, <1>6
  <2> QED
    BY <2>1, <2>2, <2>3 DEF y
<1> QED
  BY <1>5, <1>6

\* Remain is the difference of trigger time and tick count, or off by the modulus.
LEMMA RemainIs ==
    ASSUME NEW r \in QState, NEW t \in Timer
    PROVE  /\ Remain(r, t) \in (-Half)..(Half - 1)
           /\ \A v \in (-Half)..(Half - 1), e \in {-1, 0, 1} :
                 r.triggerTime[t] - r.msCount = v + e * Modulus => Remain(r, t) = v
           /\ \E e \in {-1, 0, 1} :
                 r.triggerTime[t] - r.msCount = Remain(r, t) + e * Modulus
<1> DEFINE x == r.triggerTime[t] - r.msCount
<1>1. /\ r.triggerTime[t] \in 0..(Modulus - 1) /\ r.msCount \in 0..(Modulus - 1)
  BY Fields DEF Tick32
<1>2. Half \in Nat \ {0} /\ Modulus = 2 * Half /\ Modulus \in Nat
  BY Sizes
<1>3. x \in Int /\ Remain(r, t) = AsInt(x % Modulus)
      /\ x \in (-(Modulus - 1))..(Modulus - 1)
  BY <1>1, <1>2 DEF Remain, Minus
<1> HIDE DEF x
<1>4. Remain(r, t) \in (-Half)..(Half - 1)
  BY <1>3, AsIntRange
<1>5. PICK e \in Int : x = Remain(r, t) + e * Modulus
  BY <1>3, AsIntRange
<1>6. e \in {-1, 0, 1}
  <2>1. e * Modulus < 3 * Half /\ e * Modulus > -(3 * Half)
    <3>1. e * Modulus \in Int /\ x - Remain(r, t) = e * Modulus
      BY <1>2, <1>3, <1>4, <1>5
    <3> QED
      BY <1>2, <1>3, <1>4, <3>1
  <2>2. \A a \in Int, h \in Nat \ {0} : a * (2 * h) < 3 * h => a < 2
    OBVIOUS
  <2>3. \A a \in Int, h \in Nat \ {0} : a * (2 * h) > -(3 * h) => a > -2
    OBVIOUS
  <2>4. e < 2 /\ e > -2
    BY <1>2, <2>1, <2>2, <2>3
  <2> QED
    BY <2>4
<1>7. \A v \in (-Half)..(Half - 1), f \in {-1, 0, 1} :
          x = v + f * Modulus => Remain(r, t) = v
  BY <1>3, AsIntIs
<1> QED
  BY <1>4, <1>5, <1>6, <1>7 DEF x

\* Ticks before the next one that requests transfers, as NextCheck computes it.
ToCheck(c) == (-c) % Span

\* The tick count n ticks later.
LEMMA CountLater ==
    ASSUME NEW c \in Tick32, NEW n \in 0..(Modulus - 1)
    PROVE  \E f \in {0, 1} : (c + n) % Modulus = c + n - f * Modulus
<1>1. Modulus \in Nat \ {0} /\ c \in 0..(Modulus - 1)
  BY Constants DEF Tick32
<1>2. CASE c + n < Modulus
  <2>1. c + n \in Int /\ c + n \in 0..(Modulus - 1) /\ c + n = Modulus * 0 + (c + n)
    BY <1>1, <1>2
  <2>2. (c + n) % Modulus = c + n
    BY <1>1, <2>1, ModIs
  <2> QED
    BY <1>1, <2>2
<1>3. CASE ~(c + n < Modulus)
  <2>1. /\ c + n \in Int /\ c + n - Modulus \in 0..(Modulus - 1)
        /\ c + n = Modulus * 1 + (c + n - Modulus)
    BY <1>1, <1>3
  <2>2. (c + n) % Modulus = c + n - Modulus
    BY <1>1, <2>1, ModIs
  <2> QED
    BY <1>1, <2>2
<1> QED
  BY <1>2, <1>3

\* As the tick count goes on by n, what remains goes down by n.
LEMMA RemainLater ==
    ASSUME NEW r \in QState, NEW s \in QState, NEW t \in Timer,
           s.triggerTime[t] = r.triggerTime[t],
           NEW n \in 0..(Modulus - 1), s.msCount = (r.msCount + n) % Modulus,
           Remain(r, t) - n >= -Half
    PROVE  Remain(s, t) = Remain(r, t) - n
<1> DEFINE tt == r.triggerTime[t]
           c == r.msCount
           d == s.msCount
<1>1. /\ tt \in 0..(Modulus - 1) /\ c \in 0..(Modulus - 1) /\ d \in 0..(Modulus - 1)
      /\ c \in Tick32
  BY Fields DEF Tick32
<1>2. Half \in Nat \ {0} /\ Modulus = 2 * Half /\ Modulus \in Nat
  BY Sizes
<1>3. PICK v \in (-Half)..(Half - 1) : v = Remain(r, t)
  BY RemainIs
<1>4. PICK e \in {-1, 0, 1} : tt - c = v + e * Modulus
  BY <1>3, RemainIs
<1>5. PICK f \in {0, 1} : d = c + n - f * Modulus
  BY <1>1, CountLater
<1>6. v - n \in (-Half)..(Half - 1)
  BY <1>2, <1>3
<1> HIDE DEF tt, c, d
<1>7. tt - d = (v - n) + (e + f) * Modulus
  BY <1>1, <1>2, <1>3, <1>4, <1>5
<1>8. e + f \in {-1, 0, 1}
  BY <1>1, <1>2, <1>3, <1>6, <1>7
<1>9. s.triggerTime[t] - s.msCount = (v - n) + (e + f) * Modulus
  BY <1>7 DEF tt, d
<1> QED
  BY <1>3, <1>6, <1>8, <1>9, RemainIs

\* A timer started for n ticks has n ticks left.
LEMMA RemainNew ==
    ASSUME NEW r \in QState, NEW t \in Timer, NEW n \in 0..(Half - 1),
           r.triggerTime[t] = (r.msCount + n) % Modulus
    PROVE  Remain(r, t) = n
<1> DEFINE c == r.msCount
<1>1. c \in Tick32 /\ c \in Int
  BY Fields DEF Tick32
<1>2. Half \in Nat \ {0} /\ Modulus = 2 * Half /\ Modulus \in Nat
  BY Sizes
<1>3. PICK f \in {0, 1} : (c + n) % Modulus = c + n - f * Modulus
  BY <1>1, <1>2, CountLater
<1>4. -f \in {-1, 0, 1} /\ n \in (-Half)..(Half - 1)
      /\ r.triggerTime[t] - r.msCount = n + (-f) * Modulus
  BY <1>1, <1>2, <1>3
<1> QED
  BY <1>4, RemainIs

\* ... is less than the ticks between two requests.
LEMMA ToCheckIs ==
    ASSUME NEW c \in Tick32
    PROVE  /\ ToCheck(c) \in 0..(Span - 1)
           /\ \E k \in Int : c + ToCheck(c) = Span * k
           /\ \A y \in 0..(Span - 1), k \in Int : c + y = Span * k => ToCheck(c) = y
<1>1. c \in Int /\ -c \in Int /\ Span \in Nat \ {0}
  BY Sizes DEF Tick32
<1>2. ToCheck(c) \in 0..(Span - 1)
  BY <1>1, ModHas DEF ToCheck
<1>3. PICK k \in Int : -c = (Span * k) + ToCheck(c)
  BY <1>1, ModHas DEF ToCheck
<1>4. c + ToCheck(c) = Span * (-k) /\ -k \in Int
  BY <1>1, <1>2, <1>3
<1>5. ASSUME NEW y \in 0..(Span - 1), NEW j \in Int, c + y = Span * j
      PROVE  ToCheck(c) = y
  <2>1. -c = Span * (-j) + y /\ -j \in Int
    BY <1>1, <1>5
  <2> QED
    BY <1>1, <2>1, ModIs DEF ToCheck
<1> QED
  BY <1>2, <1>4, <1>5

\* The tick count n ticks later, in spans.
LEMMA CountSpans ==
    ASSUME NEW c \in Tick32, NEW n \in 0..(Modulus - 1)
    PROVE  (c + n) % Modulus \in Tick32
           /\ \E m \in Int : (c + n) % Modulus = c + n - Span * m
<1>1. c \in Int /\ n \in Int /\ Span \in Int
  BY Sizes, Constants DEF Tick32
<1>2. PICK k \in Nat : Modulus = Span * (4 * k)
  BY Sizes
<1>3. PICK f \in {0, 1} : (c + n) % Modulus = c + n - f * Modulus
  BY CountLater
<1>4. f * Modulus = Span * (f * (4 * k)) /\ f * (4 * k) \in Int
  BY <1>1, <1>2
<1>5. c + n \in Int
  BY <1>1
<1> QED
  BY <1>3, <1>4, <1>5, Constants

\* It is one less after a tick, and starts again at one that requests transfers.
LEMMA ToCheckLater ==
    ASSUME NEW c \in Tick32, NEW n \in 0..(Modulus - 1), NEW d, d = (c + n) % Modulus
    PROVE  /\ n =< ToCheck(c) => ToCheck(d) = ToCheck(c) - n
           /\ n = 1 /\ ToCheck(c) = 0 => ToCheck(d) = Span - 1
<1>1. /\ c \in Int /\ n \in Int /\ n >= 0 /\ Span \in Nat \ {0} /\ Modulus \in Nat
  BY Sizes, Constants DEF Tick32
<1>2. PICK m \in Int : d = c + n - Span * m
  BY CountSpans
<1>3. d \in Tick32
  BY CountSpans
<1>4. PICK k \in Int : c + ToCheck(c) = Span * k
  BY ToCheckIs
<1>5. ToCheck(c) \in 0..(Span - 1)
  BY ToCheckIs
<1>6. ASSUME n =< ToCheck(c) PROVE ToCheck(d) = ToCheck(c) - n
  <2>1. ToCheck(c) - n \in 0..(Span - 1)
    BY <1>1, <1>5, <1>6
  <2>2. d + (ToCheck(c) - n) = Span * (k - m) /\ k - m \in Int
    BY <1>1, <1>2, <1>4, <1>5
  <2> QED
    BY <1>3, <2>1, <2>2, ToCheckIs
<1>7. ASSUME n = 1, ToCheck(c) = 0 PROVE ToCheck(d) = Span - 1
  <2>1. Span - 1 \in 0..(Span - 1)
    BY <1>1
  <2>2. d + (Span - 1) = Span * (k - m + 1) /\ k - m + 1 \in Int
    BY <1>1, <1>2, <1>4, <1>7
  <2> QED
    BY <1>3, <2>1, <2>2, ToCheckIs
<1> QED
  BY <1>6, <1>7

\* A tick that requests transfers has a slot whose number is a multiple of a span.
LEMMA CheckTick ==
    ASSUME NEW c \in Tick32, ToCheck(c) = 0
    PROVE  (c % NumQueues) % Span = 0
<1>1. c \in Int /\ Span \in Nat \ {0} /\ NumQueues = 2 * Span /\ NumQueues \in Nat \ {0}
  BY Sizes, Constants DEF Tick32
<1>2. PICK k \in Int : c = Span * k
  <2>1. PICK k \in Int : c + ToCheck(c) = Span * k
    BY ToCheckIs
  <2> QED
    BY <1>1, <2>1
<1>3. PICK j \in Int : c = (NumQueues * j) + (c % NumQueues)
  BY <1>1, ModHas
<1>4. PICK i \in Int : i = c % NumQueues
  BY <1>1, ModHas
<1>5. i = Span * (k - 2 * j) + 0 /\ k - 2 * j \in Int
  <2>1. Span * k = ((2 * Span) * j) + i
    BY <1>1, <1>2, <1>3, <1>4
  <2>2. Span * (k - 2 * j) = Span * k - (2 * Span) * j
    BY <1>1
  <2>3. Span * k \in Int /\ (2 * Span) * j \in Int /\ Span * (k - 2 * j) \in Int
        /\ k - 2 * j \in Int
    BY <1>1
  <2>4. i = Span * (k - 2 * j)
    BY <2>1, <2>2, <2>3
  <2> QED
    BY <2>3, <2>4
<1>6. 0 \in 0..(Span - 1)
  BY <1>1
<1> QED
  BY <1>1, <1>4, <1>5, <1>6, ModIs

\* IdleTime leaves the check before the span of an ordered timer's trigger time.
LEMMA BeforeTransfer ==
    ASSUME NEW r \in QState, NEW t \in Timer, NEW n \in 1..(Modulus - 1),
           NEW tt, tt = r.triggerTime[t],
           n =< AsInt(Minus(tt - (tt % Span) - Span, r.msCount)),
           Remain(r, t) - 2 * Span + 1 >= -Half
    PROVE  /\ Remain(r, t) - n >= Span
           /\ Remain(r, t) - n - ToCheck((r.msCount + n) % Modulus) >= Span
<1> DEFINE c == r.msCount
           d == (c + n) % Modulus
           nc == ToCheck(d)
<1>1. tt \in Tick32 /\ tt \in Int /\ c \in Tick32 /\ c \in Int
  BY Fields DEF Tick32
<1>2. Half \in Nat \ {0} /\ Modulus = 2 * Half /\ Modulus \in Nat /\ Span \in Nat \ {0}
  BY Sizes
<1>3. PICK v \in (-Half)..(Half - 1) : v = Remain(r, t)
  BY RemainIs
<1>4. PICK e \in {-1, 0, 1} : tt - c = v + e * Modulus
  BY <1>3, RemainIs
<1>5. PICK y \in 0..(Span - 1), j \in Int : tt % Span = y /\ tt = Span * j + y
  <2>1. tt % Span \in 0..(Span - 1) /\ \E j \in Int : tt = (Span * j) + (tt % Span)
    BY <1>1, <1>2, ModHas
  <2> QED
    BY <2>1
<1>6. AsInt(Minus(tt - (tt % Span) - Span, r.msCount)) = v - y - Span
  <2> DEFINE x == tt - y - Span - c
  <2>1. v - y - Span \in (-Half)..(Half - 1)
    BY <1>2, <1>3, <1>5
  <2>4. e * Modulus \in Int /\ y \in Int /\ v \in Int /\ Span \in Int
        /\ tt - c = v + e * Modulus
    BY <1>2, <1>4, <1>5
  <2>2. x \in Int /\ x = (v - y - Span) + e * Modulus
    BY <1>1, <2>4
  <2>3. AsInt(x % Modulus) = v - y - Span
    BY <2>1, <2>2, AsIntIs
  <2> QED
    BY <1>5, <2>3 DEF Minus
<1>7. v - n >= Span + y
  BY <1>2, <1>3, <1>5, <1>6
<1>8. PICK m \in Int : d = c + n - Span * m
  <2>1. n \in 0..(Modulus - 1)
    BY <1>2
  <2> QED
    BY <1>1, <2>1, CountSpans
<1>9. d \in Tick32
  <2>1. c + n \in Int
    BY <1>1, <1>2
  <2> QED
    BY <2>1, Constants
<1>10. nc \in 0..(Span - 1)
  BY <1>9, ToCheckIs
<1>11. PICK k \in Int : d + nc = Span * k
  BY <1>9, ToCheckIs
<1>12. PICK h \in Int : e * Modulus = Span * h
  <2>1. PICK l \in Nat : Modulus = Span * (4 * l)
    BY Sizes
  <2>2. e * Modulus = Span * (e * (4 * l)) /\ e * (4 * l) \in Int
    BY <1>2, <2>1
  <2> QED
    BY <2>2
<1> HIDE DEF c, d, nc
<1>13. PICK z \in Int : v - n - nc = Span * z + y
  <2> DEFINE z == j - h - k - m
  <2>1. z \in Int
    OBVIOUS
  <2>2. Span * z = Span * j - Span * h - Span * k - Span * m
    BY <1>2
  <2>3. /\ Span * j \in Int /\ Span * h \in Int /\ Span * k \in Int /\ Span * m \in Int
    BY <1>2
  <2> HIDE DEF z
  <2>4. v - n - nc = Span * z + y
    <3>1. v = Span * j + y - c - Span * h
      BY <1>1, <1>3, <1>4, <1>5, <1>12, <2>3
    <3>2. n = d - c + Span * m
      BY <1>1, <1>8, <1>9, <2>3 DEF Tick32
    <3>3. nc = Span * k - d
      BY <1>9, <1>10, <1>11, <2>3 DEF Tick32
    <3> QED
      BY <1>1, <1>9, <2>2, <2>3, <3>1, <3>2, <3>3 DEF Tick32
  <2> QED
    BY <2>1, <2>4
<1>14. Span * z > 0
  <2>1. Span * z \in Int
    BY <1>2
  <2> QED
    BY <1>2, <1>3, <1>5, <1>7, <1>10, <1>13, <2>1
<1>15. Span * z >= Span
  <2>1. \A a \in Nat \ {0}, b \in Int : a * b > 0 => b >= 1
    OBVIOUS
  <2>2. z >= 1
    BY <1>2, <1>14, <2>1
  <2>3. \A a \in Nat \ {0}, b \in Int : b >= 1 => a * b >= a
    OBVIOUS
  <2> QED
    BY <1>2, <2>2, <2>3
<1>16. v - n - nc >= Span
  <2>1. Span * z \in Int
    BY <1>2
  <2> QED
    BY <1>2, <1>5, <1>13, <1>15, <2>1
<1> QED
  BY <1>2, <1>3, <1>5, <1>7, <1>16 DEF c, d, nc

-----------------------------------------------------------------------------
\* The steps keep the queues exact

\* The queues are exact between any two steps, and the DFC's locals can be relied on.
QIInv ==
    /\ Exact(q, {})
    /\ Pointers(q, dfc, pC, pN)
    /\ isr \in {"off", "callback"} /\ doDfc \in BOOLEAN
    /\ dfc \in {"off", "ordered", "holding", "walk", "critical", "completed"}
    /\ pC \in Timer \cup {Null} /\ pN \in Timer \cup {Null}
    /\ waiting \in -1..MaxLatency /\ running \in -1..MaxLatency
    /\ isr = "off" => q.expired = <<>>

\* Steps that neither touch a timer in transfer or critical, nor make one so.
LEMMA PointersSame ==
    ASSUME NEW r \in QState, NEW s, NEW d, NEW c, NEW n, Pointers(r, d, c, n),
           s.transCancelled <=> r.transCancelled, s.critCancelled <=> r.critCancelled,
           \A u \in Timer : \/ s.state[u] = r.state[u]
                            \/ {s.state[u], r.state[u]}
                                   \cap {"ETransferring", "ECritical"} = {}
    PROVE  Pointers(s, d, c, n)
<1>1. \A u \in Timer : /\ s.state[u] = "ETransferring" <=> r.state[u] = "ETransferring"
                       /\ s.state[u] = "ECritical" <=> r.state[u] = "ECritical"
  OBVIOUS
<1> QED
  BY <1>1 DEF Pointers

\* Nothing changes for the timers other than t.
Same(r, s, t) ==
    /\ s.msCount = r.msCount
    /\ \A u \in Timer : u # t =>
           /\ s.state[u] = r.state[u] /\ s.triggerTime[u] = r.triggerTime[u]
           /\ u \in Range(s.expired) <=> u \in Range(r.expired)
           /\ u \in Range(s.completed) <=> u \in Range(r.completed)

\* Timer t is started.
Started(r, s, t) ==
    /\ Same(r, s, t) /\ r.state[t] = "EIdle"
    /\ s.ordered = r.ordered /\ s.expired = r.expired /\ s.completed = r.completed
    /\ Remain(s, t) \in 0..(Half - 1)
    /\ \/ s.state[t] = "EFinal" /\ Remain(s, t) < NumQueues
       \/ s.state[t] = "EHolding" /\ ~(Remain(s, t) < NumQueues)

\* Timer t has its callback, and is idle.
CalledBack(r, s, t) ==
    /\ Same(r, s, t) /\ r.state[t] = "EFinal" /\ s.state[t] = "EIdle"
    /\ t \in Range(r.expired) \cup Range(r.completed) /\ s.ordered = r.ordered

\* The age of the request for the DFC, also of one that the interrupt has yet to make.
Asked == IF isr = "callback" /\ doDfc THEN QueueDfc(waiting) ELSE waiting

\* NTimer::OneShot starts an idle timer.
LEMMA OneShotKeeps ==
    ASSUME QIInv, NEW t \in Timer, NEW n \in Delay, NEW inDfc \in InDfc, OneShot(t, n, inDfc)
    PROVE  QIInv' /\ Started(q, q', t)
<1>1. /\ q.state[t] = "EIdle" /\ isr' = isr /\ doDfc' = doDfc /\ dfc' = dfc
      /\ pC' = pC /\ pN' = pN /\ waiting' = waiting /\ running' = running
  BY DEF OneShot
<1>2. PICK d : d = [q EXCEPT !.inDfc[t] = inDfc, !.triggerTime[t] = (q.msCount + n) % Modulus]
  OBVIOUS
<1>3. q' = AddTimer(d, t)
  BY <1>2 DEF OneShot
<1>4. Exact(q, {}) /\ q \in QState
  BY DEF QIInv, Exact
<1>5. (q.msCount + n) % Modulus \in Tick32 /\ inDfc \in BOOLEAN
  <2>1. q.msCount \in Int
    BY <1>4, Fields DEF Tick32
  <2>2. n \in Int /\ inDfc \in BOOLEAN
    BY TimerAssumption
  <2>3. q.msCount + n \in Int
    BY <2>1, <2>2
  <2> QED
    BY <2>2, <2>3, Constants
<1>6. /\ d \in QState /\ d.state = q.state
      /\ d.holding = q.holding /\ d.ordered = q.ordered /\ d.intQ = q.intQ
      /\ d.dfcQ = q.dfcQ /\ d.expired = q.expired /\ d.completed = q.completed
      /\ d.present = q.present /\ d.msCount = q.msCount
      /\ d.transCancelled = q.transCancelled /\ d.critCancelled = q.critCancelled
      /\ \A u \in Timer : u # t => d.triggerTime[u] = q.triggerTime[u]
  BY <1>2, <1>4, <1>5 DEF QState
<1>7. Exact(d, {t})
  <2>1. Exact(q, {t})
    BY <1>1, <1>4, NoQueue
  <2>2. \A u \in Timer : u \notin {t} => SlotOf(d, u) = SlotOf(q, u)
    BY <1>6 DEF SlotOf
  <2>3. \A u \in Timer : u \notin {t} =>
            \/ d.state[u] = q.state[u]
            \/ {d.state[u], q.state[u]} \subseteq {"EOrdered", "ECritical"}
            \/ {d.state[u], q.state[u]} \subseteq {"EIdle", "ETransferring"}
    BY <1>6
  <2> QED
    BY <1>6, <2>1, <2>2, <2>3, ExactFrame
<1>10. /\ Exact(q', {})
       /\ \E x \in {"EFinal", "EHolding"} : q'.state = [d.state EXCEPT ![t] = x]
       /\ Remain(d, t) < NumQueues => q'.state = [d.state EXCEPT ![t] = "EFinal"]
       /\ ~(Remain(d, t) < NumQueues) => q'.state = [d.state EXCEPT ![t] = "EHolding"]
       /\ q'.ordered = d.ordered /\ q'.expired = d.expired
       /\ q'.completed = d.completed
       /\ q'.msCount = d.msCount /\ q'.triggerTime = d.triggerTime
       /\ q'.transCancelled = d.transCancelled /\ q'.critCancelled = d.critCancelled
  <2>1. PICK m : m = AddTimer(d, t)
    OBVIOUS
  <2>2. t \in Timer
    BY Constants
  <2>3. /\ Exact(m, {})
        /\ \E x \in {"EFinal", "EHolding"} : m.state = [d.state EXCEPT ![t] = x]
        /\ Remain(d, t) < NumQueues => m.state = [d.state EXCEPT ![t] = "EFinal"]
        /\ ~(Remain(d, t) < NumQueues) => m.state = [d.state EXCEPT ![t] = "EHolding"]
        /\ m.ordered = d.ordered /\ m.expired = d.expired
        /\ m.completed = d.completed
        /\ m.msCount = d.msCount /\ m.triggerTime = d.triggerTime
        /\ m.transCancelled = d.transCancelled /\ m.critCancelled = d.critCancelled
    BY <1>7, <2>1, <2>2, AddTimerExact
  <2> QED
    BY <1>3, <2>1, <2>3
<1>8. /\ Exact(q', {})
      /\ \E x \in {"EFinal", "EHolding"} : q'.state = [d.state EXCEPT ![t] = x]
      /\ q'.expired = d.expired
      /\ q'.transCancelled = d.transCancelled /\ q'.critCancelled = d.critCancelled
  BY <1>10
<1>9. Pointers(q', dfc, pC, pN)
  <2>1. q.state \in [Timer -> TState] /\ Pointers(q, dfc, pC, pN)
    BY <1>4, Fields DEF QIInv
  <2>2. \A u \in Timer : \/ q'.state[u] = q.state[u]
                         \/ {q'.state[u], q.state[u]}
                                \cap {"ETransferring", "ECritical"} = {}
    BY <1>1, <1>6, <1>8, <2>1
  <2> QED
    BY <1>4, <1>6, <1>8, <2>1, <2>2, PointersSame
<1>12. Remain(d, t) \in 0..(Half - 1)
  <2>1. n \in 0..(Half - 1)
    BY TimerAssumption DEF Half
  <2>2. d.triggerTime[t] = (d.msCount + n) % Modulus
    BY <1>2, <1>4, <1>6 DEF QState
  <2> QED
    BY <1>6, <2>1, <2>2, RemainNew
<1>11. Started(q, q', t)
  <2>1. d.state \in [Timer -> TState] /\ t \in Timer
    BY <1>6, Fields, Constants
  <2>2. Remain(q', t) = Remain(d, t)
    BY <1>10 DEF Remain
  <2>3. \A u \in Timer : u # t => q'.state[u] = q.state[u]
    BY <1>6, <1>10, <2>1
  <2>4. Same(q, q', t)
    BY <1>6, <1>10, <2>3 DEF Same
  <2>5. \/ q'.state[t] = "EFinal" /\ Remain(d, t) < NumQueues
        \/ q'.state[t] = "EHolding" /\ ~(Remain(d, t) < NumQueues)
    BY <1>10, <2>1
  <2> QED
    BY <1>1, <1>6, <1>10, <1>12, <2>2, <2>4, <2>5 DEF Started
<1> QED
  BY <1>1, <1>6, <1>8, <1>9, <1>11 DEF QIInv

\* NTimer::Again starts a timer again from its callback.
LEMMA AgainKeeps ==
    ASSUME QIInv, NEW t \in Periodic, NEW n \in Delay, Again(t, n)
    PROVE  QIInv' /\ Started(q, q', t)
<1> DEFINE trigger == (q.triggerTime[t] + n) % Modulus
<1>1. /\ q.state[t] = "EIdle" /\ isr' = isr /\ doDfc' = doDfc /\ dfc' = dfc
      /\ pC' = pC /\ pN' = pN /\ waiting' = waiting /\ running' = running
      /\ t \in Timer
  BY Constants DEF Again
<1>2. PICK d : d = [q EXCEPT !.triggerTime[t] = trigger]
  OBVIOUS
<1>3. q' = AddTimer(d, t)
  BY <1>2 DEF Again
<1>4. Exact(q, {}) /\ q \in QState
  BY DEF QIInv, Exact
<1>5. trigger \in Tick32
  <2>1. q.triggerTime[t] \in Int
    BY <1>1, <1>4, Fields DEF Tick32
  <2>2. n \in Int
    BY TimerAssumption
  <2>3. q.triggerTime[t] + n \in Int
    BY <2>1, <2>2
  <2> QED
    BY <2>3, Constants
<1> HIDE DEF trigger
<1>6. /\ d \in QState /\ d.state = q.state
      /\ d.holding = q.holding /\ d.ordered = q.ordered /\ d.intQ = q.intQ
      /\ d.dfcQ = q.dfcQ /\ d.expired = q.expired /\ d.completed = q.completed
      /\ d.present = q.present /\ d.msCount = q.msCount
      /\ d.transCancelled = q.transCancelled /\ d.critCancelled = q.critCancelled
      /\ \A u \in Timer : u # t => d.triggerTime[u] = q.triggerTime[u]
  BY <1>1, <1>2, <1>4, <1>5 DEF QState
<1>7. Exact(d, {t})
  <2>1. Exact(q, {t})
    BY <1>1, <1>4, NoQueue
  <2>2. \A u \in Timer : u \notin {t} => SlotOf(d, u) = SlotOf(q, u)
    BY <1>6 DEF SlotOf
  <2>3. \A u \in Timer : u \notin {t} =>
            \/ d.state[u] = q.state[u]
            \/ {d.state[u], q.state[u]} \subseteq {"EOrdered", "ECritical"}
            \/ {d.state[u], q.state[u]} \subseteq {"EIdle", "ETransferring"}
    BY <1>6
  <2> QED
    BY <1>6, <2>1, <2>2, <2>3, ExactFrame
<1>10. /\ Exact(q', {})
       /\ \E x \in {"EFinal", "EHolding"} : q'.state = [d.state EXCEPT ![t] = x]
       /\ Remain(d, t) < NumQueues => q'.state = [d.state EXCEPT ![t] = "EFinal"]
       /\ ~(Remain(d, t) < NumQueues) => q'.state = [d.state EXCEPT ![t] = "EHolding"]
       /\ q'.ordered = d.ordered /\ q'.expired = d.expired
       /\ q'.completed = d.completed
       /\ q'.msCount = d.msCount /\ q'.triggerTime = d.triggerTime
       /\ q'.transCancelled = d.transCancelled /\ q'.critCancelled = d.critCancelled
  <2>1. PICK m : m = AddTimer(d, t)
    OBVIOUS
  <2>2. t \in Timer
    BY Constants
  <2>3. /\ Exact(m, {})
        /\ \E x \in {"EFinal", "EHolding"} : m.state = [d.state EXCEPT ![t] = x]
        /\ Remain(d, t) < NumQueues => m.state = [d.state EXCEPT ![t] = "EFinal"]
        /\ ~(Remain(d, t) < NumQueues) => m.state = [d.state EXCEPT ![t] = "EHolding"]
        /\ m.ordered = d.ordered /\ m.expired = d.expired
        /\ m.completed = d.completed
        /\ m.msCount = d.msCount /\ m.triggerTime = d.triggerTime
        /\ m.transCancelled = d.transCancelled /\ m.critCancelled = d.critCancelled
    BY <1>7, <2>1, <2>2, AddTimerExact
  <2> QED
    BY <1>3, <2>1, <2>3
<1>8. /\ Exact(q', {})
      /\ \E x \in {"EFinal", "EHolding"} : q'.state = [d.state EXCEPT ![t] = x]
      /\ q'.expired = d.expired
      /\ q'.transCancelled = d.transCancelled /\ q'.critCancelled = d.critCancelled
  BY <1>10
<1>9. Pointers(q', dfc, pC, pN)
  <2>1. q.state \in [Timer -> TState] /\ Pointers(q, dfc, pC, pN)
    BY <1>4, Fields DEF QIInv
  <2>2. \A u \in Timer : \/ q'.state[u] = q.state[u]
                         \/ {q'.state[u], q.state[u]}
                                \cap {"ETransferring", "ECritical"} = {}
    BY <1>1, <1>6, <1>8, <2>1
  <2> QED
    BY <1>4, <1>6, <1>8, <2>1, <2>2, PointersSame
<1>12. Remain(d, t) \in 0..(Half - 1)
  <2>1. d.triggerTime[t] = trigger /\ d.msCount = q.msCount
    BY <1>1, <1>2, <1>4 DEF QState
  <2>2. Minus(trigger, q.msCount) < Half
    BY DEF Again, trigger
  <2>7. trigger \in Int
    BY <1>5 DEF Tick32
  <2>8. q.msCount \in Int
    BY <1>4 DEF QState, Tick32
  <2>9. Modulus \in Nat \ {0}
    BY Constants
  <2>3. trigger - q.msCount \in Int /\ Modulus \in Nat \ {0}
    BY <2>7, <2>8, <2>9
  <2>4. Minus(trigger, q.msCount) \in 0..(Modulus - 1)
    BY <2>3, ModHas DEF Minus
  <2>5. Remain(d, t) = Minus(trigger, q.msCount)
    BY <2>1, <2>2 DEF Remain, AsInt
  <2>6. Half \in Nat
    BY Sizes
  <2> QED
    BY <2>2, <2>3, <2>4, <2>5, <2>6
<1>11. Started(q, q', t)
  <2>1. d.state \in [Timer -> TState] /\ t \in Timer
    BY <1>6, Fields, Constants
  <2>2. Remain(q', t) = Remain(d, t)
    BY <1>10 DEF Remain
  <2>3. \A u \in Timer : u # t => q'.state[u] = q.state[u]
    BY <1>6, <1>10, <2>1
  <2>4. Same(q, q', t)
    BY <1>6, <1>10, <2>3 DEF Same
  <2>5. \/ q'.state[t] = "EFinal" /\ Remain(d, t) < NumQueues
        \/ q'.state[t] = "EHolding" /\ ~(Remain(d, t) < NumQueues)
    BY <1>10, <2>1
  <2> QED
    BY <1>1, <1>6, <1>10, <1>12, <2>2, <2>4, <2>5 DEF Started
<1> QED
  BY <1>1, <1>6, <1>8, <1>9, <1>11 DEF QIInv

\* NTimer::Cancel makes a timer idle; a transfer or a walk that has it is told.
LEMMA CancelKeeps ==
    ASSUME QIInv, NEW t \in Timer, Cancel(t)
    PROVE  QIInv'
<1>1. /\ isr' = isr /\ doDfc' = doDfc /\ dfc' = dfc /\ q' = CancelTimer(q, t)
      /\ pC' = pC /\ pN' = pN /\ waiting' = waiting /\ running' = running
  BY DEF Cancel
<1>2. Exact(q, {}) /\ q \in QState /\ Pointers(q, dfc, pC, pN)
      /\ q.state \in [Timer -> TState]
  BY Fields DEF QIInv, Exact
<1>3. /\ Exact(q', {}) /\ q'.state = [q.state EXCEPT ![t] = "EIdle"]
      /\ q'.expired = Drop(q.expired, t)
      /\ q'.transCancelled <=> q.transCancelled \/ q.state[t] = "ETransferring"
      /\ q'.critCancelled <=> q.critCancelled \/ q.state[t] = "ECritical"
  BY <1>1, <1>2, CancelExact
<1>4. Drop(<<>>, t) = <<>>
  BY DEF Drop, Range
<1>5. Pointers(q', dfc, pC, pN)
  <2>1. \A u \in Timer : q'.state[u] = IF u = t THEN "EIdle" ELSE q.state[u]
    BY <1>2, <1>3
  <2> QED
    BY <1>2, <1>3, <2>1 DEF Pointers
<1> QED
  BY <1>1, <1>3, <1>4, <1>5 DEF QIInv

-----------------------------------------------------------------------------
\* What making a timer idle changes.
LEMMA MakeIdleFields ==
    ASSUME NEW r \in QState, NEW t \in Timer
    PROVE  /\ MakeIdle(r, t).ordered = r.ordered /\ MakeIdle(r, t).expired = r.expired
           /\ MakeIdle(r, t).completed = r.completed /\ MakeIdle(r, t).msCount = r.msCount
           /\ \A u \in Timer : u # t => MakeIdle(r, t).triggerTime[u] = r.triggerTime[u]
<1>1. CASE t \in Periodic
  BY <1>1 DEF MakeIdle, QState
<1>2. CASE t \notin Periodic
  BY <1>2 DEF MakeIdle, QState
<1> QED
  BY <1>1, <1>2

\* From r to d the first timer of the expired or of the completed queue is taken off.
Popped(r, d, t) ==
    \/ /\ r.expired # <<>> /\ t = Head(r.expired)
       /\ d.expired = Tail(r.expired) /\ d.completed = r.completed
    \/ /\ r.completed # <<>> /\ t = Head(r.completed)
       /\ d.completed = Tail(r.completed) /\ d.expired = r.expired

\* It has its callback.
LEMMA CallbackIs ==
    ASSUME NEW r, Exact(r, {}), NEW t \in Timer, r.state[t] = "EFinal", NEW d, Popped(r, d, t),
           d.ordered = r.ordered, d.state = r.state, d.triggerTime = r.triggerTime,
           d.msCount = r.msCount, NEW s,
           s.ordered = d.ordered, s.expired = d.expired, s.completed = d.completed,
           s.msCount = d.msCount, s.state[t] = "EIdle",
           \A u \in Timer : u # t => s.state[u] = d.state[u]
                                     /\ s.triggerTime[u] = d.triggerTime[u]
    PROVE  CalledBack(r, s, t)
<1>1. /\ r.expired \in Seq(Timer) /\ Inj(r.expired)
      /\ r.completed \in Seq(Timer) /\ Inj(r.completed)
  BY Fields DEF Exact, Once
<1>2. /\ t \in Range(r.expired) \cup Range(r.completed)
      /\ \A u \in Timer : u # t =>
            /\ u \in Range(s.expired) <=> u \in Range(r.expired)
            /\ u \in Range(s.completed) <=> u \in Range(r.completed)
  <2>1. CASE /\ r.expired # <<>> /\ t = Head(r.expired)
             /\ d.expired = Tail(r.expired) /\ d.completed = r.completed
    <3>1. t \in Range(r.expired) /\ Range(Tail(r.expired)) = Range(r.expired) \ {t}
      BY <1>1, <2>1, TailQueue
    <3> QED
      BY <2>1, <3>1
  <2>2. CASE /\ r.completed # <<>> /\ t = Head(r.completed)
             /\ d.completed = Tail(r.completed) /\ d.expired = r.expired
    <3>1. t \in Range(r.completed) /\ Range(Tail(r.completed)) = Range(r.completed) \ {t}
      BY <1>1, <2>2, TailQueue
    <3> QED
      BY <2>2, <3>1
  <2> QED
    BY <2>1, <2>2 DEF Popped
<1> QED
  BY <1>2 DEF CalledBack, Same

\* Tick's loop, from exact queues.
LEMMA IsrLoopKeeps ==
    ASSUME NEW r, Exact(r, {}), Pointers(r, dfc, pC, pN),
           NEW wanted \in BOOLEAN, NEW age \in -1..MaxLatency, IsrLoop(r, wanted, age)
    PROVE  /\ Exact(q', {}) /\ Pointers(q', dfc, pC, pN)
           /\ isr' \in {"off", "callback"} /\ doDfc' \in BOOLEAN
           /\ waiting' \in -1..MaxLatency
           /\ isr' = "off" => q'.expired = <<>>
           /\ q' = r \/ \E t \in Timer : CalledBack(r, q', t) /\ t \in Range(r.expired)
           /\ Asked' = IF wanted THEN QueueDfc(age) ELSE age
<1>1. CASE r.expired = <<>>
  <2>1. /\ q' = r /\ isr' = "off" /\ doDfc' = FALSE
        /\ waiting' = IF wanted THEN QueueDfc(age) ELSE age
    BY <1>1 DEF IsrLoop
  <2>2. waiting' \in -1..MaxLatency
    BY <2>1, TimerAssumption DEF QueueDfc
  <2>3. Asked' = IF wanted THEN QueueDfc(age) ELSE age
    BY <2>1 DEF Asked
  <2> QED
    BY <1>1, <2>1, <2>2, <2>3
<1>2. CASE r.expired # <<>>
  <2>1. PICK d : d = [r EXCEPT !.expired = Tail(@)]
    OBVIOUS
  <2>2. PICK t : t = Head(r.expired)
    OBVIOUS
  <2>3. /\ q' = MakeIdle(d, t) /\ isr' = "callback" /\ doDfc' = wanted
        /\ waiting' = age
    BY <1>2, <2>1, <2>2 DEF IsrLoop
  <2>4. r \in QState /\ r.state \in [Timer -> TState]
    BY Fields DEF Exact
  <2>5. /\ d \in QState /\ d.expired = Tail(r.expired)
        /\ d.completed = r.completed
        /\ d.holding = r.holding /\ d.ordered = r.ordered /\ d.intQ = r.intQ
        /\ d.dfcQ = r.dfcQ /\ d.state = r.state
        /\ d.triggerTime = r.triggerTime /\ d.msCount = r.msCount
        /\ d.present = r.present /\ d.transCancelled = r.transCancelled
        /\ d.critCancelled = r.critCancelled
    BY <1>2, <2>1, <2>4, TailFields
  <2>6. Exact(d, {t}) /\ t \in Timer /\ r.state[t] = "EFinal"
    BY <1>2, <2>2, <2>5, CallbackExact
  <2>7. /\ Exact(q', {}) /\ q'.state = [d.state EXCEPT ![t] = "EIdle"]
        /\ q'.transCancelled = d.transCancelled /\ q'.critCancelled = d.critCancelled
    BY <2>3, <2>6, MakeIdleExact
  <2>11. /\ q'.ordered = d.ordered /\ q'.expired = d.expired
         /\ q'.completed = d.completed /\ q'.msCount = d.msCount
         /\ \A u \in Timer : u # t => q'.triggerTime[u] = d.triggerTime[u]
    BY <2>3, <2>5, <2>6, MakeIdleFields
  <2>12. q'.state[t] = "EIdle" /\ \A u \in Timer : u # t => q'.state[u] = d.state[u]
    BY <2>4, <2>5, <2>6, <2>7
  <2>13. Popped(r, d, t)
    BY <1>2, <2>2, <2>5 DEF Popped
  <2>14. CalledBack(r, q', t)
    BY <2>5, <2>6, <2>11, <2>12, <2>13, CallbackIs
  <2>15. t \in Range(r.expired)
    <3>1. r.expired \in Seq(Timer) /\ t = r.expired[1] /\ 1 \in DOMAIN r.expired
      BY <1>2, <2>2, <2>4, Fields
    <3> QED
      BY <3>1 DEF Range
  <2>8. \A u \in Timer : \/ q'.state[u] = r.state[u]
                         \/ {q'.state[u], r.state[u]}
                                \cap {"ETransferring", "ECritical"} = {}
    BY <2>4, <2>5, <2>6, <2>7
  <2>9. Pointers(q', dfc, pC, pN)
    BY <2>4, <2>5, <2>7, <2>8, PointersSame
  <2>10. Asked' = IF wanted THEN QueueDfc(age) ELSE age
    BY <2>3 DEF Asked
  <2> QED
    BY <2>3, <2>6, <2>7, <2>9, <2>10, <2>14, <2>15
<1> QED
  BY <1>1, <1>2

\* What the first part of Tick makes of the queues, and whether it wants the DFC.
Ticked(r, s, wanted) ==
    LET i == r.msCount % NumQueues
    IN  /\ i \in Slot /\ s = TickQueues(r, i) /\ Exact(s, {})
        /\ s.msCount = (r.msCount + 1) % Modulus /\ s.expired = r.intQ[i]
        /\ s.holding = r.holding /\ s.ordered = r.ordered
        /\ s.state = r.state /\ s.triggerTime = r.triggerTime
        /\ r.expired = <<>> /\ Range(s.completed) = Range(r.completed) \cup Range(r.dfcQ[i])
        /\ wanted <=> \/ r.dfcQ[i] # <<>>
                      \/ i % (NumQueues \div 2) = 0 /\ TransferDue(s)

\* NTimerQ::Tick.
LEMMA TickKeeps ==
    ASSUME QIInv, Tick
    PROVE  /\ QIInv' /\ isr = "off" /\ waiting < MaxLatency /\ running < MaxLatency
           /\ running' = Older(running) /\ dfc' = dfc /\ pC' = pC /\ pN' = pN
           /\ \E r \in QState, wanted \in BOOLEAN :
                 /\ Ticked(q, r, wanted)
                 /\ q' = r \/ \E t \in Timer : CalledBack(r, q', t) /\ t \in Range(r.expired)
                 /\ Asked' = IF wanted THEN QueueDfc(Older(waiting)) ELSE Older(waiting)
<1> DEFINE i == q.msCount % NumQueues
<1>1. Exact(q, {}) /\ q \in QState /\ Pointers(q, dfc, pC, pN)
      /\ q.state \in [Timer -> TState] /\ q.expired = <<>>
  BY Fields DEF QIInv, Exact, Tick
<1>2. i \in Slot
  <2>1. q.msCount \in Int
    BY <1>1, Fields DEF Tick32
  <2> QED
    BY <2>1, Constants
<1>3. PICK r : r = TickQueues(q, i)
  OBVIOUS
<1>4. PICK wanted \in BOOLEAN :
          wanted <=> \/ q.dfcQ[i] # <<>>
                     \/ i % (NumQueues \div 2) = 0 /\ TransferDue(r)
  OBVIOUS
<1>5. /\ waiting < MaxLatency /\ running < MaxLatency
      /\ running' = Older(running) /\ dfc' = dfc /\ pC' = pC /\ pN' = pN
  BY DEF Tick
<1>6. IsrLoop(r, wanted, Older(waiting))
  BY <1>3, <1>4, Zenon DEF Tick, TickQueues, IsrLoop
<1>11. r \in QState /\ Ticked(q, r, wanted)
  <2>1. /\ Exact(r, {})
        /\ r.msCount = (q.msCount + 1) % Modulus /\ r.expired = q.intQ[i]
        /\ r.holding = q.holding /\ r.ordered = q.ordered
        /\ r.state = q.state /\ r.triggerTime = q.triggerTime
        /\ Range(r.completed) = Range(q.completed) \cup Range(q.dfcQ[i])
    BY <1>1, <1>2, <1>3, TickExact
  <2> QED
    BY <1>1, <1>2, <1>3, <1>4, <2>1 DEF Ticked, Exact
<1> HIDE DEF i
<1>7. Older(waiting) \in -1..MaxLatency /\ Older(running) \in -1..MaxLatency
  BY <1>5, TimerAssumption DEF Older, QIInv
<1>8. Exact(r, {}) /\ r.state = q.state
      /\ r.transCancelled = q.transCancelled /\ r.critCancelled = q.critCancelled
  BY <1>1, <1>2, <1>3, TickExact
<1>9. Pointers(r, dfc, pC, pN)
  BY <1>1, <1>8, PointersSame
<1>10. /\ Exact(q', {}) /\ Pointers(q', dfc, pC, pN)
       /\ isr' \in {"off", "callback"} /\ doDfc' \in BOOLEAN
       /\ waiting' \in -1..MaxLatency
       /\ isr' = "off" => q'.expired = <<>>
       /\ q' = r \/ \E t \in Timer : CalledBack(r, q', t) /\ t \in Range(r.expired)
       /\ Asked' = IF wanted THEN QueueDfc(Older(waiting)) ELSE Older(waiting)
  BY <1>6, <1>7, <1>8, <1>9, IsrLoopKeeps
<1>12. isr = "off"
  BY DEF Tick
<1>13. QIInv'
  BY <1>5, <1>7, <1>10 DEF QIInv
<1> QED
  BY <1>5, <1>10, <1>11, <1>12, <1>13

\* The tick interrupt goes on after a callback.
LEMMA TickGoesOnKeeps ==
    ASSUME QIInv, TickGoesOn
    PROVE  /\ QIInv'
           /\ running' = running /\ dfc' = dfc /\ pC' = pC /\ pN' = pN
           /\ q' = q \/ \E t \in Timer : CalledBack(q, q', t)
           /\ Asked' = Asked
<1>1. /\ IsrLoop(q, doDfc, waiting) /\ isr = "callback"
      /\ running' = running /\ dfc' = dfc /\ pC' = pC /\ pN' = pN
  BY DEF TickGoesOn
<1>2. Exact(q, {}) /\ Pointers(q, dfc, pC, pN) /\ doDfc \in BOOLEAN
      /\ waiting \in -1..MaxLatency
  BY DEF QIInv
<1>3. /\ Exact(q', {}) /\ Pointers(q', dfc, pC, pN)
      /\ isr' \in {"off", "callback"} /\ doDfc' \in BOOLEAN
      /\ waiting' \in -1..MaxLatency
      /\ isr' = "off" => q'.expired = <<>>
      /\ q' = q \/ \E t \in Timer : CalledBack(q, q', t)
      /\ Asked' = IF doDfc THEN QueueDfc(waiting) ELSE waiting
  BY <1>1, <1>2, IsrLoopKeeps
<1>4. Asked' = Asked
  BY <1>1, <1>2, <1>3 DEF Asked
<1>5. QIInv'
  BY <1>1, <1>3 DEF QIInv
<1> QED
  BY <1>1, <1>3, <1>4, <1>5

\* The timer DFC starts.
LEMMA DfcStartKeeps ==
    ASSUME QIInv, DfcStart
    PROVE  QIInv'
<1>1. /\ dfc = "off" /\ dfc' = "ordered" /\ running' = waiting /\ waiting' = -1
      /\ q' = q /\ isr' = isr /\ doDfc' = doDfc /\ pC' = pC /\ pN' = pN
  BY DEF DfcStart
<1>2. Pointers(q', dfc', pC', pN')
  BY <1>1 DEF QIInv, Pointers
<1> QED
  BY <1>1, <1>2, TimerAssumption DEF QIInv

\* A timer on the holding or the ordered queue is taken off it.
LEMMA DequeExact ==
    ASSUME NEW r, Exact(r, {}), NEW t \in Timer, r.state[t] # "EFinal",
           NEW d, d = Deque(r, t)
    PROVE  /\ Exact(d, {t}) /\ d.state = r.state /\ d.expired = Drop(r.expired, t)
           /\ d.completed = Drop(r.completed, t)
           /\ d.msCount = r.msCount /\ d.triggerTime = r.triggerTime
           /\ d.ordered = Drop(r.ordered, t)
           /\ d.transCancelled = r.transCancelled /\ d.critCancelled = r.critCancelled
<1>1. /\ d \in QState
      /\ d.holding = Drop(r.holding, t) /\ d.ordered = Drop(r.ordered, t)
      /\ d.expired = Drop(r.expired, t) /\ d.completed = Drop(r.completed, t)
      /\ d.intQ = [r.intQ EXCEPT ![SlotOf(r, t)] = Drop(@, t)]
      /\ d.dfcQ = [r.dfcQ EXCEPT ![SlotOf(r, t)] = Drop(@, t)]
      /\ d.state = r.state /\ d.triggerTime = r.triggerTime /\ d.inDfc = r.inDfc
      /\ d.msCount = r.msCount /\ d.present = r.present
      /\ d.transCancelled = r.transCancelled /\ d.critCancelled = r.critCancelled
  BY DequeFields
<1>2. /\ Once(d) /\ Nowhere(d, t)
      /\ \A u \in Timer : u # t => Place(d, u)
      /\ d.intQ = r.intQ /\ d.dfcQ = r.dfcQ
  BY DequeOnce
<1>3. PresentOK(d)
  BY <1>1, <1>2 DEF Exact, PresentOK
<1> QED
  BY <1>1, <1>2, <1>3 DEF Exact

\* Timer t is moved to the final queue of its tick.
ToFinal(r, s, t) ==
    /\ Same(r, s, t) /\ s.state[t] = "EFinal" /\ s.triggerTime = r.triggerTime
    /\ Remain(r, t) < NumQueues /\ s.ordered = Drop(r.ordered, t)
    /\ t \notin Range(s.expired) \cup Range(s.completed)

\* Timer t is taken from the holding queue, to be put on the ordered queue.
InTransfer(r, s, t) ==
    /\ Same(r, s, t) /\ r.state[t] = "EHolding" /\ s.state[t] = "ETransferring"
    /\ s.triggerTime = r.triggerTime /\ ~(Remain(r, t) < NumQueues)
    /\ s.ordered = Drop(r.ordered, t)
    /\ s.expired = Drop(r.expired, t) /\ s.completed = Drop(r.completed, t)

\* What taking a timer off its queue does not change.
LEMMA DroppedSame ==
    ASSUME NEW r, Exact(r, {}), NEW t \in Timer, NEW s,
           s.msCount = r.msCount, s.triggerTime = r.triggerTime,
           \A u \in Timer : u # t => s.state[u] = r.state[u],
           s.expired = Drop(r.expired, t), s.completed = Drop(r.completed, t)
    PROVE  Same(r, s, t) /\ t \notin Range(s.expired) \cup Range(s.completed)
<1>1. /\ r.expired \in Seq(Timer) /\ Inj(r.expired)
      /\ r.completed \in Seq(Timer) /\ Inj(r.completed)
  BY Fields DEF Exact, Once
<1>2. /\ Range(Drop(r.expired, t)) = Range(r.expired) \ {t}
      /\ Range(Drop(r.completed, t)) = Range(r.completed) \ {t}
  BY <1>1, DropQueue
<1> QED
  BY <1>2 DEF Same

\* The DFC moves the first ordered timer to a final queue, or has done so.
LEMMA OrderedToFinalKeeps ==
    ASSUME QIInv, OrderedToFinal
    PROVE  /\ QIInv' /\ dfc = "ordered" /\ Asked' = Asked
           /\ pC' = pC /\ pN' = pN /\ waiting' = waiting /\ running' = running
           /\ \/ /\ q' = q /\ dfc' = "holding"
                 /\ ~(q.ordered # <<>> /\ Remain(q, Head(q.ordered)) < NumQueues)
              \/ dfc' = dfc /\ \E t \in Timer : ToFinal(q, q', t) /\ q.state[t] = "EOrdered"
<1>1. /\ isr = "off" /\ dfc = "ordered" /\ isr' = isr /\ doDfc' = doDfc
      /\ pC' = pC /\ pN' = pN /\ waiting' = waiting /\ running' = running
  BY DEF OrderedToFinal
<1>2. Exact(q, {}) /\ q \in QState /\ Pointers(q, dfc, pC, pN)
      /\ q.state \in [Timer -> TState] /\ q.expired = <<>>
  BY <1>1, Fields DEF QIInv, Exact
<1>5. Asked' = Asked
  BY <1>1 DEF Asked
<1>3. CASE q.ordered # <<>> /\ Remain(q, Head(q.ordered)) < NumQueues
  <2>1. PICK t : t = Head(q.ordered)
    OBVIOUS
  <2>2. PICK d : d = Deque(q, t)
    OBVIOUS
  <2>3. q' = AddFinal(d, t) /\ dfc' = dfc
    BY <1>3, <2>1, <2>2 DEF OrderedToFinal
  <2>4. t \in Timer /\ q.state[t] \in {"EOrdered", "ECritical"}
    <3>1. q.ordered \in Seq(Timer) /\ Inj(q.ordered)
      BY <1>2, Fields DEF Exact, Once
    <3>2. t \in Range(q.ordered) /\ t \in Timer
      BY <1>3, <2>1, <3>1, TailQueue
    <3>3. Place(q, t)
      BY <1>2, <3>2 DEF Exact
    <3> QED
      BY <3>2, <3>3 DEF Place
  <2>5. q.state[t] = "EOrdered"
    BY <1>1, <1>2, <2>4 DEF Pointers
  <2>6. /\ Exact(d, {t}) /\ d.state = q.state /\ d.expired = Drop(q.expired, t)
        /\ d.completed = Drop(q.completed, t) /\ d.ordered = Drop(q.ordered, t)
        /\ d.msCount = q.msCount /\ d.triggerTime = q.triggerTime
        /\ d.transCancelled = q.transCancelled /\ d.critCancelled = q.critCancelled
    BY <1>2, <2>2, <2>4, <2>5, DequeExact
  <2>7. /\ Exact(q', {}) /\ q'.state = [d.state EXCEPT ![t] = "EFinal"]
        /\ q'.expired = d.expired /\ q'.completed = d.completed
        /\ q'.ordered = d.ordered /\ q'.msCount = d.msCount
        /\ q'.triggerTime = d.triggerTime
        /\ q'.transCancelled = d.transCancelled /\ q'.critCancelled = d.critCancelled
    BY <2>3, <2>4, <2>6, AddFinalExact
  <2>8. \A u \in Timer : \/ q'.state[u] = q.state[u]
                         \/ {q'.state[u], q.state[u]}
                                \cap {"ETransferring", "ECritical"} = {}
    BY <1>2, <2>5, <2>6, <2>7
  <2>9. Pointers(q', dfc, pC, pN)
    BY <1>2, <2>6, <2>7, <2>8, PointersSame
  <2>10. q'.expired = <<>>
    BY <1>2, <2>6, <2>7 DEF Drop, Range
  <2>11. ToFinal(q, q', t)
    <3>1. q'.state[t] = "EFinal" /\ \A u \in Timer : u # t => q'.state[u] = q.state[u]
      BY <1>2, <2>4, <2>6, <2>7
    <3>2. Same(q, q', t) /\ t \notin Range(q'.expired) \cup Range(q'.completed)
      BY <1>2, <2>4, <2>6, <2>7, <3>1, DroppedSame
    <3>3. Remain(q, t) < NumQueues
      BY <1>3, <2>1
    <3> QED
      BY <2>6, <2>7, <3>1, <3>2, <3>3 DEF ToFinal
  <2>12. QIInv'
    BY <1>1, <2>3, <2>7, <2>9, <2>10 DEF QIInv
  <2> QED
    BY <1>1, <1>5, <2>3, <2>4, <2>5, <2>11, <2>12
<1>4. CASE ~(q.ordered # <<>> /\ Remain(q, Head(q.ordered)) < NumQueues)
  <2>1. q' = q /\ dfc' = "holding"
    BY <1>4 DEF OrderedToFinal
  <2>2. Pointers(q', dfc', pC', pN')
    BY <1>1, <1>2, <2>1 DEF Pointers
  <2>3. QIInv'
    BY <1>1, <2>1, <2>2 DEF QIInv
  <2> QED
    BY <1>1, <1>4, <1>5, <2>1, <2>3
<1> QED
  BY <1>3, <1>4

\* The second loop has taken t off the holding queue.
LEMMA TransferExact ==
    ASSUME NEW d, NEW t \in Timer, Exact(d, {t}), NEW s \in QState,
           \A u \in Timer : u # t => s.state[u] = d.state[u],
           s.holding = d.holding, s.ordered = d.ordered, s.intQ = d.intQ,
           s.dfcQ = d.dfcQ, s.expired = d.expired, s.completed = d.completed,
           s.present = d.present, s.triggerTime = d.triggerTime
    PROVE  Exact(s, {t})
<1>2. \A u \in Timer : u \notin {t} => SlotOf(s, u) = SlotOf(d, u)
  BY DEF SlotOf
<1>3. \A u \in Timer : u \notin {t} =>
          \/ s.state[u] = d.state[u]
          \/ {s.state[u], d.state[u]} \subseteq {"EOrdered", "ECritical"}
          \/ {s.state[u], d.state[u]} \subseteq {"EIdle", "ETransferring"}
  OBVIOUS
<1> QED
  BY <1>2, <1>3, ExactFrame

\* The DFC takes the next timer off the holding queue, or has done so.
LEMMA TakeFromHoldingKeeps ==
    ASSUME QIInv, TakeFromHolding
    PROVE  /\ QIInv' /\ dfc = "holding" /\ Asked' = Asked
           /\ pN' = pN /\ waiting' = waiting
           /\ \/ /\ q.holding = <<>> /\ q' = q /\ dfc' = "completed" /\ running' = -1
              \/ /\ dfc' = dfc /\ running' = running
                 /\ \E t \in Timer : ToFinal(q, q', t) /\ q.state[t] = "EHolding"
              \/ /\ dfc' = "walk" /\ running' = running
                 /\ \E t \in Timer : InTransfer(q, q', t)
<1>1. /\ isr = "off" /\ dfc = "holding" /\ isr' = isr /\ doDfc' = doDfc
      /\ pN' = pN /\ waiting' = waiting
  BY DEF TakeFromHolding
<1>2. Exact(q, {}) /\ q \in QState /\ Pointers(q, dfc, pC, pN)
      /\ q.state \in [Timer -> TState] /\ q.expired = <<>>
  BY <1>1, Fields DEF QIInv, Exact
<1>5. Asked' = Asked
  BY <1>1 DEF Asked
<1>3. CASE q.holding = <<>>
  <2>1. q' = q /\ dfc' = "completed" /\ running' = -1 /\ pC' = pC
    BY <1>3 DEF TakeFromHolding
  <2>2. Pointers(q', dfc', pC', pN')
    BY <1>1, <1>2, <2>1 DEF Pointers
  <2>3. QIInv'
    BY <1>1, <2>1, <2>2, TimerAssumption DEF QIInv
  <2> QED
    BY <1>1, <1>3, <1>5, <2>1, <2>3
<1>4. CASE q.holding # <<>>
  <2>1. PICK t : t = Head(q.holding)
    OBVIOUS
  <2>2. PICK d : d = Deque(q, t)
    OBVIOUS
  <2>3. PICK s : s = [d EXCEPT !.state[t] = "ETransferring", !.transCancelled = FALSE]
    OBVIOUS
  <2>4. t \in Timer /\ q.state[t] = "EHolding"
    <3>1. q.holding \in Seq(Timer) /\ Inj(q.holding)
      BY <1>2, Fields DEF Exact, Once
    <3>2. t \in Range(q.holding) /\ t \in Timer
      BY <1>4, <2>1, <3>1, TailQueue
    <3>3. Place(q, t)
      BY <1>2, <3>2 DEF Exact
    <3> QED
      BY <3>2, <3>3 DEF Place
  <2>5. /\ Exact(s, {t}) /\ s.state = [q.state EXCEPT ![t] = "ETransferring"]
        /\ s.expired = Drop(q.expired, t) /\ s.completed = Drop(q.completed, t)
        /\ s.ordered = Drop(q.ordered, t)
        /\ s.msCount = q.msCount /\ s.triggerTime = q.triggerTime
        /\ ~s.transCancelled /\ s.critCancelled = q.critCancelled
    <3>1. /\ Exact(d, {t}) /\ d.state = q.state /\ d.expired = Drop(q.expired, t)
          /\ d.completed = Drop(q.completed, t) /\ d.ordered = Drop(q.ordered, t)
          /\ d.msCount = q.msCount /\ d.triggerTime = q.triggerTime
          /\ d.critCancelled = q.critCancelled
      BY <1>2, <2>2, <2>4, DequeExact
    <3>2. d \in QState
      BY <3>1 DEF Exact
    <3>3. /\ s \in QState /\ s.state = [d.state EXCEPT ![t] = "ETransferring"]
          /\ s.holding = d.holding /\ s.ordered = d.ordered /\ s.intQ = d.intQ
          /\ s.dfcQ = d.dfcQ /\ s.expired = d.expired /\ s.completed = d.completed
          /\ s.present = d.present /\ s.triggerTime = d.triggerTime
          /\ s.msCount = d.msCount
          /\ s.transCancelled = FALSE /\ s.critCancelled = d.critCancelled
      <4>1. [d.state EXCEPT ![t] = "ETransferring"] \in [Timer -> TState]
        BY <3>2, Fields DEF TState
      <4>2. s \in QState
        BY <2>3, <3>2, <4>1 DEF QState
      <4> QED
        BY <2>3, <3>2, <4>2 DEF QState
    <3>4. \A u \in Timer : u # t => s.state[u] = d.state[u]
      BY <3>2, <3>3, Fields
    <3>5. Exact(s, {t})
      BY <2>4, <3>1, <3>3, <3>4, TransferExact
    <3> QED
      BY <3>1, <3>3, <3>5
  <2>6. s.expired = <<>>
    BY <1>2, <2>5 DEF Drop, Range
  <2>7. \A u \in Timer : q.state[u] \notin {"ETransferring", "ECritical"}
    BY <1>1, <1>2 DEF Pointers
  <2>8. running' = running
    BY <1>4 DEF TakeFromHolding
  <2>9. CASE Remain(q, t) < NumQueues
    <3>1. q' = AddFinal(s, t) /\ dfc' = dfc /\ pC' = pC
      BY <1>4, <2>1, <2>2, <2>3, <2>9 DEF TakeFromHolding
    <3>2. /\ Exact(q', {}) /\ q'.state = [s.state EXCEPT ![t] = "EFinal"]
          /\ q'.expired = s.expired /\ q'.completed = s.completed
          /\ q'.ordered = s.ordered /\ q'.msCount = s.msCount
          /\ q'.triggerTime = s.triggerTime
      BY <2>4, <2>5, <3>1, AddFinalExact
    <3>3. \A u \in Timer : q'.state[u] \notin {"ETransferring", "ECritical"}
      BY <1>2, <2>5, <2>7, <3>2
    <3>4. Pointers(q', dfc', pC', pN')
      BY <1>1, <3>1, <3>3 DEF Pointers
    <3>5. q'.state[t] = "EFinal" /\ \A u \in Timer : u # t => q'.state[u] = q.state[u]
      BY <1>2, <2>4, <2>5, <3>2
    <3>6. Same(q, q', t) /\ t \notin Range(q'.expired) \cup Range(q'.completed)
      BY <1>2, <2>4, <2>5, <3>2, <3>5, DroppedSame
    <3>7. ToFinal(q, q', t)
      BY <2>5, <2>9, <3>2, <3>5, <3>6 DEF ToFinal
    <3>8. QIInv'
      BY <1>1, <2>6, <2>8, <3>1, <3>2, <3>4 DEF QIInv
    <3> QED
      BY <1>1, <1>5, <2>4, <2>8, <3>1, <3>7, <3>8
  <2>10. CASE ~(Remain(q, t) < NumQueues)
    <3>1. q' = s /\ dfc' = "walk" /\ pC' = t
      BY <1>4, <2>1, <2>2, <2>3, <2>10 DEF TakeFromHolding
    <3>2. Exact(q', {})
      <4>1. s.state[t] = "ETransferring"
        BY <1>2, <2>4, <2>5
      <4> QED
        BY <2>4, <2>5, <3>1, <4>1, OnNoQueue
    <3>3. \A u \in Timer : q'.state[u] = IF u = t THEN "ETransferring" ELSE q.state[u]
      BY <1>2, <2>5, <3>1
    <3>4. Pointers(q', dfc', pC', pN')
      BY <2>4, <2>5, <2>7, <3>1, <3>3 DEF Pointers
    <3>5. Same(q, q', t)
      BY <1>2, <2>4, <2>5, <3>1, <3>3, DroppedSame
    <3>6. InTransfer(q, q', t)
      BY <2>4, <2>5, <2>10, <3>1, <3>3, <3>5 DEF InTransfer
    <3>7. QIInv'
      BY <1>1, <2>4, <2>6, <2>8, <3>1, <3>2, <3>4 DEF QIInv
    <3> QED
      BY <1>1, <1>5, <2>4, <2>8, <3>1, <3>6, <3>7
  <2> QED
    BY <2>9, <2>10
<1> QED
  BY <1>3, <1>4

\* The DFC calls the next completed timer back, or ends.
LEMMA CallCompletedKeeps ==
    ASSUME QIInv, CallCompleted
    PROVE  /\ QIInv' /\ dfc = "completed" /\ Asked' = Asked
           /\ pC' = pC /\ pN' = pN /\ waiting' = waiting /\ running' = running
           /\ \/ q' = q /\ dfc' = "off"
              \/ dfc' = dfc /\ \E t \in Timer : CalledBack(q, q', t)
<1>1. /\ isr = "off" /\ dfc = "completed" /\ isr' = isr /\ doDfc' = doDfc
      /\ pC' = pC /\ pN' = pN /\ waiting' = waiting /\ running' = running
  BY DEF CallCompleted
<1>2. Exact(q, {}) /\ q \in QState /\ Pointers(q, dfc, pC, pN)
      /\ q.state \in [Timer -> TState] /\ q.expired = <<>>
  BY <1>1, Fields DEF QIInv, Exact
<1>5. Asked' = Asked
  BY <1>1 DEF Asked
<1>3. CASE q.completed = <<>>
  <2>1. q' = q /\ dfc' = "off"
    BY <1>3 DEF CallCompleted
  <2>2. Pointers(q', dfc', pC', pN')
    BY <1>1, <1>2, <2>1 DEF Pointers
  <2>3. QIInv'
    BY <1>1, <2>1, <2>2 DEF QIInv
  <2> QED
    BY <1>1, <1>5, <2>1, <2>3
<1>4. CASE q.completed # <<>>
  <2>1. PICK d : d = [q EXCEPT !.completed = Tail(@)]
    OBVIOUS
  <2>2. PICK t : t = Head(q.completed)
    OBVIOUS
  <2>3. q' = MakeIdle(d, t) /\ dfc' = dfc
    BY <1>4, <2>1, <2>2 DEF CallCompleted
  <2>5. /\ d \in QState /\ d.completed = Tail(q.completed)
        /\ d.expired = q.expired
        /\ d.holding = q.holding /\ d.ordered = q.ordered /\ d.intQ = q.intQ
        /\ d.dfcQ = q.dfcQ /\ d.state = q.state
        /\ d.triggerTime = q.triggerTime /\ d.msCount = q.msCount
        /\ d.present = q.present /\ d.transCancelled = q.transCancelled
        /\ d.critCancelled = q.critCancelled
    BY <1>2, <1>4, <2>1, TailFields
  <2>6. Exact(d, {t}) /\ t \in Timer /\ q.state[t] = "EFinal"
    BY <1>2, <1>4, <2>2, <2>5, CallbackExact
  <2>7. /\ Exact(q', {}) /\ q'.state = [d.state EXCEPT ![t] = "EIdle"]
        /\ q'.transCancelled = d.transCancelled /\ q'.critCancelled = d.critCancelled
    <3>1. t \in Timer /\ Exact(d, {t})
      BY <2>6
    <3>2. PICK m : m = MakeIdle(d, t)
      OBVIOUS
    <3>3. /\ Exact(m, {}) /\ m.state = [d.state EXCEPT ![t] = "EIdle"]
          /\ m.transCancelled = d.transCancelled /\ m.critCancelled = d.critCancelled
      BY <3>1, <3>2, MakeIdleExact
    <3> QED
      BY <2>3, <3>2, <3>3
  <2>10. q'.expired = d.expired
    BY <2>3, <2>5 DEF MakeIdle, QState
  <2>8. \A u \in Timer : \/ q'.state[u] = q.state[u]
                         \/ {q'.state[u], q.state[u]}
                                \cap {"ETransferring", "ECritical"} = {}
    BY <1>2, <2>5, <2>6, <2>7
  <2>9. Pointers(q', dfc, pC, pN)
    BY <1>2, <2>5, <2>7, <2>8, PointersSame
  <2>11. /\ q'.ordered = d.ordered /\ q'.completed = d.completed /\ q'.msCount = d.msCount
         /\ \A u \in Timer : u # t => q'.triggerTime[u] = d.triggerTime[u]
    BY <2>3, <2>5, <2>6, MakeIdleFields
  <2>12. q'.state[t] = "EIdle" /\ \A u \in Timer : u # t => q'.state[u] = d.state[u]
    BY <1>2, <2>5, <2>6, <2>7
  <2>13. Popped(q, d, t)
    BY <1>4, <2>2, <2>5 DEF Popped
  <2>14. CalledBack(q, q', t)
    BY <1>2, <2>5, <2>6, <2>10, <2>11, <2>12, <2>13, CallbackIs
  <2>15. QIInv'
    BY <1>1, <1>2, <2>3, <2>5, <2>7, <2>9, <2>10 DEF QIInv
  <2> QED
    BY <1>1, <1>5, <2>3, <2>6, <2>14, <2>15
<1> QED
  BY <1>3, <1>4

\* NTimerQ::Advance after a sleep.
LEMMA AdvanceKeeps ==
    ASSUME QIInv, NEW n \in 1..MaxSleep, Advance(n)
    PROVE  QIInv'
<1>1. /\ isr' = isr /\ doDfc' = doDfc /\ dfc' = dfc
      /\ pC' = pC /\ pN' = pN /\ waiting' = waiting /\ running' = running
      /\ q' = [q EXCEPT !.msCount = (@ + n) % Modulus]
  BY DEF Advance
<1>2. Exact(q, {}) /\ q \in QState /\ Pointers(q, dfc, pC, pN)
  BY DEF QIInv, Exact
<1>3. (q.msCount + n) % Modulus \in Tick32
  <2>1. q.msCount \in Int /\ n \in Int
    BY <1>2, Fields, TimerAssumption DEF Tick32
  <2>2. q.msCount + n \in Int
    BY <2>1
  <2> QED
    BY <2>2, Constants
<1>4. /\ q' \in QState /\ q'.state = q.state
      /\ q'.holding = q.holding /\ q'.ordered = q.ordered /\ q'.intQ = q.intQ
      /\ q'.dfcQ = q.dfcQ /\ q'.expired = q.expired /\ q'.completed = q.completed
      /\ q'.present = q.present /\ q'.triggerTime = q.triggerTime
      /\ q'.transCancelled = q.transCancelled /\ q'.critCancelled = q.critCancelled
  BY <1>1, <1>2, <1>3 DEF QState
<1>5. Exact(q', {})
  <2>1. \A u \in Timer : u \notin {} => SlotOf(q', u) = SlotOf(q, u)
    BY <1>4 DEF SlotOf
  <2>2. \A u \in Timer : u \notin {} =>
            \/ q'.state[u] = q.state[u]
            \/ {q'.state[u], q.state[u]} \subseteq {"EOrdered", "ECritical"}
            \/ {q'.state[u], q.state[u]} \subseteq {"EIdle", "ETransferring"}
    BY <1>4
  <2> QED
    BY <1>2, <1>4, <2>1, <2>2, ExactFrame
<1>6. Pointers(q', dfc, pC, pN)
  BY <1>2, <1>4, PointersSame
<1> QED
  BY <1>1, <1>4, <1>5, <1>6 DEF QIInv

\* NextOn steps along the queue.
LEMMA NextOnQueue ==
    ASSUME NEW s \in Seq(Timer), Inj(s), NEW i \in 1..Len(s)
    PROVE  NextOn(s, s[i]) = IF i = Len(s) THEN Null ELSE s[i + 1]
<1> DEFINE k == CHOOSE j \in DOMAIN s : s[j] = s[i]
<1>1. k \in DOMAIN s /\ s[k] = s[i] /\ i \in DOMAIN s
  OBVIOUS
<1>2. NextOn(s, s[i]) = IF k = Len(s) THEN Null ELSE s[k + 1]
  BY Zenon DEF NextOn
<1> HIDE DEF k
<1>3. k = i
  BY <1>1 DEF Inj
<1> QED
  BY <1>2, <1>3

\* InsertBefore puts pC on the ordered queue, before n or last.
LEMMA InsertBeforeQueue ==
    ASSUME NEW r \in QState, Inj(r.ordered), NEW t \in Timer, t \notin Range(r.ordered),
           NEW n \in Range(r.ordered) \cup {Null}
    PROVE  \E o \in Seq(Timer) :
              /\ InsertBefore(r, t, n) = [r EXCEPT !.ordered = o]
              /\ Inj(o) /\ Range(o) = Range(r.ordered) \cup {t}
              /\ n = Null => o = Append(r.ordered, t)
              /\ \A i \in 1..Len(r.ordered) :
                     n # Null /\ r.ordered[i] = n => o = InsertAt(r.ordered, i, t)
<1>1. r.ordered \in Seq(Timer)
  BY Fields
<1>2. CASE n = Null
  <2> DEFINE o == Append(r.ordered, t)
  <2>1. o \in Seq(Timer) /\ Inj(o) /\ Range(o) = Range(r.ordered) \cup {t}
    BY <1>1, AppendQueue
  <2>2. InsertBefore(r, t, n) = [r EXCEPT !.ordered = o]
    BY <1>2 DEF InsertBefore
  <2> QED
    BY <1>2, <2>1, <2>2
<1>3. CASE n # Null
  <2> DEFINE i == CHOOSE j \in DOMAIN r.ordered : r.ordered[j] = n
             o == InsertAt(r.ordered, i, t)
  <2>1. i \in 1..Len(r.ordered) /\ r.ordered[i] = n
    <3>1. i \in DOMAIN r.ordered /\ r.ordered[i] = n
      BY <1>3 DEF Range
    <3> QED
      BY <1>1, <3>1
  <2>2. InsertBefore(r, t, n) = [r EXCEPT !.ordered = o]
    BY <1>3 DEF InsertBefore
  <2> HIDE DEF i
  <2>3. o \in Seq(Timer) /\ Inj(o) /\ Range(o) = Range(r.ordered) \cup {t}
    BY <1>1, <2>1, InsertQueue
  <2>4. \A j \in 1..Len(r.ordered) : r.ordered[j] = n => j = i
    BY <1>1, <2>1 DEF Inj
  <2> QED
    BY <1>3, <2>2, <2>3, <2>4
<1> QED
  BY <1>2, <1>3

\* The walk has not left a critical timer behind, and knows whether c is in transfer.
WalkReady(r, c) ==
    /\ Exact(r, {}) /\ c \in Timer /\ ~r.critCancelled
    /\ r.transCancelled <=> r.state[c] # "ETransferring"
    /\ \A u \in Timer : /\ r.state[u] # "ECritical"
                        /\ r.state[u] = "ETransferring" => u = c

\* From r to s the walk for c comes to n, and the DFC to d: n becomes critical, or
\* the transfer is given up, or c is put before n.
Walked(r, s, d, c, n) ==
    /\ s.msCount = r.msCount /\ s.triggerTime = r.triggerTime
    /\ s.expired = r.expired /\ s.completed = r.completed
    /\ \/ /\ d = "critical" /\ n \in Timer /\ r.state[n] = "EOrdered"
          /\ Minus(r.triggerTime[n], r.triggerTime[c]) >= Half
          /\ \A u \in Timer : s.state[u] = IF u = n THEN "ECritical" ELSE r.state[u]
          /\ s.ordered = r.ordered
       \/ d = "holding" /\ s = r
       \/ /\ d = "holding" /\ r.state[c] = "ETransferring"
          /\ \A u \in Timer : s.state[u] = IF u = c THEN "EOrdered" ELSE r.state[u]
          /\ n # Null => ~(Minus(r.triggerTime[n], r.triggerTime[c]) >= Half)
          /\ n = Null => s.ordered = Append(r.ordered, c)
          /\ \A i \in 1..Len(r.ordered) :
                 n # Null /\ r.ordered[i] = n => s.ordered = InsertAt(r.ordered, i, c)

\* The walk comes to the next ordered timer.
LEMMA WalkToKeeps ==
    ASSUME NEW r, WalkReady(r, pC), NEW n \in Range(r.ordered) \cup {Null}, WalkTo(r, n)
    PROVE  /\ Exact(q', {}) /\ Pointers(q', dfc', pC', pN')
           /\ dfc' \in {"critical", "holding"} /\ q'.expired = r.expired
           /\ pC' \in Timer \cup {Null} /\ pN' \in Timer \cup {Null}
           /\ Walked(r, q', dfc', pC, n) /\ (dfc' = "critical" => pN' = n /\ pC' = pC)
<1>1. /\ Exact(r, {}) /\ pC \in Timer /\ r \in QState /\ r.state \in [Timer -> TState]
      /\ Once(r) /\ \A u \in Timer : Place(r, u)
  BY Fields DEF WalkReady, Exact
<1>2. Range(r.ordered) \subseteq Timer
  <2>1. r.ordered \in Seq(Timer)
    BY <1>1, Fields
  <2> QED
    BY <2>1 DEF Range
<1>3. CASE n # Null /\ ~r.transCancelled
           /\ Minus(r.triggerTime[n], r.triggerTime[pC]) >= Half
  <2>1. PICK s : s = [r EXCEPT !.state[n] = "ECritical"]
    OBVIOUS
  <2>2. q' = s /\ dfc' = "critical" /\ pN' = n /\ pC' = pC
    BY <1>3, <2>1 DEF WalkTo
  <2>3. n \in Timer /\ n \in Range(r.ordered) /\ r.state[n] = "EOrdered"
    <3>1. n \in Range(r.ordered) /\ n \in Timer
      BY <1>2, <1>3
    <3>2. Place(r, n)
      BY <1>1, <3>1
    <3> QED
      BY <3>1, <3>2 DEF Place, WalkReady
  <2>4. /\ s.state = [r.state EXCEPT ![n] = "ECritical"]
        /\ s.holding = r.holding /\ s.ordered = r.ordered /\ s.intQ = r.intQ
        /\ s.dfcQ = r.dfcQ /\ s.expired = r.expired /\ s.completed = r.completed
        /\ s.present = r.present /\ s.triggerTime = r.triggerTime
        /\ s.msCount = r.msCount
        /\ s.transCancelled = r.transCancelled /\ s.critCancelled = r.critCancelled
    BY <1>1, <2>1 DEF QState
  <2>5. s \in QState
    <3>1. [r.state EXCEPT ![n] = "ECritical"] \in [Timer -> TState]
      BY <1>1 DEF TState
    <3> QED
      BY <1>1, <2>1, <3>1 DEF QState
  <2>6. \A u \in Timer : s.state[u] = IF u = n THEN "ECritical" ELSE r.state[u]
    BY <1>1, <2>4
  <2>7. Exact(s, {})
    <3>1. \A u \in Timer : u \notin {} => SlotOf(s, u) = SlotOf(r, u)
      BY <2>4 DEF SlotOf
    <3>2. \A u \in Timer : u \notin {} =>
              \/ s.state[u] = r.state[u]
              \/ {s.state[u], r.state[u]} \subseteq {"EOrdered", "ECritical"}
              \/ {s.state[u], r.state[u]} \subseteq {"EIdle", "ETransferring"}
      BY <2>3, <2>6
    <3> QED
      BY <1>1, <2>4, <2>5, <3>1, <3>2, ExactFrame
  <2>8. Pointers(s, "critical", pC, n)
    BY <1>3, <2>3, <2>4, <2>6 DEF Pointers, WalkReady
  <2>9. Walked(r, s, "critical", pC, n)
    BY <1>3, <2>3, <2>4, <2>6 DEF Walked
  <2> QED
    BY <1>1, <2>2, <2>3, <2>4, <2>7, <2>8, <2>9
<1>4. CASE /\ ~(n # Null /\ ~r.transCancelled
                  /\ Minus(r.triggerTime[n], r.triggerTime[pC]) >= Half)
           /\ r.transCancelled
  <2>1. q' = r /\ dfc' = "holding" /\ pN' = Null /\ pC' = Null
    BY <1>4 DEF WalkTo
  <2>2. Pointers(r, "holding", Null, Null)
    BY <1>4 DEF Pointers, WalkReady
  <2>3. Walked(r, r, "holding", pC, n)
    BY DEF Walked
  <2> QED
    BY <1>1, <2>1, <2>2, <2>3
<1>5. CASE /\ ~(n # Null /\ ~r.transCancelled
                  /\ Minus(r.triggerTime[n], r.triggerTime[pC]) >= Half)
           /\ ~r.transCancelled
  <2>1. PICK s : s = [InsertBefore(r, pC, n) EXCEPT !.state[pC] = "EOrdered"]
    OBVIOUS
  <2>2. q' = s /\ dfc' = "holding" /\ pN' = Null /\ pC' = Null
    BY <1>5, <2>1 DEF WalkTo
  <2>3. r.state[pC] = "ETransferring" /\ Exact(r, {pC})
    <3>1. r.state[pC] = "ETransferring"
      BY <1>5 DEF WalkReady
    <3> QED
      BY <1>1, <3>1, NoQueue
  <2>4. Nowhere(r, pC)
    BY <1>1, <2>3 DEF Exact
  <2>5. PICK o \in Seq(Timer) :
           /\ InsertBefore(r, pC, n) = [r EXCEPT !.ordered = o]
           /\ Inj(o) /\ Range(o) = Range(r.ordered) \cup {pC}
           /\ n = Null => o = Append(r.ordered, pC)
           /\ \A i \in 1..Len(r.ordered) :
                  n # Null /\ r.ordered[i] = n => o = InsertAt(r.ordered, i, pC)
    <3>1. Inj(r.ordered) /\ pC \notin Range(r.ordered)
      BY <1>1, <2>4 DEF Once, Nowhere
    <3> QED
      BY <1>1, <3>1, InsertBeforeQueue
  <2>6. s = [r EXCEPT !.ordered = o, !.state[pC] = "EOrdered"]
    BY <1>1, <2>1, <2>5 DEF QState
  <2>7. /\ s.state = [r.state EXCEPT ![pC] = "EOrdered"] /\ s.ordered = o
        /\ s.holding = r.holding /\ s.intQ = r.intQ
        /\ s.dfcQ = r.dfcQ /\ s.expired = r.expired /\ s.completed = r.completed
        /\ s.present = r.present /\ s.triggerTime = r.triggerTime
        /\ s.msCount = r.msCount
    BY <1>1, <2>6 DEF QState
  <2>8. s \in QState
    <3>1. [r.state EXCEPT ![pC] = "EOrdered"] \in [Timer -> TState]
      BY <1>1 DEF TState
    <3> QED
      BY <1>1, <2>6, <3>1 DEF QState
  <2>9. Exact(s, {})
    <3>1. Inj(s.holding) /\ Inj(s.ordered)
          /\ Range(s.ordered) = Range(r.ordered) \cup {pC}
      BY <1>1, <2>5, <2>7 DEF Once
    <3> QED
      BY <1>1, <2>3, <2>7, <2>8, <3>1, PutExact
  <2>10. \A u \in Timer : s.state[u] = IF u = pC THEN "EOrdered" ELSE r.state[u]
    BY <1>1, <2>7
  <2>11. Pointers(s, "holding", Null, Null)
    BY <2>10 DEF Pointers, WalkReady
  <2>12. Walked(r, s, "holding", pC, n)
    <3>1. n # Null => ~(Minus(r.triggerTime[n], r.triggerTime[pC]) >= Half)
      BY <1>5
    <3> QED
      BY <2>3, <2>5, <2>7, <2>10, <3>1 DEF Walked
  <2> QED
    BY <1>1, <2>2, <2>7, <2>9, <2>11, <2>12
<1> QED
  BY <1>3, <1>4, <1>5

\* The walk starts with the flag for its second pointer reset.
LEMMA WalkStartReady ==
    ASSUME QIInv, isr = "off", dfc = "walk"
    PROVE  \A s : s = [q EXCEPT !.critCancelled = FALSE] =>
              WalkReady(s, pC) /\ s.ordered = q.ordered /\ s.expired = q.expired
                /\ s.state = q.state /\ s.triggerTime = q.triggerTime
                /\ s.msCount = q.msCount /\ s.completed = q.completed
<1>1. Exact(q, {}) /\ q \in QState /\ Pointers(q, dfc, pC, pN)
  BY DEF QIInv, Exact
<1>2. TAKE s
<1>3. HAVE s = [q EXCEPT !.critCancelled = FALSE]
<1>4. /\ s \in QState /\ s.critCancelled = FALSE
      /\ s.holding = q.holding /\ s.ordered = q.ordered /\ s.intQ = q.intQ
      /\ s.dfcQ = q.dfcQ /\ s.expired = q.expired /\ s.completed = q.completed
      /\ s.present = q.present /\ s.triggerTime = q.triggerTime
      /\ s.transCancelled = q.transCancelled /\ s.state = q.state
      /\ s.msCount = q.msCount
  BY <1>1, <1>3 DEF QState
<1>5. \A u \in Timer : u \notin {} => SlotOf(s, u) = SlotOf(q, u) /\ s.state[u] = q.state[u]
  BY <1>4 DEF SlotOf
<1>6. Exact(s, {})
  BY <1>1, <1>4, <1>5, ExactFrame
<1> QED
  BY <1>1, <1>4, <1>6 DEF WalkReady, Pointers

\* What the walk finds when it comes to the next timer.
Walking(r, s) ==
    /\ WalkReady(s, pC) /\ s.ordered = r.ordered /\ s.triggerTime = r.triggerTime
    /\ s.msCount = r.msCount /\ s.expired = r.expired /\ s.completed = r.completed

\* The walk along the ordered queue starts, or starts again.
LEMMA WalkFromStartKeeps ==
    ASSUME QIInv, WalkFromStart
    PROVE  /\ QIInv' /\ dfc = "walk" /\ Asked' = Asked
           /\ waiting' = waiting /\ running' = running /\ dfc' \in {"critical", "holding"}
           /\ \E s, n : /\ Walking(q, s) /\ s.state = q.state
                        /\ n = IF q.ordered = <<>> THEN Null ELSE Head(q.ordered)
                        /\ Walked(s, q', dfc', pC, n)
                        /\ dfc' = "critical" => pN' = n /\ pC' = pC
<1>1. /\ isr = "off" /\ dfc = "walk" /\ isr' = isr /\ doDfc' = doDfc
      /\ waiting' = waiting /\ running' = running
  BY DEF WalkFromStart
<1>2. PICK s : s = [q EXCEPT !.critCancelled = FALSE]
  OBVIOUS
<1>3. PICK n : n = IF q.ordered = <<>> THEN Null ELSE Head(q.ordered)
  OBVIOUS
<1>4. WalkTo(s, n)
  BY <1>2, <1>3 DEF WalkFromStart
<1>5. WalkReady(s, pC) /\ s.ordered = q.ordered /\ s.expired = q.expired
      /\ s.state = q.state /\ s.triggerTime = q.triggerTime
      /\ s.msCount = q.msCount /\ s.completed = q.completed
  BY <1>1, <1>2, WalkStartReady
<1>6. n \in Range(s.ordered) \cup {Null}
  <2>1. q.ordered \in Seq(Timer) /\ Inj(q.ordered)
    BY Fields DEF QIInv, Exact, Once
  <2>2. q.ordered # <<>> => Head(q.ordered) \in Range(q.ordered)
    BY <2>1, TailQueue
  <2> QED
    BY <1>3, <1>5, <2>2
<1>7. /\ Exact(q', {}) /\ Pointers(q', dfc', pC', pN')
      /\ dfc' \in {"critical", "holding"} /\ q'.expired = s.expired
      /\ pC' \in Timer \cup {Null} /\ pN' \in Timer \cup {Null}
      /\ Walked(s, q', dfc', pC, n) /\ (dfc' = "critical" => pN' = n /\ pC' = pC)
  BY <1>4, <1>5, <1>6, WalkToKeeps
<1>8. QIInv'
  BY <1>1, <1>5, <1>7 DEF QIInv
<1>9. Asked' = Asked
  BY <1>1 DEF Asked
<1>10. Walking(q, s)
  BY <1>5 DEF Walking
<1> QED
  BY <1>1, <1>3, <1>5, <1>7, <1>8, <1>9, <1>10

\* pN has not been cancelled: it is put back to EOrdered.
LEMMA WalkOnReady ==
    ASSUME QIInv, dfc = "critical", ~q.critCancelled
    PROVE  /\ pN \in Range(q.ordered) /\ pN \in Timer
           /\ \A s : s = [q EXCEPT !.state[pN] = "EOrdered"] =>
                WalkReady(s, pC) /\ s.ordered = q.ordered /\ s.expired = q.expired
                  /\ s.state = [q.state EXCEPT ![pN] = "EOrdered"]
                  /\ s.triggerTime = q.triggerTime /\ s.msCount = q.msCount
                  /\ s.completed = q.completed
<1>1. Exact(q, {}) /\ q \in QState /\ Pointers(q, dfc, pC, pN)
      /\ q.state \in [Timer -> TState]
  BY Fields DEF QIInv, Exact
<1>2. pN \in Timer /\ q.state[pN] = "ECritical"
  BY <1>1 DEF Pointers
<1>3. pN \in Range(q.ordered)
  <2>1. Place(q, pN)
    BY <1>1, <1>2 DEF Exact
  <2> QED
    BY <1>2, <2>1 DEF Place
<1>4. ASSUME NEW s, s = [q EXCEPT !.state[pN] = "EOrdered"]
      PROVE  WalkReady(s, pC) /\ s.ordered = q.ordered /\ s.expired = q.expired
               /\ s.state = [q.state EXCEPT ![pN] = "EOrdered"]
               /\ s.triggerTime = q.triggerTime /\ s.msCount = q.msCount
               /\ s.completed = q.completed
  <2>1. /\ s.critCancelled = q.critCancelled
        /\ s.holding = q.holding /\ s.ordered = q.ordered /\ s.intQ = q.intQ
        /\ s.dfcQ = q.dfcQ /\ s.expired = q.expired /\ s.completed = q.completed
        /\ s.present = q.present /\ s.triggerTime = q.triggerTime
        /\ s.transCancelled = q.transCancelled
        /\ s.state = [q.state EXCEPT ![pN] = "EOrdered"] /\ s.msCount = q.msCount
    BY <1>1, <1>4 DEF QState
  <2>2. s \in QState
    <3>1. [q.state EXCEPT ![pN] = "EOrdered"] \in [Timer -> TState]
      BY <1>1 DEF TState
    <3> QED
      BY <1>1, <1>4, <3>1 DEF QState
  <2>3. \A u \in Timer : s.state[u] = IF u = pN THEN "EOrdered" ELSE q.state[u]
    BY <1>1, <2>1
  <2>4. Exact(s, {})
    <3>1. \A u \in Timer : u \notin {} => SlotOf(s, u) = SlotOf(q, u)
      BY <2>1 DEF SlotOf
    <3>2. \A u \in Timer : u \notin {} =>
              \/ s.state[u] = q.state[u]
              \/ {s.state[u], q.state[u]} \subseteq {"EOrdered", "ECritical"}
              \/ {s.state[u], q.state[u]} \subseteq {"EIdle", "ETransferring"}
      BY <1>2, <2>3
    <3> QED
      BY <1>1, <2>1, <2>2, <3>1, <3>2, ExactFrame
  <2>5. pC \in Timer /\ (s.transCancelled <=> s.state[pC] # "ETransferring")
    BY <1>1, <1>2, <2>1, <2>3 DEF Pointers
  <2>6. \A u \in Timer : /\ s.state[u] # "ECritical"
                         /\ s.state[u] = "ETransferring" => u = pC
    BY <1>1, <2>3 DEF Pointers
  <2>7. ~s.critCancelled
    BY <2>1
  <2>8. WalkReady(s, pC)
    BY <2>4, <2>5, <2>6, <2>7 DEF WalkReady
  <2> QED
    BY <2>1, <2>8
<1> QED
  BY <1>2, <1>3, <1>4

\* The walk goes on after the interrupts were enabled.
LEMMA WalkGoesOnKeeps ==
    ASSUME QIInv, WalkGoesOn
    PROVE  /\ QIInv' /\ dfc = "critical" /\ Asked' = Asked
           /\ waiting' = waiting /\ running' = running
           /\ dfc' \in {"critical", "holding", "walk"}
           /\ \/ q' = q /\ dfc' # "critical"
              \/ \E s, n : /\ Walking(q, s) /\ s.state = [q.state EXCEPT ![pN] = "EOrdered"]
                           /\ q.state[pN] = "ECritical" /\ pN \in Range(q.ordered)
                           /\ n = NextOn(q.ordered, pN)
                           /\ Walked(s, q', dfc', pC, n)
                           /\ dfc' = "critical" => pN' = n /\ pC' = pC
<1>1. /\ isr = "off" /\ dfc = "critical" /\ isr' = isr /\ doDfc' = doDfc
      /\ waiting' = waiting /\ running' = running
  BY DEF WalkGoesOn
<1>4. Asked' = Asked
  BY <1>1 DEF Asked
<1>2. CASE q.critCancelled
  <2>1. /\ dfc' = IF q.transCancelled THEN "holding" ELSE "walk"
        /\ pC' = IF q.transCancelled THEN Null ELSE pC
        /\ pN' = Null /\ q' = q
    BY <1>2 DEF WalkGoesOn
  <2>2. Pointers(q', dfc', pC', pN')
    BY <1>1, <1>2, <2>1 DEF Pointers, QIInv
  <2>3. QIInv'
    BY <1>1, <2>1, <2>2 DEF QIInv
  <2>4. dfc' \in {"critical", "holding", "walk"} /\ dfc' # "critical"
    BY <2>1
  <2> QED
    BY <1>1, <1>4, <2>1, <2>3, <2>4
<1>3. CASE ~q.critCancelled
  <2>1. PICK s : s = [q EXCEPT !.state[pN] = "EOrdered"]
    OBVIOUS
  <2>2. PICK n : n = NextOn(q.ordered, pN)
    OBVIOUS
  <2>3. WalkTo(s, n)
    BY <1>3, <2>1, <2>2 DEF WalkGoesOn
  <2>4. pN \in Range(q.ordered) /\ WalkReady(s, pC) /\ s.ordered = q.ordered
        /\ s.expired = q.expired /\ s.completed = q.completed
        /\ s.state = [q.state EXCEPT ![pN] = "EOrdered"]
        /\ s.triggerTime = q.triggerTime /\ s.msCount = q.msCount
    BY <1>1, <1>3, <2>1, WalkOnReady
  <2>5. n \in Range(s.ordered) \cup {Null}
    <3>1. q.ordered \in Seq(Timer) /\ Inj(q.ordered)
      BY Fields DEF QIInv, Exact, Once
    <3>2. PICK i \in 1..Len(q.ordered) : q.ordered[i] = pN
      BY <2>4, <3>1 DEF Range
    <3>3. n = IF i = Len(q.ordered) THEN Null ELSE q.ordered[i + 1]
      BY <2>2, <3>1, <3>2, NextOnQueue
    <3>4. i # Len(q.ordered) => i + 1 \in DOMAIN q.ordered
      BY <3>1
    <3> QED
      BY <2>4, <3>3, <3>4 DEF Range
  <2>6. /\ Exact(q', {}) /\ Pointers(q', dfc', pC', pN')
        /\ dfc' \in {"critical", "holding"} /\ q'.expired = s.expired
        /\ pC' \in Timer \cup {Null} /\ pN' \in Timer \cup {Null}
        /\ Walked(s, q', dfc', pC, n) /\ (dfc' = "critical" => pN' = n /\ pC' = pC)
    BY <2>3, <2>4, <2>5, WalkToKeeps
  <2>7. QIInv'
    BY <1>1, <2>4, <2>6 DEF QIInv
  <2>8. Walking(q, s)
    BY <2>4 DEF Walking
  <2>9. q.state[pN] = "ECritical"
    BY <1>1, <1>3 DEF QIInv, Pointers
  <2> QED
    BY <1>1, <1>4, <2>2, <2>4, <2>6, <2>7, <2>8, <2>9
<1> QED
  BY <1>2, <1>3

\* At first every timer is idle.
LEMMA InitQIInv == Init => QIInv
<1> SUFFICES ASSUME Init PROVE QIInv
  OBVIOUS
<1>1. /\ q.state = [t \in Timer |-> "EIdle"]
      /\ q.present = {} /\ q.intQ = [i \in Slot |-> <<>>] /\ q.dfcQ = [i \in Slot |-> <<>>]
      /\ q.holding = <<>> /\ q.ordered = <<>> /\ q.completed = <<>> /\ q.expired = <<>>
      /\ isr = "off" /\ doDfc = FALSE /\ dfc = "off" /\ pC = Null /\ pN = Null
      /\ waiting = -1 /\ running = -1
  BY DEF Init
<1>2. q \in QState
  <2>1. 0 \in Tick32 /\ <<>> \in Seq(Timer)
    BY Constants
  <2> QED
    BY <2>1 DEF Init, QState, TState
<1>3. Range(<<>>) = {} /\ Inj(<<>>)
  BY DEF Range, Inj
<1>4. \A i \in Slot : q.intQ[i] = <<>> /\ q.dfcQ[i] = <<>>
  BY <1>1
<1>5. \A t \in Timer : q.state[t] = "EIdle"
  BY <1>1
<1>6. Once(q) /\ PresentOK(q)
  BY <1>1, <1>3, <1>4 DEF Once, PresentOK
<1>7. ASSUME NEW t \in Timer PROVE Place(q, t)
  <2>1. SlotOf(q, t) \in Slot
    BY <1>2, SlotType
  <2> QED
    BY <1>1, <1>3, <1>4, <1>5, <2>1 DEF Place
<1>8. Exact(q, {})
  BY <1>2, <1>6, <1>7 DEF Exact
<1>9. Pointers(q, dfc, pC, pN)
  BY <1>1, <1>5 DEF Pointers
<1>10. waiting \in -1..MaxLatency /\ running \in -1..MaxLatency
  BY <1>1, TimerAssumption
<1> QED
  BY <1>1, <1>8, <1>9, <1>10 DEF QIInv

\* Every step keeps the queues exact.
LEMMA NextQIInv == QIInv /\ [Next]_vars => QIInv'
<1> SUFFICES ASSUME QIInv, [Next]_vars PROVE QIInv'
  OBVIOUS
<1>1. CASE Call
  BY <1>1, OneShotKeeps, AgainKeeps, CancelKeeps DEF Call
<1>2. CASE Tick
  BY <1>2, TickKeeps
<1>3. CASE TickGoesOn
  BY <1>3, TickGoesOnKeeps
<1>4. CASE DfcStep
  BY <1>4, DfcStartKeeps, OrderedToFinalKeeps, TakeFromHoldingKeeps,
     WalkFromStartKeeps, WalkGoesOnKeeps, CallCompletedKeeps DEF DfcStep
<1>5. CASE \E n \in 1..MaxSleep : Advance(n)
  BY <1>5, AdvanceKeeps
<1>6. CASE UNCHANGED vars
  BY <1>6 DEF vars, QIInv
<1> QED
  BY <1>1, <1>2, <1>3, <1>4, <1>5, <1>6 DEF Next

\* A queue that holds an element at most once has it at no two places.
LEMMA AtMostOnce ==
    ASSUME NEW s \in Seq(Timer), Inj(s), NEW t
    PROVE  Cardinality({j \in DOMAIN s : s[j] = t}) =< 1
<1> DEFINE D == {j \in DOMAIN s : s[j] = t}
<1>1. CASE D = {}
  <2>1. Cardinality(D) = 0
    BY <1>1, FS_EmptySet
  <2> QED
    BY <2>1
<1>2. CASE D # {}
  <2>1. PICK j : j \in D
    BY <1>2
  <2>2. D = {j}
    BY <2>1 DEF Inj
  <2>3. Cardinality(D) = 1
    BY <2>2, FS_Singleton
  <2> QED
    BY <2>3
<1> QED
  BY <1>1, <1>2

\* The final queues of one tick, the expired and the completed queue share nothing.
LEMMA FinalQueues ==
    ASSUME NEW r, Exact(r, {}), NEW i \in Slot,
           NEW f, f = r.intQ[i] \o r.dfcQ[i] \o r.expired \o r.completed
    PROVE  /\ f \in Seq(Timer) /\ Inj(f)
           /\ Range(f) = Range(r.intQ[i]) \cup Range(r.dfcQ[i])
                         \cup Range(r.expired) \cup Range(r.completed)
<1>1. /\ r \in QState /\ Once(r) /\ \A u \in Timer : Place(r, u)
  BY DEF Exact
<1>2. /\ r.intQ[i] \in Seq(Timer) /\ r.dfcQ[i] \in Seq(Timer)
      /\ r.expired \in Seq(Timer) /\ r.completed \in Seq(Timer)
  BY <1>1, Fields
<1>3. Inj(r.intQ[i]) /\ Inj(r.dfcQ[i]) /\ Inj(r.expired) /\ Inj(r.completed)
  BY <1>1 DEF Once
<1>4. ASSUME NEW u \in Timer
      PROVE  /\ u \in Range(r.intQ[i]) => /\ u \notin Range(r.dfcQ[i])
                                          /\ u \notin Range(r.expired)
                                          /\ u \notin Range(r.completed)
             /\ u \in Range(r.dfcQ[i]) => /\ u \notin Range(r.expired)
                                          /\ u \notin Range(r.completed)
             /\ u \in Range(r.expired) => u \notin Range(r.completed)
  <2>1. Place(r, u)
    BY <1>1
  <2>2. CASE SlotOf(r, u) = i
    BY <2>1, <2>2 DEF Place
  <2>3. CASE SlotOf(r, u) # i
    BY <2>1, <2>3 DEF Place
  <2> QED
    BY <2>2, <2>3
<1>5. /\ Range(r.intQ[i]) \subseteq Timer /\ Range(r.dfcQ[i]) \subseteq Timer
      /\ Range(r.expired) \subseteq Timer /\ Range(r.completed) \subseteq Timer
  BY <1>2 DEF Range
<1> DEFINE a == r.intQ[i] \o r.dfcQ[i]
           b == a \o r.expired
<1>6. a \in Seq(Timer) /\ Inj(a) /\ Range(a) = Range(r.intQ[i]) \cup Range(r.dfcQ[i])
  <2>1. Range(r.intQ[i]) \cap Range(r.dfcQ[i]) = {}
    BY <1>4, <1>5
  <2> QED
    BY <1>2, <1>3, <2>1, ConcatQueue
<1> HIDE DEF a
<1>7. b \in Seq(Timer) /\ Inj(b) /\ Range(b) = Range(a) \cup Range(r.expired)
  <2>1. Range(a) \cap Range(r.expired) = {}
    BY <1>4, <1>5, <1>6
  <2> QED
    BY <1>2, <1>3, <1>6, <2>1, ConcatQueue
<1> HIDE DEF b
<1>8. /\ b \o r.completed \in Seq(Timer) /\ Inj(b \o r.completed)
      /\ Range(b \o r.completed) = Range(b) \cup Range(r.completed)
  <2>1. Range(b) \cap Range(r.completed) = {}
    BY <1>4, <1>5, <1>6, <1>7
  <2> QED
    BY <1>2, <1>3, <1>7, <2>1, ConcatQueue
<1>9. f = b \o r.completed
  BY DEF a, b
<1> QED
  BY <1>6, <1>7, <1>8, <1>9

\* The inductive invariant says what QueuesExact and DfcPointersValid do.
LEMMA QIInvExact == QIInv => QueuesExact /\ DfcPointersValid
<1> SUFFICES ASSUME QIInv PROVE QueuesExact /\ DfcPointersValid
  OBVIOUS
<1>1. Exact(q, {}) /\ q \in QState /\ Once(q) /\ PresentOK(q)
      /\ \A u \in Timer : Place(q, u)
  BY DEF QIInv, Exact
<1>2. TypeOK
  BY <1>1 DEF QIInv, TypeOK
<1>3. PresentExact
  <2>1. q.present \subseteq Slot
    BY <1>1, Fields
  <2> QED
    BY <1>1, <2>1 DEF PresentOK, PresentExact
<1>4. StateSaysQueue
  <2> SUFFICES ASSUME NEW t \in Timer
               PROVE  LET i  == SlotOf(q, t)
                          st == q.state[t]
                          final == q.intQ[i] \o q.dfcQ[i] \o q.expired \o q.completed
                      IN  /\ t \in Range(q.holding) <=> st = "EHolding"
                          /\ t \in Range(q.ordered) <=> st \in {"EOrdered", "ECritical"}
                          /\ t \in Range(final) <=> st = "EFinal"
                          /\ \A s \in {q.holding, q.ordered, final} :
                                 Cardinality({j \in DOMAIN s : s[j] = t}) =< 1
                          /\ \A j \in Slot \ {i} : t \notin Range(q.intQ[j] \o q.dfcQ[j])
    BY DEF StateSaysQueue
  <2> DEFINE i == SlotOf(q, t)
             final == q.intQ[i] \o q.dfcQ[i] \o q.expired \o q.completed
  <2>1. i \in Slot /\ Place(q, t)
    BY <1>1, SlotType
  <2>2. final \in Seq(Timer) /\ Inj(final)
        /\ Range(final) = Range(q.intQ[i]) \cup Range(q.dfcQ[i])
                          \cup Range(q.expired) \cup Range(q.completed)
    BY <1>1, <2>1, FinalQueues
  <2> HIDE DEF final
  <2>3. /\ t \in Range(q.holding) <=> q.state[t] = "EHolding"
        /\ t \in Range(q.ordered) <=> q.state[t] \in {"EOrdered", "ECritical"}
    BY <2>1 DEF Place
  <2>4. t \in Range(final) <=> q.state[t] = "EFinal"
    BY <2>1, <2>2 DEF Place
  <2>5. \A s \in {q.holding, q.ordered, final} :
            Cardinality({j \in DOMAIN s : s[j] = t}) =< 1
    <3>1. /\ q.holding \in Seq(Timer) /\ Inj(q.holding)
          /\ q.ordered \in Seq(Timer) /\ Inj(q.ordered)
      BY <1>1, Fields DEF Once
    <3> QED
      BY <2>2, <3>1, AtMostOnce
  <2>6. ASSUME NEW j \in Slot \ {i} PROVE t \notin Range(q.intQ[j] \o q.dfcQ[j])
    <3>1. q.intQ[j] \in Seq(Timer) /\ q.dfcQ[j] \in Seq(Timer)
      BY <1>1, Fields
    <3>2. Range(q.intQ[j] \o q.dfcQ[j]) = Range(q.intQ[j]) \cup Range(q.dfcQ[j])
      BY <3>1, RangeConcatenation
    <3>3. t \notin Range(q.intQ[j]) /\ t \notin Range(q.dfcQ[j])
      BY <2>1, <2>6 DEF Place
    <3> QED
      BY <3>2, <3>3
  <2> QED
    BY <2>3, <2>4, <2>5, <2>6 DEF final
<1>5. DfcPointersValid
  BY DEF QIInv, Pointers, DfcPointersValid
<1> QED
  BY <1>2, <1>3, <1>4, <1>5 DEF QueuesExact

\* NTimerQ: iPresent and iState agree with the queues in every state, between any
\* two steps of the DFC and whatever interrupts it.
THEOREM QueuesAreExact == Spec => []QueuesExact
<1>1. Spec => []QIInv
  BY InitQIInv, NextQIInv, PTL DEF Spec
<1> QED
  BY <1>1, QIInvExact, PTL

\* NTimerQ::DfcFn: the timer in transfer and the critical one are timers of the
\* queues, or Cancel has said that they are not.
THEOREM PointersAreValid == Spec => []DfcPointersValid
<1>1. Spec => []QIInv
  BY InitQIInv, NextQIInv, PTL DEF Spec
<1> QED
  BY <1>1, QIInvExact, PTL

-----------------------------------------------------------------------------
\* What is left to the timers

\* What remains for each timer.
Left(r) == [t \in Timer |-> Remain(r, t)]

\* The latency, at least one tick.
Max1 == IF MaxLatency = 0 THEN 1 ELSE MaxLatency

\* The least that remains for a timer on the holding queue,
HoldLow(w, a, c) ==
    IF a >= 0 THEN Span - a ELSE IF w >= 0 THEN Span - w ELSE Span + 1 + ToCheck(c)

\* and for one on the ordered queue.
OrdLow(w, a, d, c) ==
    IF d = "ordered" THEN Span - Max1 - a
    ELSE IF a >= 0 THEN NumQueues - a
    ELSE IF w >= 0 THEN Span - Max1 - w
    ELSE Span + 1 - Max1 + ToCheck(c)

\* What at least is left for a timer, by the queue it is on.
Bounds(r, w, a, d) ==
    \A t \in Timer :
        /\ r.state[t] = "EHolding" => Remain(r, t) >= HoldLow(w, a, r.msCount)
        /\ r.state[t] \in {"EOrdered", "ECritical"} => Remain(r, t) >= OrdLow(w, a, d, r.msCount)
        /\ r.state[t] = "ETransferring" => Remain(r, t) >= NumQueues - a

\* The timer at which the walk stands comes before the one in transfer.
Behind(r, d, c, n) ==
    d = "critical" /\ r.state[n] = "ECritical" /\ r.state[c] = "ETransferring" =>
        Minus(r.triggerTime[n], r.triggerTime[c]) >= Half

\* The ordered queue is sorted, a walk is past what is due earlier, and each timer
\* has what is left to it.  a is the age of the request the DFC runs for.
TimeInv ==
    /\ running >= 0 <=> dfc \in {"ordered", "holding", "walk", "critical"}
    /\ Bounds(q, Asked, running, dfc)
    /\ SortedBy(q.ordered, Left(q))
    /\ Behind(q, dfc, pC, pN)

-----------------------------------------------------------------------------
\* What is left to the timers is a function.
LEMMA LeftType ==
    ASSUME NEW r \in QState
    PROVE  Left(r) \in [Timer -> Int] /\ \A t \in Timer : Left(r)[t] = Remain(r, t)
<1>1. ASSUME NEW t \in Timer PROVE Remain(r, t) \in Int
  <2>1. Remain(r, t) \in (-Half)..(Half - 1)
    BY RemainIs
  <2> QED
    BY <2>1, Sizes
<1> QED
  BY <1>1 DEF Left

\* The bounds are small: for what is left a half of the tick count is enough.
LEMMA Lows ==
    ASSUME MaxLatency =< NumQueues, NEW c \in Tick32,
           NEW w \in -1..MaxLatency, NEW a \in -1..MaxLatency, NEW d
    PROVE  /\ HoldLow(w, a, c) \in (1 - Half)..NumQueues
           /\ OrdLow(w, a, d, c) \in (1 - Half)..NumQueues
           /\ a >= 0 => NumQueues - a \in 0..NumQueues
           /\ Max1 \in 1..NumQueues /\ MaxLatency =< Max1
<1>1. Span \in Nat \ {0} /\ NumQueues = 2 * Span /\ Half \in Nat /\ Half >= 4 * Span
  BY Sizes
<1>2. MaxLatency \in Nat
  BY TimerAssumption
<1>3. Max1 \in 1..NumQueues /\ MaxLatency =< Max1
  BY <1>1, <1>2 DEF Max1
<1>4. ToCheck(c) \in 0..(Span - 1)
  BY ToCheckIs
<1>5. PICK l \in Nat, m \in 1..NumQueues, k \in 0..(Span - 1) :
          l = MaxLatency /\ m = Max1 /\ k = ToCheck(c)
  BY <1>2, <1>3, <1>4
<1>6. w \in -1..l /\ a \in -1..l /\ l =< NumQueues
  BY <1>5
<1>7. HoldLow(w, a, c) \in (1 - Half)..NumQueues
  BY <1>1, <1>5, <1>6 DEF HoldLow
<1>8. OrdLow(w, a, d, c) \in (1 - Half)..NumQueues
  BY <1>1, <1>5, <1>6 DEF OrdLow
<1>9. a >= 0 => NumQueues - a \in 0..NumQueues
  BY <1>1, <1>5, <1>6
<1> QED
  BY <1>3, <1>7, <1>8, <1>9

\* Timers whose remaining time is bounded from below.
Tracked == {"EHolding", "EOrdered", "ECritical", "ETransferring"}

\* Between two ticks timers leave the ordered queue, and others begin to wait.
LEMMA SameTime ==
    ASSUME MaxLatency =< NumQueues,
           NEW r, NEW s, Exact(r, {}), Exact(s, {}), s.msCount = r.msCount,
           NEW w \in -1..MaxLatency, NEW a \in -1..MaxLatency, NEW d,
           Bounds(r, w, a, d), SortedBy(r.ordered, Left(r)),
           s.ordered = r.ordered \/ \E t \in Timer : s.ordered = Drop(r.ordered, t),
           \A u \in Timer :
              \/ s.state[u] = r.state[u] /\ s.triggerTime[u] = r.triggerTime[u]
              \/ /\ {s.state[u], r.state[u]} \subseteq {"EOrdered", "ECritical"}
                 /\ s.triggerTime[u] = r.triggerTime[u]
              \/ s.state[u] \in {"EIdle", "EFinal"}
              \/ /\ s.state[u] = "EHolding" \/ (s.state[u] = "ETransferring" /\ a >= 0)
                 /\ Remain(s, u) >= NumQueues
    PROVE  Bounds(s, w, a, d) /\ SortedBy(s.ordered, Left(s))
<1>1. r \in QState /\ s \in QState /\ r.msCount \in Tick32
  BY Fields DEF Exact
<1>2. PICK h \in Int, o \in Int : h = HoldLow(w, a, r.msCount) /\ h =< NumQueues
                                  /\ o = OrdLow(w, a, d, r.msCount)
  <2>1. HoldLow(w, a, r.msCount) \in (1 - Half)..NumQueues
        /\ OrdLow(w, a, d, r.msCount) \in (1 - Half)..NumQueues
    BY <1>1, Lows
  <2>2. Half \in Int /\ NumQueues \in Int
    BY Sizes
  <2> QED
    BY <2>1, <2>2
<1>3. \A u \in Timer : s.triggerTime[u] = r.triggerTime[u] => Remain(s, u) = Remain(r, u)
  BY DEF Remain
<1>4. \A u \in Timer : Remain(s, u) \in Int
  <2>1. \A u \in Timer : Remain(s, u) \in (-Half)..(Half - 1)
    BY <1>1, RemainIs
  <2> QED
    BY <2>1, Sizes
<1>5. NumQueues \in Int /\ (a >= 0 => NumQueues - a =< NumQueues)
  BY Sizes
<1>6. ASSUME NEW u \in Timer
      PROVE  /\ s.state[u] = "EHolding" => Remain(s, u) >= h
             /\ s.state[u] \in {"EOrdered", "ECritical"} => Remain(s, u) >= o
             /\ s.state[u] = "ETransferring" => Remain(s, u) >= NumQueues - a
  <2>1. /\ r.state[u] = "EHolding" => Remain(r, u) >= h
        /\ r.state[u] \in {"EOrdered", "ECritical"} => Remain(r, u) >= o
        /\ r.state[u] = "ETransferring" => Remain(r, u) >= NumQueues - a
    BY <1>2 DEF Bounds
  <2>2. CASE s.state[u] = r.state[u] /\ s.triggerTime[u] = r.triggerTime[u]
    BY <1>3, <2>1, <2>2
  <2>3. CASE /\ {s.state[u], r.state[u]} \subseteq {"EOrdered", "ECritical"}
             /\ s.triggerTime[u] = r.triggerTime[u]
    BY <1>3, <2>1, <2>3
  <2>4. CASE s.state[u] \in {"EIdle", "EFinal"}
    BY <2>4
  <2>5. CASE /\ s.state[u] = "EHolding" \/ (s.state[u] = "ETransferring" /\ a >= 0)
             /\ Remain(s, u) >= NumQueues
    BY <1>2, <1>4, <1>5, <2>5
  <2> QED
    BY <2>2, <2>3, <2>4, <2>5
<1>7. Bounds(s, w, a, d)
  BY <1>2, <1>6 DEF Bounds
<1>8. SortedBy(s.ordered, Left(r))
  <2>1. r.ordered \in Seq(Timer)
    BY <1>1, Fields
  <2>2. ASSUME NEW t \in Timer, s.ordered = Drop(r.ordered, t)
        PROVE  SortedBy(s.ordered, Left(r))
    <3>1. CASE t \in Range(r.ordered)
      BY <2>1, <2>2, <3>1, WithoutSorted DEF Drop
    <3>2. CASE t \notin Range(r.ordered)
      BY <2>2, <3>2 DEF Drop
    <3> QED
      BY <3>1, <3>2
  <2> QED
    BY <2>2
<1>9. ASSUME NEW u \in Range(s.ordered) PROVE Left(s)[u] = Left(r)[u] - 0
  <2>1. u \in Timer
    <3>1. s.ordered \in Seq(Timer)
      BY <1>1, Fields
    <3> QED
      BY <3>1 DEF Range
  <2>2. s.state[u] \in {"EOrdered", "ECritical"}
    <3>1. Place(s, u)
      BY <2>1 DEF Exact
    <3> QED
      BY <1>9, <3>1 DEF Place
  <2>3. Remain(s, u) = Remain(r, u)
    BY <1>3, <2>1, <2>2
  <2>4. Left(s)[u] = Remain(s, u) /\ Left(r)[u] = Remain(r, u)
    BY <1>1, <2>1, LeftType
  <2> QED
    BY <1>4, <2>1, <2>3, <2>4
<1>10. SortedBy(s.ordered, Left(s))
  <2>1. s.ordered \in Seq(Timer) /\ Left(r) \in [Timer -> Int] /\ 0 \in Int
    BY <1>1, Fields, LeftType
  <2> QED
    BY <1>8, <1>9, <2>1, ShiftSorted
<1> QED
  BY <1>7, <1>10

\* The timer at which the walk stands stays before the one in transfer.
LEMMA StillBehind ==
    ASSUME NEW r, NEW s, NEW d, NEW c \in Timer \cup {Null}, NEW n \in Timer \cup {Null},
           Pointers(r, d, c, n), Behind(r, d, c, n),
           \A u \in Timer : s.state[u] \in {"ETransferring", "ECritical"} =>
               s.state[u] = r.state[u] /\ s.triggerTime[u] = r.triggerTime[u]
    PROVE  Behind(s, d, c, n)
<1>1. d = "critical" => c \in Timer /\ n \in Timer
  BY DEF Pointers
<1> QED
  BY <1>1 DEF Behind

\* Ticks go by.
LEMMA LaterTime ==
    ASSUME NEW r, NEW s, Exact(r, {}), Exact(s, {}), s.state = r.state,
           s.triggerTime = r.triggerTime, s.ordered = r.ordered,
           NEW n \in 0..(Modulus - 1), s.msCount = (r.msCount + n) % Modulus,
           SortedBy(r.ordered, Left(r)),
           \A u \in Timer : r.state[u] \in Tracked => Remain(r, u) - n >= -Half
    PROVE  /\ \A u \in Timer : r.state[u] \in Tracked => Remain(s, u) = Remain(r, u) - n
           /\ SortedBy(s.ordered, Left(s))
<1>1. r \in QState /\ s \in QState
  BY DEF Exact
<1>2. ASSUME NEW u \in Timer, r.state[u] \in Tracked
      PROVE  Remain(s, u) = Remain(r, u) - n
  <2>1. Remain(r, u) - n >= -Half /\ s.triggerTime[u] = r.triggerTime[u]
    BY <1>2
  <2> QED
    BY <1>1, <2>1, RemainLater
<1>3. ASSUME NEW u \in Range(r.ordered) PROVE Left(s)[u] = Left(r)[u] - n
  <2>1. u \in Timer
    <3>1. r.ordered \in Seq(Timer)
      BY <1>1, Fields
    <3> QED
      BY <3>1 DEF Range
  <2>2. r.state[u] \in {"EOrdered", "ECritical"}
    <3>1. Place(r, u)
      BY <2>1 DEF Exact
    <3> QED
      BY <1>3, <3>1 DEF Place
  <2>3. Remain(s, u) = Remain(r, u) - n
    BY <1>2, <2>1, <2>2 DEF Tracked
  <2>4. Left(s)[u] = Remain(s, u) /\ Left(r)[u] = Remain(r, u)
    BY <1>1, <2>1, LeftType
  <2> QED
    BY <2>3, <2>4
<1>4. SortedBy(s.ordered, Left(s))
  <2>1. r.ordered \in Seq(Timer) /\ Left(r) \in [Timer -> Int] /\ n \in Int
    BY <1>1, Fields, LeftType
  <2>2. SortedBy(r.ordered, Left(s))
    BY <1>3, <2>1, ShiftSorted
  <2> QED
    BY <2>2
<1> QED
  BY <1>2, <1>4

\* On an exact and sorted queue nothing has less time left than the first.
LEMMA FirstOrdered ==
    ASSUME NEW r, Exact(r, {}), SortedBy(r.ordered, Left(r)), NEW u \in Timer,
           r.state[u] \in {"EOrdered", "ECritical"}
    PROVE  /\ r.ordered # <<>> /\ Head(r.ordered) \in Timer
           /\ r.state[Head(r.ordered)] \in {"EOrdered", "ECritical"}
           /\ Remain(r, Head(r.ordered)) =< Remain(r, u)
<1>1. r \in QState /\ Place(r, u) /\ r.ordered \in Seq(Timer)
  BY Fields DEF Exact
<1>2. u \in Range(r.ordered)
  BY <1>1 DEF Place
<1>3. r.ordered # <<>>
  BY <1>2 DEF Range
<1>4. Head(r.ordered) \in Timer
  BY <1>1, <1>3
<1>5. Left(r) \in [Timer -> Int]
  BY <1>1, LeftType
<1>6. Head(r.ordered) \in Range(r.ordered) /\ Left(r)[Head(r.ordered)] =< Left(r)[u]
  BY <1>1, <1>2, <1>3, <1>5, SortedHead
<1>7. Place(r, Head(r.ordered))
  BY <1>4 DEF Exact
<1>8. r.state[Head(r.ordered)] \in {"EOrdered", "ECritical"}
  BY <1>6, <1>7 DEF Place
<1>9. Left(r)[Head(r.ordered)] = Remain(r, Head(r.ordered)) /\ Left(r)[u] = Remain(r, u)
  BY <1>1, <1>4, LeftType
<1> QED
  BY <1>3, <1>4, <1>6, <1>8, <1>9

\* Neither request for the DFC is older than the latency.
LEMMA Ages ==
    ASSUME QIInv
    PROVE  Asked \in -1..MaxLatency /\ running \in -1..MaxLatency
<1>1. MaxLatency \in Nat /\ waiting \in -1..MaxLatency /\ running \in -1..MaxLatency
  BY TimerAssumption DEF QIInv
<1> QED
  BY <1>1 DEF Asked, QueueDfc

\* A step between two ticks, the DFC staying where it is.
LEMMA BetweenTicks ==
    ASSUME MaxLatency =< NumQueues, QIInv, QIInv', TimeInv, dfc' = dfc, pC' = pC, pN' = pN,
           running' = running, Asked' = Asked, q'.msCount = q.msCount,
           q'.ordered = q.ordered \/ \E t \in Timer : q'.ordered = Drop(q.ordered, t),
           \A u \in Timer :
              \/ q'.state[u] = q.state[u] /\ q'.triggerTime[u] = q.triggerTime[u]
              \/ q'.state[u] \in {"EIdle", "EFinal"}
              \/ q'.state[u] = "EHolding" /\ Remain(q', u) >= NumQueues
    PROVE  TimeInv'
<1>1. Exact(q, {}) /\ Exact(q', {}) /\ Pointers(q, dfc, pC, pN)
      /\ pC \in Timer \cup {Null} /\ pN \in Timer \cup {Null}
  BY DEF QIInv
<1>2. Asked \in -1..MaxLatency /\ running \in -1..MaxLatency
  BY Ages
<1>3. /\ running >= 0 <=> dfc \in {"ordered", "holding", "walk", "critical"}
      /\ Bounds(q, Asked, running, dfc) /\ SortedBy(q.ordered, Left(q))
      /\ Behind(q, dfc, pC, pN)
  BY DEF TimeInv
<1>4. Bounds(q', Asked, running, dfc) /\ SortedBy(q'.ordered, Left(q'))
  BY <1>1, <1>2, <1>3, SameTime
<1>5. Behind(q', dfc, pC, pN)
  <2>1. \A u \in Timer : q'.state[u] \in {"ETransferring", "ECritical"} =>
            q'.state[u] = q.state[u] /\ q'.triggerTime[u] = q.triggerTime[u]
    OBVIOUS
  <2> QED
    BY <1>1, <1>3, <2>1, StillBehind
<1> QED
  BY <1>3, <1>4, <1>5 DEF TimeInv

\* A timer is started,
LEMMA StartedTime ==
    ASSUME MaxLatency =< NumQueues, QIInv, QIInv', TimeInv, NEW t \in Timer, Started(q, q', t),
           UNCHANGED <<isr, doDfc, dfc, pC, pN, waiting, running>>
    PROVE  TimeInv'
<1>1. q'.msCount = q.msCount /\ q'.ordered = q.ordered
  BY DEF Started, Same
<1>2. Remain(q', t) \in Int /\ NumQueues \in Int
  <2>1. Remain(q', t) \in 0..(Half - 1)
    BY DEF Started
  <2> QED
    BY <2>1, Sizes
<1>3. \/ q'.state[t] = "EFinal"
      \/ q'.state[t] = "EHolding" /\ Remain(q', t) >= NumQueues
  BY <1>2 DEF Started
<1>4. \A u \in Timer : u # t =>
          q'.state[u] = q.state[u] /\ q'.triggerTime[u] = q.triggerTime[u]
  BY DEF Started, Same
<1>5. \A u \in Timer :
          \/ q'.state[u] = q.state[u] /\ q'.triggerTime[u] = q.triggerTime[u]
          \/ q'.state[u] \in {"EIdle", "EFinal"}
          \/ q'.state[u] = "EHolding" /\ Remain(q', u) >= NumQueues
  BY <1>3, <1>4
<1>6. Asked' = Asked
  BY DEF Asked
<1> QED
  BY <1>1, <1>5, <1>6, BetweenTicks

\* is called back,
LEMMA CalledBackTime ==
    ASSUME MaxLatency =< NumQueues, QIInv, QIInv', TimeInv, dfc' = dfc, pC' = pC, pN' = pN,
           running' = running, Asked' = Asked,
           q' = q \/ \E t \in Timer : CalledBack(q, q', t)
    PROVE  TimeInv'
<1>1. CASE q' = q
  BY <1>1, BetweenTicks
<1>2. ASSUME NEW t \in Timer, CalledBack(q, q', t) PROVE TimeInv'
  <2>1. q'.msCount = q.msCount /\ q'.ordered = q.ordered /\ q'.state[t] = "EIdle"
        /\ \A u \in Timer : u # t =>
              q'.state[u] = q.state[u] /\ q'.triggerTime[u] = q.triggerTime[u]
    BY <1>2 DEF CalledBack, Same
  <2>2. \A u \in Timer :
            \/ q'.state[u] = q.state[u] /\ q'.triggerTime[u] = q.triggerTime[u]
            \/ q'.state[u] \in {"EIdle", "EFinal"}
    BY <2>1
  <2> QED
    BY <2>1, <2>2, BetweenTicks
<1> QED
  BY <1>1, <1>2

\* or is cancelled.
LEMMA CancelTime ==
    ASSUME MaxLatency =< NumQueues, QIInv, TimeInv, NEW t \in Timer, Cancel(t)
    PROVE  TimeInv'
<1>1. QIInv' /\ Exact(q, {})
  BY CancelKeeps DEF QIInv
<1>2. q' = CancelTimer(q, t) /\ UNCHANGED <<isr, doDfc, dfc, pC, pN, waiting, running>>
  BY DEF Cancel
<1>3. /\ q'.state = [q.state EXCEPT ![t] = "EIdle"] /\ q'.msCount = q.msCount
      /\ q'.ordered = Drop(q.ordered, t)
      /\ \A u \in Timer : u # t => q'.triggerTime[u] = q.triggerTime[u]
  <2>1. q' = CancelTimer(q, t)
    BY <1>2
  <2>2. Exact(q, {})
    BY <1>1
  <2> QED
    BY <2>1, <2>2, CancelExact
<1>4. q.state \in [Timer -> TState]
  BY <1>1, Fields DEF Exact
<1>5. \A u \in Timer :
          \/ q'.state[u] = q.state[u] /\ q'.triggerTime[u] = q.triggerTime[u]
          \/ q'.state[u] \in {"EIdle", "EFinal"}
  BY <1>3, <1>4
<1>6. Asked' = Asked
  BY <1>2 DEF Asked
<1> QED
  BY <1>1, <1>2, <1>3, <1>5, <1>6, BetweenTicks

\* ... and when the tick interrupt goes on.
LEMMA TickGoesOnTime ==
    ASSUME MaxLatency =< NumQueues, QIInv, TimeInv, TickGoesOn
    PROVE  TimeInv'
BY TickGoesOnKeeps, CalledBackTime
-----------------------------------------------------------------------------
\* The bounds for where the DFC goes follow from those for where it was.
LEMMA BoundsFollow ==
    ASSUME MaxLatency =< NumQueues, NEW r \in QState,
           NEW w \in -1..MaxLatency, NEW a \in -1..MaxLatency, NEW d, Bounds(r, w, a, d),
           NEW x \in -1..MaxLatency, NEW b \in -1..MaxLatency, NEW e,
           \A u \in Timer : r.state[u] = "EHolding" =>
               HoldLow(x, b, r.msCount) =< HoldLow(w, a, r.msCount),
           \A u \in Timer : r.state[u] \in {"EOrdered", "ECritical"} =>
               \/ OrdLow(x, b, e, r.msCount) =< OrdLow(w, a, d, r.msCount)
               \/ OrdLow(x, b, e, r.msCount) =< Remain(r, u),
           \A u \in Timer : r.state[u] = "ETransferring" => b = a
    PROVE  Bounds(r, x, b, e)
<1>1. PICK c \in Tick32 : c = r.msCount
  BY Fields
<1>2. PICK h1 \in Int, h2 \in Int, o1 \in Int, o2 \in Int :
          /\ h1 = HoldLow(w, a, c) /\ h2 = HoldLow(x, b, c)
          /\ o1 = OrdLow(w, a, d, c) /\ o2 = OrdLow(x, b, e, c)
  <2>1. /\ HoldLow(w, a, c) \in (1 - Half)..NumQueues
        /\ HoldLow(x, b, c) \in (1 - Half)..NumQueues
        /\ OrdLow(w, a, d, c) \in (1 - Half)..NumQueues
        /\ OrdLow(x, b, e, c) \in (1 - Half)..NumQueues
    BY Lows
  <2>2. Half \in Int /\ NumQueues \in Int
    BY Sizes
  <2> QED
    BY <2>1, <2>2
<1>3. ASSUME NEW u \in Timer
      PROVE  /\ r.state[u] = "EHolding" => Remain(r, u) >= h2
             /\ r.state[u] \in {"EOrdered", "ECritical"} => Remain(r, u) >= o2
             /\ r.state[u] = "ETransferring" => Remain(r, u) >= NumQueues - b
  <2>1. PICK v \in Int : v = Remain(r, u)
    <3>1. Remain(r, u) \in (-Half)..(Half - 1)
      BY RemainIs
    <3> QED
      BY <3>1, Sizes
  <2>2. /\ r.state[u] = "EHolding" => v >= h1
        /\ r.state[u] \in {"EOrdered", "ECritical"} => v >= o1
        /\ r.state[u] = "ETransferring" => v >= NumQueues - a
    BY <1>1, <1>2, <2>1 DEF Bounds
  <2>3. /\ r.state[u] = "EHolding" => h2 =< h1
        /\ r.state[u] \in {"EOrdered", "ECritical"} => o2 =< o1 \/ o2 =< v
    BY <1>1, <1>2, <2>1
  <2> QED
    BY <1>2, <2>1, <2>2, <2>3
<1> QED
  BY <1>1, <1>2, <1>3 DEF Bounds

\* The timer DFC starts and takes the request over.
LEMMA DfcStartTime ==
    ASSUME MaxLatency =< NumQueues, QIInv, TimeInv, DfcStart
    PROVE  TimeInv'
<1>1. /\ isr = "off" /\ dfc = "off" /\ waiting >= 0 /\ dfc' = "ordered"
      /\ running' = waiting /\ waiting' = -1
      /\ q' = q /\ isr' = isr /\ pC' = pC /\ pN' = pN
  BY DEF DfcStart
<1>2. /\ q \in QState /\ waiting \in -1..MaxLatency /\ running \in -1..MaxLatency
      /\ Pointers(q, dfc, pC, pN) /\ MaxLatency \in Nat
  BY TimerAssumption DEF QIInv, Exact
<1>3. Asked = waiting /\ Asked' = -1
  BY <1>1 DEF Asked
<1>4. /\ running >= 0 <=> dfc \in {"ordered", "holding", "walk", "critical"}
      /\ Bounds(q, waiting, running, dfc) /\ SortedBy(q.ordered, Left(q))
  BY <1>3 DEF TimeInv
<1>5. running = -1
  BY <1>1, <1>2, <1>4
<1>6. PICK w \in 0..MaxLatency : w = waiting
  BY <1>1, <1>2
<1>7. PICK c : c = q.msCount
  OBVIOUS
<1>8. HoldLow(w, -1, c) = Span - w /\ HoldLow(-1, w, c) = Span - w
  BY <1>2 DEF HoldLow
<1>9. OrdLow(w, -1, "off", c) = Span - Max1 - w /\ OrdLow(-1, w, "ordered", c) = Span - Max1 - w
  BY <1>2 DEF OrdLow
<1>10. Span - w \in Int /\ Span - Max1 - w \in Int
  <2>1. Max1 \in Int
    BY <1>2 DEF Max1
  <2> QED
    BY <1>2, <2>1, Sizes
<1>11. \A u \in Timer : q.state[u] # "ETransferring"
  BY <1>1, <1>2 DEF Pointers
<1>12. -1 \in -1..MaxLatency /\ w \in -1..MaxLatency
  BY <1>2
<1>13. Bounds(q, -1, w, "ordered")
  <2>1. Bounds(q, w, -1, "off")
    BY <1>1, <1>4, <1>5, <1>6
  <2>2. /\ HoldLow(-1, w, q.msCount) =< HoldLow(w, -1, q.msCount)
        /\ OrdLow(-1, w, "ordered", q.msCount) =< OrdLow(w, -1, "off", q.msCount)
    BY <1>7, <1>8, <1>9, <1>10
  <2> QED
    BY <1>2, <1>11, <1>12, <2>1, <2>2, BoundsFollow
<1>14. Behind(q', dfc', pC', pN')
  BY <1>1 DEF Behind
<1>15. running' >= 0
  BY <1>1
<1> QED
  BY <1>1, <1>3, <1>4, <1>6, <1>13, <1>14, <1>15 DEF TimeInv

\* A timer is moved to a final queue.
LEMMA ToFinalTime ==
    ASSUME MaxLatency =< NumQueues, QIInv, QIInv', TimeInv, dfc' = dfc, pC' = pC, pN' = pN,
           running' = running, Asked' = Asked, NEW t \in Timer, ToFinal(q, q', t)
    PROVE  TimeInv'
<1>1. q'.msCount = q.msCount /\ q'.ordered = Drop(q.ordered, t) /\ q'.state[t] = "EFinal"
      /\ q'.triggerTime = q.triggerTime
      /\ \A u \in Timer : u # t => q'.state[u] = q.state[u]
  BY DEF ToFinal, Same
<1>2. \A u \in Timer :
          \/ q'.state[u] = q.state[u] /\ q'.triggerTime[u] = q.triggerTime[u]
          \/ q'.state[u] \in {"EIdle", "EFinal"}
  BY <1>1
<1> QED
  BY <1>1, <1>2, BetweenTicks

\* Beyond the first loop it does not matter to the bounds where the DFC is.
LEMMA SameBounds ==
    ASSUME MaxLatency =< NumQueues, NEW r \in QState, NEW w \in -1..MaxLatency,
           NEW a \in -1..MaxLatency, NEW d, d # "ordered", NEW e, e # "ordered",
           Bounds(r, w, a, d)
    PROVE  Bounds(r, w, a, e)
<1>1. OrdLow(w, a, e, r.msCount) = OrdLow(w, a, d, r.msCount)
  BY DEF OrdLow
<1> QED
  BY <1>1 DEF Bounds

\* The first ordered timer is moved, or the rest are not due yet.
LEMMA OrderedToFinalTime ==
    ASSUME MaxLatency =< NumQueues, QIInv, TimeInv, OrderedToFinal
    PROVE  TimeInv'
<1>1. /\ QIInv' /\ dfc = "ordered" /\ Asked' = Asked
      /\ pC' = pC /\ pN' = pN /\ waiting' = waiting /\ running' = running
      /\ \/ /\ q' = q /\ dfc' = "holding"
            /\ ~(q.ordered # <<>> /\ Remain(q, Head(q.ordered)) < NumQueues)
         \/ dfc' = dfc /\ \E t \in Timer : ToFinal(q, q', t) /\ q.state[t] = "EOrdered"
  BY OrderedToFinalKeeps
<1>2. ASSUME q' = q, dfc' = "holding",
             ~(q.ordered # <<>> /\ Remain(q, Head(q.ordered)) < NumQueues)
      PROVE  TimeInv'
  <2>1. Exact(q, {}) /\ q \in QState /\ Asked \in -1..MaxLatency /\ running \in -1..MaxLatency
    BY Ages DEF QIInv, Exact
  <2>2. /\ running >= 0 /\ Bounds(q, Asked, running, "ordered")
        /\ SortedBy(q.ordered, Left(q))
    BY <1>1 DEF TimeInv
  <2>3. ASSUME NEW u \in Timer, q.state[u] \in {"EOrdered", "ECritical"}
        PROVE  OrdLow(Asked, running, "holding", q.msCount) =< Remain(q, u)
    <3>1. /\ q.ordered # <<>> /\ Head(q.ordered) \in Timer
          /\ Remain(q, Head(q.ordered)) =< Remain(q, u)
      BY <2>1, <2>2, <2>3, FirstOrdered
    <3>2. PICK v \in Int, h \in Int, n \in Int :
              v = Remain(q, u) /\ h = Remain(q, Head(q.ordered)) /\ n = NumQueues
      <4>1. /\ Remain(q, u) \in (-Half)..(Half - 1)
            /\ Remain(q, Head(q.ordered)) \in (-Half)..(Half - 1)
        BY <2>1, <3>1, RemainIs
      <4> QED
        BY <4>1, Sizes
    <3>3. v >= n
      BY <1>2, <3>1, <3>2
    <3>4. OrdLow(Asked, running, "holding", q.msCount) = n - running /\ running \in Int
      BY <2>1, <2>2, <3>2 DEF OrdLow
    <3> QED
      BY <2>2, <3>2, <3>3, <3>4
  <2>4. \A u \in Timer : q.state[u] # "EHolding" \/
            HoldLow(Asked, running, q.msCount) =< HoldLow(Asked, running, q.msCount)
    <3>1. HoldLow(Asked, running, q.msCount) \in (1 - Half)..NumQueues
      BY <2>1, Fields, Lows
    <3> QED
      BY <3>1, Sizes
  <2>5. Bounds(q, Asked, running, "holding")
    BY <2>1, <2>2, <2>3, <2>4, BoundsFollow
  <2>6. Behind(q', dfc', pC', pN')
    BY <1>2 DEF Behind
  <2> QED
    BY <1>1, <1>2, <2>2, <2>5, <2>6 DEF TimeInv
<1>3. CASE dfc' = dfc /\ \E t \in Timer : ToFinal(q, q', t) /\ q.state[t] = "EOrdered"
  BY <1>1, <1>3, ToFinalTime
<1> QED
  BY <1>1, <1>2, <1>3

\* A timer of the holding queue is final at once, or far enough to be ordered.
LEMMA TakeFromHoldingTime ==
    ASSUME MaxLatency =< NumQueues, QIInv, TimeInv, TakeFromHolding
    PROVE  TimeInv'
<1>1. /\ QIInv' /\ dfc = "holding" /\ Asked' = Asked
      /\ pN' = pN /\ waiting' = waiting
      /\ \/ /\ q.holding = <<>> /\ q' = q /\ dfc' = "completed" /\ running' = -1
         \/ /\ dfc' = dfc /\ running' = running
            /\ \E t \in Timer : ToFinal(q, q', t) /\ q.state[t] = "EHolding"
         \/ /\ dfc' = "walk" /\ running' = running
            /\ \E t \in Timer : InTransfer(q, q', t)
  BY TakeFromHoldingKeeps
<1>2. /\ Exact(q, {}) /\ Exact(q', {}) /\ q \in QState /\ q' \in QState
      /\ Asked \in -1..MaxLatency /\ running \in -1..MaxLatency
      /\ Pointers(q, dfc, pC, pN) /\ MaxLatency \in Nat
  BY <1>1, Ages, TimerAssumption DEF QIInv, Exact
<1>3. /\ running >= 0 /\ Bounds(q, Asked, running, "holding")
      /\ SortedBy(q.ordered, Left(q))
  BY <1>1 DEF TimeInv
<1>4. ASSUME q.holding = <<>>, q' = q, dfc' = "completed", running' = -1 PROVE TimeInv'
  <2>1. \A u \in Timer : q.state[u] # "EHolding" /\ q.state[u] # "ETransferring"
    <3>1. \A u \in Timer : Place(q, u)
      BY <1>2 DEF Exact
    <3> QED
      BY <1>1, <1>2, <1>4, <3>1 DEF Place, Range, Pointers
  <2>2. OrdLow(Asked, -1, "completed", q.msCount) =< OrdLow(Asked, running, "holding", q.msCount)
    <3>1. PICK c \in Tick32 : c = q.msCount
      BY <1>2, Fields
    <3>2. PICK m \in Nat, l \in Nat, n \in Nat, h \in Nat, k \in Nat :
              /\ m = Max1 /\ l = MaxLatency /\ n = NumQueues /\ h = Span /\ k = ToCheck(c)
              /\ l =< m /\ n = 2 * h /\ k =< h - 1 /\ running =< l
      <4>1. Max1 \in 1..NumQueues /\ MaxLatency =< Max1
        BY <1>2, <3>1, Lows
      <4>2. ToCheck(c) \in 0..(Span - 1)
        BY <3>1, ToCheckIs
      <4>3. Span \in Nat \ {0} /\ NumQueues = 2 * Span
        BY Sizes
      <4>4. Max1 \in Nat /\ NumQueues \in Nat /\ ToCheck(c) \in Nat /\ ToCheck(c) =< Span - 1
        BY <4>1, <4>2, <4>3
      <4>5. MaxLatency \in Nat /\ running =< MaxLatency
        BY <1>2
      <4> QED
        BY <4>1, <4>3, <4>4, <4>5
    <3>3. OrdLow(Asked, running, "holding", c) = n - running
      BY <1>2, <1>3, <3>2 DEF OrdLow
    <3>4. OrdLow(Asked, -1, "completed", c) = IF Asked >= 0 THEN h - m - Asked ELSE h + 1 - m + k
      BY <1>2, <3>2 DEF OrdLow
    <3> QED
      BY <1>2, <1>3, <3>1, <3>2, <3>3, <3>4
  <2>3. -1 \in -1..MaxLatency
    BY <1>2
  <2>4. Bounds(q, Asked, -1, "completed")
    BY <1>2, <1>3, <2>1, <2>2, <2>3, BoundsFollow
  <2>5. Behind(q', dfc', pC', pN') /\ ~(running' >= 0)
    BY <1>4 DEF Behind
  <2> QED
    BY <1>1, <1>3, <1>4, <2>4, <2>5 DEF TimeInv
<1>5. ASSUME dfc' = dfc, running' = running, NEW t \in Timer, ToFinal(q, q', t)
      PROVE  TimeInv'
  <2>1. pC' = pC
    BY <1>1, <1>5 DEF TakeFromHolding
  <2> QED
    BY <1>1, <1>5, <2>1, ToFinalTime
<1>6. ASSUME dfc' = "walk", running' = running, NEW t \in Timer, InTransfer(q, q', t)
      PROVE  TimeInv'
  <2>1. /\ q'.msCount = q.msCount /\ q'.triggerTime = q.triggerTime
        /\ q'.ordered = Drop(q.ordered, t) /\ q'.state[t] = "ETransferring"
        /\ ~(Remain(q, t) < NumQueues)
        /\ \A u \in Timer : u # t => q'.state[u] = q.state[u]
    BY <1>6 DEF InTransfer, Same
  <2>2. Remain(q', t) >= NumQueues
    <3>1. Remain(q', t) = Remain(q, t)
      BY <2>1 DEF Remain
    <3>2. Remain(q, t) \in (-Half)..(Half - 1)
      BY <1>2, RemainIs
    <3> QED
      BY <2>1, <3>1, <3>2, Sizes
  <2>3. \A u \in Timer :
            \/ q'.state[u] = q.state[u] /\ q'.triggerTime[u] = q.triggerTime[u]
            \/ q'.state[u] = "ETransferring" /\ Remain(q', u) >= NumQueues
    BY <2>1, <2>2
  <2>4. Bounds(q, Asked, running, "walk")
    BY <1>2, <1>3, SameBounds
  <2>5. Bounds(q', Asked, running, "walk") /\ SortedBy(q'.ordered, Left(q'))
    BY <1>2, <1>3, <2>1, <2>3, <2>4, SameTime
  <2>6. Behind(q', dfc', pC', pN')
    BY <1>6 DEF Behind
  <2> QED
    BY <1>1, <1>3, <1>6, <2>5, <2>6 DEF TimeInv
<1> QED
  BY <1>1, <1>4, <1>5, <1>6

\* A completed timer is called back, or the DFC ends.
LEMMA CallCompletedTime ==
    ASSUME MaxLatency =< NumQueues, QIInv, TimeInv, CallCompleted
    PROVE  TimeInv'
<1>1. /\ QIInv' /\ dfc = "completed" /\ Asked' = Asked
      /\ pC' = pC /\ pN' = pN /\ waiting' = waiting /\ running' = running
      /\ \/ q' = q /\ dfc' = "off"
         \/ dfc' = dfc /\ \E t \in Timer : CalledBack(q, q', t)
  BY CallCompletedKeeps
<1>2. ASSUME q' = q, dfc' = "off" PROVE TimeInv'
  <2>1. /\ ~(running >= 0) /\ Bounds(q, Asked, running, "completed")
        /\ SortedBy(q.ordered, Left(q))
    BY <1>1 DEF TimeInv
  <2>2. q \in QState /\ Asked \in -1..MaxLatency /\ running \in -1..MaxLatency
    BY Ages DEF QIInv, Exact
  <2>3. Bounds(q, Asked, running, "off")
    BY <2>1, <2>2, SameBounds
  <2>4. Behind(q', dfc', pC', pN')
    BY <1>2 DEF Behind
  <2> QED
    BY <1>1, <1>2, <2>1, <2>3, <2>4 DEF TimeInv
<1>3. CASE dfc' = dfc /\ \E t \in Timer : CalledBack(q, q', t)
  BY <1>1, <1>3, CalledBackTime
<1> QED
  BY <1>1, <1>2, <1>3

\* The walk compares the trigger times of two timers that are not past theirs.
LEMMA EarlierIs ==
    ASSUME NEW r \in QState, NEW n \in Timer, NEW c \in Timer,
           Remain(r, n) >= 0, Remain(r, c) >= 0
    PROVE  Minus(r.triggerTime[n], r.triggerTime[c]) >= Half <=> Remain(r, n) < Remain(r, c)
<1>1. PICK x \in 0..(Half - 1), y \in 0..(Half - 1) : x = Remain(r, n) /\ y = Remain(r, c)
  <2>1. Remain(r, n) \in (-Half)..(Half - 1) /\ Remain(r, c) \in (-Half)..(Half - 1)
    BY RemainIs
  <2> QED
    BY <2>1, Sizes
<1>2. PICK h \in Nat \ {0}, m \in Nat \ {0} : h = Half /\ m = Modulus /\ m = 2 * h
  BY Sizes
<1>3. PICK tn \in Int, tc \in Int, ms \in Int :
          tn = r.triggerTime[n] /\ tc = r.triggerTime[c] /\ ms = r.msCount
  <2>1. r.triggerTime[n] \in Tick32 /\ r.triggerTime[c] \in Tick32 /\ r.msCount \in Tick32
    BY Fields
  <2>2. Tick32 \subseteq Int
    BY Constants
  <2> QED
    BY <2>1, <2>2
<1>4. PICK e \in {-1, 0, 1} : tn - ms = x + e * m
  BY <1>1, <1>2, <1>3, RemainIs
<1>5. PICK f \in {-1, 0, 1} : tc - ms = y + f * m
  BY <1>1, <1>2, <1>3, RemainIs
<1>6. PICK g \in Int : tn - tc = m * g + (x - y)
  <2>1. tn - tc = m * (e - f) + (x - y)
    BY <1>4, <1>5
  <2>2. e - f \in Int
    OBVIOUS
  <2> QED
    BY <2>1, <2>2
<1>7. Minus(r.triggerTime[n], r.triggerTime[c]) = (tn - tc) % m
  BY <1>2, <1>3 DEF Minus
<1>8. CASE x >= y
  <2>1. PICK z \in 0..(m - 1) : z = x - y /\ ~(z >= h)
    BY <1>1, <1>2, <1>8
  <2>2. PICK v \in Int : v = tn - tc /\ v = m * g + z
    BY <1>6, <2>1
  <2>3. v % m = z
    BY <2>2, ModIs
  <2> QED
    BY <1>1, <1>2, <1>7, <1>8, <2>1, <2>2, <2>3
<1>9. CASE x < y
  <2>1. PICK z \in 0..(m - 1) : z = x - y + m /\ z >= h
    BY <1>1, <1>2, <1>9
  <2>2. PICK v \in Int, k \in Int : v = tn - tc /\ k = g - 1 /\ v = m * k + z
    <3>1. m * (g - 1) = m * g - m
      OBVIOUS
    <3> QED
      BY <1>6, <2>1, <3>1
  <2>3. v % m = z
    BY <2>2, ModIs
  <2> QED
    BY <1>1, <1>2, <1>7, <1>9, <2>1, <2>2, <2>3
<1> QED
  BY <1>1, <1>8, <1>9

\* Timers that the DFC compares are not past their time.
LEMMA NotPast ==
    ASSUME MaxLatency =< NumQueues, NEW r \in QState, NEW w, NEW a \in 0..MaxLatency,
           NEW d, d # "ordered", Bounds(r, w, a, d), NEW u \in Timer,
           r.state[u] \in {"EOrdered", "ECritical", "ETransferring"}
    PROVE  Remain(r, u) \in Int /\ Remain(r, u) >= 0
<1>1. MaxLatency \in Nat /\ NumQueues \in Nat
  BY TimerAssumption
<1>2. OrdLow(w, a, d, r.msCount) = NumQueues - a
  BY <1>1 DEF OrdLow
<1>3. Remain(r, u) >= NumQueues - a
  BY <1>2 DEF Bounds
<1>4. Remain(r, u) \in Int
  <2>1. Remain(r, u) \in (-Half)..(Half - 1)
    BY RemainIs
  <2> QED
    BY <2>1, Sizes
<1> QED
  BY <1>1, <1>3, <1>4

\* The walk comes to n; what comes before n on the queue goes before c.
LEMMA WalkedTime ==
    ASSUME MaxLatency =< NumQueues, NEW r, NEW s, Exact(r, {}), Exact(s, {}),
           NEW w, NEW a \in 0..MaxLatency, NEW d, NEW c \in Timer,
           NEW n \in Range(r.ordered) \cup {Null}, Walked(r, s, d, c, n),
           Bounds(r, w, a, "walk"), SortedBy(r.ordered, Left(r)),
           \A i \in 1..Len(r.ordered) :
              /\ r.state[c] = "ETransferring"
              /\ IF i = Len(r.ordered) THEN n = Null ELSE n # Null /\ r.ordered[i + 1] = n
              => Remain(r, r.ordered[i]) =< Remain(r, c)
    PROVE  /\ Bounds(s, w, a, d) /\ SortedBy(s.ordered, Left(s))
           /\ d = "critical" => Behind(s, d, c, n)
<1>1. /\ r \in QState /\ s \in QState /\ r.ordered \in Seq(Timer) /\ NumQueues \in Nat
      /\ MaxLatency \in Nat /\ Null \notin Timer
  BY Fields, Constants, TimerAssumption DEF Exact
<1>2. s.msCount = r.msCount /\ s.triggerTime = r.triggerTime /\ d # "ordered"
  BY DEF Walked
<1>3. \A u \in Timer : Remain(s, u) = Remain(r, u)
  BY <1>2 DEF Remain
<1>4. Left(s) = Left(r)
  BY <1>3 DEF Left
<1>5. \A e : e # "ordered" => OrdLow(w, a, e, r.msCount) = NumQueues - a
  BY <1>1 DEF OrdLow
<1>6. ASSUME \A u \in Timer : \/ s.state[u] = r.state[u]
                              \/ {s.state[u], r.state[u]}
                                     \subseteq {"EOrdered", "ECritical", "ETransferring"}
      PROVE  Bounds(s, w, a, d)
  <2>1. \A u \in Timer :
            /\ r.state[u] = "EHolding" => Remain(r, u) >= HoldLow(w, a, r.msCount)
            /\ r.state[u] \in {"EOrdered", "ECritical"} => Remain(r, u) >= NumQueues - a
            /\ r.state[u] = "ETransferring" => Remain(r, u) >= NumQueues - a
    BY <1>5 DEF Bounds
  <2>2. \A u \in Timer :
            /\ s.state[u] = "EHolding" => Remain(s, u) >= HoldLow(w, a, s.msCount)
            /\ s.state[u] \in {"EOrdered", "ECritical"} => Remain(s, u) >= NumQueues - a
            /\ s.state[u] = "ETransferring" => Remain(s, u) >= NumQueues - a
    BY <1>2, <1>3, <1>6, <2>1
  <2> QED
    BY <1>2, <1>5, <2>2 DEF Bounds
<1>7. CASE /\ d = "critical" /\ n \in Timer /\ r.state[n] = "EOrdered"
           /\ Minus(r.triggerTime[n], r.triggerTime[c]) >= Half
           /\ \A u \in Timer : s.state[u] = IF u = n THEN "ECritical" ELSE r.state[u]
           /\ s.ordered = r.ordered
  <2>1. Bounds(s, w, a, d)
    BY <1>6, <1>7
  <2>2. Behind(s, d, c, n)
    BY <1>2, <1>7 DEF Behind
  <2> QED
    BY <1>4, <1>7, <2>1, <2>2
<1>8. CASE d = "holding" /\ s = r
  <2>1. Bounds(s, w, a, d)
    BY <1>6, <1>8
  <2> QED
    BY <1>8, <2>1
<1>9. CASE /\ d = "holding" /\ r.state[c] = "ETransferring"
           /\ \A u \in Timer : s.state[u] = IF u = c THEN "EOrdered" ELSE r.state[u]
           /\ n # Null => ~(Minus(r.triggerTime[n], r.triggerTime[c]) >= Half)
           /\ n = Null => s.ordered = Append(r.ordered, c)
           /\ \A i \in 1..Len(r.ordered) :
                  n # Null /\ r.ordered[i] = n => s.ordered = InsertAt(r.ordered, i, c)
  <2>1. Bounds(s, w, a, d)
    BY <1>6, <1>9
  <2>2. Left(r) \in [Timer -> Int] /\ \A u \in Timer : Left(r)[u] = Remain(r, u)
    BY <1>1, LeftType
  <2>3. \A i \in 1..Len(r.ordered) : r.ordered[i] \in Timer
    BY <1>1
  <2>4. CASE n = Null
    <3>1. s.ordered = Append(r.ordered, c)
      BY <1>9, <2>4
    <3>2. ASSUME r.ordered # <<>> PROVE Left(r)[r.ordered[Len(r.ordered)]] =< Left(r)[c]
      <4>1. Len(r.ordered) \in 1..Len(r.ordered)
        BY <1>1, <3>2
      <4>2. Remain(r, r.ordered[Len(r.ordered)]) =< Remain(r, c)
        BY <1>9, <2>4, <4>1
      <4> QED
        BY <2>2, <2>3, <4>1, <4>2
    <3>3. SortedBy(Append(r.ordered, c), Left(r))
      BY <1>1, <2>2, <3>2, AppendSorted
    <3> QED
      BY <1>4, <1>9, <2>1, <3>1, <3>3
  <2>5. CASE n # Null
    <3>1. PICK i \in 1..Len(r.ordered) : r.ordered[i] = n
      BY <1>1, <2>5 DEF Range
    <3>2. n \in Timer /\ s.ordered = InsertAt(r.ordered, i, c)
      BY <1>9, <2>3, <2>5, <3>1
    <3>3. Left(r)[c] =< Left(r)[r.ordered[i]]
      <4>1. r.state[n] \in {"EOrdered", "ECritical"}
        <5>1. Place(r, n)
          BY <3>2 DEF Exact
        <5> QED
          BY <2>5, <5>1 DEF Place
      <4>2. Remain(r, n) \in Int /\ Remain(r, n) >= 0
        BY <1>1, <3>2, <4>1, NotPast
      <4>3. Remain(r, c) \in Int /\ Remain(r, c) >= 0
        BY <1>1, <1>9, NotPast
      <4>4. ~(Remain(r, n) < Remain(r, c))
        BY <1>1, <1>9, <2>5, <3>2, <4>2, <4>3, EarlierIs
      <4>5. Remain(r, c) =< Remain(r, n)
        BY <4>2, <4>3, <4>4
      <4> QED
        BY <2>2, <3>1, <3>2, <4>5
    <3>4. ASSUME i > 1 PROVE Left(r)[r.ordered[i - 1]] =< Left(r)[c]
      <4>1. i - 1 \in 1..Len(r.ordered) /\ i - 1 # Len(r.ordered) /\ (i - 1) + 1 = i
        BY <1>1, <3>4
      <4>2. Remain(r, r.ordered[i - 1]) =< Remain(r, c)
        BY <1>9, <2>5, <3>1, <4>1
      <4> QED
        BY <2>2, <2>3, <4>1, <4>2
    <3>5. SortedBy(InsertAt(r.ordered, i, c), Left(r))
      BY <1>1, <2>2, <3>3, <3>4, InsertSorted
    <3> QED
      BY <1>4, <1>9, <2>1, <3>2, <3>5
  <2> QED
    BY <2>4, <2>5
<1> QED
  BY <1>7, <1>8, <1>9 DEF Walked

\* The bounds, the order and the pointers as the walk starts or goes on.
LEMMA WalkingTime ==
    ASSUME MaxLatency =< NumQueues, QIInv, TimeInv, dfc \in {"walk", "critical"},
           NEW s, Walking(q, s),
           \A u \in Timer : \/ s.state[u] = q.state[u]
                            \/ {s.state[u], q.state[u]} \subseteq {"EOrdered", "ECritical"}
    PROVE  /\ Exact(s, {}) /\ running \in 0..MaxLatency /\ pC \in Timer
           /\ Bounds(s, Asked, running, "walk") /\ SortedBy(s.ordered, Left(s))
           /\ s.ordered \in Seq(Timer) /\ Inj(s.ordered)
           /\ \A u \in Timer : Remain(s, u) = Remain(q, u)
<1>1. /\ Exact(s, {}) /\ pC \in Timer /\ s.ordered = q.ordered
      /\ s.triggerTime = q.triggerTime /\ s.msCount = q.msCount
  BY DEF Walking, WalkReady
<1>2. /\ Exact(q, {}) /\ q \in QState /\ Asked \in -1..MaxLatency
      /\ running \in -1..MaxLatency /\ MaxLatency \in Nat
  BY Ages, TimerAssumption DEF QIInv, Exact
<1>3. /\ running >= 0 /\ Bounds(q, Asked, running, dfc)
      /\ SortedBy(q.ordered, Left(q))
  BY DEF TimeInv
<1>4. running \in 0..MaxLatency
  BY <1>2, <1>3
<1>5. Bounds(q, Asked, running, "walk")
  BY <1>2, <1>3, SameBounds
<1>6. Bounds(s, Asked, running, "walk") /\ SortedBy(s.ordered, Left(s))
  <2>1. \A u \in Timer :
            \/ s.state[u] = q.state[u] /\ s.triggerTime[u] = q.triggerTime[u]
            \/ /\ {s.state[u], q.state[u]} \subseteq {"EOrdered", "ECritical"}
               /\ s.triggerTime[u] = q.triggerTime[u]
    BY <1>1
  <2> QED
    BY <1>1, <1>2, <1>3, <1>5, <2>1, SameTime
<1>7. s.ordered \in Seq(Timer) /\ Inj(s.ordered)
  BY <1>1, Fields DEF Exact, Once
<1>8. \A u \in Timer : Remain(s, u) = Remain(q, u)
  BY <1>1 DEF Remain
<1> QED
  BY <1>1, <1>4, <1>6, <1>7, <1>8

\* The walk has come to n.
LEMMA WalkedInv ==
    ASSUME MaxLatency =< NumQueues, QIInv, QIInv', TimeInv, dfc \in {"walk", "critical"},
           Asked' = Asked, running' = running, dfc' \in {"critical", "holding"},
           NEW s, Walking(q, s),
           \A u \in Timer : \/ s.state[u] = q.state[u]
                            \/ {s.state[u], q.state[u]} \subseteq {"EOrdered", "ECritical"},
           NEW n \in Range(s.ordered) \cup {Null}, Walked(s, q', dfc', pC, n),
           dfc' = "critical" => pN' = n /\ pC' = pC,
           \A i \in 1..Len(s.ordered) :
              /\ s.state[pC] = "ETransferring"
              /\ IF i = Len(s.ordered) THEN n = Null ELSE n # Null /\ s.ordered[i + 1] = n
              => Remain(s, s.ordered[i]) =< Remain(s, pC)
    PROVE  TimeInv'
<1>1. /\ Exact(s, {}) /\ running \in 0..MaxLatency /\ pC \in Timer
      /\ Bounds(s, Asked, running, "walk") /\ SortedBy(s.ordered, Left(s))
  BY WalkingTime
<1>2. Exact(q', {})
  BY DEF QIInv
<1>3. /\ Bounds(q', Asked, running, dfc') /\ SortedBy(q'.ordered, Left(q'))
      /\ dfc' = "critical" => Behind(q', dfc', pC, n)
  BY <1>1, <1>2, WalkedTime
<1>4. Behind(q', dfc', pC', pN')
  <2>1. CASE dfc' = "critical"
    BY <1>3, <2>1
  <2>2. CASE dfc' # "critical"
    BY <2>2 DEF Behind
  <2> QED
    BY <2>1, <2>2
<1>5. running' >= 0
  BY <1>1
<1> QED
  BY <1>3, <1>4, <1>5 DEF TimeInv

\* The walk starts.
LEMMA WalkFromStartTime ==
    ASSUME MaxLatency =< NumQueues, QIInv, TimeInv, WalkFromStart
    PROVE  TimeInv'
<1>1. /\ QIInv' /\ dfc = "walk" /\ Asked' = Asked /\ running' = running
      /\ dfc' \in {"critical", "holding"}
      /\ \E s, n : /\ Walking(q, s) /\ s.state = q.state
                   /\ n = IF q.ordered = <<>> THEN Null ELSE Head(q.ordered)
                   /\ Walked(s, q', dfc', pC, n)
                   /\ dfc' = "critical" => pN' = n /\ pC' = pC
  BY WalkFromStartKeeps
<1>2. PICK s, n : /\ Walking(q, s) /\ s.state = q.state
                  /\ n = IF q.ordered = <<>> THEN Null ELSE Head(q.ordered)
                  /\ Walked(s, q', dfc', pC, n)
                  /\ dfc' = "critical" => pN' = n /\ pC' = pC
  BY <1>1
<1>3. \A u \in Timer : s.state[u] = q.state[u]
  BY <1>2
<1>4. s.ordered = q.ordered /\ s.ordered \in Seq(Timer) /\ Inj(s.ordered)
  BY <1>1, <1>2, <1>3, WalkingTime DEF Walking
<1>5. /\ n \in Range(s.ordered) \cup {Null}
      /\ n = IF s.ordered = <<>> THEN Null ELSE s.ordered[1]
  <2>1. CASE s.ordered = <<>>
    BY <1>2, <1>4, <2>1
  <2>2. CASE s.ordered # <<>>
    <3>1. Head(s.ordered) = s.ordered[1] /\ 1 \in DOMAIN s.ordered
      BY <1>4, <2>2
    <3> QED
      BY <1>2, <1>4, <2>2, <3>1 DEF Range
  <2> QED
    BY <2>1, <2>2
<1>6. ASSUME NEW i \in 1..Len(s.ordered)
      PROVE  ~ IF i = Len(s.ordered) THEN n = Null ELSE n # Null /\ s.ordered[i + 1] = n
  <2>1. n = s.ordered[1] /\ s.ordered[1] \in Timer /\ n # Null
    <3>1. s.ordered # <<>> /\ s.ordered[1] \in Timer
      BY <1>4, <1>6
    <3>2. Null \notin Timer
      BY Constants
    <3> QED
      BY <1>5, <3>1, <3>2
  <2>2. CASE i = Len(s.ordered)
    BY <2>1, <2>2
  <2>3. CASE i # Len(s.ordered)
    <3>1. i + 1 \in DOMAIN s.ordered /\ 1 \in DOMAIN s.ordered /\ i + 1 # 1
      BY <1>4, <2>3
    <3> QED
      BY <1>4, <2>1, <2>3, <3>1 DEF Inj
  <2> QED
    BY <2>2, <2>3
<1> QED
  BY <1>1, <1>2, <1>3, <1>5, <1>6, WalkedInv

\* The walk goes on.
LEMMA WalkGoesOnTime ==
    ASSUME MaxLatency =< NumQueues, QIInv, TimeInv, WalkGoesOn
    PROVE  TimeInv'
<1>1. /\ QIInv' /\ dfc = "critical" /\ Asked' = Asked /\ running' = running
      /\ dfc' \in {"critical", "holding", "walk"}
      /\ \/ q' = q /\ dfc' # "critical"
         \/ \E s, n : /\ Walking(q, s) /\ s.state = [q.state EXCEPT ![pN] = "EOrdered"]
                      /\ q.state[pN] = "ECritical" /\ pN \in Range(q.ordered)
                      /\ n = NextOn(q.ordered, pN)
                      /\ Walked(s, q', dfc', pC, n)
                      /\ dfc' = "critical" => pN' = n /\ pC' = pC
  BY WalkGoesOnKeeps
<1>2. ASSUME q' = q, dfc' # "critical" PROVE TimeInv'
  <2>1. q \in QState /\ Asked \in -1..MaxLatency /\ running \in -1..MaxLatency
    BY Ages DEF QIInv, Exact
  <2>2. /\ running >= 0 /\ Bounds(q, Asked, running, "critical")
        /\ SortedBy(q.ordered, Left(q))
    BY <1>1 DEF TimeInv
  <2>3. dfc' # "ordered"
    BY <1>1
  <2>4. Bounds(q, Asked, running, dfc')
    BY <2>1, <2>2, <2>3, SameBounds
  <2>5. Behind(q', dfc', pC', pN')
    BY <1>2 DEF Behind
  <2>6. dfc' \in {"ordered", "holding", "walk", "critical"}
    BY <1>1
  <2> QED
    BY <1>1, <1>2, <2>2, <2>4, <2>5, <2>6 DEF TimeInv
<1>3. ASSUME NEW s, NEW n, Walking(q, s), s.state = [q.state EXCEPT ![pN] = "EOrdered"],
             q.state[pN] = "ECritical", pN \in Range(q.ordered), n = NextOn(q.ordered, pN),
             Walked(s, q', dfc', pC, n), dfc' = "critical" => pN' = n /\ pC' = pC
      PROVE  TimeInv'
  <2>1. q.state \in [Timer -> TState] /\ Behind(q, dfc, pC, pN)
    BY Fields DEF QIInv, Exact, TimeInv
  <2>2. \A u \in Timer : s.state[u] = IF u = pN THEN "EOrdered" ELSE q.state[u]
    BY <1>3, <2>1
  <2>3. \A u \in Timer : \/ s.state[u] = q.state[u]
                         \/ {s.state[u], q.state[u]} \subseteq {"EOrdered", "ECritical"}
    BY <1>3, <2>2
  <2>4. /\ Exact(s, {}) /\ running \in 0..MaxLatency /\ pC \in Timer
        /\ Bounds(s, Asked, running, "walk") /\ s.ordered \in Seq(Timer) /\ Inj(s.ordered)
        /\ s.ordered = q.ordered /\ s.triggerTime = q.triggerTime /\ s \in QState
    BY <1>1, <1>3, <2>3, WalkingTime DEF Walking, Exact
  <2>5. PICK k \in 1..Len(s.ordered) : s.ordered[k] = pN
    BY <1>3, <2>4 DEF Range
  <2>6. pN \in Timer
    BY <2>4, <2>5
  <2>7. n = IF k = Len(s.ordered) THEN Null ELSE s.ordered[k + 1]
    BY <1>3, <2>4, <2>5, NextOnQueue
  <2>8. ASSUME NEW i \in 1..Len(s.ordered), s.state[pC] = "ETransferring",
               IF i = Len(s.ordered) THEN n = Null ELSE n # Null /\ s.ordered[i + 1] = n
        PROVE  Remain(s, s.ordered[i]) =< Remain(s, pC)
    <3>1. Len(s.ordered) \in Nat /\ \A j \in 1..Len(s.ordered) : s.ordered[j] # Null
      <4>1. \A j \in 1..Len(s.ordered) : s.ordered[j] \in Timer
        BY <2>4
      <4>2. Null \notin Timer
        BY Constants
      <4>3. Len(s.ordered) \in Nat
        BY <2>4
      <4> QED
        BY <4>1, <4>2, <4>3
    <3>2. i = k
      <4>1. CASE k = Len(s.ordered)
        <5>1. n = Null
          BY <2>7, <4>1
        <5> QED
          BY <2>8, <4>1, <5>1
      <4>2. CASE k # Len(s.ordered)
        <5>1. n = s.ordered[k + 1] /\ k + 1 \in 1..Len(s.ordered) /\ n # Null
          BY <2>7, <3>1, <4>2
        <5>2. i # Len(s.ordered) /\ s.ordered[i + 1] = n /\ i + 1 \in 1..Len(s.ordered)
          BY <2>8, <3>1, <5>1
        <5>3. i + 1 = k + 1
          BY <2>4, <5>1, <5>2 DEF Inj
        <5> QED
          BY <5>3
      <4> QED
        BY <4>1, <4>2
    <3>3. q.state[pC] = "ETransferring" /\ s.state[pN] = "EOrdered"
      BY <2>2, <2>4, <2>6, <2>8
    <3>4. Minus(s.triggerTime[pN], s.triggerTime[pC]) >= Half
      BY <1>1, <1>3, <2>1, <2>4, <3>3 DEF Behind
    <3>5. /\ Remain(s, pN) \in Int /\ Remain(s, pN) >= 0
          /\ Remain(s, pC) \in Int /\ Remain(s, pC) >= 0
      BY <2>4, <2>6, <2>8, <3>3, NotPast
    <3>6. Remain(s, pN) < Remain(s, pC)
      BY <2>4, <2>6, <3>4, <3>5, EarlierIs
    <3> QED
      BY <2>5, <3>2, <3>5, <3>6
  <2>9. n \in Range(s.ordered) \cup {Null}
    <3>1. k # Len(s.ordered) => k + 1 \in DOMAIN s.ordered
      BY <2>4
    <3> QED
      BY <2>7, <3>1 DEF Range
  <2>10. dfc' \in {"critical", "holding"}
    BY <1>3 DEF Walked
  <2> QED
    BY <1>1, <1>3, <2>3, <2>8, <2>9, <2>10, WalkedInv
<1> QED
  BY <1>1, <1>2, <1>3

\* The age of the request after a tick.
AfterTick(w, wanted) == IF wanted THEN QueueDfc(Older(w)) ELSE Older(w)

\* The age of a request after a tick.
LEMMA AfterTickIs ==
    ASSUME NEW w \in -1..(MaxLatency - 1), NEW wanted \in BOOLEAN
    PROVE  /\ AfterTick(w, wanted) \in -1..MaxLatency /\ Older(w) \in -1..MaxLatency
           /\ w >= 0 => AfterTick(w, wanted) = w + 1 /\ Older(w) = w + 1
           /\ w = -1 => AfterTick(w, wanted) = (IF wanted THEN 0 ELSE -1) /\ Older(w) = -1
<1>1. MaxLatency \in Nat
  BY TimerAssumption
<1>2. Older(w) = IF w < 0 THEN w ELSE w + 1
  BY DEF Older
<1>3. AfterTick(w, wanted) = IF w < 0 THEN (IF wanted THEN 0 ELSE w) ELSE w + 1
  BY <1>1, <1>2 DEF AfterTick, QueueDfc
<1> QED
  BY <1>1, <1>2, <1>3

\* A tick lowers the bounds by one, unless it found nothing to transfer.
LEMMA TickLows ==
    ASSUME MaxLatency =< NumQueues, NEW c \in Tick32, NEW e, e = (c + 1) % Modulus,
           NEW w \in -1..(MaxLatency - 1), NEW a \in -1..(MaxLatency - 1), NEW d,
           d = "ordered" => a >= 0, NEW wanted \in BOOLEAN,
           wanted \/ w >= 0 \/ a >= 0 \/ ToCheck(c) # 0
    PROVE  /\ HoldLow(AfterTick(w, wanted), Older(a), e) =< HoldLow(w, a, c) - 1
           /\ OrdLow(AfterTick(w, wanted), Older(a), d, e) =< OrdLow(w, a, d, c) - 1
<1>1. PICK x, b : /\ x = AfterTick(w, wanted) /\ b = Older(a)
                  /\ w >= 0 => x = w + 1
                  /\ w = -1 => x = IF wanted THEN 0 ELSE -1
                  /\ a >= 0 => b = a + 1
                  /\ a = -1 => b = -1
  BY AfterTickIs
<1>2. PICK m \in Nat, n \in Nat, h \in Nat \ {0}, l \in Nat :
          m = Max1 /\ n = NumQueues /\ h = Span /\ l = MaxLatency
  <2>1. MaxLatency \in Nat
    BY TimerAssumption
  <2>2. Max1 \in Nat
    BY <2>1 DEF Max1
  <2> QED
    BY <2>1, <2>2, Sizes
<1>3. w \in -1..(l - 1) /\ a \in -1..(l - 1)
  BY <1>2
<1>4. CASE a >= 0
  <2>1. /\ HoldLow(w, a, c) = h - a /\ HoldLow(x, b, e) = h - (a + 1)
        /\ OrdLow(w, a, d, c) = IF d = "ordered" THEN h - m - a ELSE n - a
        /\ OrdLow(x, b, d, e) = IF d = "ordered" THEN h - m - (a + 1) ELSE n - (a + 1)
    BY <1>1, <1>2, <1>3, <1>4 DEF HoldLow, OrdLow
  <2> QED
    BY <1>1, <1>2, <1>3, <2>1
<1>5. CASE a = -1 /\ w >= 0
  <2>1. /\ HoldLow(w, a, c) = h - w /\ HoldLow(x, b, e) = h - (w + 1)
        /\ OrdLow(w, a, d, c) = h - m - w /\ OrdLow(x, b, d, e) = h - m - (w + 1)
    BY <1>1, <1>2, <1>3, <1>5 DEF HoldLow, OrdLow
  <2> QED
    BY <1>1, <1>2, <1>3, <2>1
<1>6. CASE a = -1 /\ w = -1
  <2>1. PICK k \in Nat : k = ToCheck(c)
    <3>1. ToCheck(c) \in 0..(Span - 1)
      BY ToCheckIs
    <3> QED
      BY <3>1
  <2>2. HoldLow(w, a, c) = h + 1 + k /\ OrdLow(w, a, d, c) = h + 1 - m + k
    BY <1>2, <1>6, <2>1 DEF HoldLow, OrdLow
  <2>3. CASE wanted
    <3>1. x = 0 /\ b = -1 /\ d # "ordered"
      <4>1. x = 0
        BY <1>1, <1>6, <2>3, Zenon
      <4>2. b = -1
        BY <1>1, <1>6
      <4>3. ~(a >= 0)
        BY <1>6
      <4>4. d # "ordered"
        BY <4>3
      <4> QED
        BY <4>1, <4>2, <4>4
    <3>2. HoldLow(0, -1, e) = h - 0 /\ OrdLow(0, -1, d, e) = h - m - 0
      BY <1>2, <3>1 DEF HoldLow, OrdLow
    <3> QED
      BY <1>1, <1>2, <2>1, <2>2, <3>1, <3>2
  <2>4. CASE ~wanted
    <3>1. k # 0
      BY <1>6, <2>1, <2>4
    <3>2. ToCheck(e) = k - 1
      <4>1. 1 \in 0..(Modulus - 1)
        BY Sizes
      <4>2. 1 =< ToCheck(c)
        BY <2>1, <3>1
      <4> QED
        BY <2>1, <4>1, <4>2, ToCheckLater
    <3>3. HoldLow(x, b, e) = h + 1 + (k - 1) /\ OrdLow(x, b, d, e) = h + 1 - m + (k - 1)
      BY <1>1, <1>2, <1>6, <2>4, <3>2 DEF HoldLow, OrdLow
    <3> QED
      BY <1>1, <1>2, <2>1, <2>2, <3>3
  <2> QED
    BY <2>3, <2>4
<1>7. w >= 0 \/ w = -1
  BY <1>3
<1>8. a >= 0 \/ a = -1
  BY <1>3
<1> QED
  BY <1>4, <1>5, <1>6, <1>7, <1>8

\* Every timer that is bounded may still have its time left reduced by one.
LEMMA OneLess ==
    ASSUME MaxLatency =< NumQueues, NEW r \in QState, NEW w \in -1..MaxLatency,
           NEW a \in -1..MaxLatency, NEW d, Bounds(r, w, a, d), NEW u \in Timer,
           r.state[u] \in Tracked
    PROVE  Remain(r, u) - 1 >= -Half
<1>1. PICK c \in Tick32 : c = r.msCount
  BY Fields
<1>2. PICK h \in Int, o \in Int, n \in Int, f \in Nat, v \in Int :
          /\ h = HoldLow(w, a, c) /\ o = OrdLow(w, a, d, c) /\ n = NumQueues /\ f = Half
          /\ v = Remain(r, u) /\ h >= 1 - f /\ o >= 1 - f /\ f >= 1
  <2>1. HoldLow(w, a, c) \in (1 - Half)..NumQueues /\ OrdLow(w, a, d, c) \in (1 - Half)..NumQueues
    BY Lows
  <2>2. Remain(r, u) \in (-Half)..(Half - 1)
    BY RemainIs
  <2>3. Half \in Nat \ {0} /\ NumQueues \in Int
    BY Sizes
  <2> QED
    BY <2>1, <2>2, <2>3
<1>3. a =< n /\ a \in Int
  BY <1>2, TimerAssumption
<1>4. /\ r.state[u] = "EHolding" => v >= h
      /\ r.state[u] \in {"EOrdered", "ECritical"} => v >= o
      /\ r.state[u] = "ETransferring" => v >= n - a
  BY <1>1, <1>2 DEF Bounds
<1>5. v >= h \/ v >= o \/ v >= n - a
  BY <1>4 DEF Tracked
<1> QED
  BY <1>2, <1>3, <1>5

\* What a tick leaves to the timers.
LEMMA TickedTime ==
    ASSUME MaxLatency =< NumQueues, NEW r, NEW s, NEW wanted \in BOOLEAN,
           Exact(r, {}), Ticked(r, s, wanted),
           NEW w \in -1..(MaxLatency - 1), NEW a \in -1..(MaxLatency - 1), NEW d,
           d = "ordered" => a >= 0, \A u \in Timer : r.state[u] = "ETransferring" => a >= 0,
           Bounds(r, w, a, d), SortedBy(r.ordered, Left(r))
    PROVE  Bounds(s, AfterTick(w, wanted), Older(a), d) /\ SortedBy(s.ordered, Left(s))
<1>1. /\ r \in QState /\ s \in QState /\ Exact(s, {}) /\ MaxLatency \in Nat
      /\ s.msCount = (r.msCount + 1) % Modulus /\ r.msCount \in Tick32
      /\ s.holding = r.holding /\ s.ordered = r.ordered
      /\ s.state = r.state /\ s.triggerTime = r.triggerTime
  BY Fields, TimerAssumption DEF Ticked, Exact
<1>2. w \in -1..MaxLatency /\ a \in -1..MaxLatency
  BY <1>1
<1>3. /\ \A u \in Timer : r.state[u] \in Tracked => Remain(s, u) = Remain(r, u) - 1
      /\ SortedBy(s.ordered, Left(s))
  <2>1. \A u \in Timer : r.state[u] \in Tracked => Remain(r, u) - 1 >= -Half
    BY <1>1, <1>2, OneLess
  <2>2. 1 \in 0..(Modulus - 1)
    BY Sizes
  <2> QED
    BY <1>1, <2>1, <2>2, LaterTime
<1>4. PICK x \in -1..MaxLatency, b \in -1..MaxLatency :
          /\ x = AfterTick(w, wanted) /\ b = Older(a)
          /\ a >= 0 => b = a + 1
          /\ a = -1 => b = -1
          /\ w = -1 /\ ~wanted => x = -1
  BY AfterTickIs
<1>5. PICK h \in Int, o \in Int, h1 \in Int, o1 \in Int, n \in Int :
          /\ h = HoldLow(w, a, r.msCount) /\ o = OrdLow(w, a, d, r.msCount)
          /\ h1 = HoldLow(x, b, s.msCount) /\ o1 = OrdLow(x, b, d, s.msCount)
          /\ n = NumQueues
  <2>1. s.msCount \in Tick32
    BY <1>1, Fields
  <2>2. /\ HoldLow(w, a, r.msCount) \in (1 - Half)..NumQueues
        /\ OrdLow(w, a, d, r.msCount) \in (1 - Half)..NumQueues
        /\ HoldLow(x, b, s.msCount) \in (1 - Half)..NumQueues
        /\ OrdLow(x, b, d, s.msCount) \in (1 - Half)..NumQueues
    BY <1>1, <1>2, <2>1, Lows
  <2>3. Half \in Int /\ NumQueues \in Int
    BY Sizes
  <2> QED
    BY <2>2, <2>3
<1>6. ASSUME NEW u \in Timer
      PROVE  /\ s.state[u] = "EHolding" => Remain(s, u) >= h1
             /\ s.state[u] \in {"EOrdered", "ECritical"} => Remain(s, u) >= o1
             /\ s.state[u] = "ETransferring" => Remain(s, u) >= NumQueues - b
  <2>1. PICK v \in Int : v = Remain(r, u)
    <3>1. Remain(r, u) \in (-Half)..(Half - 1)
      BY <1>1, RemainIs
    <3> QED
      BY <3>1, Sizes
  <2>2. /\ s.state[u] = "EHolding" => v >= h
        /\ s.state[u] \in {"EOrdered", "ECritical"} => v >= o
        /\ s.state[u] = "ETransferring" => v >= n - a
    BY <1>1, <1>5, <2>1 DEF Bounds
  <2>3. s.state[u] \in Tracked => Remain(s, u) = v - 1
    BY <1>1, <1>3, <2>1
  <2>4. s.state[u] = "ETransferring" => Remain(s, u) >= n - b
    <3> SUFFICES ASSUME s.state[u] = "ETransferring" PROVE Remain(s, u) >= n - b
      OBVIOUS
    <3>1. b = a + 1 /\ v >= n - a /\ Remain(s, u) = v - 1
      BY <1>1, <1>4, <2>2, <2>3 DEF Tracked
    <3> QED
      BY <1>2, <1>5, <3>1
  <2>5. CASE wanted \/ w >= 0 \/ a >= 0 \/ ToCheck(r.msCount) # 0
    <3>1. h1 =< h - 1 /\ o1 =< o - 1
      BY <1>1, <1>4, <1>5, <2>5, TickLows
    <3>2. s.state[u] = "EHolding" => Remain(s, u) >= h1
      BY <1>5, <2>2, <2>3, <3>1 DEF Tracked
    <3>3. s.state[u] \in {"EOrdered", "ECritical"} => Remain(s, u) >= o1
      BY <1>5, <2>2, <2>3, <3>1 DEF Tracked
    <3> QED
      BY <1>5, <2>4, <3>2, <3>3
  <2>6. CASE ~wanted /\ ~(w >= 0) /\ ~(a >= 0) /\ ToCheck(r.msCount) = 0
    <3>1. w = -1 /\ a = -1 /\ x = -1 /\ b = -1
      BY <1>1, <1>4, <2>6
    <3>2. ~TransferDue(s)
      <4>1. (r.msCount % NumQueues) % Span = 0
        BY <1>1, <2>6, CheckTick
      <4> QED
        BY <2>6, <4>1 DEF Ticked, Span
    <3>3. s.state[u] # "EHolding"
      <4>1. s.holding = <<>> /\ Place(s, u)
        BY <1>1, <3>2 DEF TransferDue, Exact
      <4> QED
        BY <4>1 DEF Place, Range
    <3>4. ASSUME s.state[u] \in {"EOrdered", "ECritical"} PROVE Remain(s, u) >= o1
      <4>1. /\ s.ordered # <<>> /\ Head(s.ordered) \in Timer
            /\ Remain(s, Head(s.ordered)) =< Remain(s, u)
        BY <1>1, <1>3, <3>4, FirstOrdered
      <4>2. PICK y \in Int, z \in Int : y = Remain(s, Head(s.ordered)) /\ z = Remain(s, u)
        <5>1. /\ Remain(s, Head(s.ordered)) \in (-Half)..(Half - 1)
              /\ Remain(s, u) \in (-Half)..(Half - 1)
          BY <1>1, <4>1, RemainIs
        <5> QED
          BY <5>1, Sizes
      <4>3. y >= n
        BY <1>5, <3>2, <4>1, <4>2 DEF TransferDue
      <4>4. o1 =< n
        <5>1. OrdLow(x, b, d, s.msCount) \in (1 - Half)..NumQueues
          BY <1>1, Fields, Lows
        <5> QED
          BY <1>5, <5>1, Sizes
      <4> QED
        BY <1>5, <4>1, <4>2, <4>3, <4>4
    <3> QED
      BY <1>5, <2>4, <3>3, <3>4
  <2> QED
    BY <2>5, <2>6
<1>7. Bounds(s, x, b, d)
  BY <1>5, <1>6 DEF Bounds
<1> QED
  BY <1>3, <1>4, <1>7

\* NTimerQ::Tick keeps the order and what is left.
LEMMA TickTime ==
    ASSUME MaxLatency =< NumQueues, QIInv, TimeInv, Tick
    PROVE  TimeInv'
<1>1. /\ QIInv' /\ isr = "off" /\ waiting < MaxLatency /\ running < MaxLatency
      /\ running' = Older(running) /\ dfc' = dfc /\ pC' = pC /\ pN' = pN
      /\ \E r \in QState, wanted \in BOOLEAN :
            /\ Ticked(q, r, wanted)
            /\ q' = r \/ \E t \in Timer : CalledBack(r, q', t)
            /\ Asked' = IF wanted THEN QueueDfc(Older(waiting)) ELSE Older(waiting)
  BY TickKeeps
<1>2. PICK r \in QState, wanted \in BOOLEAN :
          /\ Ticked(q, r, wanted)
          /\ q' = r \/ \E t \in Timer : CalledBack(r, q', t)
          /\ Asked' = IF wanted THEN QueueDfc(Older(waiting)) ELSE Older(waiting)
  BY <1>1
<1>3. /\ Exact(q, {}) /\ Exact(r, {}) /\ Exact(q', {}) /\ Pointers(q, dfc, pC, pN)
      /\ pC \in Timer \cup {Null} /\ pN \in Timer \cup {Null}
      /\ r.state = q.state /\ r.triggerTime = q.triggerTime
  BY <1>1, <1>2 DEF QIInv, Ticked
<1>4. waiting \in -1..(MaxLatency - 1) /\ running \in -1..(MaxLatency - 1)
  <2>1. waiting \in -1..MaxLatency /\ running \in -1..MaxLatency /\ MaxLatency \in Nat
    BY TimerAssumption DEF QIInv
  <2> QED
    BY <1>1, <2>1
<1>5. /\ running >= 0 <=> dfc \in {"ordered", "holding", "walk", "critical"}
      /\ Bounds(q, waiting, running, dfc) /\ SortedBy(q.ordered, Left(q))
      /\ Behind(q, dfc, pC, pN)
  BY <1>1 DEF TimeInv, Asked
<1>6. \A u \in Timer : q.state[u] = "ETransferring" => running >= 0
  BY <1>3, <1>5 DEF Pointers
<1>7. PICK x \in -1..MaxLatency, b \in -1..MaxLatency :
          x = AfterTick(waiting, wanted) /\ b = Older(running)
          /\ (running >= 0 <=> b >= 0)
  <2>1. /\ AfterTick(waiting, wanted) \in -1..MaxLatency /\ Older(running) \in -1..MaxLatency
        /\ running >= 0 => Older(running) = running + 1
        /\ running = -1 => Older(running) = -1
    BY <1>4, AfterTickIs
  <2> QED
    BY <1>4, <2>1
<1>8. Asked' = x /\ running' = b
  BY <1>1, <1>2, <1>7 DEF AfterTick
<1>9. Bounds(r, x, b, dfc) /\ SortedBy(r.ordered, Left(r))
  BY <1>2, <1>3, <1>4, <1>5, <1>6, <1>7, TickedTime
<1>10. /\ q'.msCount = r.msCount /\ q'.ordered = r.ordered
       /\ \A u \in Timer : \/ q'.state[u] = r.state[u] /\ q'.triggerTime[u] = r.triggerTime[u]
                           \/ q'.state[u] = "EIdle"
  <2>1. CASE q' = r
    BY <2>1
  <2>2. ASSUME NEW t \in Timer, CalledBack(r, q', t)
        PROVE  /\ q'.msCount = r.msCount /\ q'.ordered = r.ordered
               /\ \A u \in Timer :
                     \/ q'.state[u] = r.state[u] /\ q'.triggerTime[u] = r.triggerTime[u]
                     \/ q'.state[u] = "EIdle"
    BY <2>2 DEF CalledBack, Same
  <2> QED
    BY <1>2, <2>1, <2>2
<1>11. Bounds(q', x, b, dfc) /\ SortedBy(q'.ordered, Left(q'))
  BY <1>3, <1>9, <1>10, SameTime
<1>12. Behind(q', dfc, pC, pN)
  <2>1. \A u \in Timer : q'.state[u] \in {"ETransferring", "ECritical"} =>
            q'.state[u] = q.state[u] /\ q'.triggerTime[u] = q.triggerTime[u]
    BY <1>3, <1>10
  <2> QED
    BY <1>3, <1>5, <2>1, StillBehind
<1> QED
  BY <1>1, <1>5, <1>7, <1>8, <1>11, <1>12 DEF TimeInv

\* What is left for the first ordered timer after a sleep is enough for all.
LEMMA SleepOrdered ==
    ASSUME MaxLatency =< NumQueues, Exact(q, {}), Bounds(q, -1, -1, "off"),
           SortedBy(q.ordered, Left(q)), NEW n \in Nat \ {0}, n =< NextTransfer,
           q.ordered # <<>>
    PROVE  /\ n \in 0..(Modulus - 1)
           /\ \A u \in Timer : q.state[u] \in {"EOrdered", "ECritical"} =>
                 Remain(q, u) - n >= Span + ToCheck((q.msCount + n) % Modulus)
<1>1. /\ q \in QState /\ q.ordered \in Seq(Timer) /\ q.msCount \in Tick32
      /\ q.triggerTime \in [Timer -> Tick32] /\ Tick32 \subseteq Int
  <2>1. q \in QState
    BY DEF Exact
  <2>2. Tick32 \subseteq Int
    BY Constants
  <2> QED
    BY <2>1, <2>2, Fields
<1>2. PICK h \in Timer : h = Head(q.ordered)
  BY <1>1
<1>3. h \in Range(q.ordered)
  <2>1. h = q.ordered[1] /\ 1 \in DOMAIN q.ordered
    BY <1>1, <1>2
  <2> QED
    BY <2>1 DEF Range
<1>4. q.state[h] \in {"EOrdered", "ECritical"}
  <2>1. Place(q, h)
    BY DEF Exact
  <2> QED
    BY <1>3, <2>1 DEF Place
<1>5. PICK tt \in Int : tt = q.triggerTime[h]
  BY <1>1
<1>6. n =< AsInt(Minus(tt - (tt % Span) - Span, q.msCount))
  BY <1>2, <1>5 DEF NextTransfer, Span
<1>7. n \in 1..(Modulus - 1)
  <2>1. PICK x \in Int : x = (tt - (tt % Span) - Span) - q.msCount
    <3>1. Span \in Nat \ {0} /\ q.msCount \in Int
      BY <1>1, Sizes
    <3>2. tt % Span \in Int
      <4>1. tt % Span \in 0..(Span - 1)
        BY <3>1, ModHas
      <4> QED
        BY <3>1, <4>1
    <3> QED
      BY <3>1, <3>2
  <2>2. AsInt(x % Modulus) \in (-Half)..(Half - 1)
    BY AsIntRange
  <2>3. n =< AsInt(x % Modulus)
    BY <1>6, <2>1 DEF Minus
  <2>4. Half \in Nat \ {0} /\ Modulus = 2 * Half
    BY Sizes
  <2> QED
    BY <2>2, <2>3, <2>4
<1>8. Remain(q, h) - 2 * Span + 1 >= -Half
  <2>1. PICK m \in Int, s \in Nat \ {0}, k \in Nat, f \in Int, v \in Int :
            /\ m = Max1 /\ s = Span /\ k = ToCheck(q.msCount) /\ f = Half
            /\ m =< 2 * s /\ f >= 4 * s /\ v = Remain(q, h)
    <3>1. Max1 \in 1..NumQueues
      <4>1. MaxLatency \in Nat /\ NumQueues \in Nat \ {0}
        BY TimerAssumption
      <4> QED
        BY <4>1 DEF Max1
    <3>2. ToCheck(q.msCount) \in 0..(Span - 1)
      BY <1>1, ToCheckIs
    <3>3. Remain(q, h) \in (-Half)..(Half - 1)
      BY <1>1, RemainIs
    <3>4. Span \in Nat \ {0} /\ NumQueues = 2 * Span /\ Half \in Nat /\ Half >= 4 * Span
      BY Sizes
    <3>5. Max1 \in Int /\ Max1 =< 2 * Span
      BY <3>1, <3>4
    <3>6. ToCheck(q.msCount) \in Nat
      BY <3>2
    <3>7. Remain(q, h) \in Int /\ Half \in Int
      BY <3>3, <3>4
    <3> QED
      BY <3>4, <3>5, <3>6, <3>7
  <2>2. OrdLow(-1, -1, "off", q.msCount) = s + 1 - m + k
    BY <2>1 DEF OrdLow
  <2>3. v >= s + 1 - m + k
    BY <1>4, <2>1, <2>2 DEF Bounds
  <2> QED
    BY <2>1, <2>3
<1>9. Remain(q, h) - n - ToCheck((q.msCount + n) % Modulus) >= Span
  BY <1>1, <1>5, <1>6, <1>7, <1>8, BeforeTransfer
<1>10. ASSUME NEW u \in Timer, q.state[u] \in {"EOrdered", "ECritical"}
       PROVE  Remain(q, u) - n >= Span + ToCheck((q.msCount + n) % Modulus)
  <2>1. Remain(q, h) =< Remain(q, u)
    BY <1>2, <1>10, FirstOrdered
  <2>2. PICK x \in Int, y \in Int, k \in Int, s \in Int :
            /\ x = Remain(q, h) /\ y = Remain(q, u) /\ s = Span
            /\ k = ToCheck((q.msCount + n) % Modulus)
    <3>1. Remain(q, h) \in (-Half)..(Half - 1) /\ Remain(q, u) \in (-Half)..(Half - 1)
      BY <1>1, RemainIs
    <3>2. (q.msCount + n) % Modulus \in Tick32
      <4>1. q.msCount \in Int
        BY <1>1
      <4>2. q.msCount + n \in Int
        BY <4>1
      <4> QED
        BY <4>2, Constants
    <3>3. ToCheck((q.msCount + n) % Modulus) \in 0..(Span - 1)
      BY <3>2, ToCheckIs
    <3> QED
      BY <3>1, <3>3, Sizes
  <2>3. x - n - k >= s /\ x =< y
    BY <1>9, <2>1, <2>2
  <2> QED
    BY <2>2, <2>3
<1> QED
  BY <1>7, <1>10

\* The same for the holding queue.
LEMMA SleepHolding ==
    ASSUME MaxLatency =< NumQueues, Exact(q, {}), Bounds(q, -1, -1, "off"),
           NEW n \in Nat \ {0}, n =< NextCheck
    PROVE  /\ n \in 0..(Modulus - 1)
           /\ \A u \in Timer : q.state[u] = "EHolding" =>
                 Remain(q, u) - n >= Span + 1 + ToCheck((q.msCount + n) % Modulus)
<1>1. q \in QState /\ q.msCount \in Tick32
  BY Fields DEF Exact
<1>2. n =< ToCheck(q.msCount)
  BY DEF NextCheck, ToCheck, Span
<1>3. PICK k \in Int, s \in Int : k = ToCheck(q.msCount) /\ s = Span /\ k =< s - 1
  <2>1. ToCheck(q.msCount) \in 0..(Span - 1)
    BY <1>1, ToCheckIs
  <2> QED
    BY <2>1, Sizes
<1>4. n \in 0..(Modulus - 1)
  BY <1>2, <1>3, Sizes
<1>5. ToCheck((q.msCount + n) % Modulus) = k - n
  BY <1>1, <1>2, <1>3, <1>4, ToCheckLater
<1>6. ASSUME NEW u \in Timer, q.state[u] = "EHolding"
      PROVE  Remain(q, u) - n >= Span + 1 + ToCheck((q.msCount + n) % Modulus)
  <2>1. HoldLow(-1, -1, q.msCount) = s + 1 + k
    BY <1>3 DEF HoldLow
  <2>2. PICK v \in Int : v = Remain(q, u)
    <3>1. Remain(q, u) \in (-Half)..(Half - 1)
      BY <1>1, RemainIs
    <3> QED
      BY <3>1, Sizes
  <2>3. v >= s + 1 + k
    BY <1>6, <2>1, <2>2 DEF Bounds
  <2> QED
    BY <1>3, <1>5, <2>2, <2>3
<1> QED
  BY <1>4, <1>6

\* NTimerQ::Advance keeps them: the sleep ends before a timer must be moved.
LEMMA AdvanceTime ==
    ASSUME MaxLatency =< NumQueues, QIInv, TimeInv, NEW n \in 1..MaxSleep, Advance(n)
    PROVE  TimeInv'
<1>1. /\ isr = "off" /\ dfc = "off" /\ waiting = -1 /\ IdleAtLeast(n)
      /\ q' = [q EXCEPT !.msCount = (@ + n) % Modulus]
      /\ isr' = isr /\ doDfc' = doDfc /\ dfc' = dfc /\ waiting' = waiting
      /\ running' = running
  BY DEF Advance
<1>2. /\ Exact(q, {}) /\ Exact(q', {}) /\ q \in QState /\ Pointers(q, dfc, pC, pN)
      /\ running \in -1..MaxLatency /\ n \in Nat \ {0}
  <2>1. MaxSleep \in Nat
    BY TimerAssumption
  <2> QED
    BY <2>1, AdvanceKeeps DEF QIInv, Exact
<1>3. /\ Asked = -1 /\ Asked' = -1
  BY <1>1 DEF Asked
<1>4. running = -1 /\ Bounds(q, -1, -1, "off") /\ SortedBy(q.ordered, Left(q))
  BY <1>1, <1>2, <1>3 DEF TimeInv
<1>5. /\ q'.msCount = (q.msCount + n) % Modulus /\ q'.state = q.state
      /\ q'.triggerTime = q.triggerTime /\ q'.ordered = q.ordered
  BY <1>1, <1>2 DEF QState
<1>6. \A u \in Timer : /\ q.state[u] = "EHolding" => q.holding # <<>>
                       /\ q.state[u] \in {"EOrdered", "ECritical"} => q.ordered # <<>>
                       /\ q.state[u] # "ETransferring"
  <2>1. \A u \in Timer : Place(q, u)
    BY <1>2 DEF Exact
  <2> QED
    BY <1>1, <1>2, <2>1 DEF Place, Range, Pointers
<1>7. Bounds(q', -1, -1, "off") /\ SortedBy(q'.ordered, Left(q'))
  <2>1. CASE q.holding = <<>> /\ q.ordered = <<>>
    <3>1. Bounds(q', -1, -1, "off")
      BY <1>5, <1>6, <2>1 DEF Bounds
    <3>2. SortedBy(q'.ordered, Left(q'))
      BY <1>5, <2>1 DEF SortedBy
    <3> QED
      BY <3>1, <3>2
  <2>2. CASE q.holding # <<>> \/ q.ordered # <<>>
    <3>1. n \in 0..(Modulus - 1)
      BY <1>1, <1>2, <1>4, <2>2, SleepHolding, SleepOrdered DEF IdleAtLeast
    <3>2. PICK k \in Nat, s \in Nat, m \in Nat \ {0}, f \in Nat :
              k = ToCheck((q.msCount + n) % Modulus) /\ s = Span /\ m = Max1 /\ f = Half
      <4>1. (q.msCount + n) % Modulus \in Tick32
        BY <1>2, <1>5, Fields DEF Exact
      <4>2. ToCheck((q.msCount + n) % Modulus) \in 0..(Span - 1)
        BY <4>1, ToCheckIs
      <4>3. MaxLatency \in Nat
        BY TimerAssumption
      <4>4. Max1 \in Nat \ {0}
        BY <4>3 DEF Max1
      <4> QED
        BY <4>2, <4>4, Sizes
    <3>3. ASSUME NEW u \in Timer
          PROVE  /\ q.state[u] = "EHolding" => Remain(q, u) - n >= s + 1 + k
                 /\ q.state[u] \in {"EOrdered", "ECritical"} => Remain(q, u) - n >= s + k
      <4>1. q.state[u] = "EHolding" => Remain(q, u) - n >= s + 1 + k
        BY <1>1, <1>2, <1>4, <1>6, <3>2, SleepHolding DEF IdleAtLeast
      <4>2. q.state[u] \in {"EOrdered", "ECritical"} => Remain(q, u) - n >= s + k
        BY <1>1, <1>2, <1>4, <1>6, <3>2, SleepOrdered DEF IdleAtLeast
      <4> QED
        BY <4>1, <4>2
    <3>4. \A u \in Timer : q.state[u] \in Tracked => Remain(q, u) - n >= -Half
      <4> SUFFICES ASSUME NEW u \in Timer, q.state[u] \in Tracked
                   PROVE  Remain(q, u) - n >= -Half
        OBVIOUS
      <4>1. PICK v \in Int : v = Remain(q, u)
        <5>1. Remain(q, u) \in (-Half)..(Half - 1)
          BY <1>2, RemainIs
        <5> QED
          BY <5>1, Sizes
      <4>2. v - n >= s + 1 + k \/ v - n >= s + k
        BY <1>6, <3>3, <4>1 DEF Tracked
      <4> QED
        BY <3>1, <3>2, <4>1, <4>2
    <3>5. /\ \A u \in Timer : q.state[u] \in Tracked => Remain(q', u) = Remain(q, u) - n
          /\ SortedBy(q'.ordered, Left(q'))
      BY <1>2, <1>4, <1>5, <3>1, <3>4, LaterTime
    <3>6. HoldLow(-1, -1, q'.msCount) = s + 1 + k /\ OrdLow(-1, -1, "off", q'.msCount) = s + 1 - m + k
      BY <1>5, <3>2 DEF HoldLow, OrdLow
    <3>7. ASSUME NEW u \in Timer
          PROVE  /\ q'.state[u] = "EHolding" => Remain(q', u) >= s + 1 + k
                 /\ q'.state[u] \in {"EOrdered", "ECritical"} => Remain(q', u) >= s + 1 - m + k
                 /\ q'.state[u] # "ETransferring"
      <4>1. q'.state[u] = "EHolding" => Remain(q', u) >= s + 1 + k
        BY <1>5, <3>3, <3>5 DEF Tracked
      <4>2. q'.state[u] \in {"EOrdered", "ECritical"} => Remain(q', u) >= s + 1 - m + k
        <5>1. PICK v \in Int : v = Remain(q, u)
          <6>1. Remain(q, u) \in (-Half)..(Half - 1)
            BY <1>2, RemainIs
          <6> QED
            BY <6>1, Sizes
        <5>2. q'.state[u] \in {"EOrdered", "ECritical"} => v - n >= s + k /\ Remain(q', u) = v - n
          BY <1>5, <3>3, <3>5, <5>1 DEF Tracked
        <5> QED
          BY <1>2, <3>2, <5>1, <5>2
      <4>3. q'.state[u] # "ETransferring"
        BY <1>5, <1>6
      <4> QED
        BY <4>1, <4>2, <4>3
    <3>8. Bounds(q', -1, -1, "off")
      BY <3>6, <3>7 DEF Bounds
    <3> QED
      BY <3>5, <3>8
  <2> QED
    BY <2>1, <2>2
<1>8. Behind(q', dfc', pC', pN')
  BY <1>1 DEF Behind
<1> QED
  BY <1>1, <1>3, <1>4, <1>7, <1>8 DEF TimeInv
-----------------------------------------------------------------------------
\* At first no timer waits.
LEMMA InitTimeInv == Init => TimeInv
<1> SUFFICES ASSUME Init PROVE TimeInv
  OBVIOUS
<1>1. /\ q.state = [t \in Timer |-> "EIdle"] /\ q.ordered = <<>>
      /\ dfc = "off" /\ running = -1
  BY DEF Init
<1>2. \A t \in Timer : q.state[t] = "EIdle"
  BY <1>1
<1>3. Bounds(q, Asked, running, dfc)
  BY <1>2 DEF Bounds
<1>4. SortedBy(q.ordered, Left(q))
  BY <1>1 DEF SortedBy
<1> QED
  BY <1>1, <1>3, <1>4 DEF TimeInv, Behind

\* Every step keeps the order and what is left.
LEMMA NextTimeInv ==
    ASSUME MaxLatency =< NumQueues
    PROVE  QIInv /\ TimeInv /\ [Next]_vars => TimeInv'
<1> SUFFICES ASSUME QIInv, TimeInv, [Next]_vars PROVE TimeInv'
  OBVIOUS
<1>1. CASE Call
  <2>1. ASSUME NEW t \in Timer, NEW n \in Delay, NEW inDfc \in InDfc, OneShot(t, n, inDfc)
        PROVE  TimeInv'
    <3>1. UNCHANGED <<isr, doDfc, dfc, pC, pN, waiting, running>>
      BY <2>1 DEF OneShot
    <3> QED
      BY <2>1, <3>1, OneShotKeeps, StartedTime
  <2>2. ASSUME NEW t \in Periodic, NEW n \in Delay, Again(t, n)
        PROVE  TimeInv'
    <3>1. UNCHANGED <<isr, doDfc, dfc, pC, pN, waiting, running>> /\ t \in Timer
      BY <2>2, Constants DEF Again
    <3> QED
      BY <2>2, <3>1, AgainKeeps, StartedTime
  <2> QED
    BY <1>1, <2>1, <2>2, CancelTime DEF Call
<1>2. CASE Tick
  BY <1>2, TickTime
<1>3. CASE TickGoesOn
  BY <1>3, TickGoesOnTime
<1>4. CASE DfcStep
  BY <1>4, DfcStartTime, OrderedToFinalTime, TakeFromHoldingTime,
     WalkFromStartTime, WalkGoesOnTime, CallCompletedTime DEF DfcStep
<1>5. CASE \E n \in 1..MaxSleep : Advance(n)
  BY <1>5, AdvanceTime
<1>6. CASE UNCHANGED vars
  BY <1>6 DEF vars, TimeInv, Asked
<1> QED
  BY <1>1, <1>2, <1>3, <1>4, <1>5, <1>6 DEF Next

\* The inductive invariant says what DfcPointersExact does.
LEMMA TimeInvExact == QIInv /\ TimeInv => DfcPointersExact
<1> SUFFICES ASSUME QIInv, TimeInv PROVE DfcPointersExact
  OBVIOUS
<1>1. q \in QState /\ q.ordered \in Seq(Timer) /\ SortedBy(q.ordered, Left(q))
  BY Fields DEF QIInv, Exact, TimeInv
<1>2. \A i \in DOMAIN q.ordered : Left(q)[q.ordered[i]] = Remain(q, q.ordered[i])
  <2>1. \A i \in DOMAIN q.ordered : q.ordered[i] \in Timer
    BY <1>1
  <2> QED
    BY <1>1, <2>1, LeftType
<1>3. OrderedSorted
  BY <1>1, <1>2 DEF OrderedSorted, SortedBy
<1> QED
  BY <1>3, QIInvExact DEF DfcPointersExact

\* NTimerQ::DfcFn: what it holds on to with interrupts enabled stays right, and the
\* ordered queue is sorted by trigger time, across the wrap of the tick count, as
\* long as the latency is no more ticks than there are queues.
THEOREM PointersAreExact ==
    MaxLatency =< NumQueues => (Spec => []DfcPointersExact)
<1> SUFFICES ASSUME MaxLatency =< NumQueues PROVE Spec => []DfcPointersExact
  OBVIOUS
<1>1. Init => QIInv /\ TimeInv
  BY InitQIInv, InitTimeInv
<1>2. (QIInv /\ TimeInv) /\ [Next]_vars => (QIInv /\ TimeInv)'
  BY NextQIInv, NextTimeInv
<1>3. Spec => [](QIInv /\ TimeInv)
  BY <1>1, <1>2, PTL DEF Spec
<1>4. QIInv /\ TimeInv => DfcPointersExact
  BY TimeInvExact
<1> QED
  BY <1>3, <1>4, PTL

-----------------------------------------------------------------------------
\* What a user sees

\* Timer t has expired and waits for its callback.
Due(r, t) == t \in Range(r.expired) \cup Range(r.completed)

\* What a user sees of timer t.
PhaseOf(r, t) == IF r.state[t] = "EIdle" THEN "off" ELSE IF Due(r, t) THEN "due" ELSE "pending"
\* Ticks left to it, as a user counts them.
LeftOf(r, t) == IF PhaseOf(r, t) = "pending" THEN Remain(r, t) ELSE 0

\* Timers on final queues expire before the tick count has their slot again.
FinalSoon(r) ==
    \A t \in Timer : r.state[t] = "EFinal" /\ ~Due(r, t) => Remain(r, t) \in 0..(NumQueues - 1)

\* No timer is late.
InTime(r) == \A t \in Timer : PhaseOf(r, t) = "pending" => Remain(r, t) >= 0

\* Final timers expire in time; a completed one has the DFC running or asked for.
ExpiryInv ==
    /\ FinalSoon(q)
    /\ \A t \in Timer : t \in Range(q.completed) => Asked >= 0 \/ dfc # "off"

-----------------------------------------------------------------------------
\* The slot of a timer on a final queue is reached when nothing remains.
LEMMA SlotReached ==
    ASSUME NEW r \in QState, NEW t \in Timer, Remain(r, t) \in 0..(NumQueues - 1)
    PROVE  /\ SlotOf(r, t) = (r.msCount + Remain(r, t)) % NumQueues
           /\ SlotOf(r, t) = r.msCount % NumQueues <=> Remain(r, t) = 0
<1>1. PICK n \in Nat \ {0}, x \in Int : n = NumQueues /\ x = Remain(r, t) /\ x \in 0..(n - 1)
  <2>1. NumQueues \in Nat \ {0}
    BY TimerAssumption
  <2> QED
    BY <2>1
<1>2. PICK tr \in Int, c \in Int : tr = r.triggerTime[t] /\ c = r.msCount
  <2>1. r.triggerTime[t] \in Tick32 /\ r.msCount \in Tick32
    BY Fields
  <2>2. Tick32 \subseteq Int
    BY Constants
  <2> QED
    BY <2>1, <2>2
<1>3. PICK e \in Int : tr - c = x + e * Modulus
  BY <1>1, <1>2, RemainIs
<1>4. PICK k \in Int : Modulus = n * k
  <2>1. PICK j \in Nat : Modulus = NumQueues * (2 * j)
    BY Sizes
  <2>2. 2 * j \in Int
    OBVIOUS
  <2> QED
    BY <1>1, <2>1, <2>2
<1>5. PICK m \in Int : e * Modulus = n * m
  <2>1. e * (n * k) = n * (e * k) /\ e * k \in Int
    OBVIOUS
  <2> QED
    BY <1>4, <2>1
<1>6. tr = (c + x) + n * m
  BY <1>3, <1>5
<1>7. PICK y \in 0..(n - 1), z \in Int : y = (c + x) % n /\ c + x = n * z + y
  <2>1. c + x \in Int
    OBVIOUS
  <2>2. (c + x) % n \in 0..(n - 1) /\ \E k0 \in Int : c + x = (n * k0) + ((c + x) % n)
    BY <2>1, ModHas
  <2> QED
    BY <2>2
<1>8. tr % n = y
  <2>1. tr = n * (z + m) + y
    <3>1. n * (z + m) = n * z + n * m
      OBVIOUS
    <3> QED
      BY <1>6, <1>7, <3>1
  <2>2. z + m \in Int
    OBVIOUS
  <2> QED
    BY <2>1, <2>2, ModIs
<1>9. SlotOf(r, t) = y
  BY <1>1, <1>2, <1>8 DEF SlotOf
<1>10. c % n = y <=> x = 0
  <2>1. PICK y0 \in 0..(n - 1), z0 \in Int : y0 = c % n /\ c = n * z0 + y0
    <3>1. c % n \in 0..(n - 1) /\ \E k0 \in Int : c = (n * k0) + (c % n)
      BY ModHas
    <3> QED
      BY <3>1
  <2>2. CASE y0 + x < n
    <3>1. y0 + x \in 0..(n - 1) /\ c + x = n * z0 + (y0 + x)
      BY <1>1, <2>1, <2>2
    <3>2. PICK v \in Int, w \in 0..(n - 1), j \in Int :
              v = c + x /\ w = y0 + x /\ j = z0 /\ v = n * j + w
      BY <3>1
    <3>3. v % n = w
      <4>1. n \in Nat \ {0} /\ v \in Int /\ j \in Int /\ w \in 0..(n - 1) /\ v = n * j + w
        BY <1>1, <3>2
      <4> QED
        BY <4>1, ModIs, Zenon
    <3> QED
      BY <1>7, <2>1, <3>2, <3>3
  <2>3. CASE ~(y0 + x < n)
    <3>1. y0 + x - n \in 0..(n - 1) /\ c + x = n * (z0 + 1) + (y0 + x - n) /\ z0 + 1 \in Int
      <4>1. n * (z0 + 1) = n * z0 + n
        OBVIOUS
      <4> QED
        BY <1>1, <2>1, <2>3, <4>1
    <3>2. PICK v \in Int, w \in 0..(n - 1), j \in Int :
              v = c + x /\ w = y0 + x - n /\ j = z0 + 1 /\ v = n * j + w
      BY <3>1
    <3>3. v % n = w
      <4>1. n \in Nat \ {0} /\ v \in Int /\ j \in Int /\ w \in 0..(n - 1) /\ v = n * j + w
        BY <1>1, <3>2
      <4> QED
        BY <4>1, ModIs, Zenon
    <3> QED
      BY <1>1, <1>7, <2>1, <2>3, <3>2, <3>3
  <2> QED
    BY <2>2, <2>3
<1> QED
  BY <1>1, <1>2, <1>7, <1>9, <1>10

\* Expired timers are final, and the other ones of that state on a final queue.
LEMMA DueIs ==
    ASSUME NEW r, Exact(r, {}), NEW t \in Timer
    PROVE  /\ Due(r, t) => r.state[t] = "EFinal"
           /\ r.state[t] = "EFinal" /\ ~Due(r, t) =>
                 t \in Range(r.intQ[SlotOf(r, t)]) \/ t \in Range(r.dfcQ[SlotOf(r, t)])
           /\ \A i \in Slot : t \in Range(r.intQ[i]) \/ t \in Range(r.dfcQ[i]) =>
                 i = SlotOf(r, t) /\ r.state[t] = "EFinal" /\ ~Due(r, t)
<1>1. Place(r, t) /\ r \in QState
  BY DEF Exact
<1>2. Due(r, t) <=> t \in Range(r.expired) \/ t \in Range(r.completed)
  BY DEF Due
<1>3. \A i \in Slot : t \in Range(r.intQ[i]) \/ t \in Range(r.dfcQ[i]) => i = SlotOf(r, t)
  BY <1>1 DEF Place
<1> QED
  BY <1>1, <1>2, <1>3 DEF Place

\* What is left for a pending timer, as Timers counts it.
LEMMA LeftIs ==
    ASSUME NEW r \in QState, NEW t \in Timer, Remain(r, t) >= 0
    PROVE  /\ Minus(r.triggerTime[t], r.msCount) = Remain(r, t)
           /\ Remain(r, t) \in 0..(Half - 1)
<1>1. Remain(r, t) \in (-Half)..(Half - 1) /\ Half \in Nat
  BY RemainIs, Sizes
<1>2. Minus(r.triggerTime[t], r.msCount) \in 0..(Modulus - 1)
  <2>1. r.triggerTime[t] \in Tick32 /\ r.msCount \in Tick32
    BY Fields
  <2>2. r.triggerTime[t] - r.msCount \in Int
    <3>1. Tick32 \subseteq Int
      BY Constants
    <3>2. r.triggerTime[t] \in Int /\ r.msCount \in Int
      BY <2>1, <3>1
    <3> QED
      BY <3>2
  <2>3. (r.triggerTime[t] - r.msCount) % Modulus \in Tick32
    BY <2>2, Constants
  <2> QED
    BY <2>3 DEF Minus, Tick32
<1>3. PICK x \in Int, m \in Int : x = Minus(r.triggerTime[t], r.msCount) /\ m = Modulus
                                  /\ x =< m - 1
  BY <1>2, Sizes
<1>4. Remain(r, t) = IF x < Half THEN x ELSE x - m
  BY <1>3 DEF Remain, AsInt
<1> QED
  BY <1>1, <1>3, <1>4

\* With a latency of at most a quarter of the queues no timer that is not on a
\* final queue is past its time.
LEMMA NotLate ==
    ASSUME 4 * MaxLatency =< NumQueues, NEW r \in QState, NEW w \in -1..MaxLatency,
           NEW a \in -1..MaxLatency, NEW d, Bounds(r, w, a, d), NEW u \in Timer,
           d = "ordered" => a >= 0,
           r.state[u] \in Tracked
    PROVE  Remain(r, u) >= 0
<1>1. PICK c \in Tick32 : c = r.msCount
  BY Fields
<1>2. PICK l \in Nat, m \in Nat, h \in Nat, n \in Nat, k \in Nat, v \in Int :
          /\ l = MaxLatency /\ m = Max1 /\ h = Span /\ n = NumQueues /\ k = ToCheck(c)
          /\ v = Remain(r, u) /\ n = 2 * h /\ h >= 1 /\ 4 * l =< n
          /\ m = IF l = 0 THEN 1 ELSE l
  <2>1. ToCheck(c) \in 0..(Span - 1)
    BY ToCheckIs
  <2>2. Remain(r, u) \in (-Half)..(Half - 1)
    BY RemainIs
  <2>3. Span \in Nat \ {0} /\ NumQueues = 2 * Span /\ Half \in Nat
    BY Sizes
  <2>4. MaxLatency \in Nat /\ NumQueues \in Nat
    BY TimerAssumption
  <2>5. Max1 = (IF MaxLatency = 0 THEN 1 ELSE MaxLatency) /\ Max1 \in Nat
    BY <2>4 DEF Max1
  <2>6. ToCheck(c) \in Nat /\ Remain(r, u) \in Int
    BY <2>1, <2>2, <2>3
  <2>7. Span >= 1 /\ Span \in Nat
    BY <2>3
  <2> QED
    BY <2>3, <2>4, <2>5, <2>6, <2>7
<1>3. w \in -1..l /\ a \in -1..l
  BY <1>2
<1>4. HoldLow(w, a, c) = IF a >= 0 THEN h - a ELSE IF w >= 0 THEN h - w ELSE h + 1 + k
  BY <1>2 DEF HoldLow
<1>5. OrdLow(w, a, d, c) = IF d = "ordered" THEN h - m - a
                           ELSE IF a >= 0 THEN n - a
                           ELSE IF w >= 0 THEN h - m - w ELSE h + 1 - m + k
  BY <1>2 DEF OrdLow
<1>6. HoldLow(w, a, c) >= 0
  BY <1>2, <1>3, <1>4
<1>7. OrdLow(w, a, d, c) >= 0
  <2>1. CASE d = "ordered"
    BY <1>2, <1>3, <1>5, <2>1
  <2>2. CASE d # "ordered"
    BY <1>2, <1>3, <1>5, <2>2
  <2> QED
    BY <2>1, <2>2
<1>8. n - a >= 0
  BY <1>2, <1>3
<1>9. PICK x \in Int, y \in Int : x = HoldLow(w, a, c) /\ y = OrdLow(w, a, d, c)
  BY <1>2, <1>3, <1>4, <1>5
<1>10. v >= x \/ v >= y \/ v >= n - a
  BY <1>1, <1>2, <1>9 DEF Tracked, Bounds
<1> QED
  BY <1>2, <1>3, <1>6, <1>7, <1>8, <1>9, <1>10

\* So no timer is late.
LEMMA IsInTime ==
    ASSUME 4 * MaxLatency =< NumQueues, NEW r, Exact(r, {}), NEW w \in -1..MaxLatency,
           NEW a \in -1..MaxLatency, NEW d, Bounds(r, w, a, d), d = "ordered" => a >= 0,
           FinalSoon(r)
    PROVE  InTime(r)
<1> SUFFICES ASSUME NEW t \in Timer, PhaseOf(r, t) = "pending" PROVE Remain(r, t) >= 0
  BY DEF InTime
<1>1. r \in QState /\ r.state[t] \in TState
  BY Fields DEF Exact
<1>2. r.state[t] # "EIdle" /\ ~Due(r, t)
  BY DEF PhaseOf
<1>3. CASE r.state[t] \in Tracked
  BY <1>1, <1>3, NotLate
<1>4. CASE r.state[t] \notin Tracked
  <2>1. r.state[t] = "EFinal"
    BY <1>1, <1>2, <1>4 DEF TState, Tracked
  <2> QED
    BY <1>2, <2>1 DEF FinalSoon
<1> QED
  BY <1>3, <1>4

\* A user sees no change of timer t.
AsBefore(r, s, t) == PhaseOf(s, t) = PhaseOf(r, t) /\ LeftOf(s, t) = LeftOf(r, t)

\* The steps of Timers.
Begun(r, s, t) ==
    PhaseOf(r, t) = "off" /\ PhaseOf(s, t) = "pending" /\ LeftOf(s, t) \in 0..(Half - 1)

\* Timer t is off: called back, or cancelled.
Ended(r, s, t) == PhaseOf(r, t) # "off" /\ PhaseOf(s, t) = "off"

\* The timers that expire at the next tick.
Ripe(r) == {t \in Timer : PhaseOf(r, t) = "pending" /\ LeftOf(r, t) = 0}

\* One tick passes, and the callbacks of some of the timers follow.
Elapsed(r, s, called) ==
    \A t \in Timer :
        /\ PhaseOf(s, t) = IF t \in called THEN "off" ELSE IF t \in Ripe(r) THEN "due"
                           ELSE PhaseOf(r, t)
        /\ LeftOf(s, t) = IF PhaseOf(r, t) = "pending" /\ LeftOf(r, t) > 0
                          THEN LeftOf(r, t) - 1 ELSE LeftOf(r, t)

\* The system sleeps for n ticks.
Slept(r, s, n) ==
    \A t \in Timer :
        /\ PhaseOf(r, t) # "off" => PhaseOf(r, t) = "pending" /\ LeftOf(r, t) >= n
        /\ PhaseOf(s, t) = PhaseOf(r, t)
        /\ LeftOf(s, t) = IF PhaseOf(r, t) = "pending" THEN LeftOf(r, t) - n ELSE LeftOf(r, t)

\* A step of a user of timers, or none.
Refines(r, s) ==
    \/ \A t \in Timer : AsBefore(r, s, t)
    \/ \E t \in Timer : /\ Begun(r, s, t) \/ Ended(r, s, t)
                        /\ \A u \in Timer : u # t => AsBefore(r, s, u)
    \/ \E called \in SUBSET Ripe(r) : Elapsed(r, s, called)
    \/ \E n \in (0..(Half - 1)) \ {0} : Slept(r, s, n)

-----------------------------------------------------------------------------
\* A step of one timer.
LEMMA OneTimer ==
    ASSUME NEW r, NEW s, NEW t \in Timer, Same(r, s, t), FinalSoon(r),
           s.state[t] = "EFinal" /\ ~Due(s, t) => Remain(s, t) \in 0..(NumQueues - 1)
    PROVE  FinalSoon(s) /\ \A u \in Timer : u # t => AsBefore(r, s, u)
<1>1. \A u \in Timer : u # t =>
          /\ Remain(s, u) = Remain(r, u) /\ s.state[u] = r.state[u]
          /\ Due(s, u) <=> Due(r, u)
  BY DEF Same, Remain, Due
<1>2. \A u \in Timer : u # t => PhaseOf(s, u) = PhaseOf(r, u)
  BY <1>1 DEF PhaseOf
<1>3. \A u \in Timer : u # t => LeftOf(s, u) = LeftOf(r, u)
  BY <1>1, <1>2 DEF LeftOf
<1>4. FinalSoon(s)
  BY <1>1 DEF FinalSoon
<1> QED
  BY <1>2, <1>3, <1>4 DEF AsBefore

\* A step that moves timers that have not expired between the other queues.
LEMMA NoTimer ==
    ASSUME NEW r, NEW s, FinalSoon(r), s.msCount = r.msCount,
           \A u \in Timer :
              /\ \/ s.state[u] = r.state[u]
                 \/ {s.state[u], r.state[u]} \subseteq Tracked
              /\ s.triggerTime[u] = r.triggerTime[u]
              /\ Due(s, u) <=> Due(r, u)
    PROVE  FinalSoon(s) /\ \A u \in Timer : AsBefore(r, s, u)
<1>1. \A u \in Timer : Remain(s, u) = Remain(r, u)
  BY DEF Remain
<1>2. \A u \in Timer : /\ s.state[u] = "EFinal" <=> r.state[u] = "EFinal"
                       /\ s.state[u] = "EIdle" <=> r.state[u] = "EIdle"
  BY DEF Tracked
<1>3. \A u \in Timer : PhaseOf(s, u) = PhaseOf(r, u)
  BY <1>2 DEF PhaseOf
<1>4. \A u \in Timer : LeftOf(s, u) = LeftOf(r, u)
  BY <1>1, <1>3 DEF LeftOf
<1>5. FinalSoon(s)
  BY <1>1, <1>2 DEF FinalSoon
<1> QED
  BY <1>3, <1>4, <1>5 DEF AsBefore

\* A step completes no timer: the DFC is still asked for.
LEMMA StillAsked ==
    ASSUME ExpiryInv, Asked' = Asked, dfc' = dfc \/ dfc' # "off",
           \A u \in Timer : u \in Range(q'.completed) => u \in Range(q.completed)
    PROVE  \A u \in Timer : u \in Range(q'.completed) => Asked' >= 0 \/ dfc' # "off"
BY DEF ExpiryInv

\* A timer is started, or ends.
LEMMA StartedExpiry ==
    ASSUME QIInv, QIInv', ExpiryInv, NEW t \in Timer, Started(q, q', t),
           UNCHANGED <<isr, doDfc, dfc, pC, pN, waiting, running>>
    PROVE  ExpiryInv' /\ Refines(q, q')
<1>1. /\ Exact(q, {}) /\ FinalSoon(q) /\ NumQueues \in Int
  BY TimerAssumption DEF QIInv, ExpiryInv
<1>2. /\ Same(q, q', t) /\ q.state[t] = "EIdle"
      /\ q'.expired = q.expired /\ q'.completed = q.completed
      /\ Remain(q', t) \in 0..(Half - 1)
      /\ \/ q'.state[t] = "EFinal" /\ Remain(q', t) < NumQueues
         \/ q'.state[t] = "EHolding"
  BY DEF Started
<1>3. ~Due(q', t)
  <2>1. ~Due(q, t)
    BY <1>1, <1>2, DueIs
  <2> QED
    BY <1>2, <2>1 DEF Due
<1>4. q'.state[t] = "EFinal" => Remain(q', t) \in 0..(NumQueues - 1)
  <2>1. Half \in Int
    BY Sizes
  <2> QED
    BY <1>1, <1>2, <2>1
<1>5. FinalSoon(q') /\ \A u \in Timer : u # t => AsBefore(q, q', u)
  BY <1>1, <1>2, <1>4, OneTimer
<1>6. Begun(q, q', t)
  <2>1. PhaseOf(q, t) = "off"
    BY <1>2 DEF PhaseOf
  <2>2. PhaseOf(q', t) = "pending"
    BY <1>2, <1>3 DEF PhaseOf
  <2> QED
    BY <1>2, <2>1, <2>2 DEF Begun, LeftOf
<1>7. Asked' = Asked
  BY DEF Asked
<1>8. \A u \in Timer : u \in Range(q'.completed) => Asked' >= 0 \/ dfc' # "off"
  BY <1>2, <1>7, StillAsked
<1> QED
  BY <1>5, <1>6, <1>8 DEF ExpiryInv, Refines

\* A timer is called back or cancelled.
LEMMA EndedExpiry ==
    ASSUME QIInv, QIInv', ExpiryInv, NEW t \in Timer, Same(q, q', t),
           q.state[t] # "EIdle", q'.state[t] = "EIdle", dfc' = dfc, Asked' = Asked
    PROVE  ExpiryInv' /\ Refines(q, q')
<1>1. Exact(q, {}) /\ Exact(q', {}) /\ FinalSoon(q)
  BY DEF QIInv, ExpiryInv
<1>2. FinalSoon(q') /\ \A u \in Timer : u # t => AsBefore(q, q', u)
  BY <1>1, OneTimer
<1>3. Ended(q, q', t)
  BY DEF Ended, PhaseOf
<1>4. \A u \in Timer : u \in Range(q'.completed) => u \in Range(q.completed)
  <2>1. ~Due(q', t)
    BY <1>1, DueIs
  <2> QED
    BY <2>1 DEF Due, Same
<1>5. \A u \in Timer : u \in Range(q'.completed) => Asked' >= 0 \/ dfc' # "off"
  BY <1>4, StillAsked
<1> QED
  BY <1>2, <1>3, <1>5 DEF ExpiryInv, Refines

\* A step no user sees.
LEMMA UnseenExpiry ==
    ASSUME ExpiryInv, FinalSoon(q'), \A u \in Timer : AsBefore(q, q', u),
           Asked' = Asked, dfc' = dfc \/ dfc' # "off",
           \A u \in Timer : u \in Range(q'.completed) => u \in Range(q.completed)
    PROVE  ExpiryInv' /\ Refines(q, q')
<1>1. \A u \in Timer : u \in Range(q'.completed) => Asked' >= 0 \/ dfc' # "off"
  BY StillAsked
<1> QED
  BY <1>1 DEF ExpiryInv, Refines

\* A step that leaves the queues alone.
LEMMA SameQueues ==
    ASSUME ExpiryInv, q' = q, Asked' = Asked, dfc' = dfc \/ dfc' # "off"
    PROVE  ExpiryInv' /\ Refines(q, q')
<1>1. \A u \in Timer : AsBefore(q, q', u)
  BY DEF AsBefore
<1>2. FinalSoon(q')
  BY DEF ExpiryInv
<1> QED
  BY <1>1, <1>2, UnseenExpiry

\* NTimer::Cancel ends a timer.
LEMMA CancelExpiry ==
    ASSUME QIInv, ExpiryInv, NEW t \in Timer, Cancel(t)
    PROVE  ExpiryInv' /\ Refines(q, q')
<1>1. QIInv' /\ Exact(q, {})
  BY CancelKeeps DEF QIInv
<1>2. q' = CancelTimer(q, t)
  BY DEF Cancel
<1>3. q.state[t] # "EIdle" /\ UNCHANGED <<isr, doDfc, dfc, pC, pN, waiting, running>>
  BY DEF Cancel
<1>4. Exact(q, {})
  BY <1>1
<1>5. /\ q'.state = [q.state EXCEPT ![t] = "EIdle"] /\ q'.msCount = q.msCount
      /\ q'.expired = Drop(q.expired, t) /\ q'.completed = Drop(q.completed, t)
      /\ \A u \in Timer : u # t => q'.triggerTime[u] = q.triggerTime[u]
  BY <1>2, <1>4, CancelExact
<1>6. /\ q.state \in [Timer -> TState] /\ q.expired \in Seq(Timer) /\ q.completed \in Seq(Timer)
      /\ Inj(q.expired) /\ Inj(q.completed)
  BY <1>4, Fields DEF Exact, Once
<1>7. /\ Range(q'.expired) = Range(q.expired) \ {t}
      /\ Range(q'.completed) = Range(q.completed) \ {t}
  BY <1>5, <1>6, DropQueue
<1>8. Same(q, q', t) /\ q'.state[t] = "EIdle"
  BY <1>5, <1>6, <1>7 DEF Same
<1>9. Asked' = Asked /\ dfc' = dfc
  BY <1>3 DEF Asked
<1> QED
  BY <1>1, <1>3, <1>8, <1>9, EndedExpiry

\* A callback from the tick interrupt ends a timer.
LEMMA CalledBackExpiry ==
    ASSUME QIInv, QIInv', ExpiryInv, q' = q \/ \E t \in Timer : CalledBack(q, q', t),
           dfc' = dfc, Asked' = Asked
    PROVE  ExpiryInv' /\ Refines(q, q')
<1>1. CASE q' = q
  BY <1>1, SameQueues
<1>2. ASSUME NEW t \in Timer, CalledBack(q, q', t) PROVE ExpiryInv' /\ Refines(q, q')
  <2>1. Same(q, q', t) /\ q.state[t] # "EIdle" /\ q'.state[t] = "EIdle"
    BY <1>2 DEF CalledBack
  <2> QED
    BY <2>1, EndedExpiry
<1> QED
  BY <1>1, <1>2

\* ... and when the interrupt goes on.
LEMMA TickGoesOnExpiry ==
    ASSUME QIInv, ExpiryInv, TickGoesOn
    PROVE  ExpiryInv' /\ Refines(q, q')
BY TickGoesOnKeeps, CalledBackExpiry

\* No user sees the DFC start.
LEMMA DfcStartExpiry ==
    ASSUME QIInv, ExpiryInv, DfcStart
    PROVE  ExpiryInv' /\ Refines(q, q')
<1>1. q' = q /\ dfc' # "off"
  BY DEF DfcStart
<1>2. \A u \in Timer : AsBefore(q, q', u)
  BY <1>1 DEF AsBefore
<1>3. FinalSoon(q')
  BY <1>1 DEF ExpiryInv
<1> QED
  BY <1>1, <1>2, <1>3 DEF ExpiryInv, Refines

\* A callback from the DFC ends a timer.
LEMMA CallCompletedExpiry ==
    ASSUME QIInv, ExpiryInv, CallCompleted
    PROVE  ExpiryInv' /\ Refines(q, q')
<1>1. /\ QIInv' /\ Asked' = Asked
      /\ \/ q' = q /\ dfc' = "off"
         \/ dfc' = dfc /\ \E t \in Timer : CalledBack(q, q', t)
  BY CallCompletedKeeps
<1>2. CASE dfc' = dfc /\ \E t \in Timer : CalledBack(q, q', t)
  BY <1>1, <1>2, CalledBackExpiry
<1>3. ASSUME q' = q, dfc' = "off" PROVE ExpiryInv' /\ Refines(q, q')
  <2>1. q.completed = <<>>
    <3>1. q \in QState /\ dfc = "completed"
      BY DEF QIInv, Exact, CallCompleted
    <3> QED
      BY <1>3, <3>1 DEF CallCompleted
  <2>2. \A u \in Timer : u \notin Range(q'.completed)
    BY <1>3, <2>1 DEF Range
  <2>3. \A u \in Timer : AsBefore(q, q', u)
    BY <1>3 DEF AsBefore
  <2>4. FinalSoon(q')
    BY <1>3 DEF ExpiryInv
  <2> QED
    BY <2>2, <2>3, <2>4 DEF ExpiryInv, Refines
<1> QED
  BY <1>1, <1>2, <1>3

\* The DFC moves a timer to a final queue, in time.
LEMMA ToFinalExpiry ==
    ASSUME 4 * MaxLatency =< NumQueues, QIInv, QIInv', TimeInv, ExpiryInv, NEW t \in Timer,
           ToFinal(q, q', t), q.state[t] \in {"EOrdered", "EHolding"},
           Asked' = Asked, dfc' = dfc
    PROVE  ExpiryInv' /\ Refines(q, q')
<1>1. /\ Exact(q, {}) /\ q \in QState /\ FinalSoon(q) /\ NumQueues \in Int
      /\ Asked \in -1..MaxLatency /\ running \in -1..MaxLatency
  BY TimerAssumption, Ages DEF QIInv, ExpiryInv, Exact
<1>2. Bounds(q, Asked, running, dfc) /\ (dfc = "ordered" => running >= 0)
  BY DEF TimeInv
<1>3. /\ Same(q, q', t) /\ q'.state[t] = "EFinal" /\ q'.triggerTime = q.triggerTime
      /\ Remain(q, t) < NumQueues /\ q'.msCount = q.msCount
      /\ t \notin Range(q'.expired) \cup Range(q'.completed)
  BY DEF ToFinal, Same
<1>4. Remain(q, t) \in 0..(NumQueues - 1)
  <2>1. Remain(q, t) >= 0
    BY <1>1, <1>2, NotLate DEF Tracked
  <2>2. Remain(q, t) \in Int
    <3>1. Remain(q, t) \in (-Half)..(Half - 1)
      BY <1>1, RemainIs
    <3> QED
      BY <3>1, Sizes
  <2> QED
    BY <1>1, <1>3, <2>1, <2>2
<1>5. Remain(q', t) = Remain(q, t)
  BY <1>3 DEF Remain
<1>6. FinalSoon(q') /\ \A u \in Timer : u # t => AsBefore(q, q', u)
  BY <1>1, <1>3, <1>4, <1>5, OneTimer
<1>7. AsBefore(q, q', t)
  <2>1. ~Due(q, t) /\ ~Due(q', t)
    <3>1. ~Due(q, t)
      BY <1>1, DueIs
    <3> QED
      BY <1>3, <3>1 DEF Due
  <2>2. PhaseOf(q, t) = "pending" /\ PhaseOf(q', t) = "pending"
    BY <1>3, <2>1 DEF PhaseOf
  <2> QED
    BY <1>5, <2>2 DEF AsBefore, LeftOf
<1>8. \A u \in Timer : u \in Range(q'.completed) => u \in Range(q.completed)
  BY <1>3 DEF Same
<1>9. \A u \in Timer : AsBefore(q, q', u)
  BY <1>6, <1>7
<1> QED
  BY <1>6, <1>8, <1>9, UnseenExpiry

\* The DFC moves ordered timers ...
LEMMA OrderedToFinalExpiry ==
    ASSUME 4 * MaxLatency =< NumQueues, QIInv, TimeInv, ExpiryInv, OrderedToFinal
    PROVE  ExpiryInv' /\ Refines(q, q')
<1>1. /\ QIInv' /\ Asked' = Asked
      /\ \/ q' = q /\ dfc' = "holding"
         \/ dfc' = dfc /\ \E t \in Timer : ToFinal(q, q', t) /\ q.state[t] = "EOrdered"
  BY OrderedToFinalKeeps
<1>2. CASE q' = q /\ dfc' = "holding"
  BY <1>1, <1>2, SameQueues
<1>3. CASE dfc' = dfc /\ \E t \in Timer : ToFinal(q, q', t) /\ q.state[t] = "EOrdered"
  BY <1>1, <1>3, ToFinalExpiry
<1> QED
  BY <1>1, <1>2, <1>3

\* ... and those of the holding queue, and no user sees it.
LEMMA TakeFromHoldingExpiry ==
    ASSUME 4 * MaxLatency =< NumQueues, QIInv, TimeInv, ExpiryInv, TakeFromHolding
    PROVE  ExpiryInv' /\ Refines(q, q')
<1>1. /\ QIInv' /\ Asked' = Asked
      /\ \/ q' = q /\ dfc' = "completed"
         \/ /\ dfc' = dfc
            /\ \E t \in Timer : ToFinal(q, q', t) /\ q.state[t] = "EHolding"
         \/ /\ dfc' = "walk"
            /\ \E t \in Timer : InTransfer(q, q', t)
  BY TakeFromHoldingKeeps
<1>2. CASE q' = q /\ dfc' = "completed"
  BY <1>1, <1>2, SameQueues
<1>3. CASE dfc' = dfc /\ \E t \in Timer : ToFinal(q, q', t) /\ q.state[t] = "EHolding"
  BY <1>1, <1>3, ToFinalExpiry
<1>4. ASSUME dfc' = "walk", NEW t \in Timer, InTransfer(q, q', t)
      PROVE  ExpiryInv' /\ Refines(q, q')
  <2>1. /\ Same(q, q', t) /\ q.state[t] = "EHolding" /\ q'.state[t] = "ETransferring"
        /\ q'.triggerTime = q.triggerTime /\ q'.msCount = q.msCount
    BY <1>4 DEF InTransfer, Same
  <2>2. Exact(q, {}) /\ Exact(q', {}) /\ FinalSoon(q)
    BY <1>1 DEF QIInv, ExpiryInv
  <2>3. ~Due(q, t) /\ ~Due(q', t)
    BY <2>1, <2>2, DueIs
  <2>4. \A u \in Timer :
           /\ \/ q'.state[u] = q.state[u]
              \/ {q'.state[u], q.state[u]} \subseteq Tracked
           /\ q'.triggerTime[u] = q.triggerTime[u]
           /\ Due(q', u) <=> Due(q, u)
    <3>1. \A u \in Timer : u # t => q'.state[u] = q.state[u] /\ (Due(q', u) <=> Due(q, u))
      BY <2>1 DEF Same, Due
    <3> QED
      BY <2>1, <2>3, <3>1 DEF Tracked
  <2>5. FinalSoon(q') /\ \A u \in Timer : AsBefore(q, q', u)
    BY <2>1, <2>2, <2>4, NoTimer
  <2>6. \A u \in Timer : u \in Range(q'.completed) => u \in Range(q.completed)
    BY <2>1, <2>3 DEF Same, Due
  <2>7. dfc' # "off"
    BY <1>4
  <2> QED
    BY <1>1, <2>5, <2>6, <2>7, UnseenExpiry
<1> QED
  BY <1>1, <1>2, <1>3, <1>4

\* The walk.
LEMMA WalkedExpiry ==
    ASSUME ExpiryInv, Asked' = Asked, dfc' # "off",
           NEW s, Walking(q, s), NEW n, Walked(s, q', dfc', pC, n),
           \A u \in Timer : s.state[u] = q.state[u] \/ {s.state[u], q.state[u]} \subseteq Tracked
    PROVE  ExpiryInv' /\ Refines(q, q')
<1>1. /\ s.triggerTime = q.triggerTime /\ s.msCount = q.msCount
      /\ s.expired = q.expired /\ s.completed = q.completed
  BY DEF Walking
<1>2. /\ q'.triggerTime = s.triggerTime /\ q'.msCount = s.msCount
      /\ q'.expired = s.expired /\ q'.completed = s.completed
  BY DEF Walked
<1>3. \A u \in Timer : q'.state[u] = s.state[u] \/ {q'.state[u], s.state[u]} \subseteq Tracked
  <2>1. CASE dfc' = "holding" /\ q' = s
    BY <2>1
  <2>2. CASE /\ n \in Timer /\ s.state[n] = "EOrdered"
             /\ \A u \in Timer : q'.state[u] = IF u = n THEN "ECritical" ELSE s.state[u]
    BY <2>2 DEF Tracked
  <2>3. CASE /\ s.state[pC] = "ETransferring"
             /\ \A u \in Timer : q'.state[u] = IF u = pC THEN "EOrdered" ELSE s.state[u]
    BY <2>3 DEF Tracked
  <2> QED
    BY <2>1, <2>2, <2>3 DEF Walked
<1>4. \A u \in Timer :
         /\ \/ q'.state[u] = q.state[u]
            \/ {q'.state[u], q.state[u]} \subseteq Tracked
         /\ q'.triggerTime[u] = q.triggerTime[u]
         /\ Due(q', u) <=> Due(q, u)
  <2>1. \A u \in Timer : Due(q', u) <=> Due(q, u)
    BY <1>1, <1>2 DEF Due
  <2>2. \A u \in Timer : \/ q'.state[u] = q.state[u]
                         \/ {q'.state[u], q.state[u]} \subseteq Tracked
    BY <1>3
  <2> QED
    BY <1>1, <1>2, <2>1, <2>2
<1>5. FinalSoon(q') /\ \A u \in Timer : AsBefore(q, q', u)
  BY <1>1, <1>2, <1>4, NoTimer DEF ExpiryInv
<1> QED
  BY <1>1, <1>2, <1>5, UnseenExpiry

\* No user sees the walk start ...
LEMMA WalkFromStartExpiry ==
    ASSUME QIInv, ExpiryInv, WalkFromStart
    PROVE  ExpiryInv' /\ Refines(q, q')
<1>1. /\ Asked' = Asked /\ dfc' \in {"critical", "holding"}
      /\ \E s, n : /\ Walking(q, s) /\ s.state = q.state
                   /\ Walked(s, q', dfc', pC, n)
  BY WalkFromStartKeeps
<1>2. PICK s, n : Walking(q, s) /\ s.state = q.state /\ Walked(s, q', dfc', pC, n)
  BY <1>1
<1>3. dfc' # "off" /\ \A u \in Timer : s.state[u] = q.state[u]
  BY <1>1, <1>2
<1> QED
  BY <1>1, <1>2, <1>3, WalkedExpiry

\* ... nor go on.
LEMMA WalkGoesOnExpiry ==
    ASSUME QIInv, ExpiryInv, WalkGoesOn
    PROVE  ExpiryInv' /\ Refines(q, q')
<1>1. /\ Asked' = Asked /\ dfc' \in {"critical", "holding", "walk"}
      /\ \/ q' = q
         \/ \E s, n : /\ Walking(q, s) /\ s.state = [q.state EXCEPT ![pN] = "EOrdered"]
                      /\ q.state[pN] = "ECritical"
                      /\ Walked(s, q', dfc', pC, n)
  BY WalkGoesOnKeeps
<1>2. dfc' # "off"
  BY <1>1
<1>3. CASE q' = q
  BY <1>1, <1>2, <1>3, SameQueues
<1>4. ASSUME NEW s, NEW n, Walking(q, s), s.state = [q.state EXCEPT ![pN] = "EOrdered"],
             q.state[pN] = "ECritical", Walked(s, q', dfc', pC, n)
      PROVE  ExpiryInv' /\ Refines(q, q')
  <2>1. q.state \in [Timer -> TState]
    BY Fields DEF QIInv, Exact
  <2>2. \A u \in Timer : s.state[u] = IF u = pN THEN "EOrdered" ELSE q.state[u]
    BY <1>4, <2>1
  <2>3. \A u \in Timer : s.state[u] = q.state[u] \/ {s.state[u], q.state[u]} \subseteq Tracked
    BY <1>4, <2>2 DEF Tracked
  <2> QED
    BY <1>1, <1>2, <1>4, <2>3, WalkedExpiry
<1> QED
  BY <1>1, <1>3, <1>4
-----------------------------------------------------------------------------
\* What a tick makes of the timers.
LEMMA TickedExpiry ==
    ASSUME 4 * MaxLatency =< NumQueues, NEW r, NEW s, NEW wanted \in BOOLEAN,
           Exact(r, {}), Ticked(r, s, wanted), FinalSoon(r), InTime(r),
           \A u \in Timer : r.state[u] \in Tracked => Remain(s, u) >= 0,
           \A u \in Timer : r.state[u] \in Tracked => Remain(s, u) = Remain(r, u) - 1
    PROVE  /\ FinalSoon(s) /\ Elapsed(r, s, {})
           /\ \A u \in Timer : u \in Range(s.expired) => u \in Ripe(r)
<1>1. PICK i \in Slot : i = r.msCount % NumQueues
  BY DEF Ticked
<1>2. /\ Exact(s, {}) /\ r \in QState /\ s \in QState /\ r.msCount \in Tick32
      /\ s.msCount = (r.msCount + 1) % Modulus /\ s.expired = r.intQ[i]
      /\ s.state = r.state /\ s.triggerTime = r.triggerTime
      /\ r.expired = <<>> /\ Range(s.completed) = Range(r.completed) \cup Range(r.dfcQ[i])
  BY <1>1, Fields DEF Ticked, Exact
<1>3. \A u \in Timer : Remain(r, u) \in Int /\ r.state[u] \in TState
  <2>1. \A u \in Timer : Remain(r, u) \in (-Half)..(Half - 1) /\ r.state[u] \in TState
    BY <1>2, RemainIs, Fields
  <2> QED
    BY <2>1, Sizes
<1>4. ASSUME NEW u \in Timer
      PROVE  /\ Due(s, u) <=> Due(r, u) \/ u \in Range(r.intQ[i]) \/ u \in Range(r.dfcQ[i])
             /\ u \in Range(r.intQ[i]) \/ u \in Range(r.dfcQ[i]) => ~Due(r, u)
             /\ u \in Range(r.intQ[i]) \/ u \in Range(r.dfcQ[i]) <=>
                    r.state[u] = "EFinal" /\ ~Due(r, u) /\ Remain(r, u) = 0
  <2>1. Due(s, u) <=> Due(r, u) \/ u \in Range(r.intQ[i]) \/ u \in Range(r.dfcQ[i])
    <3>1. u \notin Range(r.expired)
      BY <1>2 DEF Range
    <3> QED
      BY <1>2, <3>1 DEF Due
  <2>2. u \in Range(r.intQ[i]) \/ u \in Range(r.dfcQ[i]) <=>
            r.state[u] = "EFinal" /\ ~Due(r, u) /\ SlotOf(r, u) = i
    BY DueIs
  <2>3. r.state[u] = "EFinal" /\ ~Due(r, u) => (SlotOf(r, u) = i <=> Remain(r, u) = 0)
    <3> SUFFICES ASSUME r.state[u] = "EFinal", ~Due(r, u)
                 PROVE  SlotOf(r, u) = i <=> Remain(r, u) = 0
      OBVIOUS
    <3>1. Remain(r, u) \in 0..(NumQueues - 1)
      BY DEF FinalSoon
    <3> QED
      BY <1>1, <1>2, <3>1, SlotReached
  <2> QED
    BY <2>1, <2>2, <2>3
<1>5. ASSUME NEW u \in Timer
      PROVE  u \in Ripe(r) <=> u \in Range(r.intQ[i]) \/ u \in Range(r.dfcQ[i])
  <2>1. r.state[u] \in Tracked => Remain(r, u) # 0
    BY <1>3
  <2>2. r.state[u] \in TState
    BY <1>3
  <2>3. u \in Ripe(r) <=> r.state[u] # "EIdle" /\ ~Due(r, u) /\ Remain(r, u) = 0
    BY DEF Ripe, PhaseOf, LeftOf
  <2>4. r.state[u] # "EIdle" /\ r.state[u] \notin Tracked => r.state[u] = "EFinal"
    BY <2>2 DEF TState, Tracked
  <2> QED
    BY <1>4, <2>1, <2>3, <2>4
<1>6. ASSUME NEW u \in Timer, r.state[u] = "EFinal", ~Due(r, u), Remain(r, u) # 0
      PROVE  Remain(s, u) = Remain(r, u) - 1 /\ Remain(s, u) \in 0..(NumQueues - 1)
  <2>1. Remain(r, u) \in 0..(NumQueues - 1) /\ NumQueues \in Int
    BY <1>6, TimerAssumption DEF FinalSoon
  <2>2. 1 \in 0..(Modulus - 1) /\ Half \in Nat
    BY Sizes
  <2>3. Remain(r, u) - 1 >= -Half /\ s.triggerTime[u] = r.triggerTime[u]
    <3>1. Remain(r, u) \in Int /\ Remain(r, u) >= 0 /\ Half >= 1 /\ Half \in Int
      BY <2>1, Sizes
    <3>2. s.triggerTime[u] = r.triggerTime[u]
      BY <1>2
    <3> QED
      BY <3>1, <3>2
  <2>4. Remain(s, u) = Remain(r, u) - 1
    BY <1>2, <2>2, <2>3, RemainLater
  <2> QED
    BY <1>6, <2>1, <2>4
<1>7. FinalSoon(s)
  <2> SUFFICES ASSUME NEW u \in Timer, s.state[u] = "EFinal", ~Due(s, u)
               PROVE  Remain(s, u) \in 0..(NumQueues - 1)
    BY DEF FinalSoon
  <2>1. r.state[u] = "EFinal" /\ ~Due(r, u) /\ Remain(r, u) # 0
    BY <1>2, <1>4
  <2> QED
    BY <1>6, <2>1
<1>8. ASSUME NEW u \in Timer
      PROVE  /\ PhaseOf(s, u) = IF u \in Ripe(r) THEN "due" ELSE PhaseOf(r, u)
             /\ LeftOf(s, u) = IF PhaseOf(r, u) = "pending" /\ LeftOf(r, u) > 0
                               THEN LeftOf(r, u) - 1 ELSE LeftOf(r, u)
  <2>1. PhaseOf(s, u) = IF u \in Ripe(r) THEN "due" ELSE PhaseOf(r, u)
    <3>1. s.state[u] = r.state[u]
      BY <1>2
    <3>2. u \in Ripe(r) => r.state[u] # "EIdle" /\ Due(s, u)
      BY <1>4, <1>5
    <3>3. u \notin Ripe(r) => (Due(s, u) <=> Due(r, u))
      BY <1>4, <1>5
    <3> QED
      BY <3>1, <3>2, <3>3 DEF PhaseOf
  <2>2. CASE PhaseOf(r, u) # "pending"
    <3>1. u \notin Ripe(r)
      BY <2>2 DEF Ripe
    <3> QED
      BY <2>1, <2>2, <3>1 DEF LeftOf
  <2>3. CASE u \in Ripe(r)
    <3>1. LeftOf(r, u) = 0 /\ LeftOf(s, u) = 0
      BY <2>1, <2>3 DEF Ripe, LeftOf
    <3> QED
      BY <2>1, <2>3, <3>1
  <2>4. CASE PhaseOf(r, u) = "pending" /\ u \notin Ripe(r)
    <3>1. LeftOf(r, u) = Remain(r, u) /\ Remain(r, u) # 0 /\ Remain(r, u) >= 0
      BY <2>4 DEF LeftOf, Ripe, InTime
    <3>2. LeftOf(s, u) = Remain(s, u)
      BY <2>1, <2>4 DEF LeftOf
    <3>3. r.state[u] # "EIdle" /\ ~Due(r, u)
      BY <2>4 DEF PhaseOf
    <3>4. Remain(s, u) = Remain(r, u) - 1
      <4>1. r.state[u] \in Tracked \/ r.state[u] = "EFinal"
        BY <1>3, <3>3 DEF TState, Tracked
      <4> QED
        BY <1>6, <3>1, <3>3, <4>1
    <3>5. Remain(r, u) > 0
      BY <1>3, <3>1
    <3> QED
      BY <2>1, <2>4, <3>1, <3>2, <3>4, <3>5
  <2> QED
    BY <2>2, <2>3, <2>4
<1>9. Elapsed(r, s, {})
  BY <1>8 DEF Elapsed
<1> QED
  BY <1>2, <1>5, <1>7, <1>9

\* NTimerQ::Tick is a tick for every timer, and the timers it takes are due.
LEMMA TickExpiry ==
    ASSUME 4 * MaxLatency =< NumQueues, MaxLatency =< NumQueues,
           QIInv, TimeInv, ExpiryInv, Tick
    PROVE  ExpiryInv' /\ Refines(q, q')
<1>1. /\ QIInv' /\ isr = "off" /\ waiting < MaxLatency /\ running < MaxLatency
      /\ dfc' = dfc
      /\ \E r \in QState, wanted \in BOOLEAN :
            /\ Ticked(q, r, wanted)
            /\ q' = r \/ \E t \in Timer : CalledBack(r, q', t) /\ t \in Range(r.expired)
            /\ Asked' = IF wanted THEN QueueDfc(Older(waiting)) ELSE Older(waiting)
  BY TickKeeps
<1>2. PICK r \in QState, wanted \in BOOLEAN :
          /\ Ticked(q, r, wanted)
          /\ q' = r \/ \E t \in Timer : CalledBack(r, q', t) /\ t \in Range(r.expired)
          /\ Asked' = IF wanted THEN QueueDfc(Older(waiting)) ELSE Older(waiting)
  BY <1>1
<1>3. /\ Exact(q, {}) /\ Exact(r, {}) /\ Exact(q', {}) /\ q \in QState
      /\ Pointers(q, dfc, pC, pN) /\ FinalSoon(q)
      /\ r.state = q.state /\ r.triggerTime = q.triggerTime /\ r.ordered = q.ordered
      /\ r.msCount = (q.msCount + 1) % Modulus
  BY <1>1, <1>2 DEF QIInv, Ticked, ExpiryInv, Exact
<1>4. /\ waiting \in -1..(MaxLatency - 1) /\ running \in -1..(MaxLatency - 1)
      /\ waiting \in -1..MaxLatency /\ running \in -1..MaxLatency
  <2>1. waiting \in -1..MaxLatency /\ running \in -1..MaxLatency /\ MaxLatency \in Nat
    BY TimerAssumption DEF QIInv
  <2> QED
    BY <1>1, <2>1
<1>5. /\ running >= 0 <=> dfc \in {"ordered", "holding", "walk", "critical"}
      /\ Bounds(q, waiting, running, dfc) /\ SortedBy(q.ordered, Left(q))
  BY <1>1 DEF TimeInv, Asked
<1>6. \A u \in Timer : q.state[u] = "ETransferring" => running >= 0
  BY <1>3, <1>5 DEF Pointers
<1>7. dfc = "ordered" => running >= 0
  BY <1>5
<1>8. InTime(q)
  BY <1>3, <1>4, <1>5, <1>7, IsInTime
<1>9. \A u \in Timer : q.state[u] \in Tracked => Remain(r, u) = Remain(q, u) - 1
  <2>1. \A u \in Timer : q.state[u] \in Tracked => Remain(q, u) - 1 >= -Half
    BY <1>3, <1>4, <1>5, OneLess
  <2>2. 1 \in 0..(Modulus - 1)
    BY Sizes
  <2> QED
    BY <1>3, <1>5, <2>1, <2>2, LaterTime
<1>10. \A u \in Timer : q.state[u] \in Tracked => Remain(r, u) >= 0
  <2>1. Bounds(r, AfterTick(waiting, wanted), Older(running), dfc)
    BY <1>2, <1>3, <1>4, <1>5, <1>6, <1>7, TickedTime
  <2>2. /\ AfterTick(waiting, wanted) \in -1..MaxLatency /\ Older(running) \in -1..MaxLatency
        /\ dfc = "ordered" => Older(running) >= 0
    BY <1>4, <1>7, AfterTickIs
  <2> QED
    BY <1>3, <2>1, <2>2, NotLate
<1>11. /\ FinalSoon(r) /\ Elapsed(q, r, {})
       /\ \A u \in Timer : u \in Range(r.expired) => u \in Ripe(q)
  BY <1>2, <1>3, <1>8, <1>9, <1>10, TickedExpiry
<1>12. ASSUME NEW u \in Timer, u \in Range(r.completed) PROVE Asked' >= 0 \/ dfc' # "off"
  <2>1. PICK i : i = q.msCount % NumQueues
    OBVIOUS
  <2>2. u \in Range(q.completed) \/ u \in Range(q.dfcQ[i])
    BY <1>2, <1>12, <2>1 DEF Ticked
  <2>3. CASE u \in Range(q.dfcQ[i])
    <3>1. q.dfcQ[i] # <<>>
      BY <2>3 DEF Range
    <3>2. wanted
      BY <1>2, <2>1, <3>1 DEF Ticked
    <3>3. Asked' = AfterTick(waiting, wanted)
      BY <1>2 DEF AfterTick
    <3>4. /\ waiting >= 0 => AfterTick(waiting, wanted) = waiting + 1
          /\ waiting = -1 => AfterTick(waiting, wanted) = (IF wanted THEN 0 ELSE -1)
      BY <1>4, AfterTickIs
    <3>5. CASE waiting >= 0
      BY <1>4, <3>3, <3>4, <3>5
    <3>6. CASE waiting = -1
      <4>1. AfterTick(waiting, wanted) = 0
        BY <3>2, <3>4, <3>6, Zenon
      <4> QED
        BY <3>3, <4>1
    <3> QED
      BY <1>4, <3>5, <3>6
  <2>4. CASE u \in Range(q.completed) /\ waiting >= 0
    <3>1. Asked' = AfterTick(waiting, wanted)
      BY <1>2 DEF AfterTick
    <3>2. AfterTick(waiting, wanted) = waiting + 1
      BY <1>4, <2>4, AfterTickIs
    <3> QED
      BY <1>4, <2>4, <3>1, <3>2
  <2>5. CASE u \in Range(q.completed) /\ ~(waiting >= 0)
    <3>1. Asked = waiting
      BY <1>1 DEF Asked
    <3> QED
      BY <1>1, <2>5, <3>1 DEF ExpiryInv
  <2> QED
    BY <2>2, <2>3, <2>4, <2>5
<1>13. CASE q' = r
  <2>1. {} \in SUBSET Ripe(q) /\ Elapsed(q, q', {})
    BY <1>11, <1>13
  <2>2. Refines(q, q')
    BY <2>1 DEF Refines
  <2> QED
    BY <1>11, <1>12, <1>13, <2>2 DEF ExpiryInv
<1>14. ASSUME NEW t \in Timer, CalledBack(r, q', t), t \in Range(r.expired)
       PROVE  ExpiryInv' /\ Refines(q, q')
  <2>1. Same(r, q', t) /\ q'.state[t] = "EIdle"
    BY <1>14 DEF CalledBack
  <2>2. FinalSoon(q') /\ \A u \in Timer : u # t => AsBefore(r, q', u)
    BY <1>11, <2>1, OneTimer
  <2>3. t \in Ripe(q)
    BY <1>11, <1>14
  <2>4. PhaseOf(q', t) = "off" /\ LeftOf(q', t) = 0
    BY <2>1 DEF PhaseOf, LeftOf
  <2>5. PhaseOf(q, t) = "pending" /\ LeftOf(q, t) = 0
    BY <2>3 DEF Ripe
  <2>6. ASSUME NEW u \in Timer
        PROVE  /\ PhaseOf(q', u) = IF u \in {t} THEN "off" ELSE IF u \in Ripe(q) THEN "due"
                                   ELSE PhaseOf(q, u)
               /\ LeftOf(q', u) = IF PhaseOf(q, u) = "pending" /\ LeftOf(q, u) > 0
                                  THEN LeftOf(q, u) - 1 ELSE LeftOf(q, u)
    <3>1. CASE u = t
      BY <2>4, <2>5, <3>1
    <3>2. CASE u # t
      <4>1. PhaseOf(q', u) = PhaseOf(r, u) /\ LeftOf(q', u) = LeftOf(r, u)
        BY <2>2, <3>2 DEF AsBefore
      <4>2. /\ PhaseOf(r, u) = IF u \in Ripe(q) THEN "due" ELSE PhaseOf(q, u)
            /\ LeftOf(r, u) = IF PhaseOf(q, u) = "pending" /\ LeftOf(q, u) > 0
                              THEN LeftOf(q, u) - 1 ELSE LeftOf(q, u)
        BY <1>11 DEF Elapsed
      <4> QED
        BY <3>2, <4>1, <4>2
    <3> QED
      BY <3>1, <3>2
  <2>7. Elapsed(q, q', {t})
    BY <2>6 DEF Elapsed
  <2>8. Refines(q, q')
    <3>1. {t} \in SUBSET Ripe(q)
      BY <2>3
    <3> QED
      BY <2>7, <3>1 DEF Refines
  <2>9. ASSUME NEW u \in Timer, u \in Range(q'.completed) PROVE Asked' >= 0 \/ dfc' # "off"
    <3>1. ~Due(q', t)
      BY <1>3, <2>1, DueIs
    <3>2. u # t
      BY <2>9, <3>1 DEF Due
    <3>3. u \in Range(r.completed)
      BY <2>1, <2>9, <3>2 DEF Same
    <3> QED
      BY <1>12, <3>3
  <2> QED
    BY <2>2, <2>8, <2>9 DEF ExpiryInv
<1> QED
  BY <1>2, <1>13, <1>14
-----------------------------------------------------------------------------
\* IdleTime does not look past a tick whose final queues hold a timer.
LEMMA PresentFirst ==
    ASSUME q \in QState, NEW u \in Timer, Remain(q, u) \in 0..(NumQueues - 1),
           SlotOf(q, u) \in q.present
    PROVE  NextPresent \in Slot /\ NextPresent =< Remain(q, u)
<1> DEFINE At(j) == (q.msCount + j) % NumQueues
           P == {j \in Slot : At(j) \in q.present}
           R == OpToRel(<, Nat)
<1>1. Remain(q, u) \in P
  <2>1. At(Remain(q, u)) = SlotOf(q, u)
    BY SlotReached
  <2> QED
    BY <2>1 DEF Slot
<1>2. P \subseteq Nat /\ P # {}
  BY <1>1, Constants
<1>3. PICK x \in P : \A y \in P : ~(<<y, x>> \in R)
  BY <1>2, NatLessThanWellFounded, WFMin
<1>4. \A y \in P : ~(y < x)
  BY <1>2, <1>3 DEF OpToRel
<1>5. NumQueues \in Nat \ {0} /\ x \in Slot /\ Slot = 0..(NumQueues - 1)
  BY TimerAssumption DEF Slot
<1>6. \A i \in 0..(x - 1) : At(i) \notin q.present
  <2> SUFFICES ASSUME NEW i \in 0..(x - 1), At(i) \in q.present PROVE FALSE
    OBVIOUS
  <2>1. i \in Slot /\ i < x
    BY <1>5
  <2> QED
    BY <1>4, <2>1
<1>7. At(x) \in q.present
  OBVIOUS
<1> HIDE DEF At
<1>8. /\ NextPresent \in Slot /\ At(NextPresent) \in q.present
      /\ \A i \in 0..(NextPresent - 1) : At(i) \notin q.present
  <2>1. NextPresent = CHOOSE j \in Slot : /\ At(j) \in q.present
                                         /\ \A i \in 0..(j - 1) : At(i) \notin q.present
    BY DEF NextPresent, At
  <2> QED
    BY <1>5, <1>6, <1>7, <2>1
<1>9. ASSUME ~(NextPresent =< Remain(q, u)) PROVE FALSE
  <2>1. Remain(q, u) \in 0..(NextPresent - 1)
    BY <1>5, <1>8, <1>9
  <2>2. At(Remain(q, u)) \in q.present
    BY <1>1
  <2> QED
    BY <1>8, <2>1, <2>2
<1> QED
  BY <1>8, <1>9

\* The system does not sleep past an expiry.
LEMMA SleepsShort ==
    ASSUME 4 * MaxLatency =< NumQueues, MaxLatency =< NumQueues,
           QIInv, TimeInv, ExpiryInv, NEW n \in Nat \ {0}, isr = "off", dfc = "off",
           waiting = -1, IdleAtLeast(n), NEW u \in Timer, q.state[u] # "EIdle"
    PROVE  ~Due(q, u) /\ Remain(q, u) >= n
<1>1. /\ Exact(q, {}) /\ q \in QState /\ Pointers(q, dfc, pC, pN) /\ q.expired = <<>>
      /\ q.state[u] \in TState /\ Place(q, u) /\ FinalSoon(q) /\ q.msCount \in Tick32
      /\ running \in -1..MaxLatency
  <2>1. Exact(q, {}) /\ Pointers(q, dfc, pC, pN) /\ q.expired = <<>> /\ FinalSoon(q)
        /\ running \in -1..MaxLatency
    BY DEF QIInv, ExpiryInv
  <2>2. q \in QState /\ Place(q, u)
    BY <2>1 DEF Exact
  <2> QED
    BY <2>1, <2>2, Fields
<1>2. Asked = -1
  BY DEF Asked
<1>3. running = -1 /\ Bounds(q, -1, -1, "off") /\ SortedBy(q.ordered, Left(q))
  BY <1>1, <1>2 DEF TimeInv
<1>4. ~Due(q, u)
  <2>1. u \notin Range(q.completed)
    BY <1>2 DEF ExpiryInv
  <2> QED
    BY <1>1, <2>1 DEF Due, Range
<1>5. PICK v \in Int, s \in Nat : v = Remain(q, u) /\ s = Span
  <2>1. Remain(q, u) \in (-Half)..(Half - 1)
    BY <1>1, RemainIs
  <2> QED
    BY <2>1, Sizes
<1>6. ASSUME NEW k \in 0..(Modulus - 1), k = n PROVE ToCheck((q.msCount + n) % Modulus) \in Nat
  <2>1. q.msCount + n \in Int
    <3>1. q.msCount \in Int
      <4>1. Tick32 \subseteq Int
        BY Constants
      <4> QED
        BY <1>1, <4>1
    <3> QED
      BY <3>1
  <2>2. (q.msCount + n) % Modulus \in Tick32
    BY <2>1, Constants
  <2>3. ToCheck((q.msCount + n) % Modulus) \in 0..(Span - 1)
    BY <2>2, ToCheckIs
  <2> QED
    BY <2>3
<1>7. CASE q.state[u] = "EHolding"
  <2>1. q.holding # <<>>
    BY <1>1, <1>7 DEF Place, Range
  <2>2. n =< NextCheck
    BY <2>1 DEF IdleAtLeast
  <2>3. /\ n \in 0..(Modulus - 1)
        /\ Remain(q, u) - n >= Span + 1 + ToCheck((q.msCount + n) % Modulus)
    BY <1>1, <1>3, <1>7, <2>2, SleepHolding
  <2>4. PICK k \in Nat : k = ToCheck((q.msCount + n) % Modulus)
    BY <1>6, <2>3
  <2> QED
    BY <1>4, <1>5, <2>3, <2>4
<1>8. CASE q.state[u] \in {"EOrdered", "ECritical"}
  <2>1. q.ordered # <<>>
    BY <1>1, <1>8 DEF Place, Range
  <2>2. n =< NextTransfer
    BY <2>1 DEF IdleAtLeast
  <2>3. /\ n \in 0..(Modulus - 1)
        /\ Remain(q, u) - n >= Span + ToCheck((q.msCount + n) % Modulus)
    BY <1>1, <1>3, <1>8, <2>1, <2>2, SleepOrdered
  <2>4. PICK k \in Nat : k = ToCheck((q.msCount + n) % Modulus)
    BY <1>6, <2>3
  <2> QED
    BY <1>4, <1>5, <2>3, <2>4
<1>9. CASE q.state[u] = "EFinal"
  <2>1. PICK i \in Slot : i = SlotOf(q, u)
    BY <1>1, SlotType
  <2>2. u \in Range(q.intQ[i]) \/ u \in Range(q.dfcQ[i])
    BY <1>1, <1>4, <1>9, <2>1, DueIs
  <2>3. q.intQ[i] # <<>> \/ q.dfcQ[i] # <<>>
    BY <2>2 DEF Range
  <2>4. i \in q.present
    BY <1>1, <2>3 DEF Exact, PresentOK
  <2>5. Remain(q, u) \in 0..(NumQueues - 1)
    BY <1>1, <1>4, <1>9 DEF FinalSoon
  <2>6. NextPresent \in Slot /\ NextPresent =< Remain(q, u)
    BY <1>1, <2>1, <2>4, <2>5, PresentFirst
  <2>7. n =< NextPresent
    BY <2>4 DEF IdleAtLeast
  <2>8. NextPresent \in Nat
    BY <2>6, Constants
  <2> QED
    BY <1>4, <1>5, <2>6, <2>7, <2>8
<1>10. q.state[u] # "ETransferring"
  BY <1>1 DEF Pointers
<1> QED
  BY <1>1, <1>7, <1>8, <1>9, <1>10 DEF TState

\* NTimerQ::Advance lets no timer miss its tick.
LEMMA AdvanceExpiry ==
    ASSUME 4 * MaxLatency =< NumQueues, MaxLatency =< NumQueues,
           QIInv, TimeInv, ExpiryInv, NEW n \in 1..MaxSleep, Advance(n)
    PROVE  ExpiryInv' /\ Refines(q, q')
<1>1. /\ isr = "off" /\ dfc = "off" /\ waiting = -1 /\ IdleAtLeast(n)
      /\ q' = [q EXCEPT !.msCount = (@ + n) % Modulus]
      /\ isr' = isr /\ doDfc' = doDfc /\ dfc' = dfc /\ waiting' = waiting
  BY DEF Advance
<1>2. /\ Exact(q, {}) /\ Exact(q', {}) /\ q \in QState /\ q' \in QState /\ n \in Nat \ {0}
      /\ FinalSoon(q)
  <2>1. MaxSleep \in Nat
    BY TimerAssumption
  <2> QED
    BY <2>1, AdvanceKeeps DEF QIInv, Exact, ExpiryInv
<1>3. /\ q'.msCount = (q.msCount + n) % Modulus /\ q'.state = q.state
      /\ q'.triggerTime = q.triggerTime
      /\ q'.expired = q.expired /\ q'.completed = q.completed
  BY <1>1, <1>2 DEF QState
<1>4. ASSUME NEW u \in Timer, q.state[u] # "EIdle"
      PROVE  ~Due(q, u) /\ Remain(q, u) >= n
  BY <1>1, <1>2, <1>4, SleepsShort
<1>5. \A u \in Timer : /\ Due(q', u) <=> Due(q, u)
                       /\ PhaseOf(q', u) = PhaseOf(q, u)
                       /\ PhaseOf(q, u) = IF q.state[u] = "EIdle" THEN "off" ELSE "pending"
  BY <1>3, <1>4 DEF Due, PhaseOf
<1>6. ASSUME NEW u \in Timer, q.state[u] # "EIdle"
      PROVE  /\ Remain(q', u) = Remain(q, u) - n /\ Remain(q, u) \in 0..(Half - 1)
             /\ Remain(q', u) \in Int /\ n \in (0..(Half - 1)) \ {0}
  <2>1. Remain(q, u) \in (-Half)..(Half - 1) /\ Remain(q, u) >= n
    BY <1>2, <1>4, <1>6, RemainIs
  <2>2. Half \in Nat \ {0} /\ Modulus = 2 * Half
    BY Sizes
  <2>3. PICK v \in Int, h \in Nat : v = Remain(q, u) /\ h = Half /\ v =< h - 1 /\ v >= n
    BY <2>1, <2>2
  <2>4. n \in (0..(h - 1)) \ {0} /\ v \in 0..(h - 1) /\ v - n >= -h
    BY <1>2, <2>3
  <2>5. n \in 0..(Modulus - 1)
    BY <2>2, <2>3, <2>4
  <2>6. Remain(q', u) = v - n
    BY <1>2, <1>3, <2>3, <2>4, <2>5, RemainLater
  <2> QED
    BY <2>3, <2>4, <2>6
<1>7. FinalSoon(q')
  <2> SUFFICES ASSUME NEW u \in Timer, q'.state[u] = "EFinal", ~Due(q', u)
               PROVE  Remain(q', u) \in 0..(NumQueues - 1)
    BY DEF FinalSoon
  <2>1. Remain(q, u) \in 0..(NumQueues - 1)
    BY <1>2, <1>3, <1>5 DEF FinalSoon
  <2>2. Remain(q', u) = Remain(q, u) - n /\ Remain(q, u) >= n
    BY <1>3, <1>4, <1>6
  <2> QED
    BY <1>2, <2>1, <2>2, TimerAssumption
<1>8. Refines(q, q')
  <2>1. CASE \A u \in Timer : q.state[u] = "EIdle"
    <3>1. \A u \in Timer : AsBefore(q, q', u)
      BY <1>5, <2>1 DEF AsBefore, LeftOf
    <3> QED
      BY <3>1 DEF Refines
  <2>2. CASE \E u \in Timer : q.state[u] # "EIdle"
    <3>1. n \in (0..(Half - 1)) \ {0}
      BY <1>6, <2>2
    <3>2. Slept(q, q', n)
      <4> SUFFICES ASSUME NEW u \in Timer
                   PROVE  /\ PhaseOf(q, u) # "off" =>
                                PhaseOf(q, u) = "pending" /\ LeftOf(q, u) >= n
                          /\ PhaseOf(q', u) = PhaseOf(q, u)
                          /\ LeftOf(q', u) = IF PhaseOf(q, u) = "pending"
                                             THEN LeftOf(q, u) - n ELSE LeftOf(q, u)
        BY DEF Slept
      <4>1. CASE q.state[u] = "EIdle"
        BY <1>5, <4>1 DEF LeftOf
      <4>2. CASE q.state[u] # "EIdle"
        <5>1. PhaseOf(q, u) = "pending" /\ PhaseOf(q', u) = "pending"
          BY <1>5, <4>2
        <5>2. LeftOf(q, u) = Remain(q, u) /\ LeftOf(q', u) = Remain(q', u)
          BY <5>1 DEF LeftOf
        <5> QED
          BY <1>4, <1>6, <4>2, <5>1, <5>2
      <4> QED
        BY <4>1, <4>2
    <3> QED
      BY <3>1, <3>2 DEF Refines
  <2> QED
    BY <2>1, <2>2
<1>9. Asked' = Asked
  BY <1>1 DEF Asked
<1>10. \A u \in Timer : u \in Range(q'.completed) => Asked' >= 0 \/ dfc' # "off"
  BY <1>1, <1>3, <1>9, StillAsked
<1> QED
  BY <1>7, <1>8, <1>10 DEF ExpiryInv

\* The refinement mapping.
PhaseMap == [t \in Timer |-> IF q.state[t] = "EIdle" THEN "off"
                             ELSE IF Expired(t) THEN "due" ELSE "pending"]
\* Its second part.
LeftMap == [t \in Timer |-> IF q.state[t] = "EIdle" \/ Expired(t) THEN 0
                            ELSE Minus(q.triggerTime[t], q.msCount)]

\* What the refinement mapping makes of a timer.
LEMMA MapOf ==
    ASSUME NEW r, Exact(r, {}), InTime(r), NEW t \in Timer
    PROVE  /\ (IF r.state[t] = "EIdle" THEN "off"
               ELSE IF t \in Range(r.expired \o r.completed) THEN "due" ELSE "pending")
              = PhaseOf(r, t)
           /\ (IF r.state[t] = "EIdle" \/ t \in Range(r.expired \o r.completed) THEN 0
               ELSE Minus(r.triggerTime[t], r.msCount))
              = LeftOf(r, t)
<1>1. r \in QState /\ r.expired \in Seq(Timer) /\ r.completed \in Seq(Timer)
  BY Fields DEF Exact
<1>2. t \in Range(r.expired \o r.completed) <=> Due(r, t)
  <2>1. Range(r.expired \o r.completed) = Range(r.expired) \cup Range(r.completed)
    BY <1>1, RangeConcatenation
  <2> QED
    BY <2>1 DEF Due
<1>3. CASE r.state[t] = "EIdle" \/ Due(r, t)
  <2>1. PhaseOf(r, t) # "pending"
    BY <1>3 DEF PhaseOf
  <2> QED
    BY <1>2, <1>3, <2>1 DEF LeftOf, PhaseOf
<1>4. CASE ~(r.state[t] = "EIdle" \/ Due(r, t))
  <2>1. PhaseOf(r, t) = "pending"
    BY <1>4 DEF PhaseOf
  <2>2. Remain(r, t) >= 0
    BY <2>1 DEF InTime
  <2>3. Minus(r.triggerTime[t], r.msCount) = Remain(r, t)
    BY <1>1, <2>2, LeftIs
  <2>4. LeftOf(r, t) = Remain(r, t)
    BY <2>1 DEF LeftOf
  <2> QED
    BY <1>2, <1>4, <2>1, <2>3, <2>4
<1> QED
  BY <1>3, <1>4

\* What a user sees is a step of Timers.
LEMMA MappedStep ==
    ASSUME NEW p, NEW l, NEW p1, NEW l1,
           p = [t \in Timer |-> PhaseOf(q, t)], l = [t \in Timer |-> LeftOf(q, t)],
           p1 = [t \in Timer |-> PhaseOf(q', t)], l1 = [t \in Timer |-> LeftOf(q', t)],
           PhaseMap = p, LeftMap = l, PhaseMap' = p1, LeftMap' = l1, Refines(q, q')
    PROVE  [T!TNext]_(T!tvars)
<1>1. \A t \in Timer : p[t] = PhaseOf(q, t) /\ l[t] = LeftOf(q, t)
                       /\ p1[t] = PhaseOf(q', t) /\ l1[t] = LeftOf(q', t)
  OBVIOUS
<1>2. /\ p = [t \in Timer |-> p[t]] /\ l = [t \in Timer |-> l[t]]
      /\ p1 = [t \in Timer |-> p1[t]] /\ l1 = [t \in Timer |-> l1[t]]
  OBVIOUS
<1>3. CASE \A t \in Timer : AsBefore(q, q', t)
  <2>1. p1 = p /\ l1 = l
    BY <1>3 DEF AsBefore
  <2>2. UNCHANGED T!tvars
    BY <2>1 DEF T!tvars, PhaseMap, LeftMap
  <2> QED
    BY <2>2
<1>4. ASSUME NEW t \in Timer, Begun(q, q', t), \A u \in Timer : u # t => AsBefore(q, q', u)
      PROVE  T!TNext
  <2>1. p1 = [p EXCEPT ![t] = "pending"] /\ l1 = [l EXCEPT ![t] = LeftOf(q', t)]
    BY <1>1, <1>4 DEF Begun, AsBefore
  <2>2. p[t] = "off"
    BY <1>4 DEF Begun
  <2>3. PICK n \in 0..(Half - 1) : n = LeftOf(q', t)
    BY <1>4 DEF Begun
  <2>4. T!Begin(t, n)
    BY <2>1, <2>2, <2>3 DEF T!Begin, PhaseMap, LeftMap
  <2>5. \E u \in Timer : \E m \in 0..(Half - 1) : T!Begin(u, m)
    BY <2>4, Zenon
  <2> QED
    BY <2>5, Zenon DEF T!TNext
<1>5. ASSUME NEW t \in Timer, Ended(q, q', t), \A u \in Timer : u # t => AsBefore(q, q', u)
      PROVE  T!TNext
  <2>1. p1 = [p EXCEPT ![t] = "off"] /\ l1 = [l EXCEPT ![t] = 0]
    <3>1. LeftOf(q', t) = 0
      BY <1>5 DEF Ended, LeftOf
    <3> QED
      BY <1>1, <1>5, <3>1 DEF Ended, AsBefore
  <2>2. p[t] # "off"
    BY <1>5 DEF Ended
  <2>3. T!Off(t)
    BY <2>1 DEF T!Off, PhaseMap, LeftMap
  <2>4. T!Stop(t)
    BY <2>2, <2>3 DEF T!Stop, PhaseMap
  <2> QED
    BY <2>4, Zenon DEF T!TNext
<1>6. ASSUME NEW called \in SUBSET Ripe(q), Elapsed(q, q', called)
      PROVE  T!TNext
  <2>1. T!Expiring = {t \in Timer : p[t] = "pending" /\ l[t] = 0}
    BY DEF T!Expiring, PhaseMap, LeftMap
  <2>2. T!Expiring = Ripe(q)
    BY <1>1, <2>1 DEF Ripe
  <2>3. PICK x : x = T!Expiring
    OBVIOUS
  <2>4. p1 = [t \in Timer |-> IF t \in called THEN "off" ELSE IF t \in x THEN "due" ELSE p[t]]
    BY <1>1, <1>2, <1>6, <2>2, <2>3 DEF Elapsed
  <2>5. l1 = [t \in Timer |-> IF p[t] = "pending" /\ l[t] > 0 THEN l[t] - 1 ELSE l[t]]
    BY <1>1, <1>2, <1>6 DEF Elapsed
  <2>6. T!Elapse
    <3>1. called \in SUBSET T!Expiring
      BY <2>2
    <3> QED
      BY <2>3, <2>4, <2>5, <3>1 DEF T!Elapse, PhaseMap, LeftMap
  <2> QED
    BY <2>6, Zenon DEF T!TNext
<1>7. ASSUME NEW n \in (0..(Half - 1)) \ {0}, Slept(q, q', n)
      PROVE  T!TNext
  <2>1. \A t \in Timer : p[t] # "off" => p[t] = "pending" /\ l[t] >= n
    BY <1>1, <1>7 DEF Slept
  <2>2. p1 = p
    BY <1>1, <1>7 DEF Slept
  <2>3. l1 = [t \in Timer |-> IF p[t] = "pending" THEN l[t] - n ELSE l[t]]
    BY <1>1, <1>2, <1>7 DEF Slept
  <2>4. T!Sleep(n)
    BY <2>1, <2>2, <2>3 DEF T!Sleep, PhaseMap, LeftMap
  <2>5. \E m \in (0..(Half - 1)) \ {0} : T!Sleep(m)
    BY <2>4, Zenon
  <2> QED
    BY <2>5, Zenon DEF T!TNext
<1> QED
  BY <1>3, <1>4, <1>5, <1>6, <1>7 DEF Refines

\* At first no timer is started.
LEMMA InitExpiry == Init => ExpiryInv /\ T!TInit
<1> SUFFICES ASSUME Init PROVE ExpiryInv /\ T!TInit
  OBVIOUS
<1>1. /\ q.state = [t \in Timer |-> "EIdle"] /\ q.completed = <<>> /\ q.expired = <<>>
  BY DEF Init
<1>2. \A t \in Timer : q.state[t] = "EIdle"
  BY <1>1
<1>3. \A t \in Timer : t \notin Range(q.completed)
  BY <1>1 DEF Range
<1>4. ExpiryInv
  BY <1>2, <1>3 DEF ExpiryInv, FinalSoon
<1>5. PhaseMap = [t \in Timer |-> "off"] /\ LeftMap = [t \in Timer |-> 0]
  BY <1>2 DEF PhaseMap, LeftMap
<1> QED
  BY <1>4, <1>5 DEF T!TInit, PhaseMap, LeftMap

\* Every step is one of a user of timers, or none.
LEMMA NextExpiry ==
    ASSUME 4 * MaxLatency =< NumQueues, MaxLatency =< NumQueues
    PROVE  QIInv /\ TimeInv /\ ExpiryInv /\ [Next]_vars => ExpiryInv' /\ Refines(q, q')
<1> SUFFICES ASSUME QIInv, TimeInv, ExpiryInv, [Next]_vars PROVE ExpiryInv' /\ Refines(q, q')
  OBVIOUS
<1>1. CASE Call
  <2>1. ASSUME NEW t \in Timer, NEW n \in Delay, NEW inDfc \in InDfc, OneShot(t, n, inDfc)
        PROVE  ExpiryInv' /\ Refines(q, q')
    <3>1. UNCHANGED <<isr, doDfc, dfc, pC, pN, waiting, running>>
      BY <2>1 DEF OneShot
    <3> QED
      BY <2>1, <3>1, OneShotKeeps, StartedExpiry
  <2>2. ASSUME NEW t \in Periodic, NEW n \in Delay, Again(t, n)
        PROVE  ExpiryInv' /\ Refines(q, q')
    <3>1. UNCHANGED <<isr, doDfc, dfc, pC, pN, waiting, running>> /\ t \in Timer
      BY <2>2, Constants DEF Again
    <3> QED
      BY <2>2, <3>1, AgainKeeps, StartedExpiry
  <2> QED
    BY <1>1, <2>1, <2>2, CancelExpiry DEF Call
<1>2. CASE Tick
  BY <1>2, TickExpiry
<1>3. CASE TickGoesOn
  BY <1>3, TickGoesOnExpiry
<1>4. CASE DfcStep
  BY <1>4, DfcStartExpiry, OrderedToFinalExpiry, TakeFromHoldingExpiry,
     WalkFromStartExpiry, WalkGoesOnExpiry, CallCompletedExpiry DEF DfcStep
<1>5. CASE \E n \in 1..MaxSleep : Advance(n)
  BY <1>5, AdvanceExpiry
<1>6. CASE UNCHANGED vars
  <2>1. q' = q /\ Asked' = Asked /\ dfc' = dfc
    BY <1>6 DEF vars, Asked
  <2> QED
    BY <2>1, SameQueues
<1> QED
  BY <1>1, <1>2, <1>3, <1>4, <1>5, <1>6 DEF Next

\* No timer is late.
LEMMA NoneLate ==
    ASSUME 4 * MaxLatency =< NumQueues, QIInv, TimeInv, ExpiryInv
    PROVE  InTime(q)
<1>1. Exact(q, {}) /\ Bounds(q, Asked, running, dfc) /\ FinalSoon(q)
  BY DEF QIInv, TimeInv, ExpiryInv
<1>2. Asked \in -1..MaxLatency /\ running \in -1..MaxLatency
  BY Ages
<1>3. dfc = "ordered" => running >= 0
  BY DEF TimeInv
<1> QED
  BY <1>1, <1>2, <1>3, IsInTime

\* A step of the timer queues is a step of Timers, or none.
LEMMA NextImplements ==
    ASSUME 4 * MaxLatency =< NumQueues, MaxLatency =< NumQueues
    PROVE  /\ QIInv /\ TimeInv /\ ExpiryInv
           /\ QIInv' /\ TimeInv' /\ ExpiryInv'
           /\ [Next]_vars
           => [T!TNext]_(T!tvars)
<1> SUFFICES ASSUME QIInv, TimeInv, ExpiryInv, QIInv', TimeInv', ExpiryInv', [Next]_vars
             PROVE  [T!TNext]_(T!tvars)
  OBVIOUS
<1>1. Refines(q, q')
  BY NextExpiry
<1>2. InTime(q)
  BY NoneLate
<1>3. InTime(q')
  <2>1. Exact(q', {}) /\ Bounds(q', Asked', running', dfc') /\ FinalSoon(q')
    BY DEF QIInv, TimeInv, ExpiryInv
  <2>2. Asked' \in -1..MaxLatency /\ running' \in -1..MaxLatency
    <3>1. MaxLatency \in Nat /\ waiting' \in -1..MaxLatency /\ running' \in -1..MaxLatency
      BY TimerAssumption DEF QIInv
    <3> QED
      BY <3>1 DEF Asked, QueueDfc
  <2>3. dfc' = "ordered" => running' >= 0
    BY DEF TimeInv
  <2> QED
    BY <2>1, <2>2, <2>3, IsInTime
<1>4. PhaseMap = [t \in Timer |-> PhaseOf(q, t)] /\ LeftMap = [t \in Timer |-> LeftOf(q, t)]
  <2>1. Exact(q, {})
    BY DEF QIInv
  <2> QED
    BY <1>2, <2>1, MapOf DEF PhaseMap, LeftMap, Expired
<1>5. PhaseMap' = [t \in Timer |-> PhaseOf(q', t)] /\ LeftMap' = [t \in Timer |-> LeftOf(q', t)]
  <2>1. Exact(q', {})
    BY DEF QIInv
  <2> QED
    BY <1>3, <2>1, MapOf DEF PhaseMap, LeftMap, Expired
<1> QED
  BY <1>1, <1>4, <1>5, MappedStep

\* So none is found after its tick on a final queue, or on its way there.
LEMMA LateIsMissed ==
    ASSUME QIInv, InTime(q)
    PROVE  NoneMissed
<1>1. Exact(q, {})
  BY DEF QIInv
<1> SUFFICES ASSUME NEW t \in Timer,
                    \/ q.state[t] \in {"ETransferring", "EHolding", "EOrdered", "ECritical"}
                    \/ t \in Range(q.intQ[SlotOf(q, t)] \o q.dfcQ[SlotOf(q, t)])
             PROVE  Remain(q, t) >= 0
  BY DEF NoneMissed
<1>2. q.state[t] # "EIdle" /\ ~Due(q, t)
  <2>1. CASE q.state[t] \in {"ETransferring", "EHolding", "EOrdered", "ECritical"}
    BY <1>1, <2>1, DueIs
  <2>2. CASE t \in Range(q.intQ[SlotOf(q, t)] \o q.dfcQ[SlotOf(q, t)])
    <3>1. q \in QState /\ SlotOf(q, t) \in Slot
      BY <1>1, SlotType DEF Exact
    <3>2. q.intQ[SlotOf(q, t)] \in Seq(Timer) /\ q.dfcQ[SlotOf(q, t)] \in Seq(Timer)
      BY <3>1, Fields
    <3>3. t \in Range(q.intQ[SlotOf(q, t)]) \/ t \in Range(q.dfcQ[SlotOf(q, t)])
      BY <2>2, <3>2, RangeConcatenation
    <3> QED
      BY <1>1, <3>1, <3>3, DueIs
  <2> QED
    BY <2>1, <2>2
<1>3. PhaseOf(q, t) = "pending"
  BY <1>2 DEF PhaseOf
<1> QED
  BY <1>3 DEF InTime

\* NTimerQ::Tick: while the latency is no more than a quarter of the queues, the
\* timers that a tick leaves on final queues, or that the DFC has yet to put there,
\* are not past their time.
THEOREM NoTimerIsMissed ==
    4 * MaxLatency =< NumQueues => (Spec => []NoneMissed)
<1> SUFFICES ASSUME 4 * MaxLatency =< NumQueues PROVE Spec => []NoneMissed
  OBVIOUS
<1>1. MaxLatency =< NumQueues
  BY TimerAssumption
<1>2. Init => QIInv /\ TimeInv /\ ExpiryInv
  BY InitQIInv, InitTimeInv, InitExpiry
<1>3. (QIInv /\ TimeInv /\ ExpiryInv) /\ [Next]_vars => (QIInv /\ TimeInv /\ ExpiryInv)'
  BY <1>1, NextQIInv, NextTimeInv, NextExpiry
<1>4. QIInv /\ TimeInv /\ ExpiryInv => NoneMissed
  BY NoneLate, LateIsMissed
<1> QED
  BY <1>2, <1>3, <1>4, PTL DEF Spec

\* NTimerQ implements Timers: each timer expires at its tick, once, unless it is
\* cancelled, wherever the DFC is, whatever is asleep and across the wrap of the
\* tick count, as long as the latency is no more than a quarter of the queues.
THEOREM TimersAreImplemented ==
    4 * MaxLatency =< NumQueues => (Spec => ImplementsTimers)
<1> SUFFICES ASSUME 4 * MaxLatency =< NumQueues PROVE Spec => ImplementsTimers
  OBVIOUS
<1>1. MaxLatency =< NumQueues
  BY TimerAssumption
<1>2. Init => (QIInv /\ TimeInv /\ ExpiryInv) /\ T!TInit
  BY InitQIInv, InitTimeInv, InitExpiry
<1>3. (QIInv /\ TimeInv /\ ExpiryInv) /\ [Next]_vars => (QIInv /\ TimeInv /\ ExpiryInv)'
  BY <1>1, NextQIInv, NextTimeInv, NextExpiry
<1>4. /\ QIInv /\ TimeInv /\ ExpiryInv
      /\ (QIInv /\ TimeInv /\ ExpiryInv)'
      /\ [Next]_vars
      => [T!TNext]_(T!tvars)
  BY <1>1, NextImplements
<1> QED
  BY <1>2, <1>3, <1>4, PTL DEF Spec, ImplementsTimers, T!TSpec
=============================================================================
