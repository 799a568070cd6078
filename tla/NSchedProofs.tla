----------------------------- MODULE NSchedProofs -----------------------------
(***************************************************************************)
(* The scheduler keeps its invariants, for every number of threads,        *)
(* mutexes and priorities, and implements FastMutex.                       *)
(*                                                                         *)
(* The first part, about NThread, shows that each function of nkern.cpp    *)
(* preserves KInv and RunsOn.  In the second, about NSched, every action   *)
(* is shown to be made of such functions, and to change the mutexes as     *)
(* FastMutex allows.                                                       *)
(***************************************************************************)
EXTENDS NSched, QueueProofs, SequenceTheorems, WellFoundedInduction, TLAPS

\* A round robin moves the first thread of a queue to its tail.
LEMMA RotateQueue ==
    ASSUME NEW q \in Seq(Thread), Inj(q), q # <<>>
    PROVE  /\ Append(Tail(q), Head(q)) \in Seq(Thread)
           /\ Inj(Append(Tail(q), Head(q)))
           /\ Range(Append(Tail(q), Head(q))) = Range(q)
           /\ Head(q) \in Range(q)
<1> DEFINE h == Head(q)
           tl == Tail(q)
<1>1. Len(q) \in Nat \ {0} /\ DOMAIN q = 1..Len(q) /\ h = q[1] /\ h \in Thread
  OBVIOUS
<1>2. tl \in Seq(Thread) /\ Len(tl) = Len(q) - 1 /\ DOMAIN tl = 1..(Len(q) - 1)
      /\ \A i \in 1..(Len(q) - 1) : tl[i] = q[i + 1]
  BY <1>1
<1> HIDE DEF h, tl
<1>3. Inj(tl)
  <2> SUFFICES ASSUME NEW i \in 1..(Len(q) - 1), NEW j \in 1..(Len(q) - 1), tl[i] = tl[j]
               PROVE  i = j
    BY <1>2 DEF Inj
  <2>1. i + 1 \in 1..Len(q) /\ j + 1 \in 1..Len(q) /\ q[i + 1] = q[j + 1]
    BY <1>1, <1>2
  <2>2. i + 1 = j + 1
    BY <1>1, <2>1 DEF Inj
  <2> QED
    BY <2>2
<1>4. Range(tl) = Range(q) \ {h}
  <2>1. ASSUME NEW i \in 1..(Len(q) - 1) PROVE tl[i] \in Range(q) \ {h}
    <3>1. i + 1 \in 1..Len(q) /\ i + 1 # 1 /\ 1 \in 1..Len(q) /\ tl[i] = q[i + 1]
      BY <1>1, <1>2
    <3> QED
      BY <1>1, <3>1 DEF Range, Inj
  <2>2. ASSUME NEW i \in 1..Len(q), q[i] # h PROVE q[i] \in Range(tl)
    <3>1. i - 1 \in 1..(Len(q) - 1) /\ (i - 1) + 1 = i
      BY <1>1, <2>2
    <3>2. tl[i - 1] = q[i]
      BY <1>2, <3>1
    <3> QED
      BY <1>2, <3>1, <3>2 DEF Range
  <2> QED
    BY <1>1, <1>2, <2>1, <2>2 DEF Range
<1>5. h \in Range(q)
  BY <1>1 DEF Range
<1>6. h \notin Range(tl)
  BY <1>4
<1>7. /\ Append(tl, h) \in Seq(Thread)
      /\ Inj(Append(tl, h))
      /\ Range(Append(tl, h)) = Range(tl) \cup {h}
  BY <1>1, <1>2, <1>3, <1>6, AppendQueue
<1> QED
  BY <1>4, <1>5, <1>7 DEF h, tl

\* First and HighestPriority find a thread whenever one is ready: there is a
\* highest priority because priorities are bounded.
LEMMA HighestOfSome ==
    ASSUME NEW S \in SUBSET Pri, S # {}
    PROVE  \E p \in S : \A q \in S : q =< p
<1> DEFINE T == {63 - q : q \in S}
           R == OpToRel(<, Nat)
<1>1. S \subseteq 0..63
  BY ThreadAssumption DEF KNumPriorities
<1>2. T \in SUBSET Nat /\ T # {}
  <2>1. \A q \in S : q \in 0..63 /\ 63 - q \in Nat
    BY <1>1
  <2> QED
    BY <2>1
<1> HIDE DEF T
<1>3. PICK x \in T : \A y \in T : ~(<<y, x>> \in R)
  BY <1>2, NatLessThanWellFounded, WFMin
<1>4. \A y \in T : ~(y < x)
  BY <1>2, <1>3 DEF OpToRel
<1>5. PICK p \in S : x = 63 - p
  BY DEF T
<1>6. \A q \in S : 63 - q \in T
  BY DEF T
<1> QED
  BY <1>1, <1>4, <1>5, <1>6

-----------------------------------------------------------------------------
\* The invariant of the kernel state, in parts

\* A thread is on the ready list, once and at its priority, iff it is EReady.
ReadyOK(z) ==
    \A p \in Pri :
        /\ Inj(z.ready[p])
        /\ \A t \in Thread : t \in Range(z.ready[p]) <=> z.nstate[t] = "EReady" /\ z.pri[t] = p

\* A request semaphore counts its waiter.
CountOK(z) ==
    \A t \in Thread : /\ z.count[t] >= -1
                      /\ z.count[t] = -1 <=> z.nstate[t] = "EWaitFastSemaphore"

SuspOK(z) ==
    \A t \in Thread : /\ z.suspendCount[t] =< 0
                      /\ z.suspendCount[t] < 0 => z.nstate[t] # "EReady"
                      /\ z.nstate[t] = "ESuspended" => z.suspendCount[t] < 0

HolderOK(z) ==
    \A t \in Thread, m \in Mutex : z.holding[m] = t <=> z.heldFM[t] = m

\* A holder can run, and is in its own code.
OwnerOK(z) ==
    \A t \in Thread : z.heldFM[t] # Null =>
        z.nstate[t] = "EReady" /\ z.waitFM[t] = Null /\ z.cont[t] = "run"

\* A thread records the mutex it waits for, or is to claim again, just while
\* it continues in the function that takes the mutex.
ContOK(z) ==
    \A t \in Thread : /\ z.waitFM[t] # Null <=> z.cont[t] = "FMWait"
                      /\ z.cont[t] \in {"FMFlash", "Block"} => z.arg[t] # Null

\* A deferred suspension or exit of t will be acted on: DeferredNotLost.
DeferAt(z, t) ==
    /\ z.csCount[t] >= 0 /\ z.csFunction[t] >= ECSExitInProgress
    /\ z.csFunction[t] = ECSExitInProgress => z.csCount[t] > 0
    /\ z.csFunction[t] # 0 => \/ z.csCount[t] > 0
                              \/ z.heldFM[t] # Null /\ z.waiting[z.heldFM[t]]

DeferOK(z) == ~z.fault /\ \A t \in Thread : DeferAt(z, t)

\* The idle thread never waits.
IdleOK(z) ==
    /\ z.nstate[NullThread] = "EReady" /\ z.heldFM[NullThread] = Null
    /\ z.cont[NullThread] = "run"

KInv(z) ==
    /\ z \in KState /\ ReadyOK(z) /\ CountOK(z) /\ SuspOK(z) /\ HolderOK(z)
    /\ OwnerOK(z) /\ ContOK(z) /\ DeferOK(z) /\ IdleOK(z)

\* The same while the deferred actions of t are being acted on.
KInvBut(z, t) ==
    /\ z \in KState /\ ReadyOK(z) /\ CountOK(z) /\ SuspOK(z) /\ HolderOK(z)
    /\ OwnerOK(z) /\ ContOK(z) /\ IdleOK(z)
    /\ ~z.fault /\ \A u \in Thread \ {t} : DeferAt(z, u)

\* The current thread can go on, or a reschedule is due.  A thread that goes on
\* in NFastMutex::Wait finds the mutex free.
RunsOn(z) ==
    z.resched \/ /\ z.nstate[z.current] = "EReady"
                 /\ z.cont[z.current] = "FMWait" => z.holding[z.waitFM[z.current]] = Null

\* The type of each field of a kernel state, for any thread and mutex.
LEMMA FieldTypes ==
    ASSUME NEW z \in KState
    PROVE  /\ z.nstate \in [Thread -> NState] /\ z.pri \in [Thread -> Pri]
           /\ z.suspendCount \in [Thread -> Int] /\ z.count \in [Thread -> Int]
           /\ z.csCount \in [Thread -> Int] /\ z.csFunction \in [Thread -> Int]
           /\ z.heldFM \in [Thread -> Mutex \cup {Null}]
           /\ z.waitFM \in [Thread -> Mutex \cup {Null}]
           /\ z.arg \in [Thread -> Mutex \cup {Null}]
           /\ z.time \in [Thread -> Int] /\ z.cont \in [Thread -> Cont]
           /\ z.holding \in [Mutex -> Thread \cup {Null}]
           /\ z.waiting \in [Mutex -> BOOLEAN]
           /\ z.ready \in [Pri -> Seq(Thread)]
           /\ z.current \in Thread /\ z.resched \in BOOLEAN /\ z.fault \in BOOLEAN
BY DEF KState

-----------------------------------------------------------------------------
\* Making a thread ready, and making it stop being ready

\* The parts of the state that making t ready leaves alone.
Same(z, k1) ==
    /\ k1.pri = z.pri /\ k1.suspendCount = z.suspendCount
    /\ k1.csCount = z.csCount /\ k1.csFunction = z.csFunction
    /\ k1.heldFM = z.heldFM /\ k1.waitFM = z.waitFM
    /\ k1.count = z.count /\ k1.cont = z.cont /\ k1.arg = z.arg
    /\ k1.holding = z.holding /\ k1.waiting = z.waiting
    /\ k1.current = z.current /\ k1.fault = z.fault

\* TPriListBase::Add makes the ready list hold one more thread, once.
LEMMA Listed ==
    ASSUME NEW z \in KState, NEW k1, NEW t \in Thread,
           ReadyOK(z), z.nstate[t] # "EReady",
           k1.ready = [z.ready EXCEPT ![z.pri[t]] = Append(@, t)],
           k1.nstate = [z.nstate EXCEPT ![t] = "EReady"], k1.pri = z.pri
    PROVE  ReadyOK(k1)
<1>1. t \notin Range(z.ready[z.pri[t]]) /\ z.pri[t] \in Pri
  BY DEF ReadyOK, KState
<1>2. \A p \in Pri : Inj(z.ready[p]) /\ z.ready[p] \in Seq(Thread)
  BY DEF ReadyOK, KState
<1>3. /\ Inj(k1.ready[z.pri[t]])
      /\ Range(k1.ready[z.pri[t]]) = Range(z.ready[z.pri[t]]) \cup {t}
  BY <1>1, <1>2, AppendQueue DEF KState
<1>4. \A p \in Pri : p # z.pri[t] => k1.ready[p] = z.ready[p]
  BY DEF KState
<1>5. \A u \in Thread : k1.nstate[u] = IF u = t THEN "EReady" ELSE z.nstate[u]
  BY DEF KState
<1> SUFFICES ASSUME NEW p \in Pri
             PROVE  /\ Inj(k1.ready[p])
                    /\ \A u \in Thread : u \in Range(k1.ready[p]) <=>
                           k1.nstate[u] = "EReady" /\ k1.pri[u] = p
  BY DEF ReadyOK
<1>6. CASE p = z.pri[t]
  BY <1>1, <1>3, <1>5, <1>6 DEF ReadyOK
<1>7. CASE p # z.pri[t]
  BY <1>4, <1>5, <1>7 DEF ReadyOK
<1> QED
  BY <1>6, <1>7

\* TPriListBase::Remove makes it hold one thread less.
LEMMA Unlisted ==
    ASSUME NEW z \in KState, NEW k1, NEW t \in Thread, NEW s,
           ReadyOK(z), z.nstate[t] = "EReady", s # "EReady",
           k1.ready = [z.ready EXCEPT ![z.pri[t]] = Without(@, t)],
           k1.nstate = [z.nstate EXCEPT ![t] = s], k1.pri = z.pri
    PROVE  ReadyOK(k1)
<1>1. t \in Range(z.ready[z.pri[t]]) /\ z.pri[t] \in Pri
  BY DEF ReadyOK, KState
<1>2. \A p \in Pri : Inj(z.ready[p]) /\ z.ready[p] \in Seq(Thread)
  BY DEF ReadyOK, KState
<1>3. /\ Inj(k1.ready[z.pri[t]])
      /\ Range(k1.ready[z.pri[t]]) = Range(z.ready[z.pri[t]]) \ {t}
  BY <1>1, <1>2, WithoutQueue DEF KState
<1>4. \A p \in Pri : p # z.pri[t] => k1.ready[p] = z.ready[p]
  BY DEF KState
<1>5. \A u \in Thread : k1.nstate[u] = IF u = t THEN s ELSE z.nstate[u]
  BY DEF KState
<1> SUFFICES ASSUME NEW p \in Pri
             PROVE  /\ Inj(k1.ready[p])
                    /\ \A u \in Thread : u \in Range(k1.ready[p]) <=>
                           k1.nstate[u] = "EReady" /\ k1.pri[u] = p
  BY DEF ReadyOK
<1>6. CASE p = z.pri[t]
  BY <1>1, <1>3, <1>5, <1>6 DEF ReadyOK
<1>7. CASE p # z.pri[t]
  BY <1>4, <1>5, <1>7 DEF ReadyOK
<1> QED
  BY <1>6, <1>7

\* DoReady of a thread that is neither ready nor dead.
LEMMA DoReadyEffect ==
    ASSUME NEW z \in KState, NEW t \in Thread, ReadyOK(z),
           z.nstate[t] \notin {"EReady", "EDead"}
    PROVE  LET k1 == DoReady(z, t)
           IN  /\ k1 \in KState /\ ReadyOK(k1) /\ Same(z, k1)
               /\ k1.nstate = [z.nstate EXCEPT ![t] = "EReady"]
               /\ z.resched => k1.resched
<1> DEFINE k0 == Add(z, t)
           k1 == DoReady(z, t)
<1>1. Append(z.ready[z.pri[t]], t) \in Seq(Thread)
  BY DEF KState
<1>2. k0 \in KState
  BY <1>1 DEF Add, KState
<1>3. /\ k0.ready = [z.ready EXCEPT ![z.pri[t]] = Append(@, t)]
      /\ Same(z, k0) /\ k0.nstate = z.nstate /\ k0.resched = z.resched
  BY DEF Add, KState, Same
<1> HIDE DEF k0
<1>4. k1 = [k0 EXCEPT !.nstate[t] = "EReady", !.resched = @ \/ Preempts(z, t)]
  BY DEF DoReady, k0
<1>5. k1 \in KState
  <2> DEFINE b == k0.resched \/ Preempts(z, t)
             n == [k0.nstate EXCEPT ![t] = "EReady"]
  <2>1. b \in BOOLEAN
    BY DEF Preempts
  <2>2. n \in [Thread -> NState]
    BY <1>2 DEF KState, NState
  <2>3. k1 = [k0 EXCEPT !.nstate = n, !.resched = b]
    BY <1>4
  <2> HIDE DEF b, n
  <2> QED
    BY <1>2, <2>1, <2>2, <2>3 DEF KState
<1>6. /\ k1.ready = k0.ready /\ Same(k0, k1)
      /\ k1.nstate = [k0.nstate EXCEPT ![t] = "EReady"]
      /\ k1.resched = (k0.resched \/ Preempts(z, t))
  BY <1>2, <1>4 DEF KState, Same
<1> HIDE DEF k1
<1>7. Same(z, k1)
  BY <1>3, <1>6 DEF Same
<1>8. ReadyOK(k1)
  BY <1>3, <1>6, <1>7, Listed DEF Same
<1> QED
  BY <1>3, <1>5, <1>6, <1>7, <1>8 DEF k1

\* A thread that is neither ready nor dead becomes ready, unless suspended.
LEMMA CheckSuspendThenReadyEffect ==
    ASSUME NEW z \in KState, NEW t \in Thread, ReadyOK(z), SuspOK(z),
           z.nstate[t] \notin {"EReady", "EDead"}
    PROVE  LET k1 == CheckSuspendThenReady(z, t)
           IN  /\ k1 \in KState /\ ReadyOK(k1) /\ SuspOK(k1) /\ Same(z, k1)
               /\ k1.nstate = [z.nstate EXCEPT ![t] = k1.nstate[t]]
               /\ k1.nstate[t] \in {"EReady", "ESuspended"}
               /\ z.resched => k1.resched
<1> DEFINE k1 == CheckSuspendThenReady(z, t)
<1>1. CASE z.suspendCount[t] = 0
  <2>1. k1 = DoReady(z, t)
    BY <1>1 DEF CheckSuspendThenReady
  <2>2. /\ k1 \in KState /\ ReadyOK(k1) /\ Same(z, k1)
        /\ k1.nstate = [z.nstate EXCEPT ![t] = "EReady"]
        /\ z.resched => k1.resched
    BY <2>1, DoReadyEffect
  <2> HIDE DEF k1
  <2>3. k1.nstate[t] = "EReady"
    BY <2>2 DEF KState
  <2>4. SuspOK(k1)
    BY <1>1, <2>2, FieldTypes DEF SuspOK, Same
  <2> QED
    BY <2>2, <2>3, <2>4 DEF k1
<1>2. CASE z.suspendCount[t] # 0
  <2>1. k1 = [z EXCEPT !.nstate[t] = "ESuspended"]
    BY <1>2 DEF CheckSuspendThenReady
  <2> HIDE DEF k1
  <2>2. k1 \in KState
    BY <2>1 DEF KState, NState
  <2>3. /\ Same(z, k1) /\ k1.ready = z.ready /\ k1.resched = z.resched
        /\ k1.nstate = [z.nstate EXCEPT ![t] = "ESuspended"]
    BY <2>1 DEF KState, Same
  <2>4. \A u \in Thread : k1.nstate[u] = IF u = t THEN "ESuspended" ELSE z.nstate[u]
    BY <2>3 DEF KState
  <2>5. ReadyOK(k1)
    BY <2>3, <2>4 DEF ReadyOK, Same
  <2>6. z.suspendCount[t] < 0
    BY <1>2, FieldTypes DEF SuspOK
  <2>7. SuspOK(k1)
    BY SMTT(30), <2>3, <2>4, <2>6, FieldTypes DEF SuspOK, Same
  <2> QED
    BY <2>2, <2>3, <2>4, <2>5, <2>7 DEF k1
<1> QED
  BY <1>1, <1>2

\* The fast mutexes are as they were, and so is the choice of the thread.
SameFM(z, k1) ==
    /\ k1.heldFM = z.heldFM /\ k1.waitFM = z.waitFM /\ k1.holding = z.holding
    /\ k1.current = z.current

\* A thread not waiting on its request semaphore is made ready or suspended.
LEMMA Woken ==
    ASSUME NEW z, NEW k1 \in KState, NEW t \in Thread, KInv(z),
           ReadyOK(k1), SuspOK(k1),
           z.nstate[t] \notin {"EReady", "EDead"},
           k1.nstate = [z.nstate EXCEPT ![t] = k1.nstate[t]],
           k1.nstate[t] \in {"EReady", "ESuspended"},
           z.resched => k1.resched,
           k1.csCount = z.csCount, k1.csFunction = z.csFunction,
           k1.heldFM = z.heldFM, k1.waitFM = z.waitFM, k1.cont = z.cont,
           k1.arg = z.arg, k1.holding = z.holding, k1.waiting = z.waiting,
           k1.current = z.current, k1.fault = z.fault,
           CountOK(k1)
    PROVE  /\ KInv(k1) /\ SameFM(z, k1)
           /\ RunsOn(z) => RunsOn(k1)
<1>1. z \in KState
  BY DEF KInv
<1>2. \A u \in Thread : u # t => k1.nstate[u] = z.nstate[u]
  BY <1>1 DEF KState
<1>3. HolderOK(k1) /\ ContOK(k1) /\ DeferOK(k1)
  BY DEF KInv, HolderOK, ContOK, DeferOK, DeferAt
<1>4. OwnerOK(k1)
  BY <1>2 DEF KInv, OwnerOK
<1>5. IdleOK(k1)
  BY <1>2, ThreadAssumption DEF KInv, IdleOK
<1>6. RunsOn(z) => RunsOn(k1)
  BY <1>1, <1>2 DEF RunsOn, KState
<1> QED
  BY <1>3, <1>4, <1>5, <1>6 DEF KInv, SameFM

-----------------------------------------------------------------------------
\* Request semaphores

\* NFastSemaphore::Signal makes the waiting thread ready, or notes that only a
\* suspension now stops it.
LEMMA SemSignalOK ==
    ASSUME NEW z, NEW t \in Thread, KInv(z)
    PROVE  LET k1 == SemSignal(z, t)
           IN  KInv(k1) /\ SameFM(z, k1) /\ (RunsOn(z) => RunsOn(k1))
<1> DEFINE k0 == [z EXCEPT !.count[t] = @ + 1]
           k1 == SemSignal(z, t)
<1>1. z \in KState /\ ReadyOK(z) /\ SuspOK(z) /\ CountOK(z)
  BY DEF KInv
<1>2. k0 \in KState
  <2>1. [z.count EXCEPT ![t] = @ + 1] \in [Thread -> Int]
    BY <1>1, FieldTypes
  <2> QED
    BY <1>1, <2>1 DEF KState
<1>3. /\ k0.count = [z.count EXCEPT ![t] = @ + 1]
      /\ k0.ready = z.ready /\ k0.nstate = z.nstate /\ k0.pri = z.pri
      /\ k0.suspendCount = z.suspendCount /\ k0.resched = z.resched
      /\ k0.csCount = z.csCount /\ k0.csFunction = z.csFunction
      /\ k0.heldFM = z.heldFM /\ k0.waitFM = z.waitFM /\ k0.cont = z.cont
      /\ k0.arg = z.arg /\ k0.holding = z.holding /\ k0.waiting = z.waiting
      /\ k0.current = z.current /\ k0.fault = z.fault
  BY <1>1 DEF KState
<1>4. k1 = IF k0.count[t] > 0 THEN k0 ELSE CheckSuspendThenReady(k0, t)
  BY DEF SemSignal
<1> HIDE DEF k0, k1
<1>5. ReadyOK(k0) /\ SuspOK(k0)
  BY <1>1, <1>3 DEF ReadyOK, SuspOK
<1>6. z.count[t] \in Int /\ z.count[t] >= -1 /\ k0.count[t] = z.count[t] + 1
  BY <1>1, <1>3, FieldTypes DEF CountOK
<1>7. CASE k0.count[t] > 0
  <2>1. k1 = k0
    BY <1>4, <1>7
  <2>2. CountOK(k1)
    <3> SUFFICES ASSUME NEW u \in Thread
                 PROVE  k0.count[u] >= -1 /\ (k0.count[u] = -1 <=> z.nstate[u] = "EWaitFastSemaphore")
      BY <1>3, <2>1 DEF CountOK
    <3>1. CASE u = t
      BY <1>1, <1>6, <1>7, <3>1 DEF CountOK
    <3>2. CASE u # t
      BY SMTT(30), <1>1, <1>3, <3>2, FieldTypes DEF CountOK
    <3> QED
      BY <3>1, <3>2
  <2>3. HolderOK(k1) /\ ContOK(k1) /\ DeferOK(k1) /\ OwnerOK(k1) /\ IdleOK(k1)
    BY <1>3, <2>1 DEF KInv, HolderOK, ContOK, DeferOK, DeferAt, OwnerOK, IdleOK
  <2>4. RunsOn(z) => RunsOn(k1)
    BY <1>3, <2>1 DEF RunsOn
  <2> QED
    BY <1>2, <1>3, <1>5, <2>1, <2>2, <2>3, <2>4 DEF KInv, SameFM, k1
<1>8. CASE ~(k0.count[t] > 0)
  <2>1. k1 = CheckSuspendThenReady(k0, t)
    BY <1>4, <1>8
  <2>2. z.count[t] = -1
    BY <1>6, <1>8
  <2>3. z.nstate[t] = "EWaitFastSemaphore"
    BY <1>1, <2>2 DEF CountOK
  <2>4. /\ k1 \in KState /\ ReadyOK(k1) /\ SuspOK(k1) /\ Same(k0, k1)
        /\ k1.nstate = [z.nstate EXCEPT ![t] = k1.nstate[t]]
        /\ k1.nstate[t] \in {"EReady", "ESuspended"}
        /\ z.resched => k1.resched
    BY <1>2, <1>3, <1>5, <2>1, <2>3, CheckSuspendThenReadyEffect
  <2>5. CountOK(k1)
    <3>1. k1.count[t] = 0 /\ k1.nstate[t] # "EWaitFastSemaphore"
      BY <1>3, <1>6, <2>2, <2>4 DEF Same
    <3>2. \A u \in Thread : u # t => k1.count[u] = z.count[u] /\ k1.nstate[u] = z.nstate[u]
      BY SMTT(30), <1>1, <1>3, <2>4, FieldTypes DEF Same
    <3> QED
      BY <1>1, <3>1, <3>2 DEF CountOK
  <2> QED
    BY <1>3, <2>3, <2>4, <2>5, Woken DEF Same, k1
<1> QED
  BY <1>7, <1>8

\* NFastSemaphore::SignalN wakes the waiter before it changes the count.
LEMMA SemSignalNOK ==
    ASSUME NEW z, NEW t \in Thread, NEW n \in Nat, KInv(z)
    PROVE  LET k1 == SemSignalN(z, t, n)
           IN  KInv(k1) /\ SameFM(z, k1) /\ (RunsOn(z) => RunsOn(k1))
<1> DEFINE wake == n > 0 /\ z.count[t] < 0
           k0 == IF wake THEN CheckSuspendThenReady(z, t) ELSE z
           k1 == SemSignalN(z, t, n)
<1>1. z \in KState /\ ReadyOK(z) /\ SuspOK(z) /\ CountOK(z)
  BY DEF KInv
<1>2. z.count[t] \in Int /\ z.count[t] >= -1
  BY <1>1, FieldTypes DEF CountOK
<1>3. k1 = [k0 EXCEPT !.count[t] = @ + n]
  BY DEF SemSignalN
<1>4. /\ k0 \in KState /\ ReadyOK(k0) /\ SuspOK(k0) /\ Same(z, k0)
      /\ z.resched => k0.resched
      /\ IF wake THEN /\ z.nstate[t] = "EWaitFastSemaphore" /\ z.count[t] = -1
                      /\ k0.nstate = [z.nstate EXCEPT ![t] = k0.nstate[t]]
                      /\ k0.nstate[t] \in {"EReady", "ESuspended"}
                 ELSE k0 = z
  <2>1. CASE wake
    <3>1. z.count[t] = -1 /\ z.nstate[t] = "EWaitFastSemaphore"
      BY <1>1, <1>2, <2>1 DEF CountOK
    <3>2. k0 = CheckSuspendThenReady(z, t)
      BY <2>1
    <3> QED
      BY <1>1, <2>1, <3>1, <3>2, CheckSuspendThenReadyEffect
  <2>2. CASE ~wake
    <3>1. k0 = z
      BY <2>2
    <3> QED
      BY <1>1, <2>2, <3>1 DEF Same
  <2> QED
    BY <2>1, <2>2
<1> HIDE DEF k0, k1
<1>5. k1 \in KState
  <2>1. [k0.count EXCEPT ![t] = @ + n] \in [Thread -> Int]
    BY <1>4, FieldTypes
  <2> QED
    BY <1>3, <1>4, <2>1 DEF KState
<1>6. /\ k1.count = [z.count EXCEPT ![t] = @ + n]
      /\ k1.ready = k0.ready /\ k1.nstate = k0.nstate /\ k1.pri = z.pri
      /\ k1.suspendCount = z.suspendCount /\ k1.resched = k0.resched
      /\ k1.csCount = z.csCount /\ k1.csFunction = z.csFunction
      /\ k1.heldFM = z.heldFM /\ k1.waitFM = z.waitFM /\ k1.cont = z.cont
      /\ k1.arg = z.arg /\ k1.holding = z.holding /\ k1.waiting = z.waiting
      /\ k1.current = z.current /\ k1.fault = z.fault
  BY <1>3, <1>4 DEF KState, Same
<1>7. ReadyOK(k1) /\ SuspOK(k1)
  BY <1>4, <1>6 DEF ReadyOK, SuspOK, Same
<1>8. k1.count[t] = z.count[t] + n
      /\ \A u \in Thread : u # t => k1.count[u] = z.count[u]
  BY <1>1, <1>6, FieldTypes
<1>9. CASE wake
  <2>1. \A u \in Thread : u # t => k1.nstate[u] = z.nstate[u]
    BY SMTT(30), <1>1, <1>4, <1>6, <1>9, FieldTypes
  <2>2. k1.count[t] \in Nat /\ k1.nstate[t] # "EWaitFastSemaphore"
    BY <1>2, <1>4, <1>6, <1>8, <1>9
  <2>3. CountOK(k1)
    BY <1>1, <1>8, <2>1, <2>2 DEF CountOK
  <2> QED
    BY <1>4, <1>5, <1>6, <1>7, <1>9, <2>3, Woken DEF k1
<1>10. CASE ~wake
  <2>1. k0 = z
    BY <1>4, <1>10
  <2>2. n = 0 \/ z.count[t] >= 0
    BY <1>2, <1>10
  <2>3. CountOK(k1)
    <3>1. k1.count[t] = -1 <=> z.count[t] = -1
      BY <1>2, <1>8, <2>2
    <3>2. k1.count[t] >= -1
      BY <1>2, <1>8
    <3> QED
      <4>1. \A u \in Thread : k1.count[u] >= -1 /\ (k1.count[u] = -1 <=> z.count[u] = -1)
        BY <1>1, <1>2, <1>8, <3>1, <3>2 DEF CountOK
      <4>2. k1.nstate = z.nstate
        BY <1>6, <2>1
      <4> QED
        BY <1>1, <4>1, <4>2 DEF CountOK
  <2>4. HolderOK(k1) /\ ContOK(k1) /\ DeferOK(k1) /\ OwnerOK(k1) /\ IdleOK(k1)
    BY <1>6, <2>1 DEF KInv, HolderOK, ContOK, DeferOK, DeferAt, OwnerOK, IdleOK
  <2>5. RunsOn(z) => RunsOn(k1)
    BY <1>6, <2>1 DEF RunsOn
  <2> QED
    BY <1>5, <1>6, <1>7, <2>3, <2>4, <2>5 DEF KInv, SameFM, k1
<1> QED
  BY <1>9, <1>10

-----------------------------------------------------------------------------
\* A thread that stops being ready

\* TScheduler::Remove takes a ready thread off the list and renews its slice.
LEMMA SchedRemoveEffect ==
    ASSUME NEW z \in KState, NEW t \in Thread,
           Inj(z.ready[z.pri[t]]), t \in Range(z.ready[z.pri[t]])
    PROVE  LET k1 == SchedRemove(z, t)
           IN  /\ k1 \in KState /\ Same(z, k1)
               /\ k1.ready = [z.ready EXCEPT ![z.pri[t]] = Without(@, t)]
               /\ k1.nstate = z.nstate /\ k1.resched = z.resched
<1> DEFINE k0 == [z EXCEPT !.time[t] = Timeslice[t]]
           k1 == SchedRemove(z, t)
<1>1. k0 \in KState
  BY ThreadAssumption DEF KState
<1>2. /\ k0.ready = z.ready /\ k0.nstate = z.nstate /\ k0.resched = z.resched
      /\ Same(z, k0)
  BY DEF KState, Same
<1>3. k1 = [k0 EXCEPT !.ready[k0.pri[t]] = Without(@, t)]
  BY DEF SchedRemove, PriListRemove
<1> HIDE DEF k0, k1
<1>4. Without(k0.ready[k0.pri[t]], t) \in Seq(Thread) /\ k0.pri[t] \in Pri
  BY <1>1, <1>2, FieldTypes, WithoutQueue DEF Same
<1>5. k1 \in KState
  BY <1>1, <1>3, <1>4 DEF KState
<1>6. /\ k1.ready = [k0.ready EXCEPT ![k0.pri[t]] = Without(@, t)]
      /\ Same(k0, k1) /\ k1.nstate = k0.nstate /\ k1.resched = k0.resched
  BY <1>1, <1>3 DEF KState, Same
<1> QED
  BY <1>2, <1>5, <1>6 DEF Same, k1

\* A ready thread that stops: only its state and the ready list change.
LEMMA Stopped ==
    ASSUME NEW z, NEW k1 \in KState, NEW t \in Thread \ {NullThread}, KInv(z),
           z.nstate[t] = "EReady", z.heldFM[t] = Null, k1.nstate[t] # "EReady",
           k1.nstate = [z.nstate EXCEPT ![t] = k1.nstate[t]],
           k1.ready = [z.ready EXCEPT ![z.pri[t]] = Without(@, t)],
           k1.pri = z.pri, k1.resched, k1.heldFM = z.heldFM,
           k1.waitFM = z.waitFM, k1.holding = z.holding, k1.current = z.current,
           k1.cont = [z.cont EXCEPT ![t] = k1.cont[t]],
           CountOK(k1), SuspOK(k1), ContOK(k1), DeferOK(k1)
    PROVE  KInv(k1) /\ SameFM(z, k1) /\ RunsOn(k1)
<1>1. z \in KState
  BY DEF KInv
<1>2. \A u \in Thread : u # t => k1.nstate[u] = z.nstate[u] /\ k1.cont[u] = z.cont[u]
  BY <1>1, FieldTypes
<1>3. ReadyOK(k1)
  BY Unlisted DEF KInv
<1>4. HolderOK(k1) /\ OwnerOK(k1)
  BY <1>2 DEF KInv, HolderOK, OwnerOK
<1>5. IdleOK(k1)
  BY <1>2, ThreadAssumption DEF KInv, IdleOK
<1> QED
  BY <1>3, <1>4, <1>5 DEF KInv, SameFM, RunsOn

\* NFastSemaphore::Wait by the current thread.
LEMMA SemWaitOK ==
    ASSUME NEW z, NEW t \in Thread \ {NullThread}, KInv(z), RunsOn(z),
           z.nstate[t] = "EReady", z.heldFM[t] = Null
    PROVE  LET k1 == SemWait(z, t)
           IN  KInv(k1) /\ SameFM(z, k1) /\ RunsOn(k1)
<1> DEFINE k0 == [z EXCEPT !.count[t] = @ - 1]
           k2 == [RescheduleNeeded(k0) EXCEPT !.nstate[t] = "EWaitFastSemaphore"]
           k1 == SemWait(z, t)
<1>1. z \in KState /\ CountOK(z)
  BY DEF KInv
<1>2. z.count[t] \in Int /\ z.count[t] >= 0
  BY <1>1, FieldTypes DEF CountOK
<1>3. k1 = IF k0.count[t] >= 0 THEN k0 ELSE SchedRemove(k2, t)
  BY DEF SemWait
<1>4. k0 \in KState
  <2>1. [z.count EXCEPT ![t] = @ - 1] \in [Thread -> Int]
    BY <1>1, FieldTypes
  <2> QED
    BY <1>1, <2>1 DEF KState
<1>5. /\ k0.count = [z.count EXCEPT ![t] = @ - 1]
      /\ k0.ready = z.ready /\ k0.nstate = z.nstate /\ k0.pri = z.pri
      /\ k0.suspendCount = z.suspendCount /\ k0.resched = z.resched
      /\ k0.csCount = z.csCount /\ k0.csFunction = z.csFunction
      /\ k0.heldFM = z.heldFM /\ k0.waitFM = z.waitFM /\ k0.cont = z.cont
      /\ k0.arg = z.arg /\ k0.holding = z.holding /\ k0.waiting = z.waiting
      /\ k0.current = z.current /\ k0.fault = z.fault
  BY <1>1 DEF KState
<1>6. k0.count[t] = z.count[t] - 1
      /\ \A u \in Thread : u # t => k0.count[u] = z.count[u]
  BY <1>1, <1>5, FieldTypes
<1>7. /\ k2 \in KState /\ Same(k0, k2) /\ k2.ready = k0.ready /\ k2.resched
      /\ k2.nstate = [k0.nstate EXCEPT ![t] = "EWaitFastSemaphore"]
  BY ZenonT(60), <1>4 DEF RescheduleNeeded, KState, Same, NState
<1> HIDE DEF k0, k1, k2
<1>8. CASE k0.count[t] >= 0
  <2>1. k1 = k0
    BY <1>3, <1>8
  <2>2. CountOK(k1)
    <3>1. k1.count[t] \in Nat
      BY <1>2, <1>6, <1>8, <2>1
    <3>2. \A u \in Thread : u # t => k1.count[u] = z.count[u]
      BY <1>6, <2>1
    <3>3. k1.nstate = z.nstate
      BY <1>5, <2>1
    <3> QED
      BY <1>1, <3>1, <3>2, <3>3 DEF CountOK
  <2>3. /\ ReadyOK(k1) /\ SuspOK(k1) /\ HolderOK(k1) /\ ContOK(k1)
        /\ DeferOK(k1) /\ OwnerOK(k1) /\ IdleOK(k1)
    BY <1>5, <2>1 DEF KInv, ReadyOK, SuspOK, HolderOK, ContOK, DeferOK, DeferAt, OwnerOK, IdleOK
  <2> QED
    BY <1>4, <1>5, <2>1, <2>2, <2>3 DEF KInv, SameFM, RunsOn, k1
<1>9. CASE ~(k0.count[t] >= 0)
  <2>1. k1 = SchedRemove(k2, t) /\ k0.count[t] = -1
    BY <1>2, <1>3, <1>6, <1>9
  <2>2. z.pri[t] \in Pri /\ Inj(z.ready[z.pri[t]]) /\ t \in Range(z.ready[z.pri[t]])
    BY <1>1, FieldTypes DEF KInv, ReadyOK
  <2>3. /\ k1 \in KState /\ Same(k2, k1)
        /\ k1.ready = [z.ready EXCEPT ![z.pri[t]] = Without(@, t)]
        /\ k1.nstate = [z.nstate EXCEPT ![t] = "EWaitFastSemaphore"] /\ k1.resched
    BY <1>5, <1>7, <2>1, <2>2, SchedRemoveEffect DEF Same
  <2>4. /\ k1.nstate[t] = "EWaitFastSemaphore"
        /\ \A u \in Thread : u # t => k1.nstate[u] = z.nstate[u]
    BY <1>1, <2>3, FieldTypes
  <2>5. CountOK(k1)
    BY <1>1, <1>6, <1>7, <2>1, <2>3, <2>4 DEF CountOK, Same
  <2>6. SuspOK(k1)
    BY <1>5, <1>7, <2>3, <2>4 DEF KInv, SuspOK, Same
  <2>7. ContOK(k1) /\ DeferOK(k1)
    BY <1>5, <1>7, <2>3 DEF KInv, ContOK, DeferOK, DeferAt, Same
  <2>8. k1.cont = [z.cont EXCEPT ![t] = k1.cont[t]]
    BY <1>1, <1>5, <1>7, <2>3, FieldTypes DEF Same
  <2> QED
    BY <1>5, <1>7, <2>3, <2>4, <2>5, <2>6, <2>7, <2>8, Stopped DEF Same, k1
<1> QED
  BY <1>8, <1>9

\* The request semaphore is set back and its waiter released.
LEMMA WaitCancelOK ==
    ASSUME NEW z, NEW t \in Thread, KInv(z), z.nstate[t] = "EWaitFastSemaphore"
    PROVE  LET k1 == WaitCancel(z, t)
           IN  KInv(k1) /\ SameFM(z, k1) /\ (RunsOn(z) => RunsOn(k1))
               /\ k1.csCount = z.csCount /\ k1.csFunction = z.csFunction
<1> DEFINE k0 == [z EXCEPT !.count[t] = 0]
           k1 == WaitCancel(z, t)
<1>1. z \in KState /\ ReadyOK(z) /\ SuspOK(z) /\ CountOK(z)
  BY DEF KInv
<1>2. k0 \in KState
  <2>1. [z.count EXCEPT ![t] = 0] \in [Thread -> Int]
    BY <1>1, FieldTypes
  <2> QED
    BY <1>1, <2>1 DEF KState
<1>3. /\ k0.count = [z.count EXCEPT ![t] = 0]
      /\ k0.ready = z.ready /\ k0.nstate = z.nstate /\ k0.pri = z.pri
      /\ k0.suspendCount = z.suspendCount /\ k0.resched = z.resched
      /\ k0.csCount = z.csCount /\ k0.csFunction = z.csFunction
      /\ k0.heldFM = z.heldFM /\ k0.waitFM = z.waitFM /\ k0.cont = z.cont
      /\ k0.arg = z.arg /\ k0.holding = z.holding /\ k0.waiting = z.waiting
      /\ k0.current = z.current /\ k0.fault = z.fault
  BY <1>1 DEF KState
<1>4. k1 = CheckSuspendThenReady(k0, t)
  BY DEF WaitCancel
<1> HIDE DEF k0, k1
<1>5. ReadyOK(k0) /\ SuspOK(k0)
  BY <1>1, <1>3 DEF ReadyOK, SuspOK
<1>6. /\ k1 \in KState /\ ReadyOK(k1) /\ SuspOK(k1) /\ Same(k0, k1)
      /\ k1.nstate = [z.nstate EXCEPT ![t] = k1.nstate[t]]
      /\ k1.nstate[t] \in {"EReady", "ESuspended"}
      /\ z.resched => k1.resched
  <2>1. k0.nstate[t] \notin {"EReady", "EDead"}
    BY <1>3
  <2>2. /\ k1 \in KState /\ ReadyOK(k1) /\ SuspOK(k1) /\ Same(k0, k1)
        /\ k1.nstate = [k0.nstate EXCEPT ![t] = k1.nstate[t]]
        /\ k1.nstate[t] \in {"EReady", "ESuspended"}
        /\ k0.resched => k1.resched
    BY <1>2, <1>4, <1>5, <2>1, CheckSuspendThenReadyEffect
  <2> QED
    BY <1>3, <2>2
<1>7. /\ k1.count[t] = 0
      /\ \A u \in Thread : u # t => k1.count[u] = z.count[u] /\ k1.nstate[u] = z.nstate[u]
  BY SMTT(30), <1>1, <1>3, <1>6, FieldTypes DEF Same
<1>8. CountOK(k1)
  BY <1>1, <1>6, <1>7 DEF CountOK
<1> QED
  BY <1>3, <1>6, <1>8, Woken DEF Same, k1

\* NThreadBase::Release ends a wait, whatever the thread waits for.
LEMMA ReleaseOK ==
    ASSUME NEW z, NEW t \in Thread, NEW code \in Int, KInv(z)
    PROVE  LET k1 == Release(z, t, code)
           IN  KInv(k1) /\ SameFM(z, k1) /\ (RunsOn(z) => RunsOn(k1))
               /\ k1.csCount = z.csCount /\ k1.csFunction = z.csFunction
<1> DEFINE k1 == Release(z, t, code)
<1>1. CASE z.nstate[t] = "EWaitFastSemaphore" /\ code < 0
  BY <1>1, WaitCancelOK DEF Release
<1>2. CASE z.nstate[t] = "EBlocked"
  <2>1. k1 = CheckSuspendThenReady(z, t)
    BY <1>2 DEF Release
  <2>2. z \in KState
    BY DEF KInv
  <2> HIDE DEF k1
  <2>3. /\ k1 \in KState /\ ReadyOK(k1) /\ SuspOK(k1) /\ Same(z, k1)
        /\ k1.nstate = [z.nstate EXCEPT ![t] = k1.nstate[t]]
        /\ k1.nstate[t] \in {"EReady", "ESuspended"}
        /\ z.resched => k1.resched
    BY <1>2, <2>1, <2>2, CheckSuspendThenReadyEffect DEF KInv
  <2>4. CountOK(k1)
    <3>1. \A u \in Thread : u # t => k1.nstate[u] = z.nstate[u]
      BY <2>2, <2>3, FieldTypes
    <3>2. k1.count = z.count
      BY <2>3 DEF Same
    <3> QED
      BY <1>2, <2>3, <3>1, <3>2 DEF KInv, CountOK
  <2> QED
    BY <1>2, <2>3, <2>4, Woken DEF Same, k1
<1>3. CASE k1 = z
  BY <1>3 DEF SameFM
<1> QED
  BY <1>1, <1>2, <1>3 DEF Release

-----------------------------------------------------------------------------
\* Suspension, exit and kill

\* Steps that change only what KInv does not depend on, or flag a mutex.
LEMMA Quiet ==
    ASSUME NEW z, NEW k1 \in KState, KInv(z),
           k1.ready = z.ready, k1.nstate = z.nstate, k1.pri = z.pri,
           k1.suspendCount = z.suspendCount, k1.count = z.count,
           k1.csCount = z.csCount, k1.csFunction = z.csFunction,
           k1.heldFM = z.heldFM, k1.waitFM = z.waitFM, k1.cont = z.cont,
           k1.arg = z.arg, k1.holding = z.holding, k1.fault = z.fault,
           \A m \in Mutex : z.waiting[m] => k1.waiting[m]
    PROVE  /\ KInv(k1)
           /\ RunsOn(z) /\ k1.current = z.current /\ (z.resched => k1.resched)
                 => RunsOn(k1)
<1>1. /\ ReadyOK(k1) /\ SuspOK(k1) /\ CountOK(k1) /\ HolderOK(k1)
      /\ ContOK(k1) /\ OwnerOK(k1) /\ IdleOK(k1)
  BY DEF KInv, ReadyOK, SuspOK, CountOK, HolderOK, ContOK, OwnerOK, IdleOK
<1>2. \A t \in Thread : z.heldFM[t] # Null => z.heldFM[t] \in Mutex
  BY FieldTypes DEF KInv
<1>3. DeferOK(k1)
  BY <1>2 DEF KInv, DeferOK, DeferAt
<1>4. RunsOn(z) /\ k1.current = z.current /\ (z.resched => k1.resched) => RunsOn(k1)
  BY DEF RunsOn
<1> QED
  BY <1>1, <1>3, <1>4 DEF KInv

\* NThreadBase::Suspend of a thread that can be stopped: a ready thread leaves
\* the ready list, a waiting one only counts the suspension.
LEMMA SuspendNowOK ==
    ASSUME NEW z, NEW t \in Thread \ {NullThread}, NEW n \in Nat \ {0}, KInv(z),
           z.heldFM[t] = Null
    PROVE  LET k1 == SuspendNow(z, t, n)
           IN  KInv(k1) /\ SameFM(z, k1) /\ (RunsOn(z) => RunsOn(k1))
               /\ k1.csCount = z.csCount /\ k1.csFunction = z.csFunction
               /\ k1.cont = z.cont
<1> DEFINE k2 == SchedRemove(RescheduleNeeded(z), t)
           k3 == [k2 EXCEPT !.nstate[t] = "ESuspended"]
           k0 == IF z.nstate[t] = "EReady" THEN k3 ELSE z
           k1 == SuspendNow(z, t, n)
<1>1. z \in KState
  BY DEF KInv
<1>2. k1 = [k0 EXCEPT !.suspendCount[t] = @ - n]
  BY DEF SuspendNow
<1>3. ASSUME k0 \in KState
      PROVE  k1 \in KState
  <2> HIDE DEF k0, k1
  <2>1. [k0.suspendCount EXCEPT ![t] = @ - n] \in [Thread -> Int]
    BY <1>3, FieldTypes
  <2> QED
    BY <1>2, <1>3, <2>1 DEF KState
<1>4. z.suspendCount[t] \in Int /\ z.suspendCount[t] =< 0
  BY <1>1, FieldTypes DEF KInv, SuspOK
<1>5. CASE z.nstate[t] = "EReady"
  <2>1. RescheduleNeeded(z) \in KState
    BY <1>1 DEF RescheduleNeeded, KState
  <2>2. /\ RescheduleNeeded(z).ready = z.ready /\ RescheduleNeeded(z).nstate = z.nstate
        /\ RescheduleNeeded(z).resched /\ Same(z, RescheduleNeeded(z))
    BY <1>1 DEF RescheduleNeeded, KState, Same
  <2>3. z.pri[t] \in Pri /\ Inj(z.ready[z.pri[t]]) /\ t \in Range(z.ready[z.pri[t]])
    BY <1>1, <1>5, FieldTypes DEF KInv, ReadyOK
  <2>4. /\ k2 \in KState /\ Same(z, k2) /\ k2.resched /\ k2.nstate = z.nstate
        /\ k2.ready = [z.ready EXCEPT ![z.pri[t]] = Without(@, t)]
    BY <2>1, <2>2, <2>3, SchedRemoveEffect DEF Same
  <2> HIDE DEF k2
  <2>5. k0 = k3
    BY <1>5
  <2>6. k0 \in KState
    BY ZenonT(60), <2>4, <2>5 DEF KState, NState
  <2> HIDE DEF k0, k1
  <2>7. /\ k1.suspendCount = [z.suspendCount EXCEPT ![t] = @ - n]
        /\ k1.nstate = [z.nstate EXCEPT ![t] = "ESuspended"]
        /\ k1.ready = [z.ready EXCEPT ![z.pri[t]] = Without(@, t)]
        /\ k1.resched /\ k1.pri = z.pri /\ k1.count = z.count
        /\ k1.csCount = z.csCount /\ k1.csFunction = z.csFunction
        /\ k1.heldFM = z.heldFM /\ k1.waitFM = z.waitFM /\ k1.cont = z.cont
        /\ k1.arg = z.arg /\ k1.holding = z.holding /\ k1.waiting = z.waiting
        /\ k1.current = z.current /\ k1.fault = z.fault
    BY <1>2, <2>4, <2>5, <2>6 DEF KState, Same
  <2>8. /\ k1.nstate[t] = "ESuspended" /\ k1.suspendCount[t] = z.suspendCount[t] - n
        /\ \A u \in Thread : u # t => /\ k1.nstate[u] = z.nstate[u]
                                      /\ k1.suspendCount[u] = z.suspendCount[u]
    BY SMTT(30), <1>1, <2>7, FieldTypes
  <2>9. SuspOK(k1)
    <3>1. k1.suspendCount[t] < 0 /\ k1.suspendCount[t] =< 0
      BY <1>4, <2>8
    <3> QED
      BY <2>8, <3>1 DEF KInv, SuspOK
  <2>10. CountOK(k1)
    BY <1>5, <2>7, <2>8 DEF KInv, CountOK
  <2>11. ContOK(k1) /\ DeferOK(k1)
    BY <2>7 DEF KInv, ContOK, DeferOK, DeferAt
  <2>12. k1.cont = [z.cont EXCEPT ![t] = k1.cont[t]]
    BY <1>1, <2>7, FieldTypes
  <2> QED
    BY <1>3, <1>5, <2>6, <2>7, <2>8, <2>9, <2>10, <2>11, <2>12, Stopped DEF k1
<1>6. CASE z.nstate[t] # "EReady"
  <2>1. k0 = z
    BY <1>6
  <2> HIDE DEF k0, k1
  <2>2. k1 \in KState
    BY <1>1, <1>3, <2>1
  <2>3. /\ k1.suspendCount = [z.suspendCount EXCEPT ![t] = @ - n]
        /\ k1.nstate = z.nstate /\ k1.ready = z.ready
        /\ k1.resched = z.resched /\ k1.pri = z.pri /\ k1.count = z.count
        /\ k1.csCount = z.csCount /\ k1.csFunction = z.csFunction
        /\ k1.heldFM = z.heldFM /\ k1.waitFM = z.waitFM /\ k1.cont = z.cont
        /\ k1.arg = z.arg /\ k1.holding = z.holding /\ k1.waiting = z.waiting
        /\ k1.current = z.current /\ k1.fault = z.fault
    BY <1>1, <1>2, <2>1 DEF KState
  <2>4. /\ k1.suspendCount[t] = z.suspendCount[t] - n
        /\ \A u \in Thread : u # t => k1.suspendCount[u] = z.suspendCount[u]
    BY <1>1, <2>3, FieldTypes
  <2>5. k1.suspendCount[t] < 0 /\ k1.suspendCount[t] =< 0
    BY <1>4, <2>4
  <2>6. SuspOK(k1)
    BY <1>6, <2>3, <2>4, <2>5 DEF KInv, SuspOK
  <2>7. /\ ReadyOK(k1) /\ CountOK(k1) /\ HolderOK(k1) /\ ContOK(k1)
        /\ OwnerOK(k1) /\ DeferOK(k1) /\ IdleOK(k1)
    BY <2>3 DEF KInv, ReadyOK, CountOK, HolderOK, ContOK, OwnerOK, DeferOK, DeferAt, IdleOK
  <2> QED
    BY <2>2, <2>3, <2>6, <2>7 DEF KInv, SameFM, RunsOn, k1
<1> QED
  BY <1>5, <1>6

\* What a thread that cannot be stopped is to do is left to DoCsFunction.
LEMMA FlagHeldOK ==
    ASSUME NEW z, NEW t \in Thread, NEW f \in Int, KInv(z), InCS(z, t),
           f >= ECSExitInProgress, f = ECSExitInProgress => z.csCount[t] > 0
    PROVE  LET k1 == FlagHeld([z EXCEPT !.csFunction[t] = f], t)
           IN  KInv(k1) /\ SameFM(z, k1) /\ (RunsOn(z) => RunsOn(k1))
<1> DEFINE k0 == [z EXCEPT !.csFunction[t] = f]
           k1 == FlagHeld(k0, t)
<1>1. z \in KState
  BY DEF KInv
<1>2. k0 \in KState
  <2>1. [z.csFunction EXCEPT ![t] = f] \in [Thread -> Int]
    BY <1>1, FieldTypes
  <2> QED
    BY <1>1, <2>1 DEF KState
<1>3. /\ k0.csFunction = [z.csFunction EXCEPT ![t] = f]
      /\ k0.suspendCount = z.suspendCount
      /\ k0.nstate = z.nstate /\ k0.ready = z.ready
      /\ k0.resched = z.resched /\ k0.pri = z.pri /\ k0.count = z.count
      /\ k0.csCount = z.csCount
      /\ k0.heldFM = z.heldFM /\ k0.waitFM = z.waitFM /\ k0.cont = z.cont
      /\ k0.arg = z.arg /\ k0.holding = z.holding /\ k0.waiting = z.waiting
      /\ k0.current = z.current /\ k0.fault = z.fault
  BY <1>1 DEF KState
<1> HIDE DEF k0, k1
<1>4. /\ k0.csFunction[t] = f
      /\ \A u \in Thread : u # t => k0.csFunction[u] = z.csFunction[u]
  BY <1>1, <1>3, FieldTypes
<1>5. KInvBut(k0, t)
  BY <1>2, <1>3, <1>4 DEF KInv, KInvBut, ReadyOK, CountOK, SuspOK, HolderOK, OwnerOK,
                          ContOK, IdleOK, DeferOK, DeferAt
<1>6. z.csCount[t] \in Int /\ z.csCount[t] >= 0
  BY <1>1, FieldTypes DEF KInv, DeferOK, DeferAt
<1>7. ASSUME k0.heldFM[t] # Null /\ k0.csCount[t] = 0
      PROVE  KInv(k1) /\ SameFM(z, k1) /\ (RunsOn(z) => RunsOn(k1))
  <2>1. k1 = [k0 EXCEPT !.waiting[k0.heldFM[t]] = TRUE]
    BY <1>7 DEF FlagHeld, k1
  <2>2. k1 \in KState
    BY <1>2, <2>1 DEF KState
  <2>3. /\ k1.csFunction = k0.csFunction /\ k1.suspendCount = k0.suspendCount
        /\ k1.nstate = k0.nstate /\ k1.ready = k0.ready
        /\ k1.resched = k0.resched /\ k1.pri = k0.pri /\ k1.count = k0.count
        /\ k1.csCount = k0.csCount
        /\ k1.heldFM = k0.heldFM /\ k1.waitFM = k0.waitFM /\ k1.cont = k0.cont
        /\ k1.arg = k0.arg /\ k1.holding = k0.holding
        /\ k1.waiting = [k0.waiting EXCEPT ![k0.heldFM[t]] = TRUE]
        /\ k1.current = k0.current /\ k1.fault = k0.fault
    BY <1>2, <2>1 DEF KState
  <2>4. k1.waiting[k1.heldFM[t]] /\ \A m \in Mutex : k0.waiting[m] => k1.waiting[m]
    BY <1>2, <1>7, <2>3, FieldTypes
  <2>5. \A u \in Thread : k0.heldFM[u] # Null => k0.heldFM[u] \in Mutex
    BY <1>2, FieldTypes
  <2>6. DeferAt(k1, t)
    BY <1>3, <1>4, <1>6, <1>7, <2>3, <2>4 DEF DeferAt
  <2>7. \A u \in Thread \ {t} : DeferAt(k1, u)
    BY <1>5, <2>3, <2>4, <2>5 DEF KInvBut, DeferAt
  <2>8. KInv(k1)
    BY <1>5, <2>2, <2>3, <2>6, <2>7 DEF KInv, KInvBut, ReadyOK, CountOK, SuspOK,
                          HolderOK, OwnerOK, ContOK, IdleOK, DeferOK
  <2> QED
    BY <1>3, <2>3, <2>8 DEF SameFM, RunsOn
<1>8. ASSUME ~(k0.heldFM[t] # Null /\ k0.csCount[t] = 0)
      PROVE  KInv(k1) /\ SameFM(z, k1) /\ (RunsOn(z) => RunsOn(k1))
  <2>1. k1 = k0 /\ k0.csCount[t] > 0
    BY <1>3, <1>6, <1>8 DEF FlagHeld, InCS, k1
  <2>2. DeferAt(k0, t)
    BY <1>3, <1>4, <1>6, <2>1 DEF DeferAt
  <2>3. KInv(k0)
    BY <1>5, <2>2 DEF KInv, KInvBut, DeferOK
  <2> QED
    BY <1>3, <2>1, <2>3 DEF SameFM, RunsOn
<1> QED
  BY <1>7, <1>8 DEF k0, k1

\* In a critical section, the suspension is left to DoCsFunction.
LEMMA SuspendOK ==
    ASSUME NEW z, NEW t \in Thread \ {NullThread}, NEW n \in Nat \ {0}, KInv(z)
    PROVE  LET k1 == Suspend(z, t, n)
           IN  KInv(k1) /\ SameFM(z, k1) /\ (RunsOn(z) => RunsOn(k1))
<1> DEFINE k0 == [z EXCEPT !.csFunction[t] = @ + n]
           k1 == Suspend(z, t, n)
<1>1. z \in KState
  BY DEF KInv
<1>2. CASE k1 = z
  BY <1>2 DEF SameFM
<1>3. CASE ~InCS(z, t) /\ k1 = SuspendNow(z, t, n)
  BY <1>3, SuspendNowOK DEF InCS
<1>4. CASE InCS(z, t) /\ z.csFunction[t] >= 0 /\ k1 = FlagHeld(k0, t)
  <2>1. z.csFunction[t] \in Int
    BY <1>1, FieldTypes
  <2>2. z.csFunction[t] + n \in Int /\ z.csFunction[t] + n >= 0
    BY <1>4, <2>1
  <2>3. ECSExitInProgress < 0 /\ ECSExitInProgress \in Int
    BY DEF ECSExitInProgress
  <2> QED
    BY <1>4, <2>2, <2>3, FlagHeldOK
<1> QED
  BY <1>2, <1>3, <1>4 DEF Suspend

\* NThreadBase::Exit of a thread in no critical section and with no mutex.
LEMMA ExitOK ==
    ASSUME NEW z, NEW t \in Thread \ {NullThread}, KInvBut(z, t),
           z.csCount[t] = 0, z.heldFM[t] = Null, z.waitFM[t] = Null
    PROVE  LET k1 == Exit(z, t)
           IN  KInv(k1) /\ SameFM(z, k1) /\ (RunsOn(z) => RunsOn(k1))
               /\ Exiting(k1, t) /\ k1.cont[t] = "run" /\ k1.nstate = z.nstate
<1> DEFINE k1 == Exit(z, t)
           f == z.fault \/ z.heldFM[t] # Null \/ z.csCount[t] # 0
<1>1. z \in KState
  BY DEF KInvBut
<1>2. f = FALSE
  BY DEF KInvBut
<1>3. k1 = [z EXCEPT !.csCount[t] = 1, !.csFunction[t] = ECSExitInProgress,
                     !.cont[t] = "run", !.fault = f]
  BY DEF Exit
<1> HIDE DEF k1, f
<1>4. k1 = [z EXCEPT !.csCount[t] = 1, !.csFunction[t] = ECSExitInProgress,
                     !.cont[t] = "run", !.fault = FALSE]
  BY <1>2, <1>3
<1>5. k1 \in KState
  <2>1. /\ [z.csCount EXCEPT ![t] = 1] \in [Thread -> Int]
        /\ [z.csFunction EXCEPT ![t] = ECSExitInProgress] \in [Thread -> Int]
        /\ [z.cont EXCEPT ![t] = "run"] \in [Thread -> Cont]
    BY <1>1, FieldTypes DEF ECSExitInProgress, Cont
  <2> QED
    BY <1>1, <1>4, <2>1 DEF KState
<1>6. /\ k1.csCount = [z.csCount EXCEPT ![t] = 1]
      /\ k1.csFunction = [z.csFunction EXCEPT ![t] = ECSExitInProgress]
      /\ k1.cont = [z.cont EXCEPT ![t] = "run"]
      /\ k1.fault = FALSE /\ k1.suspendCount = z.suspendCount
      /\ k1.nstate = z.nstate /\ k1.ready = z.ready
      /\ k1.resched = z.resched /\ k1.pri = z.pri /\ k1.count = z.count
      /\ k1.heldFM = z.heldFM /\ k1.waitFM = z.waitFM
      /\ k1.arg = z.arg /\ k1.holding = z.holding /\ k1.waiting = z.waiting
      /\ k1.current = z.current
  BY <1>1, <1>4 DEF KState
<1>7. /\ k1.csCount[t] = 1 /\ k1.csFunction[t] = ECSExitInProgress /\ k1.cont[t] = "run"
      /\ \A u \in Thread : u # t => /\ k1.csCount[u] = z.csCount[u]
                                    /\ k1.csFunction[u] = z.csFunction[u]
                                    /\ k1.cont[u] = z.cont[u]
  BY <1>1, <1>6, FieldTypes
<1>8. ReadyOK(k1) /\ CountOK(k1) /\ SuspOK(k1) /\ HolderOK(k1)
  BY <1>6 DEF KInvBut, ReadyOK, CountOK, SuspOK, HolderOK
<1>9. OwnerOK(k1) /\ ContOK(k1) /\ IdleOK(k1)
  BY <1>6, <1>7, ThreadAssumption DEF KInvBut, OwnerOK, ContOK, IdleOK
<1>10. DeferOK(k1)
  <2>1. DeferAt(k1, t)
    BY <1>7 DEF DeferAt, ECSExitInProgress
  <2>2. \A u \in Thread \ {t} : DeferAt(k1, u)
    BY <1>6, <1>7 DEF KInvBut, DeferAt
  <2> QED
    BY <1>6, <2>1, <2>2 DEF DeferOK
<1>11. RunsOn(z) => RunsOn(k1)
  <2>1. z.current \in Thread
    BY <1>1, FieldTypes
  <2> QED
    BY <1>6, <1>7, <2>1 DEF RunsOn
<1> QED
  BY <1>5, <1>6, <1>7, <1>8, <1>9, <1>10, <1>11 DEF KInv, SameFM, Exiting, k1

\* The thread acts on what was deferred while it could not be stopped.
LEMMA DoCsFunctionOK ==
    ASSUME NEW z, NEW t \in Thread \ {NullThread}, KInvBut(z, t),
           z.csCount[t] = 0, z.heldFM[t] = Null, z.waitFM[t] = Null,
           z.csFunction[t] > 0 \/ z.csFunction[t] = ECSExitPending
    PROVE  LET k1 == DoCsFunction(z, t)
           IN  KInv(k1) /\ SameFM(z, k1) /\ (RunsOn(z) => RunsOn(k1))
               /\ (k1.cont = z.cont \/ k1.cont[t] = "run")
<1> DEFINE k0 == [z EXCEPT !.csFunction[t] = 0]
           k1 == DoCsFunction(z, t)
<1>1. z \in KState
  BY DEF KInvBut
<1>2. k0 \in KState
  BY <1>1 DEF KState
<1>3. /\ k0.csFunction = [z.csFunction EXCEPT ![t] = 0]
      /\ k0.suspendCount = z.suspendCount
      /\ k0.nstate = z.nstate /\ k0.ready = z.ready
      /\ k0.resched = z.resched /\ k0.pri = z.pri /\ k0.count = z.count
      /\ k0.csCount = z.csCount
      /\ k0.heldFM = z.heldFM /\ k0.waitFM = z.waitFM /\ k0.cont = z.cont
      /\ k0.arg = z.arg /\ k0.holding = z.holding /\ k0.waiting = z.waiting
      /\ k0.current = z.current /\ k0.fault = z.fault
  BY <1>1 DEF KState
<1>4. /\ z.csFunction[t] > 0 => k1 = Suspend(k0, t, z.csFunction[t])
      /\ z.csFunction[t] = ECSExitPending => k1 = Exit(k0, t)
  BY DEF DoCsFunction, ECSExitPending
<1> HIDE DEF k0, k1
<1>5. z.csFunction[t] \in Int /\ k0.csFunction[t] = 0
      /\ \A u \in Thread : u # t => k0.csFunction[u] = z.csFunction[u]
  BY <1>1, <1>3, FieldTypes
<1>6. KInvBut(k0, t)
  BY <1>2, <1>3, <1>5 DEF KInvBut, ReadyOK, CountOK, SuspOK, HolderOK, OwnerOK,
                          ContOK, IdleOK, DeferAt
<1>7. KInv(k0)
  <2>1. DeferAt(k0, t)
    BY <1>3, <1>5 DEF DeferAt, ECSExitInProgress
  <2> QED
    BY <1>6, <2>1 DEF KInv, KInvBut, DeferOK
<1>8. CASE z.csFunction[t] > 0
  <2>1. z.csFunction[t] \in Nat \ {0}
    BY <1>5, <1>8
  <2>2. k1 = SuspendNow(k0, t, z.csFunction[t]) \/ k1 = k0
    BY <1>3, <1>4, <1>8 DEF Suspend, InCS
  <2> QED
    BY <1>3, <1>7, <2>1, <2>2, SuspendNowOK DEF SameFM, RunsOn, k1
<1>9. CASE z.csFunction[t] = ECSExitPending
  BY <1>3, <1>4, <1>6, <1>9, ExitOK DEF SameFM, RunsOn, k1
<1> QED
  BY <1>8, <1>9

\* A thread whose last suspension is taken back.
LEMMA ResumedOK ==
    ASSUME NEW z, NEW t \in Thread, KInv(z), z.suspendCount[t] < 0
    PROVE  LET k1 == Resumed([z EXCEPT !.suspendCount[t] = 0], t)
           IN  KInv(k1) /\ SameFM(z, k1) /\ (RunsOn(z) => RunsOn(k1))
               /\ k1.csCount = z.csCount /\ k1.csFunction = z.csFunction
<1> DEFINE k0 == [z EXCEPT !.suspendCount[t] = 0]
           k1 == Resumed(k0, t)
<1>1. z \in KState
  BY DEF KInv
<1>2. k0 \in KState
  <2>1. [z.suspendCount EXCEPT ![t] = 0] \in [Thread -> Int]
    BY <1>1, FieldTypes
  <2> QED
    BY <1>1, <2>1 DEF KState
<1>3. /\ k0.suspendCount = [z.suspendCount EXCEPT ![t] = 0]
      /\ k0.nstate = z.nstate /\ k0.ready = z.ready
      /\ k0.resched = z.resched /\ k0.pri = z.pri /\ k0.count = z.count
      /\ k0.csCount = z.csCount /\ k0.csFunction = z.csFunction
      /\ k0.heldFM = z.heldFM /\ k0.waitFM = z.waitFM /\ k0.cont = z.cont
      /\ k0.arg = z.arg /\ k0.holding = z.holding /\ k0.waiting = z.waiting
      /\ k0.current = z.current /\ k0.fault = z.fault
  BY <1>1 DEF KState
<1>4. k1 = IF k0.nstate[t] = "ESuspended" THEN DoReady(k0, t) ELSE k0
  BY DEF Resumed
<1> HIDE DEF k0, k1
<1>5. k0.suspendCount[t] = 0
      /\ \A u \in Thread : u # t => k0.suspendCount[u] = z.suspendCount[u]
  BY <1>1, <1>3, FieldTypes
<1>6. ReadyOK(k0)
  BY <1>3 DEF KInv, ReadyOK
<1>7. ASSUME z.nstate[t] = "ESuspended"
      PROVE  KInv(k1) /\ SameFM(z, k1) /\ (RunsOn(z) => RunsOn(k1))
             /\ k1.csCount = z.csCount /\ k1.csFunction = z.csFunction
  <2>1. k1 = DoReady(k0, t) /\ k0.nstate[t] = "ESuspended"
    BY <1>3, <1>4, <1>7
  <2>2. /\ k1 \in KState /\ ReadyOK(k1) /\ Same(k0, k1)
        /\ k1.nstate = [k0.nstate EXCEPT ![t] = "EReady"]
        /\ k0.resched => k1.resched
    BY <1>2, <1>6, <2>1, DoReadyEffect
  <2>3. k1.nstate[t] = "EReady" /\ \A u \in Thread : u # t => k1.nstate[u] = z.nstate[u]
    BY <1>1, <1>3, <2>2, FieldTypes
  <2>4. SuspOK(k1)
    BY <1>5, <2>2, <2>3 DEF KInv, SuspOK, Same
  <2>5. CountOK(k1)
    BY <1>3, <1>7, <2>2, <2>3 DEF KInv, CountOK, Same
  <2> QED
    BY <1>3, <1>7, <2>2, <2>3, <2>4, <2>5, Woken DEF Same
<1>8. ASSUME z.nstate[t] # "ESuspended"
      PROVE  KInv(k1) /\ SameFM(z, k1) /\ (RunsOn(z) => RunsOn(k1))
             /\ k1.csCount = z.csCount /\ k1.csFunction = z.csFunction
  <2>1. k1 = k0
    BY <1>3, <1>4, <1>8
  <2>2. SuspOK(k0)
    BY <1>3, <1>5, <1>8 DEF KInv, SuspOK
  <2>3. /\ CountOK(k0) /\ HolderOK(k0) /\ ContOK(k0) /\ OwnerOK(k0)
        /\ DeferOK(k0) /\ IdleOK(k0)
    BY <1>3 DEF KInv, CountOK, HolderOK, ContOK, OwnerOK, DeferOK, DeferAt, IdleOK
  <2> QED
    BY <1>2, <1>3, <1>6, <2>1, <2>2, <2>3 DEF KInv, SameFM, RunsOn
<1> QED
  BY <1>7, <1>8 DEF k0, k1

\* One suspension fewer, of those that took effect or of those deferred.
LEMMA ResumeOK ==
    ASSUME NEW z, NEW t \in Thread, KInv(z)
    PROVE  LET k1 == Resume(z, t)
           IN  KInv(k1) /\ SameFM(z, k1) /\ (RunsOn(z) => RunsOn(k1))
<1> DEFINE k0 == [z EXCEPT !.suspendCount[t] = @ + 1]
           k1 == Resume(z, t)
<1>1. z \in KState
  BY DEF KInv
<1>2. z.suspendCount[t] \in Int /\ z.csFunction[t] \in Int /\ z.suspendCount[t] =< 0
  BY <1>1, FieldTypes DEF KInv, SuspOK
<1>3. k0 \in KState
  <2>1. [z.suspendCount EXCEPT ![t] = @ + 1] \in [Thread -> Int]
    BY <1>1, FieldTypes
  <2> QED
    BY <1>1, <2>1 DEF KState
<1>4. /\ k0.suspendCount = [z.suspendCount EXCEPT ![t] = @ + 1]
      /\ k0.nstate = z.nstate /\ k0.ready = z.ready
      /\ k0.resched = z.resched /\ k0.pri = z.pri /\ k0.count = z.count
      /\ k0.csCount = z.csCount /\ k0.csFunction = z.csFunction
      /\ k0.heldFM = z.heldFM /\ k0.waitFM = z.waitFM /\ k0.cont = z.cont
      /\ k0.arg = z.arg /\ k0.holding = z.holding /\ k0.waiting = z.waiting
      /\ k0.current = z.current /\ k0.fault = z.fault
  BY <1>1 DEF KState
<1>5. k0.suspendCount[t] = z.suspendCount[t] + 1
      /\ \A u \in Thread : u # t => k0.suspendCount[u] = z.suspendCount[u]
  BY <1>1, <1>4, FieldTypes
<1>6. CASE k1 = z
  BY <1>6 DEF SameFM
<1>7. CASE z.suspendCount[t] < 0 /\ k0.suspendCount[t] = 0 /\ k1 = Resumed(k0, t)
  <2>1. k0 = [z EXCEPT !.suspendCount[t] = 0]
    <3>1. z.suspendCount[t] + 1 = 0
      BY <1>5, <1>7
    <3> QED
      BY <3>1
  <2> QED
    BY <1>7, <2>1, ResumedOK
<1>8. CASE z.suspendCount[t] < 0 /\ k0.suspendCount[t] # 0 /\ k1 = k0
  <2>1. k0.suspendCount[t] < 0 /\ k0.suspendCount[t] =< 0
    BY <1>2, <1>5, <1>8
  <2> HIDE DEF k0, k1
  <2>2. SuspOK(k0)
    BY <1>4, <1>5, <1>8, <2>1 DEF KInv, SuspOK
  <2>3. /\ CountOK(k0) /\ HolderOK(k0) /\ ContOK(k0) /\ OwnerOK(k0)
        /\ DeferOK(k0) /\ IdleOK(k0) /\ ReadyOK(k0)
    BY <1>4 DEF KInv, CountOK, HolderOK, ContOK, OwnerOK, DeferOK, DeferAt, IdleOK, ReadyOK
  <2> QED
    BY <1>3, <1>4, <1>8, <2>2, <2>3 DEF KInv, SameFM, RunsOn, k1
<1>9. CASE z.csFunction[t] > 0 /\ InCS(z, t)
           /\ k1 = [z EXCEPT !.csFunction[t] = @ - 1]
  <2> DEFINE k2 == [z EXCEPT !.csFunction[t] = @ - 1]
  <2>1. k2 \in KState
    <3>1. [z.csFunction EXCEPT ![t] = @ - 1] \in [Thread -> Int]
      BY <1>1, FieldTypes
    <3> QED
      BY <1>1, <3>1 DEF KState
  <2>2. /\ k2.suspendCount = z.suspendCount
        /\ k2.nstate = z.nstate /\ k2.ready = z.ready
        /\ k2.resched = z.resched /\ k2.pri = z.pri /\ k2.count = z.count
        /\ k2.csCount = z.csCount /\ k2.csFunction = [z.csFunction EXCEPT ![t] = @ - 1]
        /\ k2.heldFM = z.heldFM /\ k2.waitFM = z.waitFM /\ k2.cont = z.cont
        /\ k2.arg = z.arg /\ k2.holding = z.holding /\ k2.waiting = z.waiting
        /\ k2.current = z.current /\ k2.fault = z.fault
    BY <1>1 DEF KState
  <2> HIDE DEF k2, k1
  <2>3. k2.csFunction[t] = z.csFunction[t] - 1
        /\ \A u \in Thread : u # t => k2.csFunction[u] = z.csFunction[u]
    BY <1>1, <2>2, FieldTypes
  <2>4. k2.csFunction[t] >= 0 /\ k2.csFunction[t] \in Int
    BY <1>2, <1>9, <2>3
  <2>5. DeferAt(k2, t)
    BY <1>9, <2>2, <2>4 DEF KInv, DeferOK, DeferAt, ECSExitInProgress
  <2>6. DeferOK(k2)
    BY <2>2, <2>3, <2>5 DEF KInv, DeferOK, DeferAt
  <2>7. /\ CountOK(k2) /\ HolderOK(k2) /\ ContOK(k2) /\ OwnerOK(k2)
        /\ SuspOK(k2) /\ IdleOK(k2) /\ ReadyOK(k2)
    BY <2>2 DEF KInv, CountOK, HolderOK, ContOK, OwnerOK, SuspOK, IdleOK, ReadyOK
  <2> QED
    BY <1>9, <2>1, <2>2, <2>6, <2>7 DEF KInv, SameFM, RunsOn, k1, k2
<1> QED
  <2> HIDE DEF k0
  <2>1. Resume(z, t) = IF z.nstate[t] = "EDead" THEN z
            ELSE IF InCS(z, t)
            THEN IF z.csFunction[t] > 0 THEN [z EXCEPT !.csFunction[t] = @ - 1] ELSE z
            ELSE IF z.suspendCount[t] >= 0 THEN z
            ELSE IF k0.suspendCount[t] = 0 THEN Resumed(k0, t) ELSE k0
    BY DEF Resume, k0
  <2> QED
    BY <1>2, <1>6, <1>7, <1>8, <1>9, <2>1

\* A change of the deferred actions of t, where that leaves nothing undone.
LEMMA CsFunctionOK ==
    ASSUME NEW z, NEW k1, NEW t \in Thread, NEW c \in Int, NEW f \in Int, KInv(z),
           k1 = [z EXCEPT !.csCount[t] = c, !.csFunction[t] = f],
           c >= 0, f >= ECSExitInProgress, f = ECSExitInProgress => c > 0,
           f # 0 => c > 0 \/ (z.heldFM[t] # Null /\ z.waiting[z.heldFM[t]])
    PROVE  KInv(k1) /\ SameFM(z, k1) /\ (RunsOn(z) => RunsOn(k1))
<1>1. z \in KState
  BY DEF KInv
<1>2. k1 \in KState
  <2>1. /\ [z.csCount EXCEPT ![t] = c] \in [Thread -> Int]
        /\ [z.csFunction EXCEPT ![t] = f] \in [Thread -> Int]
    BY <1>1, FieldTypes
  <2> QED
    BY <1>1, <2>1 DEF KState
<1>3. /\ k1.suspendCount = z.suspendCount
      /\ k1.nstate = z.nstate /\ k1.ready = z.ready
      /\ k1.resched = z.resched /\ k1.pri = z.pri /\ k1.count = z.count
      /\ k1.csCount = [z.csCount EXCEPT ![t] = c]
      /\ k1.csFunction = [z.csFunction EXCEPT ![t] = f]
      /\ k1.heldFM = z.heldFM /\ k1.waitFM = z.waitFM /\ k1.cont = z.cont
      /\ k1.arg = z.arg /\ k1.holding = z.holding /\ k1.waiting = z.waiting
      /\ k1.current = z.current /\ k1.fault = z.fault
  BY <1>1 DEF KState
<1>4. /\ k1.csCount[t] = c /\ k1.csFunction[t] = f
      /\ \A u \in Thread : u # t => /\ k1.csCount[u] = z.csCount[u]
                                    /\ k1.csFunction[u] = z.csFunction[u]
  BY <1>1, <1>3, FieldTypes
<1>5. DeferOK(k1)
  <2>1. DeferAt(k1, t)
    BY <1>3, <1>4 DEF DeferAt
  <2>2. \A u \in Thread \ {t} : DeferAt(k1, u)
    BY <1>3, <1>4 DEF KInv, DeferOK, DeferAt
  <2> QED
    BY <1>3, <2>1, <2>2 DEF KInv, DeferOK
<1>6. /\ ReadyOK(k1) /\ CountOK(k1) /\ SuspOK(k1) /\ HolderOK(k1)
      /\ OwnerOK(k1) /\ ContOK(k1) /\ IdleOK(k1)
  BY <1>3 DEF KInv, ReadyOK, CountOK, SuspOK, HolderOK, OwnerOK, ContOK, IdleOK
<1> QED
  BY <1>2, <1>3, <1>5, <1>6 DEF KInv, SameFM, RunsOn

\* NThreadBase::ForceResume takes back all suspensions, deferred or not.
LEMMA ForceResumeOK ==
    ASSUME NEW z, NEW t \in Thread, KInv(z)
    PROVE  LET k1 == ForceResume(z, t)
           IN  KInv(k1) /\ SameFM(z, k1) /\ (RunsOn(z) => RunsOn(k1))
               /\ k1.csCount = z.csCount
<1> DEFINE k1 == ForceResume(z, t)
<1>1. z \in KState
  BY DEF KInv
<1>2. CASE k1 = z
  BY <1>2 DEF SameFM
<1>3. CASE z.suspendCount[t] < 0 /\ k1 = Resumed([z EXCEPT !.suspendCount[t] = 0], t)
  BY <1>3, ResumedOK
<1>4. CASE InCS(z, t) /\ k1 = [z EXCEPT !.csFunction[t] = 0]
  <2>1. z.csCount[t] \in Int /\ z.csCount[t] >= 0
    BY <1>1, FieldTypes DEF KInv, DeferOK, DeferAt
  <2>2. k1 = [z EXCEPT !.csCount[t] = z.csCount[t], !.csFunction[t] = 0]
    <3>1. z = [z EXCEPT !.csCount[t] = z.csCount[t]]
      <4>1. [z.csCount EXCEPT ![t] = z.csCount[t]] = z.csCount
        BY <1>1, FieldTypes
      <4> QED
        BY <1>1, <4>1 DEF KState
    <3> QED
      BY <1>4, <3>1
  <2>3. KInv(k1) /\ SameFM(z, k1) /\ (RunsOn(z) => RunsOn(k1))
    <3>1. 0 >= ECSExitInProgress /\ 0 # ECSExitInProgress
      BY DEF ECSExitInProgress
    <3>2. PICK c \in Int : c = z.csCount[t]
      BY <2>1
    <3>3. c >= 0 /\ k1 = [z EXCEPT !.csCount[t] = c, !.csFunction[t] = 0]
      BY <2>1, <2>2, <3>2
    <3> HIDE DEF k1
    <3>4. \A f \in Int : f = 0 => f >= ECSExitInProgress /\ f # ECSExitInProgress
      BY <3>1
    <3>5. PICK f \in Int : f = 0
      OBVIOUS
    <3>6. k1 = [z EXCEPT !.csCount[t] = c, !.csFunction[t] = f]
      BY <3>3, <3>5
    <3> QED
      BY <3>3, <3>4, <3>5, <3>6, CsFunctionOK
  <2>4. k1.csCount = z.csCount
    BY <1>1, <1>4 DEF KState
  <2> QED
    BY <2>3, <2>4
<1> QED
  BY <1>2, <1>3, <1>4 DEF ForceResume

\* NThreadBase::Kill: the exit is deferred, or the thread is woken, stops
\* waiting for a fast mutex, and is diverted to its forced exit.
LEMMA KillOK ==
    ASSUME NEW z, NEW t \in Thread \ {NullThread}, KInv(z)
    PROVE  LET k1 == Kill(z, t)
           IN  /\ KInv(k1) /\ (RunsOn(z) => RunsOn(k1))
               /\ k1.heldFM = z.heldFM /\ k1.holding = z.holding
               /\ k1.current = z.current
               /\ \/ k1.waitFM = z.waitFM
                  \/ k1.waitFM = [z.waitFM EXCEPT ![t] = Null]
<1> DEFINE k2 == Release(z, t, KErrDied)
           k3 == ForceResume(k2, t)
           k1 == Kill(z, t)
<1>1. z \in KState
  BY DEF KInv
<1>2. CASE k1 = z
  BY <1>2
<1>3. CASE InCS(z, t) /\ k1 = FlagHeld([z EXCEPT !.csFunction[t] = ECSExitPending], t)
  <2>1. /\ ECSExitPending \in Int /\ ECSExitPending >= ECSExitInProgress
        /\ ECSExitPending # ECSExitInProgress
    BY DEF ECSExitPending, ECSExitInProgress
  <2>2. KInv(k1) /\ SameFM(z, k1) /\ (RunsOn(z) => RunsOn(k1))
    BY <1>3, <2>1, FlagHeldOK
  <2> QED
    BY <2>2 DEF SameFM
<1>4. CASE ~InCS(z, t)
  <2>1. KErrDied \in Int
    BY DEF KErrDied
  <2>2. /\ KInv(k2) /\ SameFM(z, k2) /\ (RunsOn(z) => RunsOn(k2))
        /\ k2.csCount = z.csCount /\ k2.csFunction = z.csFunction
    BY <2>1, ReleaseOK
  <2> HIDE DEF k2
  <2>3. /\ KInv(k3) /\ SameFM(k2, k3) /\ (RunsOn(k2) => RunsOn(k3))
    BY <2>2, ForceResumeOK
  <2>4. k1 = [k3 EXCEPT !.waitFM[t] = Null, !.csCount[t] = 1,
                        !.csFunction[t] = ECSExitPending, !.cont[t] = "ForcedExit"]
    BY <1>4 DEF Kill, k2
  <2>5. k3 \in KState /\ SameFM(z, k3) /\ (RunsOn(z) => RunsOn(k3))
    BY <2>2, <2>3 DEF KInv, SameFM
  <2> HIDE DEF k3, k1
  <2>6. k1 \in KState
    <3>1. /\ [k3.csCount EXCEPT ![t] = 1] \in [Thread -> Int]
          /\ [k3.csFunction EXCEPT ![t] = ECSExitPending] \in [Thread -> Int]
          /\ [k3.cont EXCEPT ![t] = "ForcedExit"] \in [Thread -> Cont]
          /\ [k3.waitFM EXCEPT ![t] = Null] \in [Thread -> Mutex \cup {Null}]
      BY <2>5, FieldTypes DEF ECSExitPending, Cont
    <3> QED
      BY <2>4, <2>5, <3>1 DEF KState
  <2>7. /\ k1.suspendCount = k3.suspendCount
        /\ k1.nstate = k3.nstate /\ k1.ready = k3.ready
        /\ k1.resched = k3.resched /\ k1.pri = k3.pri /\ k1.count = k3.count
        /\ k1.csCount = [k3.csCount EXCEPT ![t] = 1]
        /\ k1.csFunction = [k3.csFunction EXCEPT ![t] = ECSExitPending]
        /\ k1.heldFM = k3.heldFM /\ k1.waitFM = [k3.waitFM EXCEPT ![t] = Null]
        /\ k1.cont = [k3.cont EXCEPT ![t] = "ForcedExit"]
        /\ k1.arg = k3.arg /\ k1.holding = k3.holding /\ k1.waiting = k3.waiting
        /\ k1.current = k3.current /\ k1.fault = k3.fault
    BY <2>4, <2>5 DEF KState
  <2>8. /\ k1.csCount[t] = 1 /\ k1.csFunction[t] = ECSExitPending
        /\ k1.waitFM[t] = Null /\ k1.cont[t] = "ForcedExit"
        /\ \A u \in Thread : u # t => /\ k1.csCount[u] = k3.csCount[u]
                                      /\ k1.csFunction[u] = k3.csFunction[u]
                                      /\ k1.waitFM[u] = k3.waitFM[u]
                                      /\ k1.cont[u] = k3.cont[u]
    BY SMTT(30), <2>5, <2>7, FieldTypes
  <2>9. k3.heldFM[t] = Null
    BY <1>4, <2>5 DEF InCS, SameFM
  <2>10. ReadyOK(k1) /\ CountOK(k1) /\ SuspOK(k1) /\ HolderOK(k1)
    BY <2>3, <2>7 DEF KInv, ReadyOK, CountOK, SuspOK, HolderOK
  <2>11. OwnerOK(k1) /\ ContOK(k1) /\ IdleOK(k1)
    BY <2>3, <2>7, <2>8, <2>9, ThreadAssumption DEF KInv, OwnerOK, ContOK, IdleOK
  <2>12. DeferOK(k1)
    <3>1. DeferAt(k1, t)
      BY <2>8 DEF DeferAt, ECSExitPending, ECSExitInProgress
    <3>2. \A u \in Thread \ {t} : DeferAt(k1, u)
      BY <2>3, <2>7, <2>8 DEF KInv, DeferOK, DeferAt
    <3> QED
      BY <2>3, <2>7, <3>1, <3>2 DEF KInv, DeferOK
  <2>13. RunsOn(z) => RunsOn(k1)
    <3>1. k3.current \in Thread
      BY <2>5, FieldTypes
    <3> QED
      BY <2>5, <2>7, <2>8, <3>1 DEF RunsOn
  <2> QED
    BY <2>5, <2>6, <2>7, <2>10, <2>11, <2>12, <2>13 DEF KInv, SameFM, k1
<1> QED
  BY <1>2, <1>3, <1>4 DEF Kill

-----------------------------------------------------------------------------
\* Fast mutexes

\* A thread that can run takes a free mutex.
LEMMA FMTakeOK ==
    ASSUME NEW z, NEW t \in Thread \ {NullThread}, NEW m \in Mutex, KInv(z), RunsOn(z),
           z.nstate[t] = "EReady", z.heldFM[t] = Null, z.holding[m] = Null, z.current = t
    PROVE  LET k1 == FMTake(z, t, m)
           IN  /\ KInv(k1) /\ RunsOn(k1)
               /\ k1.holding = [z.holding EXCEPT ![m] = t]
               /\ k1.waitFM = [z.waitFM EXCEPT ![t] = Null]
               /\ k1.cont[t] = "run" /\ k1.current = t
<1> DEFINE k1 == FMTake(z, t, m)
<1>1. z \in KState
  BY DEF KInv
<1>2. k1 = [z EXCEPT !.waitFM[t] = Null, !.heldFM[t] = m, !.holding[m] = t,
                     !.cont[t] = "run"]
  BY DEF FMTake
<1> HIDE DEF k1
<1>3. k1 \in KState
  <2>1. /\ [z.waitFM EXCEPT ![t] = Null] \in [Thread -> Mutex \cup {Null}]
        /\ [z.heldFM EXCEPT ![t] = m] \in [Thread -> Mutex \cup {Null}]
        /\ [z.holding EXCEPT ![m] = t] \in [Mutex -> Thread \cup {Null}]
        /\ [z.cont EXCEPT ![t] = "run"] \in [Thread -> Cont]
    BY <1>1, FieldTypes DEF Cont
  <2> QED
    BY <1>1, <1>2, <2>1 DEF KState
<1>4. /\ k1.suspendCount = z.suspendCount
      /\ k1.nstate = z.nstate /\ k1.ready = z.ready
      /\ k1.resched = z.resched /\ k1.pri = z.pri /\ k1.count = z.count
      /\ k1.csCount = z.csCount /\ k1.csFunction = z.csFunction
      /\ k1.heldFM = [z.heldFM EXCEPT ![t] = m]
      /\ k1.waitFM = [z.waitFM EXCEPT ![t] = Null]
      /\ k1.cont = [z.cont EXCEPT ![t] = "run"]
      /\ k1.arg = z.arg /\ k1.holding = [z.holding EXCEPT ![m] = t]
      /\ k1.waiting = z.waiting /\ k1.current = z.current /\ k1.fault = z.fault
  BY <1>1, <1>2 DEF KState
<1>5. /\ k1.heldFM[t] = m /\ k1.waitFM[t] = Null /\ k1.cont[t] = "run" /\ k1.holding[m] = t
      /\ \A u \in Thread : u # t => /\ k1.heldFM[u] = z.heldFM[u]
                                    /\ k1.waitFM[u] = z.waitFM[u]
                                    /\ k1.cont[u] = z.cont[u]
      /\ \A n \in Mutex : n # m => k1.holding[n] = z.holding[n]
  BY <1>1, <1>4, FieldTypes
<1>6. ReadyOK(k1) /\ CountOK(k1) /\ SuspOK(k1)
  BY <1>4 DEF KInv, ReadyOK, CountOK, SuspOK
<1>7. HolderOK(k1)
  <2> SUFFICES ASSUME NEW u \in Thread, NEW n \in Mutex
               PROVE  k1.holding[n] = u <=> k1.heldFM[u] = n
    BY DEF HolderOK
  <2>1. /\ z.holding[n] = u <=> z.heldFM[u] = n
        /\ z.holding[m] = u <=> z.heldFM[u] = m
        /\ z.holding[n] = t <=> z.heldFM[t] = n
    BY DEF KInv, HolderOK
  <2>2. u # Null /\ n # Null /\ t # Null
    BY ThreadAssumption
  <2> QED
    BY <1>5, <2>1, <2>2
<1>8. OwnerOK(k1) /\ ContOK(k1) /\ IdleOK(k1)
  BY <1>4, <1>5, ThreadAssumption DEF KInv, OwnerOK, ContOK, IdleOK
<1>9. DeferOK(k1)
  BY <1>4, <1>5 DEF KInv, DeferOK, DeferAt
<1>10. RunsOn(k1)
  BY <1>4, <1>5 DEF RunsOn
<1> QED
  BY <1>3, <1>4, <1>5, <1>6, <1>7, <1>8, <1>9, <1>10 DEF KInv, k1

\* NFastMutex::Wait takes the mutex, or notes what the thread waits for.
LEMMA FMWaitOK ==
    ASSUME NEW z, NEW t \in Thread \ {NullThread}, NEW m \in Mutex, KInv(z), RunsOn(z),
           z.nstate[t] = "EReady", z.heldFM[t] = Null, z.waitFM[t] = Null, z.current = t
    PROVE  LET k1 == FMWait(z, t, m)
           IN  /\ KInv(k1) /\ RunsOn(k1) /\ k1.current = t
               /\ k1.cont[t] \in {"run", "FMWait"}
               /\ IF z.holding[m] = Null
                  THEN /\ k1.holding = [z.holding EXCEPT ![m] = t]
                       /\ k1.waitFM = [z.waitFM EXCEPT ![t] = Null]
                  ELSE /\ k1.holding = z.holding
                       /\ k1.waitFM = [z.waitFM EXCEPT ![t] = m]
<1> DEFINE k1 == FMWait(z, t, m)
<1>1. z \in KState
  BY DEF KInv
<1>2. CASE z.holding[m] = Null
  BY <1>2, FMTakeOK DEF FMWait
<1>3. CASE z.holding[m] # Null
  <2>1. k1 = [z EXCEPT !.waiting[m] = TRUE, !.waitFM[t] = m, !.cont[t] = "FMWait",
                       !.resched = TRUE]
    BY <1>3 DEF FMWait
  <2> HIDE DEF k1
  <2>2. k1 \in KState
    <3>1. /\ [z.waitFM EXCEPT ![t] = m] \in [Thread -> Mutex \cup {Null}]
          /\ [z.waiting EXCEPT ![m] = TRUE] \in [Mutex -> BOOLEAN]
          /\ [z.cont EXCEPT ![t] = "FMWait"] \in [Thread -> Cont]
      BY <1>1, FieldTypes DEF Cont
    <3> QED
      BY <1>1, <2>1, <3>1 DEF KState
  <2>3. /\ k1.suspendCount = z.suspendCount
        /\ k1.nstate = z.nstate /\ k1.ready = z.ready
        /\ k1.resched /\ k1.pri = z.pri /\ k1.count = z.count
        /\ k1.csCount = z.csCount /\ k1.csFunction = z.csFunction
        /\ k1.heldFM = z.heldFM
        /\ k1.waitFM = [z.waitFM EXCEPT ![t] = m]
        /\ k1.cont = [z.cont EXCEPT ![t] = "FMWait"]
        /\ k1.arg = z.arg /\ k1.holding = z.holding
        /\ k1.waiting = [z.waiting EXCEPT ![m] = TRUE]
        /\ k1.current = z.current /\ k1.fault = z.fault
    BY <1>1, <2>1 DEF KState
  <2>4. /\ k1.waitFM[t] = m /\ k1.cont[t] = "FMWait"
        /\ \A u \in Thread : u # t => /\ k1.waitFM[u] = z.waitFM[u]
                                      /\ k1.cont[u] = z.cont[u]
        /\ \A n \in Mutex : z.waiting[n] => k1.waiting[n]
    BY <1>1, <2>3, FieldTypes
  <2>5. ReadyOK(k1) /\ CountOK(k1) /\ SuspOK(k1) /\ HolderOK(k1)
    BY <2>3 DEF KInv, ReadyOK, CountOK, SuspOK, HolderOK
  <2>6. OwnerOK(k1) /\ ContOK(k1) /\ IdleOK(k1)
    BY <2>3, <2>4, ThreadAssumption DEF KInv, OwnerOK, ContOK, IdleOK
  <2>7. DeferOK(k1)
    <3>1. \A u \in Thread : z.heldFM[u] # Null => z.heldFM[u] \in Mutex
      BY <1>1, FieldTypes
    <3> QED
      BY <2>3, <2>4, <3>1 DEF KInv, DeferOK, DeferAt
  <2> QED
    BY <1>3, <2>2, <2>3, <2>4, <2>5, <2>6, <2>7 DEF KInv, RunsOn, k1
<1> QED
  BY <1>2, <1>3

\* The holder t of mutex m gives it up.
GivesUp(z, k1, t, m) ==
    /\ z.heldFM[t] = m
    /\ k1.holding = [z.holding EXCEPT ![m] = Null]
    /\ k1.heldFM = [z.heldFM EXCEPT ![t] = Null]
    /\ k1.waiting = [z.waiting EXCEPT ![m] = FALSE]
    /\ k1.ready = z.ready /\ k1.nstate = z.nstate /\ k1.pri = z.pri
    /\ k1.suspendCount = z.suspendCount /\ k1.count = z.count
    /\ k1.csFunction = z.csFunction /\ k1.waitFM = z.waitFM /\ k1.cont = z.cont
    /\ k1.csCount = [z.csCount EXCEPT ![t] = k1.csCount[t]]
    /\ k1.arg = z.arg /\ k1.fault = z.fault /\ k1.current = z.current
    /\ z.resched => k1.resched

\* What was deferred while it held the mutex is still to be done.
LEMMA GiveUp ==
    ASSUME NEW z, NEW k1 \in KState, NEW t \in Thread, NEW m \in Mutex, KInv(z),
           GivesUp(z, k1, t, m)
    PROVE  /\ t # NullThread /\ KInvBut(k1, t) /\ (RunsOn(z) => RunsOn(k1))
           /\ k1.heldFM[t] = Null /\ k1.waitFM[t] = Null /\ k1.cont[t] = "run"
           /\ k1.nstate[t] = "EReady"
           /\ z.csFunction[t] # 0 /\ ~z.waiting[m] => z.csCount[t] > 0
<1> USE DEF GivesUp
<1>1. z \in KState
  BY DEF KInv
<1>2. m # Null
  BY ThreadAssumption
<1>3. t # NullThread
  BY <1>2 DEF KInv, IdleOK
<1>4. /\ k1.heldFM[t] = Null /\ k1.holding[m] = Null
      /\ \A u \in Thread : u # t => /\ k1.heldFM[u] = z.heldFM[u]
                                    /\ k1.csCount[u] = z.csCount[u]
      /\ \A n \in Mutex : n # m => k1.holding[n] = z.holding[n] /\ k1.waiting[n] = z.waiting[n]
  BY SMTT(30), <1>1, FieldTypes
<1>5. z.waitFM[t] = Null /\ z.cont[t] = "run" /\ z.nstate[t] = "EReady"
  BY <1>2 DEF KInv, OwnerOK
<1>6. ReadyOK(k1) /\ CountOK(k1) /\ SuspOK(k1) /\ ContOK(k1)
  BY DEF KInv, ReadyOK, CountOK, SuspOK, ContOK
<1>7. HolderOK(k1)
  <2> SUFFICES ASSUME NEW u \in Thread, NEW n \in Mutex
               PROVE  k1.holding[n] = u <=> k1.heldFM[u] = n
    BY DEF HolderOK
  <2>1. /\ z.holding[n] = u <=> z.heldFM[u] = n
        /\ z.holding[m] = u <=> z.heldFM[u] = m
        /\ z.holding[n] = t <=> z.heldFM[t] = n
        /\ z.holding[m] = t <=> z.heldFM[t] = m
    BY DEF KInv, HolderOK
  <2>2. u # Null /\ n # Null /\ t # Null
    BY ThreadAssumption
  <2> QED
    BY <1>4, <2>1, <2>2
<1>8. OwnerOK(k1) /\ IdleOK(k1)
  BY <1>4, <1>3 DEF KInv, OwnerOK, IdleOK
<1>9. \A u \in Thread \ {t} : DeferAt(k1, u)
  <2> SUFFICES ASSUME NEW u \in Thread \ {t}
               PROVE  DeferAt(k1, u)
    OBVIOUS
  <2>1. DeferAt(z, u)
    BY DEF KInv, DeferOK
  <2>2. z.heldFM[u] # m
    BY <1>2 DEF KInv, HolderOK
  <2>3. z.heldFM[u] # Null => z.heldFM[u] \in Mutex
    BY <1>1, FieldTypes
  <2> QED
    BY <1>4, <2>1, <2>2, <2>3 DEF DeferAt
<1>10. RunsOn(z) => RunsOn(k1)
  <2>1. \A n \in Mutex : z.holding[n] = Null => k1.holding[n] = Null
    BY <1>4
  <2>2. z.cont[z.current] = "FMWait" => z.waitFM[z.current] \in Mutex
    BY <1>1, FieldTypes DEF KInv, ContOK
  <2> QED
    BY <2>1, <2>2 DEF RunsOn
<1>11. z.csFunction[t] # 0 /\ ~z.waiting[m] => z.csCount[t] > 0
  BY DEF KInv, DeferOK, DeferAt
<1> QED
  BY <1>3, <1>4, <1>5, <1>6, <1>7, <1>8, <1>9, <1>10, <1>11 DEF KInv, KInvBut, DeferOK

\* NFastMutex::Signal frees the mutex and acts on what was deferred.
LEMMA FMSignalOK ==
    ASSUME NEW z, NEW t \in Thread, NEW m \in Mutex, KInv(z), z.heldFM[t] = m
    PROVE  LET k1 == FMSignal(z, t, m)
           IN  /\ KInv(k1) /\ (RunsOn(z) => RunsOn(k1)) /\ t # NullThread
               /\ k1.holding = [z.holding EXCEPT ![m] = Null]
               /\ k1.heldFM[t] = Null /\ k1.waitFM = z.waitFM /\ k1.waitFM[t] = Null
               /\ k1.current = z.current /\ k1.cont[t] = "run"
<1> DEFINE r == z.resched \/ z.waiting[m]
           k0 == [z EXCEPT !.holding[m] = Null, !.heldFM[t] = Null,
                           !.waiting[m] = FALSE, !.resched = r]
           act == z.waiting[m] /\ z.csFunction[t] # 0 /\ z.csCount[t] = 0
           k1 == FMSignal(z, t, m)
<1>1. z \in KState
  BY DEF KInv
<1>2. k1 = IF act THEN DoCsFunction(k0, t) ELSE k0
  BY DEF FMSignal
<1>3. r \in BOOLEAN
  BY <1>1, FieldTypes
<1> HIDE DEF r
<1>4. k0 \in KState
  <2>1. /\ [z.heldFM EXCEPT ![t] = Null] \in [Thread -> Mutex \cup {Null}]
        /\ [z.holding EXCEPT ![m] = Null] \in [Mutex -> Thread \cup {Null}]
        /\ [z.waiting EXCEPT ![m] = FALSE] \in [Mutex -> BOOLEAN]
    BY <1>1, FieldTypes
  <2> QED
    BY <1>1, <1>3, <2>1 DEF KState
<1>5. /\ k0.suspendCount = z.suspendCount
      /\ k0.nstate = z.nstate /\ k0.ready = z.ready
      /\ k0.resched = r /\ k0.pri = z.pri /\ k0.count = z.count
      /\ k0.csCount = z.csCount /\ k0.csFunction = z.csFunction
      /\ k0.heldFM = [z.heldFM EXCEPT ![t] = Null]
      /\ k0.waitFM = z.waitFM /\ k0.cont = z.cont
      /\ k0.arg = z.arg /\ k0.holding = [z.holding EXCEPT ![m] = Null]
      /\ k0.waiting = [z.waiting EXCEPT ![m] = FALSE]
      /\ k0.current = z.current /\ k0.fault = z.fault
  BY <1>1 DEF KState
<1>6. z.resched => k0.resched
  BY <1>5 DEF r
<1>7. k0.csCount = [z.csCount EXCEPT ![t] = k0.csCount[t]]
  BY ZenonT(60), <1>1, <1>5, FieldTypes
<1> HIDE DEF k0, k1
<1>8. /\ t # NullThread /\ KInvBut(k0, t) /\ (RunsOn(z) => RunsOn(k0))
      /\ k0.heldFM[t] = Null /\ k0.waitFM[t] = Null /\ k0.cont[t] = "run"
      /\ z.csFunction[t] # 0 /\ ~z.waiting[m] => z.csCount[t] > 0
  <2>1. GivesUp(z, k0, t, m)
    BY <1>5, <1>6, <1>7 DEF GivesUp
  <2> QED
    BY ZenonT(60), <1>4, <2>1, GiveUp
<1>9. DeferAt(z, t) /\ z.csFunction[t] \in Int /\ z.csCount[t] \in Int
  BY <1>1, FieldTypes DEF KInv, DeferOK
<1>10. CASE act
  <2>1. k0.csFunction[t] > 0 \/ k0.csFunction[t] = ECSExitPending
    BY <1>5, <1>9, <1>10 DEF DeferAt, ECSExitPending, ECSExitInProgress
  <2>2. k1 = DoCsFunction(k0, t) /\ k0.csCount[t] = 0
    BY <1>2, <1>5, <1>10
  <2>3. /\ KInv(k1) /\ SameFM(k0, k1) /\ (RunsOn(k0) => RunsOn(k1))
        /\ (k1.cont = k0.cont \/ k1.cont[t] = "run")
    BY <1>8, <2>1, <2>2, DoCsFunctionOK
  <2> QED
    BY <1>5, <1>8, <2>3 DEF SameFM, k1
<1>11. CASE ~act
  <2>1. k1 = k0
    BY <1>2, <1>11
  <2>2. z.csFunction[t] # 0 => z.csCount[t] > 0
    BY <1>8, <1>9, <1>11 DEF DeferAt
  <2>3. DeferAt(k0, t)
    BY <1>5, <1>9, <2>2 DEF DeferAt
  <2>4. KInv(k0)
    BY <1>8, <2>3 DEF KInv, KInvBut, DeferOK
  <2> QED
    BY <1>5, <1>8, <2>1, <2>4 DEF k1
<1> QED
  BY <1>10, <1>11

-----------------------------------------------------------------------------
\* Priorities and the choice of the next thread

\* TPriListBase::ChangePriority moves a ready thread to another queue.
LEMMA ChangePriorityEffect ==
    ASSUME NEW z \in KState, NEW t \in Thread, NEW p \in Pri, ReadyOK(z),
           z.nstate[t] = "EReady", p # z.pri[t]
    PROVE  LET k1 == ChangePriority(z, t, p)
           IN  /\ k1 \in KState /\ ReadyOK(k1)
               /\ k1.nstate = z.nstate /\ k1.resched = z.resched /\ k1.time = z.time
               /\ Same([z EXCEPT !.pri = k1.pri], k1)
<1> DEFINE o == z.pri[t]
           k0 == PriListRemove(z, t)
           k2 == [k0 EXCEPT !.pri[t] = p]
           k1 == ChangePriority(z, t, p)
<1>1. /\ o \in Pri /\ Inj(z.ready[o]) /\ t \in Range(z.ready[o]) /\ z.ready[o] \in Seq(Thread)
      /\ Inj(z.ready[p]) /\ t \notin Range(z.ready[p]) /\ z.ready[p] \in Seq(Thread)
  BY FieldTypes DEF ReadyOK
<1>2. /\ Without(z.ready[o], t) \in Seq(Thread) /\ Inj(Without(z.ready[o], t))
      /\ Range(Without(z.ready[o], t)) = Range(z.ready[o]) \ {t}
  BY <1>1, WithoutQueue
<1>3. k0 = [z EXCEPT !.ready[o] = Without(z.ready[o], t)]
  BY DEF PriListRemove
<1>4. k0 \in KState
  <2>1. [z.ready EXCEPT ![o] = Without(z.ready[o], t)] \in [Pri -> Seq(Thread)]
    BY <1>1, <1>2, FieldTypes
  <2> QED
    BY <1>3, <2>1 DEF KState
<1>5. /\ k0.ready = [z.ready EXCEPT ![o] = Without(z.ready[o], t)]
      /\ Same(z, k0) /\ k0.nstate = z.nstate /\ k0.resched = z.resched /\ k0.time = z.time
  BY <1>3 DEF KState, Same
<1> HIDE DEF k0
<1>6. k2 \in KState
  <2>1. [k0.pri EXCEPT ![t] = p] \in [Thread -> Pri]
    BY <1>4, FieldTypes
  <2> QED
    BY <1>4, <2>1 DEF KState
<1>7. /\ k2.ready = k0.ready /\ k2.nstate = k0.nstate /\ k2.resched = k0.resched
      /\ k2.pri = [k0.pri EXCEPT ![t] = p] /\ k2.time = k0.time
      /\ k2.suspendCount = k0.suspendCount
      /\ k2.csCount = k0.csCount /\ k2.csFunction = k0.csFunction
      /\ k2.heldFM = k0.heldFM /\ k2.waitFM = k0.waitFM
      /\ k2.count = k0.count /\ k2.cont = k0.cont /\ k2.arg = k0.arg
      /\ k2.holding = k0.holding /\ k2.waiting = k0.waiting
      /\ k2.current = k0.current /\ k2.fault = k0.fault
  BY <1>4 DEF KState
<1> HIDE DEF k2
<1>8. k2.pri[t] = p /\ k2.ready[p] = z.ready[p]
      /\ \A u \in Thread : u # t => k2.pri[u] = z.pri[u]
  BY SMTT(30), <1>1, <1>4, <1>5, <1>7, FieldTypes DEF Same
<1>9. k1 = [k2 EXCEPT !.ready[p] = Append(@, t)]
  BY <1>8 DEF ChangePriority, Add, k2, k0
<1>10. /\ Append(k2.ready[p], t) \in Seq(Thread) /\ Inj(Append(k2.ready[p], t))
       /\ Range(Append(k2.ready[p], t)) = Range(z.ready[p]) \cup {t}
  BY <1>1, <1>8, AppendQueue
<1> HIDE DEF k1
<1>11. k1 \in KState
  BY <1>6, <1>9, <1>10 DEF KState
<1>12. /\ k1.ready = [k2.ready EXCEPT ![p] = Append(@, t)]
       /\ Same(k2, k1) /\ k1.nstate = k2.nstate /\ k1.resched = k2.resched
       /\ k1.time = k2.time
  BY <1>6, <1>9 DEF KState, Same
<1>13. ReadyOK(k1)
  <2>1. k1.ready[p] = Append(k2.ready[p], t) /\ k1.ready[o] = Without(z.ready[o], t)
    <3>1. z.ready \in [Pri -> Seq(Thread)] /\ k0.ready \in [Pri -> Seq(Thread)] /\ o # p
      BY <1>4, FieldTypes
    <3> HIDE DEF o
    <3>2. k2.ready = [z.ready EXCEPT ![o] = Without(z.ready[o], t)]
      BY <1>5, <1>7
    <3> QED
      BY <1>1, <1>12, <3>1, <3>2
  <2>2. \A q \in Pri \ {p, o} : k1.ready[q] = z.ready[q]
    BY SMTT(30), <1>5, <1>6, <1>7, <1>12, FieldTypes
  <2>3. k1.nstate = z.nstate /\ k1.pri = k2.pri
    BY <1>5, <1>7, <1>12 DEF Same
  <2> SUFFICES ASSUME NEW q \in Pri
               PROVE  /\ Inj(k1.ready[q])
                      /\ \A u \in Thread : u \in Range(k1.ready[q]) <=>
                             k1.nstate[u] = "EReady" /\ k1.pri[u] = q
    BY DEF ReadyOK
  <2>4. CASE q = p
    <3>1. \A u \in Thread : u \in Range(z.ready[p]) <=> z.nstate[u] = "EReady" /\ z.pri[u] = p
      BY DEF ReadyOK
    <3>2. Inj(k1.ready[p]) /\ Range(k1.ready[p]) = Range(z.ready[p]) \cup {t}
      BY <1>10, <2>1
    <3>3. ASSUME NEW u \in Thread
          PROVE  u \in Range(k1.ready[p]) <=> k1.nstate[u] = "EReady" /\ k1.pri[u] = p
      <4>1. CASE u = t
        BY <1>8, <2>3, <3>2, <4>1
      <4>2. CASE u # t
        BY <1>8, <2>3, <3>1, <3>2, <4>2
      <4> QED
        BY <4>1, <4>2
    <3> QED
      BY <2>4, <3>2, <3>3
  <2>5. CASE q = o
    BY <1>1, <1>2, <1>8, <2>1, <2>3, <2>5 DEF ReadyOK
  <2>6. CASE q \notin {p, o}
    BY <1>8, <2>2, <2>3, <2>6 DEF ReadyOK
  <2> QED
    BY <2>4, <2>5, <2>6
<1>14. Same([z EXCEPT !.pri = k1.pri], k1)
  BY <1>5, <1>7, <1>12 DEF KState, Same
<1> QED
  BY <1>5, <1>7, <1>11, <1>12, <1>13, <1>14 DEF k1

\* NThreadBase::SetPriority keeps the ready list right, whether or not it asks
\* for a reschedule or defers one.
LEMMA SetPriorityOK ==
    ASSUME NEW z, NEW t \in Thread, NEW p \in Pri, KInv(z)
    PROVE  LET k1 == SetPriority(z, t, p)
           IN  KInv(k1) /\ SameFM(z, k1) /\ (RunsOn(z) => RunsOn(k1))
<1> DEFINE k1 == SetPriority(z, t, p)
           Others(k2) ==
               /\ k2.nstate = z.nstate /\ k2.suspendCount = z.suspendCount
               /\ k2.csCount = z.csCount /\ k2.csFunction = z.csFunction
               /\ k2.heldFM = z.heldFM /\ k2.waitFM = z.waitFM
               /\ k2.count = z.count /\ k2.cont = z.cont /\ k2.arg = z.arg
               /\ k2.holding = z.holding /\ k2.current = z.current
               /\ k2.fault = z.fault /\ k2.resched = z.resched
               /\ k2.waiting = z.waiting
<1>1. z \in KState
  BY DEF KInv
<1>2. ASSUME NEW k2 \in KState, ReadyOK(k2), Others(k2)
      PROVE  KInv(k2) /\ SameFM(z, k2) /\ (RunsOn(z) => RunsOn(k2))
  <2>1. /\ CountOK(k2) /\ SuspOK(k2) /\ HolderOK(k2)
        /\ OwnerOK(k2) /\ ContOK(k2) /\ IdleOK(k2) /\ DeferOK(k2)
    BY <1>2 DEF KInv, CountOK, SuspOK, HolderOK, OwnerOK, ContOK, IdleOK, DeferOK, DeferAt
  <2> QED
    BY <1>2, <2>1 DEF KInv, SameFM, RunsOn
<1>3. CASE p = z.pri[t]
  BY <1>3 DEF SetPriority, SameFM
<1>4. CASE p # z.pri[t] /\ z.nstate[t] # "EReady"
  <2>1. k1 = [z EXCEPT !.pri[t] = p]
    BY <1>4 DEF SetPriority
  <2> HIDE DEF k1
  <2>2. k1 \in KState
    BY <1>1, <2>1 DEF KState
  <2>3. Others(k1) /\ k1.ready = z.ready /\ k1.pri = [z.pri EXCEPT ![t] = p]
    BY <1>1, <2>1 DEF KState
  <2>4. \A u \in Thread : u # t => k1.pri[u] = z.pri[u]
    BY <1>1, <2>3, FieldTypes
  <2>5. ReadyOK(k1)
    BY <1>4, <2>3, <2>4 DEF KInv, ReadyOK
  <2> HIDE DEF Others
  <2> QED
    BY <1>2, <2>2, <2>3, <2>5 DEF k1
<1>5. CASE p # z.pri[t] /\ z.nstate[t] = "EReady"
  <2> DEFINE k2 == ChangePriority(z, t, p)
             d == PriorityDefers(k2, t, z.pri[t])
             r == k2.resched \/ PriorityReschedules(k2, t, z.pri[t])
  <2>1. /\ k2 \in KState /\ ReadyOK(k2) /\ k2.nstate = z.nstate /\ k2.resched = z.resched
        /\ Same([z EXCEPT !.pri = k2.pri], k2)
    BY <1>1, <1>5, ChangePriorityEffect DEF KInv
  <2>2. k1 = IF d THEN [k2 EXCEPT !.waiting[z.heldFM[z.current]] = TRUE]
                  ELSE [k2 EXCEPT !.resched = r]
    BY <1>5 DEF SetPriority
  <2>3. r \in BOOLEAN
    BY DEF PriorityReschedules
  <2>4. k2.resched => r
    OBVIOUS
  <2> HIDE DEF k2, r, k1
  <2>5. Others(k2)
    BY <1>1, <2>1 DEF Same, KState
  <2>6. KInv(k2) /\ SameFM(z, k2) /\ (RunsOn(z) => RunsOn(k2))
    <3> HIDE DEF Others
    <3> QED
      BY <1>2, <2>1, <2>5
  <2>7. CASE d
    <3>1. z.heldFM[z.current] \in Mutex
      BY <1>1, <2>5, <2>7, FieldTypes DEF PriorityDefers
    <3>2. k1 = [k2 EXCEPT !.waiting[z.heldFM[z.current]] = TRUE]
      BY <2>2, <2>7
    <3>3. k1 \in KState
      BY <2>1, <3>1, <3>2 DEF KState
    <3>4. /\ k1.ready = k2.ready /\ k1.nstate = k2.nstate /\ k1.pri = k2.pri
          /\ k1.suspendCount = k2.suspendCount /\ k1.count = k2.count
          /\ k1.csCount = k2.csCount /\ k1.csFunction = k2.csFunction
          /\ k1.heldFM = k2.heldFM /\ k1.waitFM = k2.waitFM /\ k1.cont = k2.cont
          /\ k1.arg = k2.arg /\ k1.holding = k2.holding /\ k1.fault = k2.fault
          /\ k1.current = k2.current /\ k1.resched = k2.resched
          /\ k1.waiting = [k2.waiting EXCEPT ![z.heldFM[z.current]] = TRUE]
      BY <2>1, <3>2 DEF KState
    <3>5. \A m \in Mutex : k2.waiting[m] => k1.waiting[m]
      BY <2>1, <3>4, FieldTypes
    <3>6. KInv(k1) /\ (RunsOn(k2) => RunsOn(k1))
      BY <2>6, <3>3, <3>4, <3>5, Quiet
    <3> QED
      BY <2>6, <3>4, <3>6 DEF SameFM, k1
  <2>8. CASE ~d
    <3>1. k1 = [k2 EXCEPT !.resched = r]
      BY <2>2, <2>8
    <3>2. k1 \in KState
      BY <2>1, <2>3, <3>1 DEF KState
    <3>3. /\ k1.ready = k2.ready /\ k1.nstate = k2.nstate /\ k1.pri = k2.pri
          /\ k1.suspendCount = k2.suspendCount /\ k1.count = k2.count
          /\ k1.csCount = k2.csCount /\ k1.csFunction = k2.csFunction
          /\ k1.heldFM = k2.heldFM /\ k1.waitFM = k2.waitFM /\ k1.cont = k2.cont
          /\ k1.arg = k2.arg /\ k1.holding = k2.holding /\ k1.fault = k2.fault
          /\ k1.current = k2.current /\ k1.resched = r /\ k1.waiting = k2.waiting
      BY <2>1, <3>1 DEF KState
    <3>4. KInv(k1) /\ (RunsOn(k2) => RunsOn(k1))
      BY <2>4, <2>6, <3>2, <3>3, Quiet
    <3> QED
      BY <2>6, <3>3, <3>4 DEF SameFM, k1
  <2> QED
    BY <2>7, <2>8
<1> QED
  BY <1>3, <1>4, <1>5

\* The choice of a thread changes nothing but the current thread and flags.
Chosen(z, k1) ==
    /\ k1.ready = z.ready /\ k1.nstate = z.nstate /\ k1.pri = z.pri
    /\ k1.suspendCount = z.suspendCount /\ k1.count = z.count
    /\ k1.csCount = z.csCount /\ k1.csFunction = z.csFunction
    /\ k1.heldFM = z.heldFM /\ k1.waitFM = z.waitFM /\ k1.cont = z.cont
    /\ k1.arg = z.arg /\ k1.holding = z.holding /\ k1.fault = z.fault
    /\ \A m \in Mutex : z.waiting[m] => k1.waiting[m]

\* SelectThread may make any thread the current one and flag any mutex without
\* harm to the invariant, provided that thread can go on.
LEMMA SwitchOK ==
    ASSUME NEW z, NEW t \in Thread, NEW m \in Mutex, KInv(z), z.nstate[t] = "EReady",
           z.cont[t] = "FMWait" => z.holding[z.waitFM[t]] = Null
    PROVE  /\ KInv(Switch(z, t)) /\ RunsOn(Switch(z, t)) /\ Chosen(z, Switch(z, t))
           /\ KInv(FlagAndSwitch(z, m, t)) /\ RunsOn(FlagAndSwitch(z, m, t))
           /\ Chosen(z, FlagAndSwitch(z, m, t))
<1> DEFINE k1 == Switch(z, t)
           k2 == FlagAndSwitch(z, m, t)
<1>1. z \in KState
  BY DEF KInv
<1>2. k1 \in KState /\ Chosen(z, k1) /\ k1.current = t
  BY <1>1 DEF KState, Switch, Chosen
<1>3. [z.waiting EXCEPT ![m] = TRUE] \in [Mutex -> BOOLEAN]
      /\ \A n \in Mutex : z.waiting[n] => [z.waiting EXCEPT ![m] = TRUE][n]
  BY <1>1, FieldTypes
<1>4. k2 \in KState /\ k2.current = t /\ Chosen(z, k2)
  <2>1. k2 \in KState /\ k2.current = t
    BY <1>1, <1>3 DEF KState, FlagAndSwitch
  <2>2. /\ k2.ready = z.ready /\ k2.nstate = z.nstate /\ k2.pri = z.pri
        /\ k2.suspendCount = z.suspendCount /\ k2.count = z.count
        /\ k2.csCount = z.csCount /\ k2.csFunction = z.csFunction
        /\ k2.heldFM = z.heldFM /\ k2.waitFM = z.waitFM /\ k2.cont = z.cont
        /\ k2.arg = z.arg /\ k2.holding = z.holding /\ k2.fault = z.fault
        /\ k2.waiting = [z.waiting EXCEPT ![m] = TRUE]
    BY <1>1 DEF KState, FlagAndSwitch
  <2> QED
    BY <1>3, <2>1, <2>2 DEF Chosen
<1> HIDE DEF k1, k2
<1>5. KInv(k1) /\ RunsOn(k1)
  <2>1. KInv(k1)
    BY <1>2, Quiet DEF Chosen
  <2> QED
    BY <1>2, <2>1 DEF Chosen, RunsOn
<1>6. KInv(k2) /\ RunsOn(k2)
  <2>1. KInv(k2)
    BY <1>4, Quiet DEF Chosen
  <2> QED
    BY <1>4, <2>1 DEF Chosen, RunsOn
<1> QED
  BY <1>2, <1>4, <1>5, <1>6 DEF k1, k2

\* SelectThread runs a thread that is ready and, if it goes on in
\* NFastMutex::Wait, finds its mutex free; the holders it diverts to are ready.
LEMMA SelectForOK ==
    ASSUME NEW z, NEW t \in Thread, KInv(z), z.nstate[t] = "EReady"
    PROVE  LET k1 == SelectFor(z, t) IN KInv(k1) /\ RunsOn(k1) /\ Chosen(z, k1)
<1> DEFINE needsSys == t \in ImplicitSys /\ z.holding[SysLock] # Null
           wanted   == z.waitFM[t]
<1>1. z \in KState /\ SysLock \in Mutex /\ Null \notin Mutex \cup Thread
  BY ThreadAssumption DEF KInv
<1>2. ASSUME NEW u \in Thread, z.heldFM[u] # Null
      PROVE  z.nstate[u] = "EReady" /\ z.cont[u] # "FMWait" /\ z.heldFM[u] \in Mutex
  BY <1>1, <1>2, FieldTypes DEF KInv, OwnerOK
<1>3. ASSUME NEW m \in Mutex, z.holding[m] # Null
      PROVE  z.holding[m] \in Thread /\ z.heldFM[z.holding[m]] = m
  <2>1. z.holding[m] \in Thread
    BY <1>1, <1>3, FieldTypes
  <2> QED
    BY <2>1 DEF KInv, HolderOK
<1>4. CASE z.heldFM[t] # Null
  BY <1>2, <1>4, SwitchOK DEF SelectFor
<1>5. CASE z.heldFM[t] = Null /\ wanted # Null /\ z.holding[wanted] # Null
  <2>1. wanted \in Mutex
    BY <1>1, <1>5, FieldTypes
  <2> DEFINE h == z.holding[wanted]
  <2>2. h \in Thread /\ z.heldFM[h] # Null
    BY <1>1, <1>3, <1>5, <2>1
  <2>3. SelectFor(z, t) = Switch(z, h)
    BY <1>5 DEF SelectFor
  <2> HIDE DEF h
  <2> QED
    BY <1>1, <1>2, <2>2, <2>3, SwitchOK
<1>6. CASE z.heldFM[t] = Null /\ ~(wanted # Null /\ z.holding[wanted] # Null) /\ needsSys
  <2> DEFINE h == z.holding[SysLock]
  <2>1. h \in Thread /\ z.heldFM[h] = SysLock
    BY <1>1, <1>3, <1>6
  <2>2. SelectFor(z, t) = FlagAndSwitch(z, z.heldFM[h], h)
    BY <1>6 DEF SelectFor
  <2> HIDE DEF h
  <2> QED
    BY <1>1, <1>2, <2>1, <2>2, SwitchOK
<1>7. CASE z.heldFM[t] = Null /\ ~(wanted # Null /\ z.holding[wanted] # Null) /\ ~needsSys
  <2>1. z.cont[t] = "FMWait" => z.holding[z.waitFM[t]] = Null
    BY <1>7 DEF KInv, ContOK
  <2>2. SelectFor(z, t) = Switch(z, t)
    BY <1>7 DEF SelectFor
  <2> QED
    BY <1>1, <2>1, <2>2, SwitchOK
<1> QED
  BY <1>4, <1>5, <1>6, <1>7

\* There is always a first thread, at worst the idle thread, and it is ready.
LEMMA FirstReady ==
    ASSUME NEW z, KInv(z)
    PROVE  /\ HighestPriority(z) \in Pri /\ z.ready[HighestPriority(z)] # <<>>
           /\ First(z) \in Thread /\ z.nstate[First(z)] = "EReady"
           /\ z.pri[First(z)] = HighestPriority(z)
<1>1. z \in KState /\ NullThread \in Thread
  BY ThreadAssumption DEF KInv
<1>2. z.pri[NullThread] \in Pri /\ z.ready[z.pri[NullThread]] # <<>>
  <2>1. NullThread \in Range(z.ready[z.pri[NullThread]])
    BY <1>1, FieldTypes DEF KInv, ReadyOK, IdleOK
  <2> QED
    BY <1>1, <2>1, FieldTypes DEF Range
<1>3. Present(z) \in SUBSET Pri /\ Present(z) # {}
  BY <1>2 DEF Present
<1>4. HighestPriority(z) \in Present(z)
  BY <1>3, HighestOfSome DEF HighestPriority
<1> DEFINE p == HighestPriority(z)
           q == z.ready[p]
<1>5. p \in Pri /\ q # <<>> /\ q \in Seq(Thread) /\ Inj(q)
  BY <1>1, <1>4, FieldTypes DEF Present, KInv, ReadyOK
<1> HIDE DEF p, q
<1>6. Head(q) \in Range(q) /\ Head(q) \in Thread
  BY <1>5, RotateQueue
<1>7. First(z) = Head(q)
  BY DEF First, p, q
<1>8. z.nstate[Head(q)] = "EReady" /\ z.pri[Head(q)] = p
  BY <1>5, <1>6 DEF KInv, ReadyOK, q
<1> QED
  BY <1>5, <1>6, <1>7, <1>8 DEF p, q

\* A round robin changes the order of one queue and the timeslice of the thread
\* that goes to its end.
LEMMA RotatedOK ==
    ASSUME NEW z, NEW p \in Pri, KInv(z), z.ready[p] # <<>>
    PROVE  LET k1 == Rotated(z, p)
           IN  /\ KInv(k1) /\ SameFM(z, k1) /\ (RunsOn(z) => RunsOn(k1))
<1> DEFINE k1 == Rotated(z, p)
           q == z.ready[p]
           r == Append(Tail(q), Head(q))
<1>1. z \in KState
  BY DEF KInv
<1>2. q \in Seq(Thread) /\ Inj(q) /\ q # <<>>
  BY <1>1, FieldTypes DEF KInv, ReadyOK
<1>3. r \in Seq(Thread) /\ Inj(r) /\ Range(r) = Range(q) /\ Head(q) \in Thread
  BY <1>2, RotateQueue
<1> DEFINE tm == [z.time EXCEPT ![Head(q)] = Timeslice[Head(q)]]
           rd == [z.ready EXCEPT ![p] = r]
<1> HIDE DEF q, r
<1>4. tm \in [Thread -> Int]
  BY <1>1, <1>3, FieldTypes, ThreadAssumption
<1>5. rd \in [Pri -> Seq(Thread)] /\ \A o \in Pri : rd[o] = IF o = p THEN r ELSE z.ready[o]
  BY <1>1, <1>3, FieldTypes
<1>6. k1 = [z EXCEPT !.time = tm, !.ready = rd]
  BY DEF Rotated, q, r
<1> HIDE DEF tm, rd, k1
<1>7. k1 \in KState
  BY <1>1, <1>4, <1>5, <1>6 DEF KState
<1>8. /\ k1.nstate = z.nstate /\ k1.pri = z.pri /\ k1.ready = rd
      /\ k1.suspendCount = z.suspendCount /\ k1.count = z.count
      /\ k1.csCount = z.csCount /\ k1.csFunction = z.csFunction
      /\ k1.heldFM = z.heldFM /\ k1.waitFM = z.waitFM /\ k1.cont = z.cont
      /\ k1.arg = z.arg /\ k1.holding = z.holding /\ k1.fault = z.fault
      /\ k1.waiting = z.waiting /\ k1.current = z.current /\ k1.resched = z.resched
  BY <1>1, <1>6 DEF KState
<1>9. ReadyOK(k1)
  <2> SUFFICES ASSUME NEW o \in Pri
               PROVE  Inj(rd[o]) /\ Range(rd[o]) = Range(z.ready[o])
    BY <1>8 DEF KInv, ReadyOK
  <2>1. Inj(z.ready[o])
    BY DEF KInv, ReadyOK
  <2> QED
    BY <1>3, <1>5, <2>1 DEF q
<1>10. /\ SuspOK(k1) /\ CountOK(k1) /\ HolderOK(k1)
       /\ ContOK(k1) /\ OwnerOK(k1) /\ IdleOK(k1) /\ DeferOK(k1)
  BY <1>8 DEF KInv, SuspOK, CountOK, HolderOK, ContOK, OwnerOK, IdleOK, DeferOK, DeferAt
<1> QED
  BY <1>7, <1>8, <1>9, <1>10 DEF KInv, RunsOn, SameFM, k1

\* TScheduler::RotateReadyList.
LEMMA RotateReadyListOK ==
    ASSUME NEW z, NEW p \in Pri, KInv(z)
    PROVE  LET k1 == RotateReadyList(z, p)
           IN  KInv(k1) /\ SameFM(z, k1) /\ (RunsOn(z) => RunsOn(k1))
<1> DEFINE k0 == Rotated(z, p)
           b  == k0.resched \/ Head(z.ready[p]) = z.current
           k1 == [k0 EXCEPT !.resched = b]
<1>1. CASE Len(z.ready[p]) < 2
  BY <1>1 DEF RotateReadyList, SameFM
<1>2. CASE ~(Len(z.ready[p]) < 2)
  <2>1. z.ready[p] # <<>>
    BY <1>2
  <2>2. KInv(k0) /\ SameFM(z, k0) /\ (RunsOn(z) => RunsOn(k0))
    BY <2>1, RotatedOK
  <2>3. RotateReadyList(z, p) = k1
    BY <1>2 DEF RotateReadyList
  <2> HIDE DEF k0
  <2>4. k0 \in KState /\ b \in BOOLEAN
    BY <2>2 DEF KInv
  <2>5. /\ k1 \in KState /\ k1.nstate = k0.nstate /\ k1.pri = k0.pri /\ k1.ready = k0.ready
        /\ k1.suspendCount = k0.suspendCount /\ k1.count = k0.count
        /\ k1.csCount = k0.csCount /\ k1.csFunction = k0.csFunction
        /\ k1.heldFM = k0.heldFM /\ k1.waitFM = k0.waitFM /\ k1.cont = k0.cont
        /\ k1.arg = k0.arg /\ k1.holding = k0.holding /\ k1.fault = k0.fault
        /\ k1.waiting = k0.waiting /\ k1.current = k0.current
        /\ k0.resched => k1.resched
    BY <2>4 DEF KState
  <2> HIDE DEF k1
  <2>6. KInv(k1) /\ (RunsOn(k0) => RunsOn(k1))
    BY <2>2, <2>5, Quiet
  <2> QED
    BY <2>2, <2>3, <2>5, <2>6 DEF SameFM
<1> QED
  BY <1>1, <1>2

\* TScheduler::SelectThread leaves a current thread that can go on.
LEMMA SelectThreadOK ==
    ASSUME NEW z, KInv(z)
    PROVE  LET k1 == SelectThread(z)
           IN  /\ KInv(k1) /\ RunsOn(k1)
               /\ k1.holding = z.holding /\ k1.waitFM = z.waitFM
<1> DEFINE t       == First(z)
           expired == z.time[t] = 0 /\ ~Alone(z, t)
           k0      == IF expired THEN Rotated(z, HighestPriority(z)) ELSE z
<1>1. t \in Thread /\ z.nstate[t] = "EReady"
  BY FirstReady
<1>2. CASE expired /\ z.heldFM[t] # Null
  <2>1. z.heldFM[t] \in Mutex /\ z.cont[t] # "FMWait"
    BY <1>1, <1>2, FieldTypes DEF KInv, OwnerOK
  <2>2. SelectThread(z) = FlagAndSwitch(z, z.heldFM[t], t)
    BY <1>2 DEF SelectThread
  <2> HIDE DEF t
  <2> QED
    BY <1>1, <2>1, <2>2, SwitchOK DEF Chosen
<1>3. CASE ~(expired /\ z.heldFM[t] # Null)
  <2>1. KInv(k0) /\ k0.holding = z.holding /\ k0.waitFM = z.waitFM
    BY FirstReady, RotatedOK DEF SameFM
  <2>2. SelectThread(z) = SelectFor(k0, First(k0))
    BY <1>3 DEF SelectThread
  <2> HIDE DEF k0
  <2>3. First(k0) \in Thread /\ k0.nstate[First(k0)] = "EReady"
    BY <2>1, FirstReady
  <2> DEFINE k1 == SelectFor(k0, First(k0))
  <2>4. KInv(k1) /\ RunsOn(k1) /\ Chosen(k0, k1)
    BY <2>1, <2>3, SelectForOK
  <2> QED
    BY <2>1, <2>2, <2>4 DEF Chosen
<1> QED
  BY <1>2, <1>3

-----------------------------------------------------------------------------
\* Steps that services compose

\* A thread that gives up the processor, or gets it back, in a kernel function
\* changes where it continues (NFastMutex::Wait apart).
LEMMA ContinueOK ==
    ASSUME NEW z, NEW k1 \in KState, NEW t \in Thread, KInv(z),
           k1.cont = [z.cont EXCEPT ![t] = k1.cont[t]],
           k1.arg = [z.arg EXCEPT ![t] = k1.arg[t]],
           k1.cont[t] \in {"FMFlash", "Block"} => k1.arg[t] # Null,
           k1.cont[t] = "FMWait" <=> z.waitFM[t] # Null,
           z.heldFM[t] # Null \/ t = NullThread => k1.cont[t] = "run",
           k1.ready = z.ready, k1.nstate = z.nstate, k1.pri = z.pri,
           k1.suspendCount = z.suspendCount, k1.count = z.count,
           k1.csCount = z.csCount, k1.csFunction = z.csFunction,
           k1.heldFM = z.heldFM, k1.waitFM = z.waitFM, k1.holding = z.holding,
           k1.waiting = z.waiting, k1.fault = z.fault,
           k1.current = z.current, k1.resched = z.resched
    PROVE  KInv(k1) /\ (RunsOn(z) => RunsOn(k1))
<1>1. z \in KState
  BY DEF KInv
<1>2. \A u \in Thread : u # t => k1.cont[u] = z.cont[u] /\ k1.arg[u] = z.arg[u]
  BY SMTT(30), <1>1, FieldTypes
<1>3. z.current \in Thread /\ NullThread \in Thread
  BY <1>1, FieldTypes, ThreadAssumption
<1>4. ReadyOK(k1) /\ SuspOK(k1) /\ CountOK(k1) /\ HolderOK(k1) /\ DeferOK(k1)
  BY DEF KInv, ReadyOK, SuspOK, CountOK, HolderOK, DeferOK, DeferAt
<1>5. ContOK(k1) /\ OwnerOK(k1) /\ IdleOK(k1)
  BY <1>2, <1>3 DEF KInv, ContOK, OwnerOK, IdleOK
<1>6. RunsOn(z) => RunsOn(k1)
  BY <1>2, <1>3 DEF RunsOn, KInv, ContOK
<1> QED
  BY <1>4, <1>5, <1>6 DEF KInv

\* A change of iCsCount can leave a deferred action of that thread to be done.
LEMMA CsCountBut ==
    ASSUME NEW z, NEW t \in Thread, NEW c \in Nat, KInv(z)
    PROVE  LET k1 == [z EXCEPT !.csCount[t] = c]
           IN  /\ KInvBut(k1, t) /\ SameFM(z, k1) /\ (RunsOn(z) => RunsOn(k1))
               /\ k1.csCount[t] = c /\ k1.csFunction = z.csFunction
               /\ k1.cont = z.cont /\ k1.nstate = z.nstate /\ k1.waiting = z.waiting
<1> DEFINE k1 == [z EXCEPT !.csCount[t] = c]
           cs == [z.csCount EXCEPT ![t] = c]
<1>1. z \in KState
  BY DEF KInv
<1>2. cs \in [Thread -> Int] /\ cs[t] = c /\ \A u \in Thread \ {t} : cs[u] = z.csCount[u]
  BY <1>1, FieldTypes
<1>3. k1 \in KState
  BY <1>1, <1>2 DEF KState
<1>4. /\ k1.ready = z.ready /\ k1.nstate = z.nstate /\ k1.pri = z.pri
      /\ k1.suspendCount = z.suspendCount /\ k1.count = z.count
      /\ k1.csCount = cs /\ k1.csFunction = z.csFunction
      /\ k1.heldFM = z.heldFM /\ k1.waitFM = z.waitFM /\ k1.cont = z.cont
      /\ k1.arg = z.arg /\ k1.holding = z.holding /\ k1.fault = z.fault
      /\ k1.waiting = z.waiting /\ k1.current = z.current /\ k1.resched = z.resched
  BY <1>1 DEF KState
<1> HIDE DEF k1, cs
<1>5. /\ ReadyOK(k1) /\ SuspOK(k1) /\ CountOK(k1) /\ HolderOK(k1)
      /\ ContOK(k1) /\ OwnerOK(k1) /\ IdleOK(k1) /\ ~k1.fault
      /\ \A u \in Thread \ {t} : DeferAt(k1, u)
  BY <1>2, <1>4 DEF KInv, ReadyOK, SuspOK, CountOK, HolderOK, ContOK, OwnerOK, IdleOK,
                    DeferOK, DeferAt
<1> QED
  BY <1>2, <1>3, <1>4, <1>5 DEF KInvBut, SameFM, RunsOn, k1

\* ThreadLeaveCS of a thread that holds a mutex leaves the action to Signal.
LEMMA LeaveToSignal ==
    ASSUME NEW z, NEW t \in Thread, KInvBut(z, t), z.heldFM[t] # Null,
           z.csCount[t] = 0, z.csFunction[t] >= ECSExitPending
    PROVE  LET k1 == [z EXCEPT !.waiting[z.heldFM[t]] = TRUE]
           IN  KInv(k1) /\ SameFM(z, k1) /\ (RunsOn(z) => RunsOn(k1))
<1> DEFINE k1 == [z EXCEPT !.waiting[z.heldFM[t]] = TRUE]
           w  == [z.waiting EXCEPT ![z.heldFM[t]] = TRUE]
<1>1. z \in KState
  BY DEF KInvBut
<1>2. z.heldFM[t] \in Mutex /\ \A u \in Thread : z.heldFM[u] # Null => z.heldFM[u] \in Mutex
  BY <1>1, FieldTypes
<1>3. w \in [Mutex -> BOOLEAN] /\ w[z.heldFM[t]] /\ \A m \in Mutex : z.waiting[m] => w[m]
  BY <1>1, <1>2, FieldTypes
<1>4. k1 \in KState
  BY <1>1, <1>3 DEF KState
<1>5. /\ k1.ready = z.ready /\ k1.nstate = z.nstate /\ k1.pri = z.pri
      /\ k1.suspendCount = z.suspendCount /\ k1.count = z.count
      /\ k1.csCount = z.csCount /\ k1.csFunction = z.csFunction
      /\ k1.heldFM = z.heldFM /\ k1.waitFM = z.waitFM /\ k1.cont = z.cont
      /\ k1.arg = z.arg /\ k1.holding = z.holding /\ k1.fault = z.fault
      /\ k1.waiting = w /\ k1.current = z.current /\ k1.resched = z.resched
  BY <1>1 DEF KState
<1> HIDE DEF k1, w
<1>6. /\ ReadyOK(k1) /\ SuspOK(k1) /\ CountOK(k1) /\ HolderOK(k1)
      /\ ContOK(k1) /\ OwnerOK(k1) /\ IdleOK(k1)
  BY <1>5 DEF KInvBut, ReadyOK, SuspOK, CountOK, HolderOK, ContOK, OwnerOK, IdleOK
<1>7. \A u \in Thread \ {t} : DeferAt(k1, u)
  BY <1>2, <1>3, <1>5 DEF KInvBut, DeferAt
<1>8. DeferAt(k1, t)
  <2>1. z.csFunction[t] \in Int
    BY <1>1, FieldTypes
  <2> QED
    BY <1>3, <1>5, <2>1 DEF DeferAt, ECSExitPending, ECSExitInProgress
<1>9. DeferOK(k1)
  BY <1>5, <1>7, <1>8 DEF KInvBut, DeferOK
<1> QED
  BY <1>4, <1>5, <1>6, <1>9 DEF KInv, SameFM, RunsOn, k1

\* A thread that is ready and stops being ready, everything else being as it
\* was: the exit handler returns, or NKern::Block.
LEMMA GoesOff ==
    ASSUME NEW z, NEW t \in Thread \ {NullThread}, NEW s \in {"EDead", "EBlocked"},
           NEW c \in {"run", "Block"}, NEW a \in Mutex \cup {Null},
           KInv(z), z.nstate[t] = "EReady", z.heldFM[t] = Null, z.waitFM[t] = Null,
           c = "Block" => a # Null
    PROVE  LET k1 == [SchedRemove(RescheduleNeeded(z), t)
                         EXCEPT !.nstate[t] = s, !.cont[t] = c, !.arg[t] = a]
           IN  KInv(k1) /\ SameFM(z, k1) /\ RunsOn(k1)
<1> DEFINE kr == RescheduleNeeded(z)
           k0 == SchedRemove(kr, t)
           k1 == [k0 EXCEPT !.nstate[t] = s, !.cont[t] = c, !.arg[t] = a]
           ns == [z.nstate EXCEPT ![t] = s]
           co == [z.cont EXCEPT ![t] = c]
           ar == [z.arg EXCEPT ![t] = a]
<1>1. z \in KState
  BY DEF KInv
<1>2. kr \in KState /\ Same(z, kr) /\ kr.ready = z.ready /\ kr.nstate = z.nstate /\ kr.resched
  BY <1>1 DEF KState, RescheduleNeeded, Same
<1>3. z.pri[t] \in Pri /\ Inj(z.ready[z.pri[t]]) /\ t \in Range(z.ready[z.pri[t]])
  BY <1>1, FieldTypes DEF KInv, ReadyOK
<1> HIDE DEF kr
<1>4. /\ k0 \in KState /\ Same(kr, k0) /\ k0.nstate = kr.nstate /\ k0.resched = kr.resched
      /\ k0.ready = [kr.ready EXCEPT ![kr.pri[t]] = Without(@, t)]
  BY ZenonT(60), <1>2, <1>3, SchedRemoveEffect DEF Same
<1>5. /\ ns \in [Thread -> NState] /\ co \in [Thread -> Cont]
      /\ ar \in [Thread -> Mutex \cup {Null}]
      /\ ns[t] = s /\ co[t] = c /\ ar[t] = a
      /\ \A u \in Thread : u # t => ns[u] = z.nstate[u] /\ co[u] = z.cont[u] /\ ar[u] = z.arg[u]
  BY <1>1, FieldTypes DEF NState, Cont
<1> HIDE DEF k0
<1>6. k1 = [k0 EXCEPT !.nstate = ns, !.cont = co, !.arg = ar]
  BY ZenonT(60), <1>2, <1>4 DEF Same
<1> HIDE DEF k1, ns, co, ar
<1>7. k1 \in KState
  BY <1>4, <1>5, <1>6 DEF KState
<1>8. /\ k1.nstate = ns /\ k1.cont = co /\ k1.arg = ar /\ k1.ready = k0.ready /\ k1.pri = k0.pri
      /\ k1.suspendCount = k0.suspendCount /\ k1.count = k0.count
      /\ k1.csCount = k0.csCount /\ k1.csFunction = k0.csFunction
      /\ k1.heldFM = k0.heldFM /\ k1.waitFM = k0.waitFM
      /\ k1.holding = k0.holding /\ k1.fault = k0.fault
      /\ k1.waiting = k0.waiting /\ k1.current = k0.current /\ k1.resched = k0.resched
  BY <1>4, <1>6 DEF KState
<1>9. /\ k1.ready = [z.ready EXCEPT ![z.pri[t]] = Without(@, t)] /\ k1.pri = z.pri
      /\ k1.suspendCount = z.suspendCount /\ k1.count = z.count
      /\ k1.csCount = z.csCount /\ k1.csFunction = z.csFunction
      /\ k1.heldFM = z.heldFM /\ k1.waitFM = z.waitFM
      /\ k1.holding = z.holding /\ k1.fault = z.fault
      /\ k1.waiting = z.waiting /\ k1.current = z.current /\ k1.resched
  BY <1>2, <1>4, <1>8 DEF Same
<1>10. CountOK(k1) /\ SuspOK(k1)
  BY <1>5, <1>8, <1>9 DEF KInv, CountOK, SuspOK
<1>11. ContOK(k1) /\ DeferOK(k1)
  BY <1>5, <1>8, <1>9 DEF KInv, ContOK, DeferOK, DeferAt
<1>12. k1.nstate = [z.nstate EXCEPT ![t] = k1.nstate[t]] /\ k1.nstate[t] # "EReady"
       /\ k1.cont = [z.cont EXCEPT ![t] = k1.cont[t]]
  BY <1>5, <1>8 DEF ns, co
<1>13. KInv(k1) /\ SameFM(z, k1) /\ RunsOn(k1)
  BY <1>7, <1>9, <1>10, <1>11, <1>12, Stopped
<1> QED
  BY <1>13 DEF k1, k0, kr

\* NKern::Block of a thread that a deferred suspension has just stopped.
LEMMA BlocksSuspended ==
    ASSUME NEW z, NEW t \in Thread \ {NullThread},
           NEW c \in {"run", "Block"}, NEW a \in Mutex \cup {Null},
           KInv(z), z.nstate[t] # "EReady", z.count[t] # -1, z.waitFM[t] = Null,
           c = "Block" => a # Null
    PROVE  LET k1 == [RescheduleNeeded(z)
                         EXCEPT !.nstate[t] = "EBlocked", !.cont[t] = c, !.arg[t] = a]
           IN  KInv(k1) /\ SameFM(z, k1) /\ RunsOn(k1)
<1> DEFINE kr == RescheduleNeeded(z)
           k1 == [kr EXCEPT !.nstate[t] = "EBlocked", !.cont[t] = c, !.arg[t] = a]
           ns == [z.nstate EXCEPT ![t] = "EBlocked"]
           co == [z.cont EXCEPT ![t] = c]
           ar == [z.arg EXCEPT ![t] = a]
<1>1. z \in KState
  BY DEF KInv
<1>2. kr \in KState /\ Same(z, kr) /\ kr.ready = z.ready /\ kr.nstate = z.nstate /\ kr.resched
  BY <1>1 DEF KState, RescheduleNeeded, Same
<1> HIDE DEF kr
<1>3. /\ ns \in [Thread -> NState] /\ co \in [Thread -> Cont]
      /\ ar \in [Thread -> Mutex \cup {Null}]
      /\ ns[t] = "EBlocked" /\ co[t] = c /\ ar[t] = a
      /\ \A u \in Thread : u # t => ns[u] = z.nstate[u] /\ co[u] = z.cont[u] /\ ar[u] = z.arg[u]
  BY <1>1, FieldTypes DEF NState, Cont
<1>4. k1 = [kr EXCEPT !.nstate = ns, !.cont = co, !.arg = ar]
  BY <1>2 DEF Same
<1> HIDE DEF k1, ns, co, ar
<1>5. k1 \in KState
  BY <1>2, <1>3, <1>4 DEF KState
<1>6. /\ k1.nstate = ns /\ k1.cont = co /\ k1.arg = ar /\ k1.ready = kr.ready /\ k1.pri = kr.pri
      /\ k1.suspendCount = kr.suspendCount /\ k1.count = kr.count
      /\ k1.csCount = kr.csCount /\ k1.csFunction = kr.csFunction
      /\ k1.heldFM = kr.heldFM /\ k1.waitFM = kr.waitFM
      /\ k1.holding = kr.holding /\ k1.fault = kr.fault
      /\ k1.waiting = kr.waiting /\ k1.current = kr.current /\ k1.resched = kr.resched
  BY <1>2, <1>4 DEF KState
<1>7. /\ k1.ready = z.ready /\ k1.pri = z.pri
      /\ k1.suspendCount = z.suspendCount /\ k1.count = z.count
      /\ k1.csCount = z.csCount /\ k1.csFunction = z.csFunction
      /\ k1.heldFM = z.heldFM /\ k1.waitFM = z.waitFM
      /\ k1.holding = z.holding /\ k1.fault = z.fault
      /\ k1.waiting = z.waiting /\ k1.current = z.current /\ k1.resched
  BY <1>2, <1>6 DEF Same
<1>8. ReadyOK(k1) /\ SuspOK(k1) /\ CountOK(k1)
  BY <1>3, <1>6, <1>7 DEF KInv, ReadyOK, SuspOK, CountOK
<1>9. HolderOK(k1) /\ OwnerOK(k1) /\ IdleOK(k1)
  BY <1>3, <1>6, <1>7, ThreadAssumption DEF KInv, HolderOK, OwnerOK, IdleOK
<1>10. ContOK(k1) /\ DeferOK(k1)
  BY <1>3, <1>6, <1>7 DEF KInv, ContOK, DeferOK, DeferAt
<1>11. KInv(k1) /\ SameFM(z, k1) /\ RunsOn(k1)
  BY <1>5, <1>7, <1>8, <1>9, <1>10 DEF KInv, SameFM, RunsOn
<1> QED
  BY <1>11 DEF k1, kr

\* A deferred action leaves the request semaphore alone.
LEMMA DoCsFunctionCount ==
    ASSUME NEW z \in KState, NEW t \in Thread
    PROVE  DoCsFunction(z, t).count = z.count
<1> DEFINE k1 == [z EXCEPT !.csFunction[t] = 0]
<1>1. DOMAIN z = {"nstate", "pri", "suspendCount", "csCount", "csFunction", "heldFM", "waitFM",
                  "time", "count", "cont", "arg", "holding", "waiting", "ready", "current",
                  "resched", "fault"}
  BY DEF KState
<1>2. DOMAIN k1 = DOMAIN z /\ k1.count = z.count
  BY <1>1
<1> HIDE DEF k1
<1>3. ASSUME NEW n PROVE Suspend(k1, t, n).count = k1.count
  BY <1>1, <1>2 DEF Suspend, SuspendNow, FlagHeld, SchedRemove, PriListRemove, RescheduleNeeded
<1>4. Exit(k1, t).count = k1.count
  BY <1>1, <1>2 DEF Exit
<1> QED
  BY <1>1, <1>2, <1>3, <1>4 DEF DoCsFunction, k1

-----------------------------------------------------------------------------
\* The choice of the next thread: what keeps the current thread the right one

\* The first thread of the queue of its priority.
IsFirst(z, t) == z.ready[z.pri[t]] # <<>> /\ Head(z.ready[z.pri[t]]) = t

\* The current thread holds a flagged mutex.
Flagged(z) == z.heldFM[z.current] # Null /\ z.waiting[z.heldFM[z.current]]

\* No ready thread has a higher priority than the current one.
Highest(z) ==
    \A u \in Thread : z.nstate[u] = "EReady" => z.pri[u] =< z.pri[z.current]

\* The current thread does not lack the system lock.
SysFree(z) == z.current \in ImplicitSys => z.holding[SysLock] \in {Null, z.current}

\* Another thread waits for a fast mutex, or did until it was killed.
Waits(z) ==
    \E u \in Thread \ {z.current} : z.waitFM[u] # Null \/ z.cont[u] = "ForcedExit"

\* A step that asks for a reschedule if it leaves the current thread the wrong one.
Calm(z, k1) ==
    /\ k1.current = z.current
    /\ z.resched => k1.resched
    /\ Waits(z) => Waits(k1)
    /\ Exiting(z, z.current) => Exiting(k1, z.current)
    /\ \/ k1.resched
       \/ /\ Flagged(z) => Flagged(k1)
          /\ Highest(z) => Highest(k1)
          /\ SysFree(z) => SysFree(k1)

\* Priorities are numbers.
LEMMA PriInt == \A p \in Pri : p \in Int /\ p >= 0
BY ThreadAssumption DEF KNumPriorities

\* Calm steps one after the other are calm.
LEMMA CalmTrans ==
    ASSUME NEW z, NEW k1, NEW k2, Calm(z, k1), Calm(k1, k2)
    PROVE  Calm(z, k2)
BY DEF Calm

\* A thread that is listed after a while alone makes Preempts false: then it does not
\* outrank the threads that are ready.
LEMMA NotPreempting ==
    ASSUME NEW z \in KState, NEW t \in Thread, ReadyOK(z), ~Preempts(z, t)
    PROVE  \E u \in Thread : /\ z.nstate[u] = "EReady" /\ z.pri[t] =< z.pri[u]
                             /\ IsFirst(z, u)
                             /\ z.pri[u] = z.pri[t] => z.time[u] # 0
<1>1. z.pri[t] \in Pri /\ z.pri[t] \in Int /\ \A p \in Pri : p \in Int
  BY FieldTypes, PriInt
<1>2. ASSUME NEW p \in Pri, z.ready[p] # <<>>
      PROVE  /\ Head(z.ready[p]) \in Thread /\ z.nstate[Head(z.ready[p])] = "EReady"
             /\ z.pri[Head(z.ready[p])] = p
  <2>1. z.ready[p] \in Seq(Thread) /\ Inj(z.ready[p])
    BY FieldTypes DEF ReadyOK
  <2>2. Head(z.ready[p]) \in Range(z.ready[p]) /\ Head(z.ready[p]) \in Thread
    BY <1>2, <2>1, TailQueue
  <2> QED
    BY <2>2 DEF ReadyOK
<1>3. CASE Above(z, z.pri[t])
  <2>1. PICK q \in Pri : z.ready[q] # <<>> /\ q > z.pri[t]
    BY <1>3 DEF Above, Present
  <2>2. /\ Head(z.ready[q]) \in Thread /\ z.nstate[Head(z.ready[q])] = "EReady"
        /\ z.pri[Head(z.ready[q])] = q
    BY <1>2, <2>1
  <2>3. IsFirst(z, Head(z.ready[q]))
    BY <2>1, <2>2 DEF IsFirst
  <2>4. z.pri[t] =< q /\ q # z.pri[t]
    BY <1>1, <2>1
  <2> QED
    BY <2>2, <2>3, <2>4
<1>4. CASE ~Above(z, z.pri[t])
  <2> DEFINE q == z.ready[z.pri[t]]
  <2>1. q # <<>> /\ z.time[Head(q)] # 0
    BY <1>4 DEF Preempts
  <2>2. /\ Head(q) \in Thread /\ z.nstate[Head(q)] = "EReady"
        /\ z.pri[Head(q)] = z.pri[t]
    BY <1>1, <1>2, <2>1
  <2>3. z.pri[t] =< z.pri[t]
    BY <1>1
  <2>4. IsFirst(z, Head(q))
    BY <2>1, <2>2 DEF IsFirst
  <2> QED
    BY <2>1, <2>2, <2>3, <2>4
<1> QED
  BY <1>3, <1>4

-----------------------------------------------------------------------------
\* Threads that become ready

\* How a function that may make t ready changes what the scheduler looks at.
Wakes(z, k1, t) ==
    /\ k1.pri = z.pri /\ k1.time = z.time /\ k1.current = z.current
    /\ k1.heldFM = z.heldFM /\ k1.waitFM = z.waitFM /\ k1.cont = z.cont
    /\ k1.holding = z.holding /\ k1.waiting = z.waiting
    /\ \A u \in Thread : /\ z.suspendCount[u] = 0 => k1.suspendCount[u] = 0
                         /\ z.csFunction[u] =< 0 => k1.csFunction[u] = z.csFunction[u]
    /\ \/ k1.nstate = z.nstate /\ k1.ready = z.ready /\ k1.resched = z.resched
       \/ /\ z.nstate[t] # "EReady" /\ k1.nstate = [z.nstate EXCEPT ![t] = "EReady"]
          /\ k1.ready = [z.ready EXCEPT ![z.pri[t]] = Append(@, t)]
          /\ k1.resched = (z.resched \/ Preempts(z, t))
       \/ /\ z.nstate[t] # "EReady" /\ k1.nstate = [z.nstate EXCEPT ![t] = "ESuspended"]
          /\ k1.ready = z.ready /\ k1.resched = z.resched

\* DoReady asks for a reschedule if the thread outranks the current one.
LEMMA WakesCalm ==
    ASSUME NEW z \in KState, NEW k1, NEW t \in Thread, ReadyOK(z), Wakes(z, k1, t)
    PROVE  Calm(z, k1)
<1>1. k1.current = z.current /\ (z.resched => k1.resched) /\ (Waits(z) => Waits(k1))
      /\ (Flagged(z) => Flagged(k1)) /\ (SysFree(z) => SysFree(k1))
  BY DEF Wakes, Waits, Flagged, SysFree
<1>2. Exiting(z, z.current) => Exiting(k1, z.current)
  <2>1. z.current \in Thread
    BY FieldTypes
  <2> QED
    BY <2>1 DEF Wakes, Exiting, ECSExitInProgress
<1>3. ASSUME Highest(z), ~k1.resched PROVE Highest(k1)
  <2> SUFFICES ASSUME NEW u \in Thread, k1.nstate[u] = "EReady"
               PROVE  z.pri[u] =< z.pri[z.current]
    BY <1>1 DEF Highest, Wakes
  <2>1. CASE z.nstate[u] = "EReady"
    BY <1>3, <2>1 DEF Highest
  <2>2. CASE z.nstate[u] # "EReady"
    <3>1. u = t /\ ~Preempts(z, t)
      BY <1>3, <2>2, FieldTypes DEF Wakes
    <3>2. PICK v \in Thread : z.nstate[v] = "EReady" /\ z.pri[t] =< z.pri[v]
      BY <3>1, NotPreempting
    <3>3. z.pri[v] =< z.pri[z.current]
      BY <1>3, <3>2 DEF Highest
    <3>4. z.pri[v] \in Int /\ z.pri[t] \in Int /\ z.pri[z.current] \in Int
      BY FieldTypes, PriInt
    <3> QED
      BY <3>1, <3>2, <3>3, <3>4
  <2> QED
    BY <2>1, <2>2
<1> QED
  BY <1>1, <1>2, <1>3 DEF Calm

\* DoReady and CheckSuspendThenReady of a thread that is not ready.
LEMMA CheckSuspendWakes ==
    ASSUME NEW z \in KState, NEW t \in Thread, z.nstate[t] # "EReady"
    PROVE  Wakes(z, DoReady(z, t), t) /\ Wakes(z, CheckSuspendThenReady(z, t), t)
<1>1. Wakes(z, DoReady(z, t), t)
  <2> DEFINE k0 == Add(z, t)
             k1 == DoReady(z, t)
  <2>1. CASE z.nstate[t] = "EDead"
    BY <2>1 DEF DoReady, Wakes
  <2>2. CASE z.nstate[t] # "EDead"
    <3>1. k0 = [z EXCEPT !.ready = [z.ready EXCEPT ![z.pri[t]] = Append(@, t)]]
      BY DEF Add
    <3>2. k1 = [k0 EXCEPT !.nstate = [k0.nstate EXCEPT ![t] = "EReady"],
                          !.resched = k0.resched \/ Preempts(z, t)]
      BY <2>2 DEF DoReady
    <3> HIDE DEF k1, k0
    <3>3. k1 = [z EXCEPT !.ready = [z.ready EXCEPT ![z.pri[t]] = Append(@, t)],
                         !.nstate = [z.nstate EXCEPT ![t] = "EReady"],
                         !.resched = z.resched \/ Preempts(z, t)]
      BY <3>1, <3>2 DEF KState
    <3>4. /\ k1.pri = z.pri /\ k1.time = z.time /\ k1.current = z.current
          /\ k1.heldFM = z.heldFM /\ k1.waitFM = z.waitFM /\ k1.cont = z.cont
          /\ k1.holding = z.holding /\ k1.waiting = z.waiting
          /\ k1.suspendCount = z.suspendCount /\ k1.csFunction = z.csFunction
          /\ k1.nstate = [z.nstate EXCEPT ![t] = "EReady"]
          /\ k1.ready = [z.ready EXCEPT ![z.pri[t]] = Append(@, t)]
          /\ k1.resched = (z.resched \/ Preempts(z, t))
      BY <3>3 DEF KState
    <3> QED
      BY <3>4 DEF Wakes, k1
  <2> QED
    BY <2>1, <2>2
<1>2. ASSUME z.suspendCount[t] # 0 PROVE Wakes(z, CheckSuspendThenReady(z, t), t)
  <2> DEFINE k1 == [z EXCEPT !.nstate[t] = "ESuspended"]
  <2>1. /\ k1.pri = z.pri /\ k1.time = z.time /\ k1.current = z.current
        /\ k1.heldFM = z.heldFM /\ k1.waitFM = z.waitFM /\ k1.cont = z.cont
        /\ k1.holding = z.holding /\ k1.waiting = z.waiting
        /\ k1.suspendCount = z.suspendCount /\ k1.csFunction = z.csFunction
        /\ k1.nstate = [z.nstate EXCEPT ![t] = "ESuspended"]
        /\ k1.ready = z.ready /\ k1.resched = z.resched
    BY DEF KState
  <2>2. CheckSuspendThenReady(z, t) = k1
    BY <1>2 DEF CheckSuspendThenReady
  <2> HIDE DEF k1
  <2> QED
    BY <2>1, <2>2 DEF Wakes
<1> QED
  BY <1>1, <1>2 DEF CheckSuspendThenReady

\* The parts of the state that the scheduler looks at are as they were, and no
\* suspension or exit is added.
SameSched(z, k1) ==
    /\ k1.pri = z.pri /\ k1.time = z.time /\ k1.current = z.current
    /\ k1.heldFM = z.heldFM /\ k1.waitFM = z.waitFM /\ k1.cont = z.cont
    /\ k1.holding = z.holding /\ k1.waiting = z.waiting
    /\ k1.nstate = z.nstate /\ k1.ready = z.ready /\ k1.resched = z.resched
    /\ \A u \in Thread : /\ z.suspendCount[u] = 0 => k1.suspendCount[u] = 0
                         /\ z.csFunction[u] =< 0 => k1.csFunction[u] = z.csFunction[u]

\* A function that makes no thread ready.
LEMMA SameWakes ==
    ASSUME NEW z, NEW k1, NEW t, SameSched(z, k1)
    PROVE  Wakes(z, k1, t)
BY DEF SameSched, Wakes

\* What happens to fields the scheduler does not look at, before a thread is woken ...
LEMMA WakesVia ==
    ASSUME NEW z \in KState, NEW k0, NEW k1, NEW t \in Thread, SameSched(z, k0), Wakes(k0, k1, t)
    PROVE  Wakes(z, k1, t)
<1>1. Preempts(k0, t) = Preempts(z, t)
  BY DEF SameSched, Preempts, Above, Present
<1>2. \A u \in Thread : /\ z.suspendCount[u] = 0 => k1.suspendCount[u] = 0
                        /\ z.csFunction[u] =< 0 => k1.csFunction[u] = z.csFunction[u]
  BY DEF SameSched, Wakes
<1> QED
  BY <1>1, <1>2 DEF SameSched, Wakes

\* Wakes does not look at the counts of the request semaphores.
LEMMA CountSame ==
    ASSUME NEW z \in KState, NEW c
    PROVE  SameSched(z, [z EXCEPT !.count = c])
BY DEF SameSched, KState

\* ... or after it.
LEMMA CountWakes ==
    ASSUME NEW z, NEW k1 \in KState, NEW c, NEW t, Wakes(z, k1, t)
    PROVE  Wakes(z, [k1 EXCEPT !.count = c], t)
<1> DEFINE k2 == [k1 EXCEPT !.count = c]
<1>1. /\ k2.pri = k1.pri /\ k2.time = k1.time /\ k2.current = k1.current
      /\ k2.heldFM = k1.heldFM /\ k2.waitFM = k1.waitFM /\ k2.cont = k1.cont
      /\ k2.holding = k1.holding /\ k2.waiting = k1.waiting
      /\ k2.nstate = k1.nstate /\ k2.ready = k1.ready /\ k2.resched = k1.resched
      /\ k2.suspendCount = k1.suspendCount /\ k2.csFunction = k1.csFunction
  BY DEF KState
<1> HIDE DEF k2
<1>2. Wakes(z, k2, t)
  BY <1>1 DEF Wakes
<1> QED
  BY <1>2 DEF k2

\* NFastSemaphore::Signal, SignalN and WaitCancel, and NThreadBase::Release.
LEMMA SignalWakes ==
    ASSUME NEW z, NEW t \in Thread, KInv(z)
    PROVE  /\ Wakes(z, SemSignal(z, t), t)
           /\ \A n \in Nat : Wakes(z, SemSignalN(z, t, n), t)
           /\ \A code \in Int : Wakes(z, Release(z, t, code), t)
<1>1. z \in KState /\ CountOK(z)
  BY DEF KInv
<1>2. z.count[t] \in Int /\ z.count[t] >= -1 /\ (z.count[t] = -1 <=> z.nstate[t] = "EWaitFastSemaphore")
  BY <1>1, FieldTypes DEF CountOK
<1>3. ASSUME NEW c \in [Thread -> Int], z.nstate[t] # "EReady"
      PROVE  Wakes(z, CheckSuspendThenReady([z EXCEPT !.count = c], t), t)
  <2> DEFINE k0 == [z EXCEPT !.count = c]
  <2>1. k0 \in KState /\ SameSched(z, k0) /\ k0.nstate = z.nstate
    BY <1>1, CountSame DEF KState
  <2> HIDE DEF k0
  <2>2. Wakes(z, CheckSuspendThenReady(k0, t), t)
    BY <1>1, <1>3, <2>1, CheckSuspendWakes, WakesVia
  <2> QED
    BY <2>2 DEF k0
<1>4. Wakes(z, SemSignal(z, t), t)
  <2> DEFINE c == [z.count EXCEPT ![t] = @ + 1]
             k0 == [z EXCEPT !.count = c]
  <2>1. c \in [Thread -> Int] /\ c[t] = z.count[t] + 1 /\ k0.count = c
    BY <1>1, <1>2, FieldTypes DEF KState
  <2>2. SemSignal(z, t) = IF k0.count[t] > 0 THEN k0 ELSE CheckSuspendThenReady(k0, t)
    BY DEF SemSignal
  <2> HIDE DEF c
  <2>3. CASE c[t] > 0
    BY <1>1, <2>1, <2>2, <2>3, CountSame, SameWakes
  <2>4. CASE ~(c[t] > 0)
    <3>1. z.nstate[t] # "EReady"
      BY <1>2, <2>1, <2>4
    <3> QED
      BY <1>3, <2>1, <2>2, <2>4, <3>1
  <2> QED
    BY <2>3, <2>4
<1>5. ASSUME NEW n \in Nat PROVE Wakes(z, SemSignalN(z, t, n), t)
  <2> DEFINE k0 == IF n > 0 /\ z.count[t] < 0 THEN CheckSuspendThenReady(z, t) ELSE z
             c == [k0.count EXCEPT ![t] = @ + n]
  <2>1. SemSignalN(z, t, n) = [k0 EXCEPT !.count = c]
    BY DEF SemSignalN
  <2>2. k0 \in KState /\ Wakes(z, k0, t)
    <3>1. CASE n > 0 /\ z.count[t] < 0
      <4>1. z.nstate[t] = "EWaitFastSemaphore"
        BY <1>2, <3>1
      <4> QED
        BY <1>1, <3>1, <4>1, CheckSuspendWakes, CheckSuspendThenReadyEffect DEF KInv
    <3>2. CASE ~(n > 0 /\ z.count[t] < 0)
      BY <1>1, <3>2, SameWakes DEF SameSched
    <3> QED
      BY <3>1, <3>2
  <2> HIDE DEF k0, c
  <2> QED
    BY <2>1, <2>2, CountWakes
<1>6. ASSUME NEW code \in Int PROVE Wakes(z, Release(z, t, code), t)
  <2>1. CASE z.nstate[t] = "EWaitFastSemaphore" /\ code < 0
    <3> DEFINE c == [z.count EXCEPT ![t] = 0]
    <3>1. c \in [Thread -> Int]
      BY <1>1, FieldTypes
    <3>2. Release(z, t, code) = CheckSuspendThenReady([z EXCEPT !.count = c], t)
      BY <2>1 DEF Release, WaitCancel
    <3> HIDE DEF c
    <3> QED
      BY <1>3, <2>1, <3>1, <3>2
  <2>2. CASE z.nstate[t] = "EBlocked"
    <3>1. Release(z, t, code) = CheckSuspendThenReady(z, t)
      BY <2>2 DEF Release
    <3> QED
      BY <1>1, <2>2, <3>1, CheckSuspendWakes
  <2>3. CASE z.nstate[t] # "EBlocked" /\ ~(z.nstate[t] = "EWaitFastSemaphore" /\ code < 0)
    <3>1. Release(z, t, code) = z
      BY <2>3 DEF Release
    <3> QED
      BY <3>1, SameWakes DEF SameSched
  <2> QED
    BY <2>1, <2>2, <2>3
<1> QED
  BY <1>4, <1>5, <1>6

\* NThreadBase::Resume and ForceResume.
LEMMA ResumeWakes ==
    ASSUME NEW z, NEW t \in Thread, KInv(z)
    PROVE  Wakes(z, Resume(z, t), t) /\ Wakes(z, ForceResume(z, t), t)
<1>1. z \in KState
  BY DEF KInv
<1>2. z.suspendCount[t] \in Int /\ z.csFunction[t] \in Int
  BY <1>1, FieldTypes
<1>3. Wakes(z, z, t)
  BY SameWakes DEF SameSched
<1>4. ASSUME NEW s \in [Thread -> Int], z.suspendCount[t] < 0,
             \A u \in Thread \ {t} : s[u] = z.suspendCount[u]
      PROVE  /\ Wakes(z, [z EXCEPT !.suspendCount = s], t)
             /\ Wakes(z, Resumed([z EXCEPT !.suspendCount = s], t), t)
  <2> DEFINE k0 == [z EXCEPT !.suspendCount = s]
  <2>1. /\ k0 \in KState /\ k0.suspendCount = s
        /\ k0.pri = z.pri /\ k0.time = z.time /\ k0.current = z.current
        /\ k0.heldFM = z.heldFM /\ k0.waitFM = z.waitFM /\ k0.cont = z.cont
        /\ k0.holding = z.holding /\ k0.waiting = z.waiting
        /\ k0.nstate = z.nstate /\ k0.ready = z.ready /\ k0.resched = z.resched
        /\ k0.csFunction = z.csFunction
    BY <1>1 DEF KState
  <2> HIDE DEF k0
  <2>2. SameSched(z, k0)
    <3>1. \A u \in Thread : z.suspendCount[u] = 0 => s[u] = 0
      BY <1>4
    <3> QED
      BY <2>1, <3>1 DEF SameSched
  <2>3. Wakes(z, k0, t)
    BY <2>2, SameWakes
  <2>4. ASSUME k0.nstate[t] = "ESuspended" PROVE Wakes(z, DoReady(k0, t), t)
    BY <1>1, <2>1, <2>2, <2>4, CheckSuspendWakes, WakesVia
  <2> QED
    BY <2>3, <2>4 DEF k0, Resumed
<1>5. ASSUME NEW f \in [Thread -> Int], z.csFunction[t] > 0,
             \A u \in Thread \ {t} : f[u] = z.csFunction[u]
      PROVE  Wakes(z, [z EXCEPT !.csFunction = f], t)
  <2> DEFINE k0 == [z EXCEPT !.csFunction = f]
  <2>1. /\ k0.suspendCount = z.suspendCount
        /\ k0.pri = z.pri /\ k0.time = z.time /\ k0.current = z.current
        /\ k0.heldFM = z.heldFM /\ k0.waitFM = z.waitFM /\ k0.cont = z.cont
        /\ k0.holding = z.holding /\ k0.waiting = z.waiting
        /\ k0.nstate = z.nstate /\ k0.ready = z.ready /\ k0.resched = z.resched
        /\ k0.csFunction = f
    BY <1>1 DEF KState
  <2> HIDE DEF k0
  <2>2. \A u \in Thread : z.csFunction[u] =< 0 => f[u] = z.csFunction[u]
    BY <1>2, <1>5
  <2>3. SameSched(z, k0)
    BY <2>1, <2>2 DEF SameSched
  <2> QED
    BY <2>3, SameWakes DEF k0
<1> DEFINE s1 == [z.suspendCount EXCEPT ![t] = @ + 1]
           f1 == [z.csFunction EXCEPT ![t] = @ - 1]
           s0 == [z.suspendCount EXCEPT ![t] = 0]
           f0 == [z.csFunction EXCEPT ![t] = 0]
<1>6. /\ s1 \in [Thread -> Int] /\ s0 \in [Thread -> Int]
      /\ f1 \in [Thread -> Int] /\ f0 \in [Thread -> Int]
      /\ \A u \in Thread \ {t} : /\ s1[u] = z.suspendCount[u] /\ s0[u] = z.suspendCount[u]
                                 /\ f1[u] = z.csFunction[u] /\ f0[u] = z.csFunction[u]
  BY <1>1, <1>2, FieldTypes
<1>7. \/ Resume(z, t) = z
      \/ z.csFunction[t] > 0 /\ Resume(z, t) = [z EXCEPT !.csFunction = f1]
      \/ z.suspendCount[t] < 0 /\ Resume(z, t) = [z EXCEPT !.suspendCount = s1]
      \/ z.suspendCount[t] < 0 /\ Resume(z, t) = Resumed([z EXCEPT !.suspendCount = s1], t)
  BY <1>2 DEF Resume
<1>8. \/ ForceResume(z, t) = z
      \/ z.csFunction[t] > 0 /\ ForceResume(z, t) = [z EXCEPT !.csFunction = f0]
      \/ z.suspendCount[t] < 0 /\ ForceResume(z, t) = Resumed([z EXCEPT !.suspendCount = s0], t)
  BY <1>2 DEF ForceResume
<1> HIDE DEF s1, s0, f1, f0
<1>9. Wakes(z, Resume(z, t), t)
  BY <1>3, <1>4, <1>5, <1>6, <1>7
<1>10. Wakes(z, ForceResume(z, t), t)
  BY <1>3, <1>4, <1>5, <1>6, <1>8
<1> QED
  BY <1>9, <1>10

-----------------------------------------------------------------------------
\* Steps that leave the ready list and the holders of the mutexes alone

Quietly(z, k1) ==
    /\ k1.nstate = z.nstate /\ k1.pri = z.pri /\ k1.ready = z.ready /\ k1.time = z.time
    /\ k1.current = z.current /\ k1.heldFM = z.heldFM /\ k1.holding = z.holding
    /\ z.resched => k1.resched
    /\ \A m \in Mutex : z.waiting[m] => k1.waiting[m]
    /\ \A u \in Thread : k1.waitFM[u] \in {z.waitFM[u], Null}

\* Flags that are set only help.
LEMMA QuietCalm ==
    ASSUME NEW z \in KState, NEW k1, Quietly(z, k1), Waits(z) => Waits(k1),
           Exiting(z, z.current) => Exiting(k1, z.current)
    PROVE  Calm(z, k1)
<1>1. z.current \in Thread /\ z.heldFM[z.current] \in Mutex \cup {Null}
  BY FieldTypes
<1>2. Flagged(z) => Flagged(k1)
  BY <1>1 DEF Quietly, Flagged
<1>3. (Highest(z) => Highest(k1)) /\ (SysFree(z) => SysFree(k1))
  BY DEF Quietly, Highest, SysFree
<1> QED
  BY <1>2, <1>3 DEF Calm, Quietly

\* NThreadBase::Exit: the thread enters its exit handler.
LEMMA ExitEffect ==
    ASSUME NEW z \in KState, NEW t \in Thread
    PROVE  LET k1 == Exit(z, t)
           IN  /\ Quietly(z, k1) /\ k1.waitFM = z.waitFM
               /\ k1.suspendCount = z.suspendCount
               /\ k1.csFunction = [z.csFunction EXCEPT ![t] = ECSExitInProgress]
               /\ k1.cont = [z.cont EXCEPT ![t] = "run"]
<1> DEFINE k1 == Exit(z, t)
<1>1. /\ k1.nstate = z.nstate /\ k1.pri = z.pri /\ k1.ready = z.ready /\ k1.time = z.time
      /\ k1.current = z.current /\ k1.heldFM = z.heldFM /\ k1.holding = z.holding
      /\ k1.resched = z.resched /\ k1.waiting = z.waiting
      /\ k1.waitFM = z.waitFM /\ k1.suspendCount = z.suspendCount
      /\ k1.csFunction = [z.csFunction EXCEPT ![t] = ECSExitInProgress]
      /\ k1.cont = [z.cont EXCEPT ![t] = "run"]
  BY DEF KState, Exit
<1> HIDE DEF k1
<1> QED
  BY <1>1 DEF Quietly, k1

\* The same in a thread that was killed.
LEMMA ForcedExitEffect ==
    ASSUME NEW z \in KState, NEW t \in Thread
    PROVE  LET k1 == ForcedExit(z, t)
           IN  /\ Quietly(z, k1) /\ k1.waitFM = z.waitFM
               /\ k1.suspendCount = z.suspendCount
               /\ k1.csFunction = [z.csFunction EXCEPT ![t] = ECSExitInProgress]
               /\ k1.cont = [z.cont EXCEPT ![t] = "run"]
<1> DEFINE k1 == ForcedExit(z, t)
<1>1. /\ k1.nstate = z.nstate /\ k1.pri = z.pri /\ k1.ready = z.ready /\ k1.time = z.time
      /\ k1.current = z.current /\ k1.heldFM = z.heldFM /\ k1.holding = z.holding
      /\ k1.resched = z.resched /\ k1.waiting = z.waiting
      /\ k1.waitFM = z.waitFM /\ k1.suspendCount = z.suspendCount
      /\ k1.csFunction = [z.csFunction EXCEPT ![t] = ECSExitInProgress]
      /\ k1.cont = [z.cont EXCEPT ![t] = "run"]
  BY DEF KState, Exit, ForcedExit
<1> HIDE DEF k1
<1> QED
  BY <1>1 DEF Quietly, k1

\* A suspension or an exit is put off, and the mutex of the thread flagged.
LEMMA FlagHeldEffect ==
    ASSUME NEW z \in KState, NEW t \in Thread, NEW f \in Int
    PROVE  LET k1 == FlagHeld([z EXCEPT !.csFunction[t] = f], t)
           IN  /\ Quietly(z, k1) /\ k1.waitFM = z.waitFM /\ k1.cont = z.cont
               /\ k1.suspendCount = z.suspendCount
               /\ k1.csFunction = [z.csFunction EXCEPT ![t] = f]
<1> DEFINE k0 == [z EXCEPT !.csFunction[t] = f]
           k1 == FlagHeld(k0, t)
           w  == [k0.waiting EXCEPT ![k0.heldFM[t]] = TRUE]
<1>1. /\ k0.nstate = z.nstate /\ k0.pri = z.pri /\ k0.ready = z.ready /\ k0.time = z.time
      /\ k0.current = z.current /\ k0.heldFM = z.heldFM /\ k0.holding = z.holding
      /\ k0.resched = z.resched /\ k0.waiting = z.waiting
      /\ k0.waitFM = z.waitFM /\ k0.suspendCount = z.suspendCount
      /\ k0.csFunction = [z.csFunction EXCEPT ![t] = f] /\ k0.cont = z.cont
  BY DEF KState
<1>2. k0 \in KState
  <2>1. [z.csFunction EXCEPT ![t] = f] \in [Thread -> Int]
    BY FieldTypes
  <2> QED
    BY <2>1 DEF KState
<1>3. k1 = k0 \/ k1 = [k0 EXCEPT !.waiting = w]
  BY DEF FlagHeld
<1>4. \A m \in Mutex : z.waiting[m] => w[m]
  BY <1>1, <1>2, FieldTypes
<1> HIDE DEF k0, k1, w
<1>5. /\ k1.nstate = z.nstate /\ k1.pri = z.pri /\ k1.ready = z.ready /\ k1.time = z.time
      /\ k1.current = z.current /\ k1.heldFM = z.heldFM /\ k1.holding = z.holding
      /\ k1.resched = z.resched /\ k1.waiting \in {z.waiting, w}
      /\ k1.waitFM = z.waitFM /\ k1.suspendCount = z.suspendCount
      /\ k1.csFunction = [z.csFunction EXCEPT ![t] = f] /\ k1.cont = z.cont
  BY <1>1, <1>2, <1>3 DEF KState
<1> QED
  BY <1>4, <1>5 DEF Quietly, k1, k0

\* The current thread enters its exit handler.
LEMMA ExitCalm ==
    ASSUME NEW z \in KState
    PROVE  Calm(z, Exit(z, z.current)) /\ Calm(z, ForcedExit(z, z.current))
<1> DEFINE t == z.current
<1>1. ASSUME NEW k1, Quietly(z, k1), k1.waitFM = z.waitFM,
             k1.csFunction = [z.csFunction EXCEPT ![t] = ECSExitInProgress],
             k1.cont = [z.cont EXCEPT ![t] = "run"]
      PROVE  Calm(z, k1)
  <2>1. t \in Thread /\ k1.csFunction[t] = ECSExitInProgress
        /\ \A u \in Thread \ {t} : k1.cont[u] = z.cont[u]
    BY <1>1, FieldTypes
  <2>2. (Waits(z) => Waits(k1)) /\ Exiting(k1, t)
    BY <1>1, <2>1 DEF Waits, Exiting, Quietly
  <2> QED
    BY <1>1, <2>2, QuietCalm
<1>2. t \in Thread
  BY FieldTypes
<1> HIDE DEF t
<1> QED
  BY <1>1, <1>2, ExitEffect, ForcedExitEffect DEF t

\* NThreadBase::Suspend.
LEMMA SuspendCalm ==
    ASSUME NEW z \in KState, NEW t \in Thread, NEW n \in Nat \ {0}, ReadyOK(z)
    PROVE  Calm(z, Suspend(z, t, n))
<1> DEFINE k1 == Suspend(z, t, n)
<1>1. Calm(z, z)
  BY DEF Calm
<1>2. z.csFunction[t] \in Int /\ z.csFunction \in [Thread -> Int] /\ z.current \in Thread
  BY FieldTypes
<1>3. CASE z.nstate[t] # "EDead" /\ InCS(z, t) /\ z.csFunction[t] >= 0
  <2> DEFINE f == z.csFunction[t] + n
  <2>1. k1 = FlagHeld([z EXCEPT !.csFunction[t] = f], t)
    BY <1>3 DEF Suspend
  <2>2. f \in Int
    BY <1>2
  <2> HIDE DEF f, k1
  <2>3. /\ Quietly(z, k1) /\ k1.waitFM = z.waitFM /\ k1.cont = z.cont
        /\ k1.csFunction = [z.csFunction EXCEPT ![t] = f]
    BY <2>1, <2>2, FlagHeldEffect
  <2>4. Exiting(z, z.current) => z.current # t
    BY <1>3 DEF Exiting, ECSExitInProgress
  <2>5. (Waits(z) => Waits(k1)) /\ (Exiting(z, z.current) => Exiting(k1, z.current))
    BY <1>2, <2>3, <2>4 DEF Waits, Exiting, Quietly
  <2> QED
    BY <2>3, <2>5, QuietCalm DEF k1
<1>4. CASE z.nstate[t] # "EDead" /\ ~InCS(z, t)
  <2> DEFINE k2 == RescheduleNeeded(z)
             k3 == SchedRemove(k2, t)
             k4 == [k3 EXCEPT !.nstate[t] = "ESuspended"]
             k5 == IF z.nstate[t] = "EReady" THEN k4 ELSE z
             s  == [k5.suspendCount EXCEPT ![t] = @ - n]
  <2>1. k1 = [k5 EXCEPT !.suspendCount = s]
    BY <1>4 DEF Suspend, SuspendNow
  <2>2. k2 \in KState /\ Same(z, k2) /\ k2.ready = z.ready /\ k2.resched
    BY DEF RescheduleNeeded, KState, Same
  <2> HIDE DEF s
  <2>3. CASE z.nstate[t] = "EReady"
    <3>1. Inj(k2.ready[k2.pri[t]]) /\ t \in Range(k2.ready[k2.pri[t]])
      BY <2>2, <2>3, FieldTypes DEF ReadyOK, Same
    <3> HIDE DEF k2
    <3>2. k3 \in KState /\ Same(k2, k3) /\ k3.resched
      BY <2>2, <3>1, SchedRemoveEffect
    <3> HIDE DEF k3
    <3>3. k4 \in KState /\ Same(k3, k4) /\ k4.resched
      BY <3>2 DEF KState, Same, NState
    <3>4. k5 = k4
      BY <2>3
    <3> HIDE DEF k4, k5, k1
    <3>5. /\ k1.current = k4.current /\ k1.resched /\ k1.waitFM = k4.waitFM
          /\ k1.cont = k4.cont /\ k1.csFunction = k4.csFunction
      BY <2>1, <3>3, <3>4 DEF KState
    <3>6. /\ k1.current = z.current /\ k1.resched /\ k1.waitFM = z.waitFM
          /\ k1.cont = z.cont /\ k1.csFunction = z.csFunction
      BY <2>2, <3>2, <3>3, <3>5 DEF Same
    <3> QED
      BY <3>6 DEF Calm, Waits, Exiting, k1
  <2>4. CASE z.nstate[t] # "EReady"
    <3>1. k5 = z
      BY <2>4
    <3> HIDE DEF k5, k1
    <3>2. /\ k1.nstate = z.nstate /\ k1.pri = z.pri /\ k1.ready = z.ready /\ k1.time = z.time
          /\ k1.current = z.current /\ k1.heldFM = z.heldFM /\ k1.holding = z.holding
          /\ k1.resched = z.resched /\ k1.waiting = z.waiting
          /\ k1.waitFM = z.waitFM /\ k1.cont = z.cont /\ k1.csFunction = z.csFunction
      BY <2>1, <3>1 DEF KState
    <3>3. Quietly(z, k1) /\ (Waits(z) => Waits(k1)) /\ (Exiting(z, z.current) => Exiting(k1, z.current))
      BY <3>2 DEF Quietly, Waits, Exiting
    <3> QED
      BY <3>3, QuietCalm DEF k1
  <2> QED
    BY <2>3, <2>4
<1>5. CASE z.nstate[t] = "EDead" \/ (InCS(z, t) /\ ~(z.csFunction[t] >= 0))
  BY <1>1, <1>5 DEF Suspend
<1> QED
  BY <1>3, <1>4, <1>5

\* NThreadBase::DoCSFunction of the current thread.
LEMMA DoCsFunctionCalm ==
    ASSUME NEW z \in KState, ReadyOK(z), ~Exiting(z, z.current)
    PROVE  Calm(z, DoCsFunction(z, z.current))
<1> DEFINE t  == z.current
           k1 == [z EXCEPT !.csFunction[t] = 0]
<1>1. t \in Thread /\ z.csFunction[t] \in Int
  BY FieldTypes
<1>2. k1 \in KState
  <2>1. [z.csFunction EXCEPT ![t] = 0] \in [Thread -> Int]
    BY FieldTypes
  <2> QED
    BY <2>1 DEF KState
<1>3. /\ k1.nstate = z.nstate /\ k1.pri = z.pri /\ k1.ready = z.ready /\ k1.time = z.time
      /\ k1.current = z.current /\ k1.heldFM = z.heldFM /\ k1.holding = z.holding
      /\ k1.resched = z.resched /\ k1.waiting = z.waiting
      /\ k1.waitFM = z.waitFM /\ k1.cont = z.cont
  BY DEF KState
<1>4. DoCsFunction(z, t) = IF z.csFunction[t] > 0 THEN Suspend(k1, t, z.csFunction[t])
                           ELSE IF z.csFunction[t] = ECSExitPending THEN Exit(k1, t)
                           ELSE [k1 EXCEPT !.fault = TRUE]
  BY DEF DoCsFunction
<1> HIDE DEF k1
<1>5. Calm(z, k1)
  <2>1. Quietly(z, k1) /\ (Waits(z) => Waits(k1))
    BY <1>3 DEF Quietly, Waits
  <2> QED
    BY <2>1, QuietCalm
<1>6. CASE z.csFunction[t] > 0
  <2>1. z.csFunction[t] \in Nat \ {0} /\ ReadyOK(k1)
    BY <1>1, <1>3, <1>6 DEF ReadyOK
  <2>2. Calm(k1, Suspend(k1, t, z.csFunction[t]))
    BY <1>1, <1>2, <2>1, SuspendCalm
  <2> QED
    BY <1>4, <1>5, <1>6, <2>2, CalmTrans
<1>7. CASE ~(z.csFunction[t] > 0) /\ z.csFunction[t] = ECSExitPending
  <2>1. Calm(k1, Exit(k1, t))
    BY <1>2, <1>3, ExitCalm
  <2> QED
    BY <1>4, <1>5, <1>7, <2>1, CalmTrans
<1>8. CASE ~(z.csFunction[t] > 0) /\ z.csFunction[t] # ECSExitPending
  <2> DEFINE k2 == [k1 EXCEPT !.fault = TRUE]
  <2>1. /\ k2.nstate = z.nstate /\ k2.pri = z.pri /\ k2.ready = z.ready /\ k2.time = z.time
        /\ k2.current = z.current /\ k2.heldFM = z.heldFM /\ k2.holding = z.holding
        /\ k2.resched = z.resched /\ k2.waiting = z.waiting
        /\ k2.waitFM = z.waitFM /\ k2.cont = z.cont
    BY <1>2, <1>3 DEF KState
  <2> HIDE DEF k2
  <2>2. Quietly(z, k2) /\ (Waits(z) => Waits(k2))
    BY <2>1 DEF Quietly, Waits
  <2>3. Calm(z, k2)
    BY <2>2, QuietCalm
  <2> QED
    BY <1>4, <1>8, <2>3 DEF k2
<1> QED
  BY <1>6, <1>7, <1>8

\* NFastMutex::Signal: the flagged holder asks for a reschedule.
LEMMA FMSignalCalm ==
    ASSUME NEW z, NEW m \in Mutex, KInv(z), z.heldFM[z.current] = m
    PROVE  Calm(z, FMSignal(z, z.current, m))
<1> DEFINE t  == z.current
           r  == z.resched \/ z.waiting[m]
           hm == [z.holding EXCEPT ![m] = Null]
           hf == [z.heldFM EXCEPT ![t] = Null]
           w  == [z.waiting EXCEPT ![m] = FALSE]
           k1 == [z EXCEPT !.holding = hm, !.heldFM = hf, !.waiting = w, !.resched = r]
<1>1. z \in KState /\ ReadyOK(z) /\ t \in Thread /\ m # Null
  BY FieldTypes, ThreadAssumption DEF KInv
<1>2. FMSignal(z, t, m) = IF z.waiting[m] /\ z.csFunction[t] # 0 /\ z.csCount[t] = 0
                          THEN DoCsFunction(k1, t) ELSE k1
  BY DEF FMSignal
<1>3. r \in BOOLEAN /\ hm \in [Mutex -> Thread \cup {Null}]
      /\ hf \in [Thread -> Mutex \cup {Null}] /\ w \in [Mutex -> BOOLEAN]
  BY <1>1, FieldTypes
<1>4. hm[SysLock] \in {Null, z.holding[SysLock]}
  BY <1>1, FieldTypes, ThreadAssumption
<1> HIDE DEF r, hm, hf, w
<1>5. k1 \in KState
  BY <1>1, <1>3 DEF KState
<1>6. /\ k1.nstate = z.nstate /\ k1.pri = z.pri /\ k1.ready = z.ready /\ k1.current = t
      /\ k1.holding = hm /\ k1.resched = r /\ k1.csFunction = z.csFunction
      /\ k1.waitFM = z.waitFM /\ k1.cont = z.cont
  BY <1>1 DEF KState
<1> HIDE DEF k1
<1>7. Calm(z, k1)
  <2>1. Flagged(z) => r
    BY <1>1 DEF Flagged, r
  <2>2. (Highest(z) => Highest(k1)) /\ (SysFree(z) => SysFree(k1))
    BY <1>4, <1>6 DEF Highest, SysFree
  <2>3. (Waits(z) => Waits(k1)) /\ (Exiting(z, z.current) => Exiting(k1, z.current))
    BY <1>6 DEF Waits, Exiting
  <2> QED
    BY <1>6, <2>1, <2>2, <2>3 DEF Calm, r
<1>8. CASE z.waiting[m] /\ z.csFunction[t] # 0 /\ z.csCount[t] = 0
  <2>1. ~Exiting(k1, t)
    BY <1>1, <1>6, <1>8 DEF KInv, DeferOK, DeferAt, Exiting, ECSExitInProgress
  <2>2. ReadyOK(k1)
    BY <1>1, <1>6 DEF ReadyOK
  <2>3. Calm(k1, DoCsFunction(k1, t))
    BY <1>5, <1>6, <2>1, <2>2, DoCsFunctionCalm
  <2> QED
    BY <1>2, <1>7, <1>8, <2>3, CalmTrans
<1>9. CASE ~(z.waiting[m] /\ z.csFunction[t] # 0 /\ z.csCount[t] = 0)
  BY <1>2, <1>7, <1>9
<1> QED
  BY <1>8, <1>9

\* NFastMutex::Wait: a thread that has to wait asks for a reschedule.
LEMMA FMWaitCalm ==
    ASSUME NEW z \in KState, NEW m \in Mutex, z.heldFM[z.current] = Null
    PROVE  Calm(z, FMTake(z, z.current, m)) /\ Calm(z, FMWait(z, z.current, m))
<1> DEFINE t  == z.current
           k1 == FMTake(z, t, m)
           k2 == [z EXCEPT !.waiting[m] = TRUE, !.waitFM[t] = m, !.cont[t] = "FMWait",
                           !.resched = TRUE]
<1>1. t \in Thread
  BY FieldTypes
<1>2. /\ k1.nstate = z.nstate /\ k1.pri = z.pri /\ k1.current = t
      /\ k1.holding = [z.holding EXCEPT ![m] = t] /\ k1.resched = z.resched
      /\ k1.csFunction = z.csFunction
      /\ k1.waitFM = [z.waitFM EXCEPT ![t] = Null] /\ k1.cont = [z.cont EXCEPT ![t] = "run"]
  BY DEF KState, FMTake
<1>3. /\ k2.current = t /\ k2.resched /\ k2.csFunction = z.csFunction
      /\ k2.waitFM = [z.waitFM EXCEPT ![t] = m] /\ k2.cont = [z.cont EXCEPT ![t] = "FMWait"]
  BY DEF KState
<1>4. FMWait(z, t, m) \in {k1, k2}
  BY DEF FMWait
<1> HIDE DEF k1, k2
<1>5. Calm(z, k1)
  <2>1. ~Flagged(z)
    BY DEF Flagged
  <2>2. k1.holding[SysLock] \in {z.holding[SysLock], t}
    BY <1>2, FieldTypes, ThreadAssumption
  <2>3. (Highest(z) => Highest(k1)) /\ (SysFree(z) => SysFree(k1))
    BY <1>2, <2>2 DEF Highest, SysFree
  <2>4. \A u \in Thread \ {t} : k1.waitFM[u] = z.waitFM[u] /\ k1.cont[u] = z.cont[u]
    BY <1>2, FieldTypes
  <2>5. (Waits(z) => Waits(k1)) /\ (Exiting(z, t) => Exiting(k1, t))
    BY <1>2, <2>4 DEF Waits, Exiting
  <2> QED
    BY <1>2, <2>1, <2>3, <2>5 DEF Calm
<1>6. Calm(z, k2)
  <2>1. \A u \in Thread \ {t} : k2.waitFM[u] = z.waitFM[u] /\ k2.cont[u] = z.cont[u]
    BY <1>3, FieldTypes
  <2>2. (Waits(z) => Waits(k2)) /\ (Exiting(z, t) => Exiting(k2, t))
    BY <1>3, <2>1 DEF Waits, Exiting
  <2> QED
    BY <1>3, <2>2 DEF Calm
<1> QED
  BY <1>4, <1>5, <1>6 DEF k1

\* A current thread that stops being ready has asked for a reschedule.
Stops(z, k1) ==
    /\ k1.nstate = [z.nstate EXCEPT ![z.current] = k1.nstate[z.current]]
    /\ k1.nstate[z.current] # "EReady" /\ k1.pri = z.pri
    /\ k1.ready = [z.ready EXCEPT ![z.pri[z.current]] = Without(@, z.current)]
    /\ k1.time = [z.time EXCEPT ![z.current] = Timeslice[z.current]]
    /\ k1.current = z.current /\ k1.resched
    /\ k1.holding = z.holding /\ k1.heldFM = z.heldFM
    /\ k1.waiting = z.waiting /\ k1.suspendCount = z.suspendCount
    /\ k1.csFunction = z.csFunction /\ k1.waitFM = z.waitFM
    /\ k1.cont = z.cont

\* TScheduler::Remove and the state the thread is put in, in either order.
LEMMA RemoveStops ==
    ASSUME NEW z \in KState, NEW s \in NState, ReadyOK(z), z.nstate[z.current] = "EReady",
           s # "EReady"
    PROVE  LET t == z.current
           IN  /\ Stops(z, [SchedRemove(RescheduleNeeded(z), t) EXCEPT !.nstate[t] = s])
               /\ Stops(z, SchedRemove([RescheduleNeeded(z) EXCEPT !.nstate[t] = s], t))
<1> DEFINE t  == z.current
           ns == [z.nstate EXCEPT ![t] = s]
           rd == [z.ready EXCEPT ![z.pri[t]] = Without(@, t)]
           tm == [z.time EXCEPT ![t] = Timeslice[t]]
           k1 == [SchedRemove(RescheduleNeeded(z), t) EXCEPT !.nstate[t] = s]
           k2 == SchedRemove([RescheduleNeeded(z) EXCEPT !.nstate[t] = s], t)
           k3 == [z EXCEPT !.resched = TRUE, !.time = tm, !.ready = rd, !.nstate = ns]
<1>1. k1 = k3 /\ k2 = k3
  BY DEF SchedRemove, RescheduleNeeded, PriListRemove, KState
<1>2. t \in Thread /\ ns[t] = s /\ ns = [z.nstate EXCEPT ![t] = ns[t]]
  BY FieldTypes
<1> HIDE DEF ns, rd, tm
<1>3. /\ k3.nstate = ns /\ k3.ready = rd /\ k3.time = tm /\ k3.resched
      /\ k3.pri = z.pri /\ k3.current = t /\ k3.holding = z.holding
      /\ k3.heldFM = z.heldFM /\ k3.waiting = z.waiting
      /\ k3.suspendCount = z.suspendCount
      /\ k3.csFunction = z.csFunction /\ k3.waitFM = z.waitFM /\ k3.cont = z.cont
  BY DEF KState
<1> HIDE DEF k3
<1>4. Stops(z, k3)
  BY <1>2, <1>3 DEF Stops, rd, tm
<1> HIDE DEF k1, k2
<1> QED
  BY <1>1, <1>4 DEF k1, k2

\* It leaves the choice to Reschedule.
LEMMA StopsCalm ==
    ASSUME NEW z, NEW k1, Stops(z, k1)
    PROVE  Calm(z, k1)
BY DEF Stops, Calm, Waits, Exiting

\* NFastSemaphore::Wait.
LEMMA SemWaitEffect ==
    ASSUME NEW z \in KState, ReadyOK(z), z.nstate[z.current] = "EReady"
    PROVE  LET k1 == SemWait(z, z.current)
           IN  SameSched(z, k1) \/ Stops(z, k1)
<1> DEFINE t  == z.current
           c  == [z.count EXCEPT ![t] = @ - 1]
           k0 == [z EXCEPT !.count = c]
           k1 == SemWait(z, t)
<1>1. k1 = IF k0.count[t] >= 0 THEN k0
           ELSE SchedRemove([RescheduleNeeded(k0) EXCEPT !.nstate[t] = "EWaitFastSemaphore"], t)
  BY DEF SemWait
<1>2. t \in Thread /\ c \in [Thread -> Int]
  BY FieldTypes
<1> HIDE DEF c
<1>7. SameSched(z, k0)
  BY CountSame
<1>3. k0 \in KState /\ k0.suspendCount = z.suspendCount /\ k0.csFunction = z.csFunction
  BY <1>2 DEF KState
<1> HIDE DEF k0
<1>4. /\ ReadyOK(k0) /\ k0.current = t /\ k0.nstate[t] = "EReady"
      /\ k0.pri = z.pri /\ k0.time = z.time
      /\ k0.heldFM = z.heldFM /\ k0.waitFM = z.waitFM /\ k0.cont = z.cont
      /\ k0.holding = z.holding /\ k0.waiting = z.waiting
      /\ k0.nstate = z.nstate /\ k0.ready = z.ready
  BY <1>7 DEF ReadyOK, SameSched
<1>5. CASE k0.count[t] >= 0
  BY <1>1, <1>5, <1>7
<1>6. CASE ~(k0.count[t] >= 0)
  <2>1. "EWaitFastSemaphore" \in NState
    BY DEF NState
  <2>2. Stops(k0, k1)
    BY <1>1, <1>3, <1>4, <1>6, <2>1, RemoveStops
  <2> HIDE DEF k1
  <2>3. Stops(z, k1)
    BY <1>3, <1>4, <2>2 DEF Stops
  <2> QED
    BY <2>3 DEF k1
<1> QED
  BY <1>5, <1>6

\* NThreadBase::Kill of another thread.
LEMMA KillCalm ==
    ASSUME NEW z, NEW t \in Thread \ {NullThread}, KInv(z), t # z.current
    PROVE  Calm(z, Kill(z, t))
<1>1. z \in KState /\ Calm(z, z) /\ z.current \in Thread
  BY FieldTypes DEF KInv, Calm
<1>2. CASE InCS(z, t)
  <2> DEFINE k1 == FlagHeld([z EXCEPT !.csFunction[t] = ECSExitPending], t)
  <2>1. Kill(z, t) = IF z.csFunction[t] < 0 THEN z ELSE k1
    BY <1>2 DEF Kill
  <2>2. ECSExitPending \in Int
    BY DEF ECSExitPending
  <2>3. /\ Quietly(z, k1) /\ k1.waitFM = z.waitFM /\ k1.cont = z.cont
        /\ k1.csFunction = [z.csFunction EXCEPT ![t] = ECSExitPending]
    BY <1>1, <2>2, FlagHeldEffect
  <2> HIDE DEF k1
  <2>4. (Waits(z) => Waits(k1)) /\ (Exiting(z, z.current) => Exiting(k1, z.current))
    BY <1>1, <2>3, FieldTypes DEF Waits, Exiting, Quietly
  <2>5. Calm(z, k1)
    BY <1>1, <2>3, <2>4, QuietCalm
  <2> QED
    BY <1>1, <2>1, <2>5
<1>3. CASE ~InCS(z, t)
  <2> DEFINE k2 == Release(z, t, KErrDied)
             k3 == ForceResume(k2, t)
             k1 == [k3 EXCEPT !.waitFM[t] = Null, !.csCount[t] = 1,
                              !.csFunction[t] = ECSExitPending, !.cont[t] = "ForcedExit"]
  <2>1. Kill(z, t) = k1
    BY <1>3 DEF Kill
  <2>2. KErrDied \in Int
    BY DEF KErrDied
  <2>3. KInv(k2) /\ Wakes(z, k2, t)
    BY <2>2, ReleaseOK, SignalWakes
  <2>4. Calm(z, k2)
    BY <1>1, <2>3, WakesCalm DEF KInv
  <2> HIDE DEF k2
  <2>5. KInv(k3) /\ Wakes(k2, k3, t) /\ k2 \in KState /\ ReadyOK(k2)
    BY <2>3, ForceResumeOK, ResumeWakes DEF KInv
  <2>6. Calm(k2, k3)
    BY <2>5, WakesCalm
  <2> HIDE DEF k3
  <2>7. Calm(z, k3) /\ k3 \in KState /\ k3.current = z.current
    BY <2>4, <2>5, <2>6, CalmTrans DEF KInv, Calm
  <2>8. /\ k1.nstate = k3.nstate /\ k1.pri = k3.pri /\ k1.ready = k3.ready /\ k1.time = k3.time
        /\ k1.current = k3.current /\ k1.heldFM = k3.heldFM /\ k1.holding = k3.holding
        /\ k1.resched = k3.resched /\ k1.waiting = k3.waiting
        /\ k1.waitFM = [k3.waitFM EXCEPT ![t] = Null]
        /\ k1.cont = [k3.cont EXCEPT ![t] = "ForcedExit"]
        /\ k1.csFunction = [k3.csFunction EXCEPT ![t] = ECSExitPending]
    BY <2>7 DEF KState
  <2> HIDE DEF k1
  <2>9. Quietly(k3, k1)
    BY <2>7, <2>8, FieldTypes DEF Quietly
  <2>10. Waits(k1)
    <3>1. k1.cont[t] = "ForcedExit" /\ t \in Thread \ {k1.current}
      BY <2>7, <2>8, FieldTypes
    <3> QED
      BY <3>1 DEF Waits
  <2>11. Exiting(k3, k3.current) => Exiting(k1, k3.current)
    BY <1>1, <2>7, <2>8, FieldTypes DEF Exiting
  <2>12. Calm(k3, k1)
    BY <2>7, <2>9, <2>10, <2>11, QuietCalm
  <2> QED
    BY <2>1, <2>7, <2>12, CalmTrans
<1> QED
  BY <1>2, <1>3

\* TScheduler::RotateReadyList.
LEMMA RotateCalm ==
    ASSUME NEW z \in KState, NEW p \in Pri
    PROVE  Calm(z, RotateReadyList(z, p))
<1> DEFINE h  == Head(z.ready[p])
           k0 == Rotated(z, p)
           k1 == [k0 EXCEPT !.resched = @ \/ h = z.current]
           k2 == [z EXCEPT !.time[h] = Timeslice[h],
                           !.ready[p] = Append(Tail(@), Head(@)),
                           !.resched = @ \/ h = z.current]
<1>1. k1 = k2
  BY DEF Rotated, KState
<1>2. RotateReadyList(z, p) \in {z, k1}
  BY DEF RotateReadyList
<1>3. /\ k2.nstate = z.nstate /\ k2.pri = z.pri /\ k2.csFunction = z.csFunction
      /\ k2.current = z.current /\ k2.heldFM = z.heldFM /\ k2.holding = z.holding
      /\ k2.resched = (z.resched \/ h = z.current) /\ k2.waiting = z.waiting
      /\ k2.waitFM = z.waitFM /\ k2.cont = z.cont
  BY DEF KState
<1> HIDE DEF k1, k2
<1>4. Calm(z, k2) /\ Calm(z, z)
  BY <1>3 DEF Calm, Flagged, Highest, SysFree, Waits, Exiting
<1> QED
  BY <1>1, <1>2, <1>4

\* NThreadBase::SetPriority asks for a reschedule when the thread comes to outrank
\* the current one, or the current one stops outranking another.
LEMMA SetPriorityCalm ==
    ASSUME NEW z, NEW t \in Thread, NEW p \in Pri, KInv(z), RunsOn(z)
    PROVE  Calm(z, SetPriority(z, t, p))
<1> DEFINE c  == z.current
           o  == z.pri[t]
           k1 == SetPriority(z, t, p)
<1>1. z \in KState /\ ReadyOK(z) /\ c \in Thread
  BY FieldTypes DEF KInv
<1>2. /\ \A u \in Thread : z.pri[u] \in Int
      /\ p \in Int
  BY <1>1, FieldTypes, PriInt
<1>3. ASSUME k1.current = c, z.resched => k1.resched, k1.csFunction = z.csFunction,
             k1.waitFM = z.waitFM, k1.cont = z.cont, k1.heldFM = z.heldFM,
             k1.holding = z.holding, \A m \in Mutex : z.waiting[m] => k1.waiting[m],
             k1.resched \/ (Highest(z) => Highest(k1))
      PROVE  Calm(z, k1)
  <2>1. (Waits(z) => Waits(k1)) /\ (Exiting(z, c) => Exiting(k1, c)) /\ (SysFree(z) => SysFree(k1))
    BY <1>3 DEF Waits, Exiting, SysFree
  <2>2. z.heldFM[c] \in Mutex \cup {Null}
    BY <1>1, FieldTypes
  <2>3. Flagged(z) => Flagged(k1)
    BY <1>3, <2>2 DEF Flagged
  <2> QED
    BY <1>3, <2>1, <2>3 DEF Calm
<1>4. CASE p = o
  BY <1>4 DEF SetPriority, Calm
<1>5. CASE p # o /\ z.nstate[t] # "EReady"
  <2>1. k1 = [z EXCEPT !.pri[t] = p]
    BY <1>5 DEF SetPriority
  <2>2. /\ k1.nstate = z.nstate /\ k1.csFunction = z.csFunction
        /\ k1.current = c /\ k1.heldFM = z.heldFM /\ k1.holding = z.holding
        /\ k1.resched = z.resched /\ k1.waiting = z.waiting
        /\ k1.waitFM = z.waitFM /\ k1.cont = z.cont
        /\ k1.pri = [z.pri EXCEPT ![t] = p]
    BY <1>1, <2>1 DEF KState
  <2> HIDE DEF k1
  <2>3. k1.resched \/ (Highest(z) => Highest(k1))
    <3> SUFFICES ASSUME ~k1.resched, Highest(z) PROVE Highest(k1)
      OBVIOUS
    <3>1. c # t
      BY <1>5, <2>2 DEF RunsOn
    <3>2. \A u \in Thread \ {t} : k1.pri[u] = z.pri[u]
      BY <1>1, <2>2, FieldTypes
    <3> QED
      BY <1>1, <1>5, <2>2, <3>1, <3>2 DEF Highest
  <2> QED
    BY <1>3, <2>2, <2>3 DEF k1
<1>6. CASE p # o /\ z.nstate[t] = "EReady"
  <2> DEFINE k2 == ChangePriority(z, t, p)
             r  == k2.resched \/ PriorityReschedules(k2, t, o)
             m  == z.heldFM[c]
             w  == [k2.waiting EXCEPT ![m] = TRUE]
  <2>1. k1 = IF PriorityDefers(k2, t, o) THEN [k2 EXCEPT !.waiting = w]
             ELSE [k2 EXCEPT !.resched = r]
    BY <1>6 DEF SetPriority
  <2>2. /\ k2 \in KState /\ ReadyOK(k2) /\ k2.nstate = z.nstate /\ k2.resched = z.resched
        /\ k2.time = z.time /\ Same([z EXCEPT !.pri = k2.pri], k2)
    BY <1>1, <1>6, ChangePriorityEffect
  <2>3. k2.pri = [z.pri EXCEPT ![t] = p]
    BY <1>1 DEF ChangePriority, PriListRemove, Add, KState
  <2> HIDE DEF k2
  <2>4. /\ k2.current = c /\ k2.csFunction = z.csFunction /\ k2.waitFM = z.waitFM
        /\ k2.cont = z.cont /\ k2.heldFM = z.heldFM /\ k2.holding = z.holding
        /\ k2.waiting = z.waiting
    BY <1>1, <2>2 DEF Same, KState
  <2>5. k2.pri[t] = p /\ \A u \in Thread \ {t} : k2.pri[u] = z.pri[u]
    BY <1>1, <2>3, FieldTypes
  <2>6. \A n \in Mutex : z.waiting[n] => w[n]
    BY <2>2, <2>4, FieldTypes
  <2> HIDE DEF r, w, k1
  <2>7. /\ k1.current = c /\ k1.csFunction = z.csFunction /\ k1.waitFM = z.waitFM
        /\ k1.cont = z.cont /\ k1.heldFM = z.heldFM /\ k1.holding = z.holding
        /\ k1.nstate = z.nstate /\ k1.pri = k2.pri
        /\ IF PriorityDefers(k2, t, o) THEN k1.waiting = w /\ k1.resched = z.resched
           ELSE k1.waiting = z.waiting /\ k1.resched = r
    BY <2>1, <2>2, <2>4 DEF KState
  <2>8. (z.resched => k1.resched) /\ \A n \in Mutex : z.waiting[n] => k1.waiting[n]
    BY <2>2, <2>6, <2>7 DEF r
  <2>9. k1.resched \/ (Highest(z) => Highest(k1))
    <3> SUFFICES ASSUME ~k1.resched, Highest(z),
                        NEW u \in Thread, z.nstate[u] = "EReady"
                 PROVE  k2.pri[u] =< k2.pri[c]
      BY <2>7 DEF Highest
    <3>1. z.nstate[c] = "EReady" /\ z.pri[u] =< z.pri[c] /\ o =< z.pri[c]
      BY <1>6, <2>8 DEF RunsOn, Highest
    <3>2. CASE t = c
      <4>1. CASE p >= o
        BY <1>2, <2>5, <3>1, <3>2, <4>1
      <4>2. CASE p < o
        <5>1. ~PriorityDefers(k2, t, o)
          BY <2>4, <3>2 DEF PriorityDefers
        <5>2. ~PriorityReschedules(k2, t, o)
          BY <2>7, <5>1 DEF r
        <5>3. ~Above(k2, p)
          BY <2>4, <2>5, <3>2, <4>2, <5>2 DEF PriorityReschedules
        <5>4. k2.pri[u] \in Pri /\ k2.ready[k2.pri[u]] # <<>>
          <6>1. u \in Range(k2.ready[k2.pri[u]]) /\ k2.pri[u] \in Pri
            BY <2>2, FieldTypes DEF ReadyOK
          <6>2. k2.ready[k2.pri[u]] # <<>>
            BY <6>1 DEF Range
          <6> QED
            BY <6>1, <6>2
        <5>5. ~(k2.pri[u] > p) /\ k2.pri[u] \in Int
          BY <5>3, <5>4, PriInt DEF Above, Present
        <5> QED
          BY <1>2, <2>5, <3>2, <5>5
      <4> QED
        BY <1>2, <4>1, <4>2
    <3>3. CASE t # c /\ u # t
      BY <2>5, <3>1, <3>3, <1>1
    <3>4. CASE t # c /\ u = t
      <4>1. k2.pri[c] = z.pri[c]
        BY <1>1, <2>5, <3>4
      <4>2. CASE p =< o
        BY <1>1, <1>2, <2>5, <3>1, <3>4, <4>1, <4>2
      <4>3. CASE PriorityDefers(k2, t, o)
        <5>1. p = z.pri[c]
          BY <2>4, <2>5, <4>1, <4>3 DEF PriorityDefers
        <5> QED
          BY <1>1, <1>2, <2>5, <3>4, <4>1, <5>1
      <4>4. CASE p > o /\ ~PriorityDefers(k2, t, o)
        <5>1. ~PriorityReschedules(k2, t, o)
          BY <2>7, <4>4 DEF r
        <5>2. ~(p > z.pri[c])
          BY <2>4, <2>5, <3>4, <4>1, <4>4, <5>1 DEF PriorityReschedules
        <5> QED
          BY <1>1, <1>2, <2>5, <3>4, <4>1, <5>2
      <4> QED
        BY <1>2, <4>2, <4>3, <4>4
    <3> QED
      BY <3>2, <3>3, <3>4
  <2> QED
    BY <1>3, <2>7, <2>8, <2>9 DEF k1
<1> QED
  BY <1>4, <1>5, <1>6

-----------------------------------------------------------------------------
\* The choice itself

\* The first thread has the highest priority of those that are ready.
LEMMA FirstHighest ==
    ASSUME NEW z, NEW u \in Thread, KInv(z), z.nstate[u] = "EReady"
    PROVE  z.pri[u] =< z.pri[First(z)]
<1>1. z \in KState
  BY DEF KInv
<1>2. z.pri[u] \in Pri /\ u \in Range(z.ready[z.pri[u]])
  BY <1>1, FieldTypes DEF KInv, ReadyOK
<1>3. z.pri[u] \in Present(z)
  BY <1>2 DEF Present, Range
<1>4. \A q \in Present(z) : q =< HighestPriority(z)
  <2>1. Present(z) \in SUBSET Pri
    BY DEF Present
  <2> QED
    BY <1>3, <2>1, HighestOfSome DEF HighestPriority
<1> QED
  BY <1>3, <1>4, FirstReady

\* What SelectThread leaves: the first thread runs, unless a mutex or the system
\* lock is in the way.
LEMMA SelectForChoice ==
    ASSUME NEW z, KInv(z)
    PROVE  LET k1 == SelectFor(z, First(z))
           IN  Flagged(k1) \/ Waits(k1) \/ (Highest(k1) /\ SysFree(k1))
<1> DEFINE t  == First(z)
           k1 == SelectFor(z, t)
           needsSys == t \in ImplicitSys /\ z.holding[SysLock] # Null
           wanted   == z.waitFM[t]
<1>1. z \in KState /\ t \in Thread /\ SysLock \in Mutex /\ Null \notin Mutex \cup Thread
  BY FirstReady, ThreadAssumption DEF KInv
<1>2. ASSUME NEW m \in Mutex, z.holding[m] # Null
      PROVE  z.holding[m] \in Thread /\ z.heldFM[z.holding[m]] = m
             /\ z.waitFM[z.holding[m]] = Null
  <2>1. z.holding[m] \in Thread /\ z.heldFM[z.holding[m]] = m
    BY <1>1, <1>2, FieldTypes DEF KInv, HolderOK
  <2> QED
    BY <1>1, <2>1 DEF KInv, OwnerOK
<1>3. ASSUME NEW u \in Thread
      PROVE  LET s == Switch(z, u)
             IN  /\ s.current = u /\ s.nstate = z.nstate /\ s.pri = z.pri
                 /\ s.holding = z.holding /\ s.waitFM = z.waitFM /\ s.cont = z.cont
  BY <1>1 DEF KState, Switch
<1>4. ASSUME NEW u \in Thread, z.heldFM[u] # Null
      PROVE  Flagged(FlagAndSwitch(z, z.heldFM[u], u))
  <2> DEFINE w == [z.waiting EXCEPT ![z.heldFM[u]] = TRUE]
             s == FlagAndSwitch(z, z.heldFM[u], u)
  <2>1. w[z.heldFM[u]]
    BY <1>1, <1>4, FieldTypes
  <2>2. s.current = u /\ s.heldFM = z.heldFM /\ s.waiting = w
    BY <1>1 DEF KState, FlagAndSwitch
  <2> HIDE DEF s, w
  <2> QED
    BY <1>4, <2>1, <2>2 DEF Flagged, s
<1>5. Highest(Switch(z, t))
  BY <1>1, <1>3, FirstHighest DEF Highest
<1>6. CASE z.heldFM[t] # Null /\ z.heldFM[t] # SysLock /\ needsSys
  BY <1>1, <1>4, <1>6 DEF SelectFor
<1>7. CASE z.heldFM[t] # Null /\ ~(z.heldFM[t] # SysLock /\ needsSys)
  <2>1. k1 = Switch(z, t)
    BY <1>7 DEF SelectFor
  <2>2. z.heldFM[t] = SysLock => z.holding[SysLock] = t
    BY <1>1 DEF KInv, HolderOK
  <2>3. SysFree(Switch(z, t))
    BY <1>1, <1>3, <1>7, <2>2 DEF SysFree
  <2> QED
    BY <1>5, <2>1, <2>3
<1>8. CASE z.heldFM[t] = Null /\ wanted # Null /\ z.holding[wanted] # Null
  <2> DEFINE h == z.holding[wanted]
  <2>1. k1 = Switch(z, h)
    BY <1>8 DEF SelectFor
  <2>2. wanted \in Mutex
    BY <1>1, <1>8, FieldTypes
  <2>3. h \in Thread /\ h # t
    BY <1>2, <1>8, <2>2
  <2> HIDE DEF h
  <2>4. Waits(Switch(z, h))
    BY <1>1, <1>3, <1>8, <2>3 DEF Waits
  <2> QED
    BY <2>1, <2>4
<1>9. CASE z.heldFM[t] = Null /\ ~(wanted # Null /\ z.holding[wanted] # Null) /\ needsSys
  <2> DEFINE h == z.holding[SysLock]
  <2>1. k1 = FlagAndSwitch(z, z.heldFM[h], h)
    BY <1>9 DEF SelectFor
  <2>2. h \in Thread /\ z.heldFM[h] # Null
    BY <1>1, <1>2, <1>9
  <2> HIDE DEF h
  <2> QED
    BY <1>4, <2>1, <2>2
<1>10. CASE z.heldFM[t] = Null /\ ~(wanted # Null /\ z.holding[wanted] # Null) /\ ~needsSys
  <2>1. k1 = Switch(z, t)
    BY <1>10 DEF SelectFor
  <2>2. SysFree(Switch(z, t))
    BY <1>1, <1>3, <1>10 DEF SysFree
  <2> QED
    BY <1>5, <2>1, <2>2
<1> QED
  BY <1>6, <1>7, <1>8, <1>9, <1>10

\* ... also after a round robin, or when it is put off.
LEMMA SelectThreadChoice ==
    ASSUME NEW z, KInv(z)
    PROVE  LET k1 == SelectThread(z)
           IN  Flagged(k1) \/ Waits(k1) \/ (Highest(k1) /\ SysFree(k1))
<1> DEFINE t       == First(z)
           expired == z.time[t] = 0 /\ ~Alone(z, t)
           k0      == IF expired THEN Rotated(z, HighestPriority(z)) ELSE z
           w       == [z.waiting EXCEPT ![z.heldFM[t]] = TRUE]
           s       == FlagAndSwitch(z, z.heldFM[t], t)
<1>1. t \in Thread /\ z \in KState
  BY FirstReady DEF KInv
<1>2. CASE expired /\ z.heldFM[t] # Null
  <2>1. w[z.heldFM[t]]
    BY <1>1, <1>2, FieldTypes
  <2>2. s.current = t /\ s.heldFM = z.heldFM /\ s.waiting = w
    BY <1>1 DEF KState, FlagAndSwitch
  <2>3. SelectThread(z) = s
    BY <1>2 DEF SelectThread
  <2> HIDE DEF s, w, t
  <2> QED
    BY <1>2, <2>1, <2>2, <2>3 DEF Flagged
<1>3. CASE ~(expired /\ z.heldFM[t] # Null)
  <2>1. KInv(k0)
    BY FirstReady, RotatedOK DEF SameFM
  <2>2. SelectThread(z) = SelectFor(k0, First(k0))
    BY <1>3 DEF SelectThread
  <2> HIDE DEF k0
  <2> QED
    BY <2>1, <2>2, SelectForChoice
<1> QED
  BY <1>2, <1>3

\* Taking another element off a queue leaves the first one first.
LEMMA WithoutHead ==
    ASSUME NEW S, NEW q \in Seq(S), NEW t \in S, t \in Range(q), q # <<>>, Head(q) # t
    PROVE  Without(q, t) # <<>> /\ Head(Without(q, t)) = Head(q)
<1> DEFINE n  == CHOOSE i \in DOMAIN q : q[i] = t
           s1 == SubSeq(q, 1, n - 1)
           s2 == SubSeq(q, n + 1, Len(q))
<1>1. n \in 1..Len(q) /\ q[n] = t /\ Len(q) \in Nat
  BY DEF Range
<1>2. Without(q, t) = s1 \o s2
  BY DEF Without, RemoveAt
<1> HIDE DEF n
<1>3. n > 1 /\ Head(q) = q[1]
  BY <1>1
<1>4. s1 \in Seq(S) /\ Len(s1) = n - 1 /\ s1[1] = q[1]
  BY <1>1, <1>3
<1>5. s2 \in Seq(S)
  <2>1. \A i \in (n + 1)..Len(q) : q[i] \in S
    BY <1>1
  <2>2. n + 1 \in Int /\ Len(q) \in Int
    BY <1>1
  <2> QED
    BY <2>1, <2>2, SubSeqProperties
<1> HIDE DEF s1, s2
<1>6. (s1 \o s2)[1] = s1[1] /\ Len(s1 \o s2) > 0
  BY <1>1, <1>3, <1>4, <1>5
<1>7. s1 \o s2 # <<>> /\ Head(s1 \o s2) = q[1]
  BY <1>4, <1>5, <1>6
<1> QED
  BY <1>2, <1>3, <1>7

-----------------------------------------------------------------------------
\* Turns and flags among threads that leave each other alone

\* Holders and threads whose timeslice is over are the first of their priority.
Turns(z) ==
    \A t \in Thread : z.heldFM[t] # Null \/ z.time[t] = 0 => IsFirst(z, t)

\* A thread that waits for a mutex is ready, and has flagged it or does not outrank
\* the holder.
WaitersOK(z) ==
    \A t \in Thread : z.waitFM[t] # Null =>
        /\ z.nstate[t] = "EReady"
        /\ z.holding[z.waitFM[t]] # Null =>
              \/ z.waiting[z.waitFM[t]]
              \/ z.pri[t] =< z.pri[z.holding[z.waitFM[t]]]

\* Nobody is suspended or to be suspended.
Plain(z) ==
    \A t \in Thread : z.csFunction[t] =< 0 /\ z.suspendCount[t] = 0

Ordered(z) == Turns(z) /\ WaitersOK(z) /\ Plain(z)

\* The current thread should run, a reschedule is due, or a flag is set.
Settled(z) ==
    \/ z.resched \/ Flagged(z)
    \/ /\ Highest(z) /\ SysFree(z) /\ IsFirst(z, z.current)
       /\ z.time[z.current] = 0 => Alone(z, z.current)

\* Nothing makes the thread exit.
Whole(z, t) == z.csFunction[t] = 0 /\ z.cont[t] # "ForcedExit"

\* A step that keeps turns and flags, after which the current thread is the first of
\* its priority, has the timeslice it had or a new one, and which makes nobody exit
\* but threads of X.
Follows(z, k1, X) ==
    /\ Ordered(k1) /\ Settled(k1) /\ k1.current = z.current
    /\ LET c == z.current
       IN  \/ IsFirst(k1, c) \/ k1.time[c] = Timeslice[c]
           \/ ~IsFirst(z, c) /\ k1.time[c] = z.time[c]
    /\ \A u \in Thread \ X : Whole(z, u) => Whole(k1, u)

\* Two such steps one after the other.
LEMMA FollowsTrans ==
    ASSUME NEW z, NEW k1, NEW k2, NEW X, Follows(z, k1, X), Follows(k1, k2, X)
    PROVE  Follows(z, k2, X)
BY DEF Follows

\* Two threads that are both the first of one priority.
LEMMA FirstOnly ==
    ASSUME NEW z, NEW t, NEW u, IsFirst(z, t), IsFirst(z, u), z.pri[t] = z.pri[u]
    PROVE  t = u
BY DEF IsFirst

\* A thread that is listed comes after the first one.
LEMMA AppendHead ==
    ASSUME NEW S, NEW q \in Seq(S), NEW t \in S, q # <<>>
    PROVE  Append(q, t) # <<>> /\ Head(Append(q, t)) = Head(q)
<1>1. Len(q) > 0 /\ Len(Append(q, t)) = Len(q) + 1 /\ Append(q, t)[1] = q[1]
  OBVIOUS
<1> QED
  BY <1>1

\* A thread that is made ready comes last of its priority, and sets a flag if it outranks.
LEMMA WakesOrdered ==
    ASSUME NEW z \in KState, NEW k1, NEW t \in Thread, ReadyOK(z), Wakes(z, k1, t),
           Ordered(z), Settled(z)
    PROVE  Follows(z, k1, {})
<1>1. ASSUME NEW u \in Thread, IsFirst(z, u) PROVE IsFirst(k1, u)
  <2>1. CASE k1.ready = z.ready
    BY <1>1, <2>1 DEF Wakes, IsFirst
  <2>2. CASE k1.ready = [z.ready EXCEPT ![z.pri[t]] = Append(@, t)]
    <3>1. z.pri[t] \in Pri /\ z.pri[u] \in Pri /\ z.ready[z.pri[t]] \in Seq(Thread)
      BY FieldTypes
    <3>2. k1.ready[z.pri[u]] = IF z.pri[u] = z.pri[t] THEN Append(z.ready[z.pri[t]], t)
                               ELSE z.ready[z.pri[u]]
      BY <2>2, <3>1, FieldTypes
    <3> QED
      BY <1>1, <3>1, <3>2, AppendHead DEF Wakes, IsFirst
  <2> QED
    BY <2>1, <2>2 DEF Wakes
<1>2. Turns(k1)
  BY <1>1 DEF Ordered, Turns, Wakes
<1>3. WaitersOK(k1)
  <2> SUFFICES ASSUME NEW u \in Thread, z.waitFM[u] # Null PROVE k1.nstate[u] = "EReady"
    BY DEF Ordered, WaitersOK, Wakes
  <2>1. z.nstate[u] = "EReady"
    BY DEF Ordered, WaitersOK
  <2> QED
    BY <2>1, FieldTypes DEF Wakes
<1>4. Plain(k1)
  BY DEF Ordered, Plain, Wakes
<1>5. Calm(z, k1)
  BY WakesCalm
<1>6. ASSUME ~k1.resched, Highest(z), IsFirst(z, z.current),
             z.time[z.current] = 0 => Alone(z, z.current), z.time[z.current] = 0
      PROVE  Alone(k1, z.current)
  <2>1. CASE k1.ready = z.ready
    BY <1>6, <2>1 DEF Wakes, Alone
  <2>2. CASE k1.ready = [z.ready EXCEPT ![z.pri[t]] = Append(@, t)] /\ ~Preempts(z, t)
    <3>1. PICK v \in Thread : /\ z.nstate[v] = "EReady" /\ z.pri[t] =< z.pri[v]
                              /\ IsFirst(z, v)
                              /\ z.pri[v] = z.pri[t] => z.time[v] # 0
      BY <2>2, NotPreempting
    <3>2. z.pri[v] =< z.pri[z.current] /\ z.current \in Thread
      BY <1>6, <3>1, FieldTypes DEF Highest
    <3>3. z.pri[v] \in Int /\ z.pri[t] \in Int /\ z.pri[z.current] \in Int
      BY <3>2, FieldTypes, PriInt
    <3>4. z.pri[t] # z.pri[z.current]
      <4> SUFFICES ASSUME z.pri[t] = z.pri[z.current] PROVE FALSE
        OBVIOUS
      <4>1. z.pri[v] = z.pri[t] /\ z.pri[v] = z.pri[z.current]
        BY <3>1, <3>2, <3>3
      <4>2. v = z.current
        BY <1>6, <3>1, <4>1, FirstOnly
      <4> QED
        BY <1>6, <3>1, <4>1, <4>2
    <3>5. k1.ready[z.pri[z.current]] = z.ready[z.pri[z.current]]
      BY <2>2, <3>2, <3>4, FieldTypes
    <3> QED
      BY <1>6, <3>5 DEF Alone, Wakes
  <2> QED
    BY <1>6, <2>1, <2>2 DEF Wakes
<1>7. z.current \in Thread /\ k1.current = z.current /\ k1.time = z.time
  BY FieldTypes DEF Wakes
<1>8. Settled(k1)
  BY <1>1, <1>5, <1>6, <1>7 DEF Settled, Calm
<1>9. \A u \in Thread : Whole(z, u) => Whole(k1, u)
  <2>1. 0 =< 0
    OBVIOUS
  <2> QED
    BY <2>1 DEF Whole, Wakes
<1> QED
  BY <1>1, <1>2, <1>3, <1>4, <1>7, <1>8, <1>9 DEF Follows, Ordered

\* A step that neither moves threads nor clears a flag.
LEMMA QuietOrdered ==
    ASSUME NEW z \in KState, NEW k1, NEW X, Quietly(z, k1), Ordered(z), Settled(z), Plain(k1),
           \A u \in Thread \ X : Whole(z, u) => Whole(k1, u)
    PROVE  Follows(z, k1, X)
<1>1. Turns(k1)
  BY DEF Quietly, Ordered, Turns, IsFirst
<1>2. WaitersOK(k1)
  <2> SUFFICES ASSUME NEW u \in Thread, k1.waitFM[u] # Null
               PROVE  /\ z.nstate[u] = "EReady"
                      /\ z.holding[z.waitFM[u]] # Null =>
                            \/ k1.waiting[z.waitFM[u]]
                            \/ z.pri[u] =< z.pri[z.holding[z.waitFM[u]]]
                      /\ k1.waitFM[u] = z.waitFM[u]
    BY DEF WaitersOK, Quietly
  <2>1. k1.waitFM[u] = z.waitFM[u] /\ z.waitFM[u] \in Mutex
    BY FieldTypes DEF Quietly
  <2> QED
    BY <2>1 DEF Ordered, WaitersOK, Quietly
<1>3. z.current \in Thread /\ z.heldFM[z.current] \in Mutex \cup {Null}
  BY FieldTypes
<1>4. Settled(k1)
  BY <1>3 DEF Settled, Quietly, Flagged, Highest, SysFree, IsFirst, Alone
<1>5. IsFirst(k1, z.current) \/ (~IsFirst(z, z.current) /\ k1.time = z.time)
  BY DEF Quietly, IsFirst
<1> QED
  BY <1>1, <1>2, <1>4, <1>5 DEF Follows, Ordered, Quietly

\* The current thread stops: it loses its turn, and a reschedule is due.
LEMMA StopsOrdered ==
    ASSUME NEW z \in KState, NEW k1, ReadyOK(z), Stops(z, k1), Ordered(z),
           z.nstate[z.current] = "EReady", z.heldFM[z.current] = Null,
           z.waitFM[z.current] = Null
    PROVE  Follows(z, k1, {})
<1> DEFINE c == z.current
           q == z.ready[z.pri[c]]
<1>1. c \in Thread /\ z.pri[c] \in Pri /\ q \in Seq(Thread) /\ c \in Range(q)
  BY FieldTypes DEF ReadyOK
<1>2. ASSUME NEW u \in Thread \ {c}, IsFirst(z, u) PROVE IsFirst(k1, u)
  <2>1. k1.ready[z.pri[u]] = IF z.pri[u] = z.pri[c] THEN Without(q, c) ELSE z.ready[z.pri[u]]
    BY <1>1, FieldTypes DEF Stops
  <2>2. CASE z.pri[u] # z.pri[c]
    BY <1>2, <2>1, <2>2 DEF IsFirst, Stops
  <2>3. CASE z.pri[u] = z.pri[c]
    <3>1. q # <<>> /\ Head(q) # c /\ Head(q) = u
      BY <1>2, <2>3 DEF IsFirst
    <3> HIDE DEF q, c
    <3>2. Without(q, c) # <<>> /\ Head(Without(q, c)) = Head(q)
      BY <1>1, <3>1, WithoutHead
    <3> QED
      BY <2>1, <2>3, <3>1, <3>2 DEF IsFirst, Stops
  <2> QED
    BY <2>2, <2>3
<1>3. k1.time[c] = Timeslice[c] /\ k1.time[c] # 0
      /\ \A u \in Thread \ {c} : k1.time[u] = z.time[u]
  <2>1. Timeslice[c] # 0
    <3>1. Timeslice[c] = -1 \/ Timeslice[c] > 0
      BY <1>1, ThreadAssumption
    <3> QED
      BY <3>1
  <2>2. k1.time = [z.time EXCEPT ![c] = Timeslice[c]] /\ z.time \in [Thread -> Int]
    BY FieldTypes DEF Stops
  <2> HIDE DEF c
  <2> QED
    BY <1>1, <2>1, <2>2
<1>4. Turns(k1)
  <2> SUFFICES ASSUME NEW u \in Thread, k1.heldFM[u] # Null \/ k1.time[u] = 0
               PROVE  IsFirst(k1, u)
    BY DEF Turns
  <2>1. u # c /\ (z.heldFM[u] # Null \/ z.time[u] = 0)
    BY <1>3 DEF Stops
  <2> QED
    BY <1>2, <2>1 DEF Ordered, Turns
<1>5. WaitersOK(k1)
  <2>1. \A u \in Thread \ {c} : k1.nstate[u] = z.nstate[u]
    BY <1>1, FieldTypes DEF Stops
  <2> QED
    BY <2>1 DEF WaitersOK, Ordered, Stops
<1>6. Plain(k1) /\ Settled(k1)
  BY DEF Plain, Ordered, Settled, Stops
<1> QED
  BY <1>3, <1>4, <1>5, <1>6 DEF Follows, Ordered, Stops, Whole

\* NThreadBase::Exit, and suspensions and exits that are put off.
LEMMA ExitOrdered ==
    ASSUME NEW z \in KState, NEW t \in Thread, Ordered(z), Settled(z)
    PROVE  Follows(z, Exit(z, t), {t}) /\ Follows(z, ForcedExit(z, t), {t})
<1>1. ASSUME NEW k1, Quietly(z, k1), k1.suspendCount = z.suspendCount,
             k1.csFunction = [z.csFunction EXCEPT ![t] = ECSExitInProgress],
             k1.cont = [z.cont EXCEPT ![t] = "run"]
      PROVE  Follows(z, k1, {t})
  <2>1. \A u \in Thread \ {t} : k1.csFunction[u] = z.csFunction[u] /\ k1.cont[u] = z.cont[u]
    BY <1>1, FieldTypes
  <2>2. k1.csFunction[t] =< 0
    BY <1>1, FieldTypes DEF ECSExitInProgress
  <2>3. Plain(k1)
    BY <1>1, <2>1, <2>2 DEF Plain, Ordered
  <2> QED
    BY <1>1, <2>1, <2>3, QuietOrdered DEF Whole
<1> QED
  BY <1>1, ExitEffect, ForcedExitEffect

\* A deferred exit flags the mutex that is held.
LEMMA FlagHeldOrdered ==
    ASSUME NEW z \in KState, NEW t \in Thread, NEW f \in Int, f =< 0, Ordered(z), Settled(z)
    PROVE  Follows(z, FlagHeld([z EXCEPT !.csFunction[t] = f], t), {t})
<1> DEFINE k1 == FlagHeld([z EXCEPT !.csFunction[t] = f], t)
<1>1. /\ Quietly(z, k1) /\ k1.waitFM = z.waitFM /\ k1.cont = z.cont
      /\ k1.suspendCount = z.suspendCount
      /\ k1.csFunction = [z.csFunction EXCEPT ![t] = f]
  BY FlagHeldEffect
<1> HIDE DEF k1
<1>2. k1.csFunction[t] = f /\ \A u \in Thread \ {t} : k1.csFunction[u] = z.csFunction[u]
  BY <1>1, FieldTypes
<1>3. Plain(k1)
  BY <1>1, <1>2 DEF Plain, Ordered
<1>4. Follows(z, k1, {t})
  BY <1>1, <1>2, <1>3, QuietOrdered DEF Whole
<1> QED
  BY <1>4 DEF k1

\* NThreadBase::DoCSFunction: only exits are put off.
LEMMA DoCsFunctionOrdered ==
    ASSUME NEW z \in KState, NEW t \in Thread, z.csFunction[t] # 0, Ordered(z), Settled(z)
    PROVE  Follows(z, DoCsFunction(z, t), {})
<1> DEFINE f  == [z.csFunction EXCEPT ![t] = 0]
           k1 == [z EXCEPT !.csFunction = f]
           k2 == [k1 EXCEPT !.fault = TRUE]
<1>1. ~(z.csFunction[t] > 0)
  <2>1. z.csFunction[t] =< 0 /\ z.csFunction[t] \in Int
    BY FieldTypes DEF Ordered, Plain
  <2> QED
    BY <2>1
<1>2. DoCsFunction(z, t) = Exit(k1, t) \/ DoCsFunction(z, t) = k2
  BY <1>1 DEF DoCsFunction
<1>3. f \in [Thread -> Int] /\ f[t] = 0 /\ \A u \in Thread \ {t} : f[u] = z.csFunction[u]
  BY FieldTypes
<1> HIDE DEF f
<1>4. ASSUME NEW k3, k3 \in {k1, k2} PROVE Follows(z, k3, {})
  <2>1. /\ k3.nstate = z.nstate /\ k3.pri = z.pri /\ k3.ready = z.ready /\ k3.time = z.time
        /\ k3.current = z.current /\ k3.heldFM = z.heldFM /\ k3.holding = z.holding
        /\ k3.resched = z.resched /\ k3.waiting = z.waiting
        /\ k3.waitFM = z.waitFM /\ k3.cont = z.cont
        /\ k3.suspendCount = z.suspendCount /\ k3.csFunction = f
    BY <1>4 DEF KState
  <2>2. Quietly(z, k3)
    BY <2>1 DEF Quietly
  <2>3. Plain(k3)
    <3>1. 0 =< 0
      OBVIOUS
    <3> QED
      BY <1>3, <2>1, <3>1 DEF Plain, Ordered
  <2>4. \A u \in Thread : Whole(z, u) => Whole(k3, u)
    BY <1>3, <2>1 DEF Whole
  <2> QED
    BY <2>2, <2>3, <2>4, QuietOrdered
<1>5. Follows(z, Exit(k1, t), {})
  <2>1. k1 \in KState
    BY <1>3 DEF KState
  <2>2. Follows(z, k1, {})
    BY <1>4
  <2> HIDE DEF k1
  <2>3. Follows(k1, Exit(k1, t), {t})
    BY <2>1, <2>2, ExitOrdered DEF Follows
  <2>4. Follows(z, k1, {t})
    BY <2>2 DEF Follows
  <2>5. Follows(z, Exit(k1, t), {t})
    BY <2>3, <2>4, FollowsTrans
  <2> QED
    BY <2>5 DEF Follows, Whole
<1> QED
  BY <1>2, <1>4, <1>5

\* NFastMutex::Wait: the thread that takes a mutex is the first of the highest priority.
LEMMA FMTakeOrdered ==
    ASSUME NEW z \in KState, NEW m \in Mutex, Ordered(z), Settled(z), HolderOK(z), ~z.resched,
           z.heldFM[z.current] = Null, z.holding[m] = Null
    PROVE  Follows(z, FMTake(z, z.current, m), {})
<1> DEFINE c  == z.current
           wf == [z.waitFM EXCEPT ![c] = Null]
           hf == [z.heldFM EXCEPT ![c] = m]
           hm == [z.holding EXCEPT ![m] = c]
           cn == [z.cont EXCEPT ![c] = "run"]
           k1 == FMTake(z, c, m)
<1>1. c \in Thread /\ Null \notin Mutex
  BY FieldTypes, ThreadAssumption
<1>2. /\ k1.nstate = z.nstate /\ k1.pri = z.pri /\ k1.ready = z.ready /\ k1.time = z.time
      /\ k1.current = c /\ k1.resched = z.resched /\ k1.waiting = z.waiting
      /\ k1.suspendCount = z.suspendCount /\ k1.csFunction = z.csFunction
      /\ k1.waitFM = wf /\ k1.heldFM = hf /\ k1.holding = hm /\ k1.cont = cn
  BY DEF KState, FMTake
<1>3. /\ wf[c] = Null /\ hf[c] = m /\ cn[c] = "run" /\ hm[m] = c
      /\ \A u \in Thread \ {c} : wf[u] = z.waitFM[u] /\ hf[u] = z.heldFM[u] /\ cn[u] = z.cont[u]
      /\ \A n \in Mutex \ {m} : hm[n] = z.holding[n]
  BY <1>1, FieldTypes
<1> HIDE DEF wf, hf, hm, cn, k1
<1>4. /\ Highest(z) /\ SysFree(z) /\ IsFirst(z, c)
      /\ z.time[c] = 0 => Alone(z, c)
  BY DEF Settled, Flagged
<1>5. Turns(k1)
  <2>1. \A u \in Thread : IsFirst(k1, u) <=> IsFirst(z, u)
    BY <1>2 DEF IsFirst
  <2> QED
    BY <1>2, <1>3, <1>4, <2>1 DEF Turns, Ordered
<1>6. WaitersOK(k1)
  <2> SUFFICES ASSUME NEW u \in Thread, wf[u] # Null
               PROVE  /\ z.nstate[u] = "EReady"
                      /\ hm[wf[u]] # Null => z.waiting[wf[u]] \/ z.pri[u] =< z.pri[hm[wf[u]]]
    BY <1>2 DEF WaitersOK
  <2>1. u # c /\ wf[u] = z.waitFM[u] /\ z.waitFM[u] \in Mutex
    BY <1>3, FieldTypes
  <2>2. z.nstate[u] = "EReady"
    BY <2>1 DEF Ordered, WaitersOK
  <2>3. CASE wf[u] = m
    BY <1>3, <1>4, <2>2, <2>3 DEF Highest
  <2>4. CASE wf[u] # m
    BY <1>3, <2>1, <2>2, <2>4 DEF Ordered, WaitersOK
  <2> QED
    BY <2>3, <2>4
<1>7. Plain(k1)
  BY <1>2 DEF Plain, Ordered
<1>8. Settled(k1)
  <2>1. Highest(k1) /\ IsFirst(k1, c) /\ (k1.time[c] = 0 => Alone(k1, c))
    BY <1>2, <1>4 DEF Highest, IsFirst, Alone
  <2>2. SysFree(k1)
    BY <1>2, <1>3, <1>4, ThreadAssumption DEF SysFree
  <2> QED
    BY <1>2, <2>1, <2>2 DEF Settled
<1>9. IsFirst(k1, c)
  BY <1>2, <1>4 DEF IsFirst
<1>10. \A u \in Thread : Whole(z, u) => Whole(k1, u)
  BY <1>2, <1>3 DEF Whole
<1>11. Follows(z, k1, {})
  BY <1>2, <1>5, <1>6, <1>7, <1>8, <1>9, <1>10 DEF Follows, Ordered
<1> QED
  BY <1>11 DEF k1

\* Waiting for a mutex flags it.
LEMMA FMWaitOrdered ==
    ASSUME NEW z \in KState, NEW m \in Mutex, Ordered(z), Settled(z), HolderOK(z), ~z.resched,
           z.heldFM[z.current] = Null, z.nstate[z.current] = "EReady"
    PROVE  Follows(z, FMWait(z, z.current, m), {})
<1> DEFINE c  == z.current
           wf == [z.waitFM EXCEPT ![c] = m]
           cn == [z.cont EXCEPT ![c] = "FMWait"]
           wa == [z.waiting EXCEPT ![m] = TRUE]
           k1 == [z EXCEPT !.waiting[m] = TRUE, !.waitFM[c] = m, !.cont[c] = "FMWait",
                           !.resched = TRUE]
<1>1. FMWait(z, c, m) = IF z.holding[m] # Null THEN k1 ELSE FMTake(z, c, m)
  BY DEF FMWait
<1>2. /\ k1.nstate = z.nstate /\ k1.pri = z.pri /\ k1.ready = z.ready /\ k1.time = z.time
      /\ k1.current = c /\ k1.resched /\ k1.waiting = wa
      /\ k1.suspendCount = z.suspendCount /\ k1.csFunction = z.csFunction
      /\ k1.waitFM = wf /\ k1.heldFM = z.heldFM /\ k1.holding = z.holding /\ k1.cont = cn
  BY DEF KState
<1>3. /\ wf[c] = m /\ cn[c] = "FMWait" /\ wa[m] /\ c \in Thread
      /\ \A u \in Thread \ {c} : wf[u] = z.waitFM[u] /\ cn[u] = z.cont[u]
      /\ \A n \in Mutex : z.waiting[n] => wa[n]
  BY FieldTypes
<1> HIDE DEF wf, cn, wa, k1
<1>4. Turns(k1) /\ Plain(k1) /\ Settled(k1)
  BY <1>2 DEF Turns, Ordered, IsFirst, Plain, Settled
<1>5. WaitersOK(k1)
  <2> SUFFICES ASSUME NEW u \in Thread, wf[u] # Null
               PROVE  /\ z.nstate[u] = "EReady"
                      /\ z.holding[wf[u]] # Null =>
                            wa[wf[u]] \/ z.pri[u] =< z.pri[z.holding[wf[u]]]
    BY <1>2 DEF WaitersOK
  <2>1. CASE u = c
    BY <1>3, <2>1
  <2>2. CASE u # c
    <3>1. wf[u] = z.waitFM[u] /\ z.waitFM[u] \in Mutex
      BY <1>3, <2>2, FieldTypes
    <3> QED
      BY <1>3, <3>1 DEF Ordered, WaitersOK
  <2> QED
    BY <2>1, <2>2
<1>6. IsFirst(k1, c) \/ (~IsFirst(z, c) /\ k1.time[c] = z.time[c])
  BY <1>2 DEF IsFirst
<1>7. \A u \in Thread : Whole(z, u) => Whole(k1, u)
  BY <1>2, <1>3 DEF Whole
<1>8. Follows(z, k1, {})
  BY <1>2, <1>4, <1>5, <1>6, <1>7 DEF Follows, Ordered
<1> QED
  BY <1>1, <1>8, FMTakeOrdered

\* NFastMutex::Signal.
LEMMA FMSignalOrdered ==
    ASSUME NEW z, NEW m \in Mutex, KInv(z), Ordered(z), Settled(z), z.heldFM[z.current] = m
    PROVE  Follows(z, FMSignal(z, z.current, m), {})
<1> DEFINE c  == z.current
           r  == z.resched \/ z.waiting[m]
           hm == [z.holding EXCEPT ![m] = Null]
           hf == [z.heldFM EXCEPT ![c] = Null]
           w  == [z.waiting EXCEPT ![m] = FALSE]
           k1 == [z EXCEPT !.holding = hm, !.heldFM = hf, !.waiting = w, !.resched = r]
<1>1. z \in KState /\ c \in Thread /\ m # Null
  BY FieldTypes, ThreadAssumption DEF KInv
<1>2. FMSignal(z, c, m) = IF z.waiting[m] /\ z.csFunction[c] # 0 /\ z.csCount[c] = 0
                          THEN DoCsFunction(k1, c) ELSE k1
  BY DEF FMSignal
<1>3. /\ r \in BOOLEAN /\ hm \in [Mutex -> Thread \cup {Null}]
      /\ hf \in [Thread -> Mutex \cup {Null}] /\ w \in [Mutex -> BOOLEAN]
      /\ hf[c] = Null /\ \A u \in Thread \ {c} : hf[u] = z.heldFM[u]
      /\ hm[m] = Null /\ \A n \in Mutex \ {m} : hm[n] = z.holding[n] /\ w[n] = z.waiting[n]
  BY <1>1, FieldTypes
<1> HIDE DEF hm, hf, w
<1>4. k1 \in KState
  BY <1>1, <1>3 DEF KState
<1>5. /\ k1.nstate = z.nstate /\ k1.pri = z.pri /\ k1.ready = z.ready /\ k1.current = c
      /\ k1.holding = hm /\ k1.resched = r /\ k1.csFunction = z.csFunction
      /\ k1.waitFM = z.waitFM /\ k1.cont = z.cont /\ k1.heldFM = hf /\ k1.waiting = w
      /\ k1.time = z.time /\ k1.suspendCount = z.suspendCount
  BY <1>1 DEF KState
<1> HIDE DEF k1
<1>6. Turns(k1) /\ Plain(k1)
  BY <1>3, <1>5 DEF Turns, Ordered, IsFirst, Plain
<1>7. WaitersOK(k1)
  <2> SUFFICES ASSUME NEW u \in Thread, z.waitFM[u] # Null
               PROVE  /\ z.nstate[u] = "EReady"
                      /\ hm[z.waitFM[u]] # Null =>
                            w[z.waitFM[u]] \/ z.pri[u] =< z.pri[hm[z.waitFM[u]]]
    BY <1>5 DEF WaitersOK
  <2>1. z.waitFM[u] \in Mutex
    BY <1>1, FieldTypes
  <2> QED
    BY <1>3, <2>1 DEF Ordered, WaitersOK
<1>8. Settled(k1)
  <2>1. CASE z.resched \/ Flagged(z)
    BY <1>1, <1>5, <2>1 DEF Settled, Flagged
  <2>2. CASE /\ Highest(z) /\ SysFree(z) /\ IsFirst(z, c)
             /\ z.time[c] = 0 => Alone(z, c)
    <3>1. SysFree(k1)
      BY <1>3, <1>5, <2>2, ThreadAssumption DEF SysFree
    <3>2. Highest(k1) /\ IsFirst(k1, c) /\ (k1.time[c] = 0 => Alone(k1, c))
      BY <1>5, <2>2 DEF Highest, IsFirst, Alone
    <3> QED
      BY <1>5, <3>1, <3>2 DEF Settled
  <2> QED
    BY <2>1, <2>2 DEF Settled
<1>9. IsFirst(k1, c) \/ (~IsFirst(z, c) /\ k1.time[c] = z.time[c])
  BY <1>5 DEF IsFirst
<1>10. \A u \in Thread : Whole(z, u) => Whole(k1, u)
  BY <1>5 DEF Whole
<1>11. Follows(z, k1, {})
  BY <1>5, <1>6, <1>7, <1>8, <1>9, <1>10 DEF Follows, Ordered
<1>12. ASSUME z.csFunction[c] # 0 PROVE Follows(z, DoCsFunction(k1, c), {})
  <2>1. k1.csFunction[c] # 0
    BY <1>5, <1>12
  <2>2. Follows(k1, DoCsFunction(k1, c), {})
    BY <1>1, <1>4, <1>11, <2>1, DoCsFunctionOrdered DEF Follows
  <2> QED
    BY <1>11, <2>2, FollowsTrans
<1> QED
  BY <1>2, <1>11, <1>12

\* NThreadBase::Kill of another thread.
LEMMA KillOrdered ==
    ASSUME NEW z, NEW t \in Thread \ {NullThread}, KInv(z), Ordered(z), Settled(z), t # z.current
    PROVE  Follows(z, Kill(z, t), {t})
<1>1. z \in KState /\ z.current \in Thread /\ ReadyOK(z)
  BY FieldTypes DEF KInv
<1>2. Follows(z, z, {t})
  BY DEF Follows
<1>3. CASE InCS(z, t)
  <2> DEFINE k1 == FlagHeld([z EXCEPT !.csFunction[t] = ECSExitPending], t)
  <2>1. Kill(z, t) = IF z.csFunction[t] < 0 THEN z ELSE k1
    BY <1>3 DEF Kill
  <2>2. ECSExitPending \in Int /\ ECSExitPending =< 0
    BY DEF ECSExitPending
  <2>3. Follows(z, k1, {t})
    BY <1>1, <2>2, FlagHeldOrdered
  <2> HIDE DEF k1
  <2> QED
    BY <1>2, <2>1, <2>3
<1>4. CASE ~InCS(z, t)
  <2> DEFINE k2 == Release(z, t, KErrDied)
             k3 == ForceResume(k2, t)
             k1 == [k3 EXCEPT !.waitFM[t] = Null, !.csCount[t] = 1,
                              !.csFunction[t] = ECSExitPending, !.cont[t] = "ForcedExit"]
  <2>1. Kill(z, t) = k1
    BY <1>4 DEF Kill
  <2>2. KErrDied \in Int
    BY DEF KErrDied
  <2>3. KInv(k2) /\ Wakes(z, k2, t)
    BY <2>2, ReleaseOK, SignalWakes
  <2>4. Follows(z, k2, {})
    BY <1>1, <2>3, WakesOrdered
  <2> HIDE DEF k2
  <2>5. KInv(k3) /\ Wakes(k2, k3, t) /\ k2 \in KState /\ ReadyOK(k2)
    BY <2>3, ForceResumeOK, ResumeWakes DEF KInv
  <2>6. Follows(k2, k3, {})
    BY <2>4, <2>5, WakesOrdered DEF Follows
  <2> HIDE DEF k3
  <2>7. Follows(z, k3, {}) /\ k3 \in KState
    BY <2>4, <2>5, <2>6, FollowsTrans DEF KInv
  <2> DEFINE wf == [k3.waitFM EXCEPT ![t] = Null]
             cn == [k3.cont EXCEPT ![t] = "ForcedExit"]
             cf == [k3.csFunction EXCEPT ![t] = ECSExitPending]
  <2>8. /\ k1.nstate = k3.nstate /\ k1.pri = k3.pri /\ k1.ready = k3.ready /\ k1.time = k3.time
        /\ k1.current = k3.current /\ k1.heldFM = k3.heldFM /\ k1.holding = k3.holding
        /\ k1.resched = k3.resched /\ k1.waiting = k3.waiting
        /\ k1.waitFM = wf /\ k1.cont = cn /\ k1.csFunction = cf
        /\ k1.suspendCount = k3.suspendCount
    BY <2>7 DEF KState
  <2>9. /\ wf[t] = Null /\ cf[t] =< 0
        /\ \A u \in Thread \ {t} : /\ wf[u] = k3.waitFM[u] /\ cn[u] = k3.cont[u]
                                   /\ cf[u] = k3.csFunction[u]
    BY <2>7, FieldTypes DEF ECSExitPending
  <2> HIDE DEF k1, wf, cn, cf
  <2>10. Quietly(k3, k1)
    BY <2>8, <2>9 DEF Quietly
  <2>11. Plain(k1)
    BY <2>7, <2>8, <2>9 DEF Plain, Follows, Ordered
  <2>12. \A u \in Thread \ {t} : Whole(k3, u) => Whole(k1, u)
    BY <2>8, <2>9 DEF Whole
  <2>13. Follows(k3, k1, {t})
    BY <2>7, <2>10, <2>11, <2>12, QuietOrdered DEF Follows
  <2>14. Follows(z, k3, {t})
    BY <2>7 DEF Follows
  <2> QED
    BY <2>1, <2>13, <2>14, FollowsTrans
<1> QED
  BY <1>3, <1>4

-----------------------------------------------------------------------------
\* Who is selected

\* The second element of a queue follows the first.
LEMMA SecondIsNext ==
    ASSUME NEW q \in Seq(Thread), Len(q) > 1
    PROVE  Tail(q) # <<>> /\ Tail(q) \in Seq(Thread) /\ Head(Tail(q)) = q[2]
<1>1. Tail(q) \in Seq(Thread) /\ Len(Tail(q)) = Len(q) - 1
  OBVIOUS
<1>2. Tail(q)[1] = q[2]
  OBVIOUS
<1>3. PICK r : r = Tail(q)
  OBVIOUS
<1>4. r \in Seq(Thread) /\ Len(r) = Len(q) - 1 /\ r[1] = q[2] /\ Len(q) \in Nat
  BY <1>1, <1>2, <1>3
<1>5. Len(r) # 0
  BY <1>4
<1>6. r # <<>> /\ Head(r) = r[1]
  BY <1>4, <1>5
<1> QED
  BY <1>3, <1>4, <1>6

\* A round robin takes the turn of a thread that holds no mutex.
LEMMA RotatedOrdered ==
    ASSUME NEW z, NEW p \in Pri, KInv(z), Ordered(z), Len(z.ready[p]) > 1,
           z.heldFM[Head(z.ready[p])] = Null, z.time[Head(z.ready[p])] = 0
    PROVE  LET k1 == Rotated(z, p)
           IN  /\ Ordered(k1) /\ k1.time[Head(k1.ready[p])] # 0
               /\ k1.csFunction = z.csFunction /\ k1.cont = z.cont
<1> DEFINE q == z.ready[p]
           h == Head(q)
           r == Append(Tail(q), h)
           tm == [z.time EXCEPT ![h] = Timeslice[h]]
           rd == [z.ready EXCEPT ![p] = r]
           k1 == Rotated(z, p)
<1>1. z \in KState /\ ReadyOK(z) /\ q \in Seq(Thread) /\ Inj(q) /\ q # <<>>
  BY FieldTypes DEF KInv, ReadyOK
<1>2. h \in Thread /\ h \in Range(q) /\ z.pri[h] = p
  BY <1>1, TailQueue DEF ReadyOK
<1>3. q[2] \in Thread /\ q[2] # h /\ q[2] \in Range(q) /\ Head(r) = q[2] /\ z.pri[q[2]] = p
  <2>1. 1 \in DOMAIN q /\ 2 \in DOMAIN q /\ h = q[1]
    BY <1>1
  <2>2. q[2] \in Range(q) /\ q[2] # q[1] /\ q[2] \in Thread
    BY <1>1, <2>1 DEF Range, Inj
  <2>3. Tail(q) # <<>> /\ Tail(q) \in Seq(Thread) /\ Head(Tail(q)) = q[2]
    BY <1>1, SecondIsNext, Zenon
  <2>4. Head(r) = Head(Tail(q))
    BY <1>2, <2>3, AppendHead
  <2> QED
    BY <1>1, <2>1, <2>2, <2>3, <2>4 DEF ReadyOK
<1>4. /\ tm[h] # 0 /\ \A u \in Thread \ {h} : tm[u] = z.time[u]
      /\ rd[p] = r /\ \A o \in Pri \ {p} : rd[o] = z.ready[o]
  <2>1. Timeslice[h] # 0
    <3>1. Timeslice[h] = -1 \/ Timeslice[h] > 0
      BY <1>2, ThreadAssumption
    <3> QED
      BY <3>1
  <2> HIDE DEF h, r
  <2> QED
    BY <1>1, <1>2, <2>1, FieldTypes
<1>5. /\ k1.nstate = z.nstate /\ k1.pri = z.pri /\ k1.ready = rd /\ k1.time = tm
      /\ k1.heldFM = z.heldFM /\ k1.holding = z.holding /\ k1.waiting = z.waiting
      /\ k1.waitFM = z.waitFM /\ k1.cont = z.cont
      /\ k1.suspendCount = z.suspendCount /\ k1.csFunction = z.csFunction
  BY <1>1 DEF KState, Rotated
<1> HIDE DEF k1, rd, tm, r
<1>6. Turns(k1)
  <2> SUFFICES ASSUME NEW u \in Thread, z.heldFM[u] # Null \/ tm[u] = 0
               PROVE  IsFirst(k1, u)
    BY <1>5 DEF Turns
  <2>1. u # h /\ (z.heldFM[u] # Null \/ z.time[u] = 0)
    BY <1>2, <1>4
  <2>2. IsFirst(z, u)
    BY <2>1 DEF Ordered, Turns
  <2>3. z.pri[u] # p
    BY <2>1, <2>2 DEF IsFirst
  <2>4. z.pri[u] \in Pri
    BY <1>1, FieldTypes
  <2> QED
    BY <1>4, <1>5, <2>2, <2>3, <2>4 DEF IsFirst
<1>7. WaitersOK(k1) /\ Plain(k1)
  BY <1>5 DEF WaitersOK, Plain, Ordered
<1>8. k1.time[Head(k1.ready[p])] # 0
  <2>1. z.time[q[2]] # 0
    <3> SUFFICES ASSUME z.time[q[2]] = 0 PROVE FALSE
      OBVIOUS
    <3>1. IsFirst(z, q[2])
      BY <1>3 DEF Ordered, Turns
    <3> QED
      BY <1>3, <3>1 DEF IsFirst
  <2> QED
    BY <1>3, <1>4, <1>5, <2>1
<1> QED
  BY <1>5, <1>6, <1>7, <1>8 DEF Ordered, k1

\* The thread selected is the first of its priority, and is the one that should run or
\* holds a flagged mutex: a holder that has not been flagged is of the priority of the
\* thread that waits, and so comes before it.
LEMMA SelectForOrdered ==
    ASSUME NEW z, KInv(z), Ordered(z), z.time[First(z)] = 0 => Alone(z, First(z))
    PROVE  LET k1 == SelectFor(z, First(z))
           IN  /\ Ordered(k1) /\ Settled(k1) /\ IsFirst(k1, k1.current)
               /\ k1.csFunction = z.csFunction /\ k1.cont = z.cont
<1> DEFINE t  == First(z)
           k1 == SelectFor(z, t)
           needsSys == t \in ImplicitSys /\ z.holding[SysLock] # Null
           wanted   == z.waitFM[t]
<1>1. /\ z \in KState /\ t \in Thread /\ SysLock \in Mutex /\ Null \notin Mutex \cup Thread
      /\ z.nstate[t] = "EReady" /\ HighestPriority(z) \in Pri
      /\ z.ready[HighestPriority(z)] # <<>> /\ z.pri[t] = HighestPriority(z)
  BY FirstReady, ThreadAssumption DEF KInv
<1>2. IsFirst(z, t)
  BY <1>1 DEF IsFirst, First
<1>3. ASSUME NEW m \in Mutex, z.holding[m] # Null
      PROVE  /\ z.holding[m] \in Thread /\ z.heldFM[z.holding[m]] = m
             /\ IsFirst(z, z.holding[m]) /\ z.nstate[z.holding[m]] = "EReady"
  <2>1. z.holding[m] \in Thread /\ z.heldFM[z.holding[m]] = m
    BY <1>1, <1>3, FieldTypes DEF KInv, HolderOK
  <2> QED
    BY <1>1, <2>1 DEF KInv, OwnerOK, Ordered, Turns
<1>4. ASSUME NEW u \in Thread, IsFirst(z, u)
      PROVE  LET s == Switch(z, u)
             IN  /\ Ordered(s) /\ s.current = u /\ IsFirst(s, u)
                 /\ s.csFunction = z.csFunction /\ s.cont = z.cont
                 /\ s.time = z.time /\ s.heldFM = z.heldFM /\ s.waiting = z.waiting
                 /\ s.nstate = z.nstate /\ s.pri = z.pri /\ s.holding = z.holding
                 /\ s.ready = z.ready
  <2> DEFINE s == Switch(z, u)
  <2>1. /\ s.current = u /\ s.csFunction = z.csFunction /\ s.cont = z.cont
        /\ s.time = z.time /\ s.heldFM = z.heldFM /\ s.waiting = z.waiting
        /\ s.nstate = z.nstate /\ s.pri = z.pri /\ s.holding = z.holding
        /\ s.ready = z.ready /\ s.waitFM = z.waitFM /\ s.suspendCount = z.suspendCount
    BY <1>1 DEF KState, Switch
  <2> HIDE DEF s
  <2>2. Ordered(s) /\ IsFirst(s, u)
    BY <1>4, <2>1 DEF Ordered, Turns, WaitersOK, Plain, IsFirst
  <2> QED
    BY <2>1, <2>2 DEF s
<1>5. ASSUME NEW u \in Thread, IsFirst(z, u), z.heldFM[u] # Null
      PROVE  LET s == FlagAndSwitch(z, z.heldFM[u], u)
             IN  /\ Ordered(s) /\ Settled(s) /\ IsFirst(s, s.current)
                 /\ s.csFunction = z.csFunction /\ s.cont = z.cont
  <2> DEFINE w == [z.waiting EXCEPT ![z.heldFM[u]] = TRUE]
             s == FlagAndSwitch(z, z.heldFM[u], u)
  <2>1. w[z.heldFM[u]] /\ \A m \in Mutex : z.waiting[m] => w[m]
    BY <1>1, <1>5, FieldTypes
  <2>2. /\ s.current = u /\ s.csFunction = z.csFunction /\ s.cont = z.cont
        /\ s.time = z.time /\ s.heldFM = z.heldFM /\ s.waiting = w
        /\ s.nstate = z.nstate /\ s.pri = z.pri /\ s.holding = z.holding
        /\ s.ready = z.ready /\ s.waitFM = z.waitFM /\ s.suspendCount = z.suspendCount
    BY <1>1 DEF KState, FlagAndSwitch
  <2> HIDE DEF s, w
  <2>3. WaitersOK(s)
    <3>1. \A v \in Thread : z.waitFM[v] \in Mutex \cup {Null}
      BY <1>1, FieldTypes
    <3> QED
      BY <2>1, <2>2, <3>1 DEF Ordered, WaitersOK
  <2>4. Turns(s) /\ Plain(s) /\ Settled(s) /\ IsFirst(s, u)
    BY <1>5, <2>1, <2>2 DEF Ordered, Turns, Plain, IsFirst, Settled, Flagged
  <2> QED
    BY <2>2, <2>3, <2>4 DEF Ordered, s
<1>6. CASE z.heldFM[t] # Null /\ z.heldFM[t] # SysLock /\ needsSys
  <2>1. k1 = FlagAndSwitch(z, z.heldFM[t], t)
    BY <1>6 DEF SelectFor
  <2> HIDE DEF k1, t
  <2>2. /\ Ordered(k1) /\ Settled(k1) /\ IsFirst(k1, k1.current)
        /\ k1.csFunction = z.csFunction /\ k1.cont = z.cont
    BY <1>1, <1>2, <1>5, <1>6, <2>1
  <2> QED
    BY <2>2 DEF k1, t
<1>7. ASSUME k1 = Switch(z, t), SysFree(Switch(z, t))
      PROVE  /\ Ordered(k1) /\ Settled(k1) /\ IsFirst(k1, k1.current)
             /\ k1.csFunction = z.csFunction /\ k1.cont = z.cont
  <2> HIDE DEF k1
  <2>1. /\ Ordered(k1) /\ k1.current = t /\ IsFirst(k1, t)
        /\ k1.csFunction = z.csFunction /\ k1.cont = z.cont
        /\ k1.time = z.time /\ k1.nstate = z.nstate /\ k1.pri = z.pri /\ k1.ready = z.ready
    BY <1>1, <1>2, <1>4, <1>7
  <2>2. Highest(k1)
    BY <1>1, <2>1, FirstHighest DEF Highest
  <2>3. k1.time[t] = 0 => Alone(k1, t)
    BY <2>1 DEF Alone
  <2> QED
    BY <1>7, <2>1, <2>2, <2>3 DEF Settled
<1>8. CASE z.heldFM[t] # Null /\ ~(z.heldFM[t] # SysLock /\ needsSys)
  <2>1. k1 = Switch(z, t)
    BY <1>8 DEF SelectFor
  <2>2. z.heldFM[t] = SysLock => z.holding[SysLock] = t
    BY <1>1 DEF KInv, HolderOK
  <2>3. SysFree(Switch(z, t))
    BY <1>1, <1>2, <1>4, <1>8, <2>2 DEF SysFree
  <2> QED
    BY <1>7, <2>1, <2>3
<1>9. CASE z.heldFM[t] = Null /\ wanted # Null /\ z.holding[wanted] # Null
  <2> DEFINE h == z.holding[wanted]
             s == Switch(z, h)
  <2>1. k1 = s
    BY <1>9 DEF SelectFor
  <2>2. wanted \in Mutex
    BY <1>1, <1>9, FieldTypes
  <2>3. /\ h \in Thread /\ z.heldFM[h] = wanted /\ IsFirst(z, h) /\ z.nstate[h] = "EReady"
        /\ h # t
    BY <1>3, <1>9, <2>2
  <2>4. z.waiting[wanted]
    <3>1. ~(z.pri[t] =< z.pri[h])
      <4> SUFFICES ASSUME z.pri[t] =< z.pri[h] PROVE FALSE
        OBVIOUS
      <4>1. z.pri[h] =< z.pri[t]
        BY <2>3, FirstHighest
      <4>2. z.pri[h] \in Int /\ z.pri[t] \in Int
        BY <1>1, <2>3, FieldTypes, PriInt
      <4>3. z.pri[h] = z.pri[t]
        BY <4>1, <4>2
      <4> QED
        BY <1>2, <2>3, <4>3, FirstOnly
    <3> QED
      BY <1>1, <1>9, <3>1 DEF Ordered, WaitersOK
  <2> HIDE DEF h
  <2>5. /\ Ordered(s) /\ s.current = h /\ IsFirst(s, h)
        /\ s.csFunction = z.csFunction /\ s.cont = z.cont
        /\ s.heldFM = z.heldFM /\ s.waiting = z.waiting
    BY <1>4, <2>3
  <2> HIDE DEF s
  <2>6. Settled(s)
    BY <1>1, <2>2, <2>3, <2>4, <2>5 DEF Settled, Flagged
  <2> QED
    BY <2>1, <2>5, <2>6
<1>10. CASE z.heldFM[t] = Null /\ ~(wanted # Null /\ z.holding[wanted] # Null) /\ needsSys
  <2> DEFINE h == z.holding[SysLock]
  <2>1. k1 = FlagAndSwitch(z, z.heldFM[h], h)
    BY <1>10 DEF SelectFor
  <2>2. h \in Thread /\ z.heldFM[h] # Null /\ IsFirst(z, h)
    BY <1>1, <1>3, <1>10
  <2> HIDE DEF h, k1
  <2>3. /\ Ordered(k1) /\ Settled(k1) /\ IsFirst(k1, k1.current)
        /\ k1.csFunction = z.csFunction /\ k1.cont = z.cont
    BY <1>5, <2>1, <2>2
  <2> QED
    BY <2>3 DEF k1
<1>11. CASE z.heldFM[t] = Null /\ ~(wanted # Null /\ z.holding[wanted] # Null) /\ ~needsSys
  <2>1. k1 = Switch(z, t)
    BY <1>11 DEF SelectFor
  <2>2. SysFree(Switch(z, t))
    BY <1>1, <1>2, <1>4, <1>11 DEF SysFree
  <2> QED
    BY <1>7, <2>1, <2>2
<1> QED
  BY <1>6, <1>8, <1>9, <1>10, <1>11

\* ... also after a round robin, or when it is put off until the mutex is signalled.
LEMMA SelectThreadOrdered ==
    ASSUME NEW z, KInv(z), Ordered(z)
    PROVE  LET k1 == SelectThread(z)
           IN  /\ Ordered(k1) /\ Settled(k1) /\ IsFirst(k1, k1.current)
               /\ k1.csFunction = z.csFunction /\ k1.cont = z.cont
<1> DEFINE t       == First(z)
           p       == HighestPriority(z)
           expired == z.time[t] = 0 /\ ~Alone(z, t)
           k0      == IF expired THEN Rotated(z, p) ELSE z
           s       == FlagAndSwitch(z, z.heldFM[t], t)
           w       == [z.waiting EXCEPT ![z.heldFM[t]] = TRUE]
<1>1. /\ t \in Thread /\ z \in KState /\ p \in Pri /\ z.ready[p] # <<>> /\ z.pri[t] = p
      /\ t = Head(z.ready[p])
  BY FirstReady DEF KInv, First
<1>2. CASE expired /\ z.heldFM[t] # Null
  <2>1. SelectThread(z) = s
    BY <1>2 DEF SelectThread
  <2>2. IsFirst(z, t)
    BY <1>1 DEF IsFirst
  <2>3. w[z.heldFM[t]] /\ \A m \in Mutex : z.waiting[m] => w[m]
    BY <1>1, <1>2, FieldTypes
  <2>4. /\ s.current = t /\ s.csFunction = z.csFunction /\ s.cont = z.cont
        /\ s.time = z.time /\ s.heldFM = z.heldFM /\ s.waiting = w
        /\ s.nstate = z.nstate /\ s.pri = z.pri /\ s.holding = z.holding
        /\ s.ready = z.ready /\ s.waitFM = z.waitFM /\ s.suspendCount = z.suspendCount
    BY <1>1 DEF KState, FlagAndSwitch
  <2> HIDE DEF s, w, t
  <2>5. WaitersOK(s)
    <3>1. \A v \in Thread : z.waitFM[v] \in Mutex \cup {Null}
      BY <1>1, FieldTypes
    <3> QED
      BY <2>3, <2>4, <3>1 DEF Ordered, WaitersOK
  <2>6. Turns(s) /\ Plain(s) /\ Settled(s) /\ IsFirst(s, t)
    BY <1>2, <2>2, <2>3, <2>4 DEF Ordered, Turns, Plain, IsFirst, Settled, Flagged
  <2> QED
    BY <2>1, <2>4, <2>5, <2>6 DEF Ordered
<1>3. CASE ~(expired /\ z.heldFM[t] # Null)
  <2>1. SelectThread(z) = SelectFor(k0, First(k0))
    BY <1>3 DEF SelectThread
  <2>2. /\ KInv(k0) /\ Ordered(k0) /\ k0.csFunction = z.csFunction /\ k0.cont = z.cont
        /\ k0.time[First(k0)] = 0 => Alone(k0, First(k0))
    <3>1. CASE expired
      <4>1. Len(z.ready[p]) > 1 /\ z.heldFM[Head(z.ready[p])] = Null
            /\ z.time[Head(z.ready[p])] = 0
        <5>1. z.ready[p] \in Seq(Thread) /\ Len(z.ready[p]) # 1
          BY <1>1, <3>1, FieldTypes DEF Alone
        <5>2. Len(z.ready[p]) > 1
          <6> DEFINE q == z.ready[p]
          <6>1. q # <<>> /\ q \in Seq(Thread) /\ Len(q) # 1
            BY <1>1, <5>1
          <6> HIDE DEF q
          <6>2. Len(q) \in Nat /\ Len(q) # 0
            BY <6>1
          <6>3. \A n \in Nat : n # 0 /\ n # 1 => n > 1
            OBVIOUS
          <6>4. Len(q) > 1
            BY <6>1, <6>2, <6>3
          <6> QED
            BY <6>4 DEF q
        <5> QED
          BY <1>1, <1>3, <3>1, <5>2
      <4> DEFINE r == Rotated(z, p)
      <4>2. /\ Ordered(r) /\ r.time[Head(r.ready[p])] # 0
            /\ r.csFunction = z.csFunction /\ r.cont = z.cont
        BY <1>1, <4>1, RotatedOrdered
      <4>3. KInv(r)
        BY <1>1, RotatedOK
      <4>4. First(r) = Head(r.ready[p])
        <5>1. \A o \in Pri : r.ready[o] = <<>> <=> z.ready[o] = <<>>
          <6>1. r.ready = [z.ready EXCEPT ![p] = Append(Tail(@), Head(@))]
            BY <1>1 DEF Rotated, KState
          <6>2. z.ready[p] \in Seq(Thread) /\ z.ready \in [Pri -> Seq(Thread)]
            BY <1>1, FieldTypes
          <6>3. Append(Tail(z.ready[p]), Head(z.ready[p])) # <<>>
            BY <1>1, <6>2
          <6> HIDE DEF r, p
          <6> QED
            BY <1>1, <6>1, <6>2, <6>3
        <5>2. Present(r) = Present(z)
          BY <5>1 DEF Present
        <5> QED
          BY <5>2 DEF First, HighestPriority
      <4> HIDE DEF r
      <4>5. k0 = r
        BY <3>1 DEF r
      <4> QED
        BY <4>2, <4>3, <4>4, <4>5
    <3>2. CASE ~expired
      BY <3>2
    <3> QED
      BY <3>1, <3>2
  <2> HIDE DEF k0
  <2>3. LET k1 == SelectFor(k0, First(k0))
        IN  /\ Ordered(k1) /\ Settled(k1) /\ IsFirst(k1, k1.current)
            /\ k1.csFunction = k0.csFunction /\ k1.cont = k0.cont
    BY <2>2, SelectForOrdered
  <2> QED
    BY <2>1, <2>2, <2>3
<1> QED
  BY <1>2, <1>3

-------------------------------------------------------------------------------
-------------------------------------------------------------------------------

\* Between services and interrupts no reschedule is pending, and except while
\* Reschedule is about to select a thread the current thread can go on.
IInv ==
    /\ KInv(k)
    /\ kern \in {"unlocked", "locked", "selecting"}
    /\ idfcs \subseteq Thread \ {NullThread}
    /\ ticks \in 0..MaxLockedTicks
    /\ kern = "unlocked" => ~k.resched /\ idfcs = {}
    /\ kern # "selecting" => RunsOn(k)

\* The steps of FastMutex from state a to holders h and waiting threads w.
Asks(a, h, w) ==
    \E t \in Thread, m \in Mutex :
        /\ a.heldFM[t] = Null /\ a.waitFM[t] = Null /\ a.holding[m] # Null
        /\ h = a.holding /\ w = [a.waitFM EXCEPT ![t] = m]
Acquires(a, h, w) ==
    \E t \in Thread, m \in Mutex :
        /\ a.heldFM[t] = Null /\ a.waitFM[t] \in {m, Null} /\ a.holding[m] = Null
        /\ h = [a.holding EXCEPT ![m] = t] /\ w = [a.waitFM EXCEPT ![t] = Null]
Releases(a, h, w) ==
    \E t \in Thread, m \in Mutex :
        a.heldFM[t] = m /\ h = [a.holding EXCEPT ![m] = Null] /\ w = a.waitFM
Withdraws(a, h, w) ==
    \E u \in Thread :
        /\ a.waitFM[u] # Null /\ w = [a.waitFM EXCEPT ![u] = Null]
        /\ \/ h = a.holding
           \/ \E t \in Thread \ {u}, m \in Mutex :
                 a.heldFM[t] = m /\ h = [a.holding EXCEPT ![m] = Null]

\* How a step may change the holders of the mutexes and the waiting threads:
\* not at all, or as an action of FastMutex.
FMStep(a, b) ==
    \/ b.holding = a.holding /\ b.waitFM = a.waitFM
    \/ Asks(a, b.holding, b.waitFM)
    \/ Acquires(a, b.holding, b.waitFM)
    \/ Releases(a, b.holding, b.waitFM)
    \/ Withdraws(a, b.holding, b.waitFM)

\* Only the holders and the waiting threads matter to it.
LEMMA FMStepOnly ==
    ASSUME NEW a, NEW b, NEW c, FMStep(a, b), c.holding = b.holding, c.waitFM = b.waitFM
    PROVE  FMStep(a, c)
BY DEF FMStep

\* What every service does, up to the state it leaves to NKern::Unlock.
Good(k1) == KInv(k1) /\ RunsOn(k1) /\ FMStep(k, k1)
Served == IInv' /\ FMStep(k, k')

\* NKern::Unlock after a service that left a good state.
LEMMA UnlockServes ==
    ASSUME NEW k1, IInv, Unlock(k1), Good(k1)
    PROVE  Served
<1>1. k' = k1 /\ idfcs' = idfcs /\ kern' \in {"locked", "unlocked"}
      /\ (kern' = "unlocked" => ~k1.resched /\ idfcs = {}) /\ ticks' \in {0, ticks}
  BY DEF Unlock
<1>2. ticks' \in 0..MaxLockedTicks
  BY <1>1, ControlAssumption DEF IInv
<1> QED
  BY <1>1, <1>2 DEF IInv, Good, Served

\* A thread that executes its own code is ready, with the kernel unlocked, and
\* waits for no mutex.
LEMMA RunningFacts ==
    ASSUME NEW t \in Thread, IInv, Running(t)
    PROVE  /\ t \in Thread \ {NullThread} /\ KInv(k) /\ RunsOn(k) /\ k \in KState
           /\ k.current = t /\ k.nstate[t] = "EReady" /\ k.waitFM[t] = Null
           /\ k.cont[t] = "run" /\ ~k.resched
           /\ k.heldFM[t] \in Mutex \cup {Null} /\ Null \notin Thread \cup Mutex
<1>1. KInv(k) /\ RunsOn(k) /\ ~k.resched /\ k.current = t /\ k.cont[t] = "run"
  BY DEF IInv, Running
<1>2. k \in KState
  BY <1>1 DEF KInv
<1>3. k.waitFM[t] = Null /\ k.nstate[t] = "EReady" /\ t # NullThread
  BY <1>1 DEF KInv, ContOK, RunsOn, Running
<1> QED
  BY <1>1, <1>2, <1>3, FieldTypes, ThreadAssumption

\* A service that leaves the mutexes alone.
LEMMA QuietServes ==
    ASSUME NEW k1, IInv, Unlock(k1), KInv(k1), RunsOn(k1), SameFM(k, k1)
    PROVE  Served
BY UnlockServes DEF Good, FMStep, SameFM

\* A service that ends by signalling the mutex of its caller, if it has one.
LEMMA ThenSignalServes ==
    ASSUME NEW t \in Thread, NEW m \in FMArg(t), NEW k1, IInv, Running(t),
           Unlock(ThenSignal(k1, t, m)), KInv(k1), RunsOn(k1), SameFM(k, k1)
    PROVE  Served
<1>1. CASE m = Null
  BY <1>1, QuietServes DEF ThenSignal
<1>2. CASE m # Null
  <2>1. m = k.heldFM[t] /\ m \in Mutex
    BY <1>2, RunningFacts DEF FMArg
  <2> DEFINE k2 == FMSignal(k1, t, m)
  <2>2. KInv(k2) /\ RunsOn(k2) /\ k2.holding = [k1.holding EXCEPT ![m] = Null] /\ k2.waitFM = k1.waitFM
    BY <2>1, FMSignalOK DEF SameFM
  <2>3. Unlock(k2)
    BY <1>2 DEF ThenSignal
  <2> HIDE DEF k2
  <2>4. FMStep(k, k2)
    BY <2>1, <2>2 DEF FMStep, Asks, Acquires, Releases, Withdraws, SameFM
  <2> QED
    BY <2>2, <2>3, <2>4, UnlockServes DEF Good
<1> QED
  BY <1>1, <1>2

-----------------------------------------------------------------------------
\* Fast mutexes

\* NKern::FMWait.
LEMMA CallFMWaitServes ==
    ASSUME NEW t \in Thread, NEW m \in Mutex, IInv, CallFMWait(t, m)
    PROVE  Served
<1> DEFINE k1 == FMWait(k, t, m)
<1>1. Running(t) /\ k.heldFM[t] = Null /\ Unlock(k1)
  BY DEF CallFMWait, NoFM
<1>2. t \in Thread \ {NullThread} /\ KInv(k) /\ RunsOn(k) /\ k.nstate[t] = "EReady"
      /\ k.waitFM[t] = Null /\ k.current = t
  BY <1>1, RunningFacts
<1>3. /\ KInv(k1) /\ RunsOn(k1)
      /\ IF k.holding[m] = Null
         THEN /\ k1.holding = [k.holding EXCEPT ![m] = t]
              /\ k1.waitFM = [k.waitFM EXCEPT ![t] = Null]
         ELSE /\ k1.holding = k.holding
              /\ k1.waitFM = [k.waitFM EXCEPT ![t] = m]
  BY <1>1, <1>2, FMWaitOK
<1> HIDE DEF k1
<1>4. FMStep(k, k1)
  BY <1>1, <1>2, <1>3 DEF FMStep, Asks, Acquires, Releases, Withdraws
<1> QED
  BY <1>1, <1>3, <1>4, UnlockServes DEF Good

\* NKern::FMSignal.
LEMMA CallFMSignalServes ==
    ASSUME NEW t \in Thread, IInv, CallFMSignal(t)
    PROVE  Served
<1>1. Running(t) /\ k.heldFM[t] # Null /\ Unlock(FMSignal(k, t, k.heldFM[t]))
  BY DEF CallFMSignal, NoFM
<1>2. k.heldFM[t] \in FMArg(t) /\ Unlock(ThenSignal(k, t, k.heldFM[t]))
  BY <1>1 DEF FMArg, ThenSignal
<1>3. KInv(k) /\ RunsOn(k) /\ SameFM(k, k)
  BY <1>1, RunningFacts DEF SameFM
<1> QED
  BY <1>1, <1>2, <1>3, ThenSignalServes

\* NKern::FMFlash up to its reschedule.
LEMMA CallFMFlashServes ==
    ASSUME NEW t \in Thread, IInv, CallFMFlash(t)
    PROVE  Served
<1> DEFINE m  == k.heldFM[t]
           k1 == FMSignal(k, t, m)
           k2 == [k1 EXCEPT !.cont[t] = "FMFlash", !.arg[t] = m]
<1>1. Running(t) /\ m # Null /\ (Unlock(k1) \/ Unlock(k2))
  BY DEF CallFMFlash, NoFM
<1>2. m \in Mutex /\ KInv(k) /\ RunsOn(k) /\ Null \notin Mutex
  BY <1>1, RunningFacts
<1>3. /\ KInv(k1) /\ RunsOn(k1) /\ k1.holding = [k.holding EXCEPT ![m] = Null]
      /\ k1.waitFM = k.waitFM /\ k1.heldFM[t] = Null /\ k1.waitFM[t] = Null /\ t # NullThread
  BY <1>2, FMSignalOK
<1> HIDE DEF k1
<1> DEFINE co == [k1.cont EXCEPT ![t] = "FMFlash"]
           ar == [k1.arg EXCEPT ![t] = m]
<1> HIDE DEF m
<1>4. k1 \in KState
  BY <1>3 DEF KInv
<1>5. co \in [Thread -> Cont] /\ ar \in [Thread -> Mutex \cup {Null}]
      /\ co[t] = "FMFlash" /\ ar[t] = m
  BY <1>2, <1>4, FieldTypes DEF Cont
<1>6. k2 \in KState
  BY <1>4, <1>5 DEF KState
<1>7. /\ k2.cont = co /\ k2.arg = ar /\ k2.nstate = k1.nstate /\ k2.pri = k1.pri /\ k2.ready = k1.ready
      /\ k2.suspendCount = k1.suspendCount /\ k2.count = k1.count
      /\ k2.csCount = k1.csCount /\ k2.csFunction = k1.csFunction
      /\ k2.heldFM = k1.heldFM /\ k2.waitFM = k1.waitFM
      /\ k2.holding = k1.holding /\ k2.fault = k1.fault
      /\ k2.waiting = k1.waiting /\ k2.current = k1.current /\ k2.resched = k1.resched
  BY <1>4 DEF KState
<1> HIDE DEF k2
<1>8. /\ k2.cont = [k1.cont EXCEPT ![t] = k2.cont[t]]
      /\ k2.arg = [k1.arg EXCEPT ![t] = k2.arg[t]]
      /\ k2.cont[t] \in {"FMFlash", "Block"} => k2.arg[t] # Null
      /\ k2.cont[t] = "FMWait" <=> k1.waitFM[t] # Null
      /\ k1.heldFM[t] # Null \/ t = NullThread => k2.cont[t] = "run"
  BY <1>1, <1>3, <1>5, <1>7
<1> HIDE DEF co, ar
<1>9. KInv(k2) /\ RunsOn(k2)
  BY <1>3, <1>6, <1>7, <1>8, ContinueOK
<1>10. FMStep(k, k1) /\ FMStep(k, k2)
  BY <1>2, <1>3, <1>7 DEF FMStep, Asks, Acquires, Releases, Withdraws, m
<1> QED
  BY <1>1, <1>3, <1>9, <1>10, UnlockServes DEF Good
-----------------------------------------------------------------------------
\* Services on other threads

\* NKern::WaitForAnyRequest.
LEMMA WaitForAnyRequestServes ==
    ASSUME NEW t \in Thread, IInv, WaitForAnyRequest(t)
    PROVE  Served
<1>1. Running(t) /\ k.heldFM[t] = Null /\ Unlock(SemWait(k, t))
  BY DEF WaitForAnyRequest, NoFM
<1>2. KInv(SemWait(k, t)) /\ SameFM(k, SemWait(k, t)) /\ RunsOn(SemWait(k, t))
  BY <1>1, RunningFacts, SemWaitOK
<1> QED
  BY <1>1, <1>2, QuietServes

\* NKern::ThreadRequestSignal, with one request, several, or a mutex.
LEMMA RequestSignalServes ==
    ASSUME NEW t \in Thread, NEW u \in Thread \ {NullThread}, IInv,
           \/ \E m \in FMArg(t) : ThreadRequestSignal(t, u, m)
           \/ \E n \in 0..2 : ThreadRequestSignalN(t, u, n)
    PROVE  Served
<1>1. Running(t) /\ KInv(k) /\ RunsOn(k)
  BY RunningFacts DEF ThreadRequestSignal, ThreadRequestSignalN
<1>2. ASSUME NEW m \in FMArg(t), ThreadRequestSignal(t, u, m) PROVE Served
  <2>1. Unlock(ThenSignal(SemSignal(k, u), t, m))
    BY <1>2 DEF ThreadRequestSignal
  <2>2. KInv(SemSignal(k, u)) /\ RunsOn(SemSignal(k, u)) /\ SameFM(k, SemSignal(k, u))
    BY <1>1, SemSignalOK
  <2> QED
    BY <1>1, <2>1, <2>2, ThenSignalServes
<1>3. ASSUME NEW n \in 0..2, ThreadRequestSignalN(t, u, n) PROVE Served
  <2>1. Unlock(SemSignalN(k, u, n)) /\ n \in Nat
    BY <1>3 DEF ThreadRequestSignalN
  <2>2. KInv(SemSignalN(k, u, n)) /\ RunsOn(SemSignalN(k, u, n)) /\ SameFM(k, SemSignalN(k, u, n))
    BY <1>1, <2>1, SemSignalNOK
  <2> QED
    BY <2>1, <2>2, QuietServes
<1> QED
  BY <1>2, <1>3

\* NKern::ThreadSuspend.
LEMMA SuspendServes ==
    ASSUME NEW t \in Thread, NEW u \in Thread, NEW n \in 1..2, IInv, ThreadSuspend(t, u, n)
    PROVE  Served
<1>1. Running(t) /\ <<t, u>> \in Suspenders /\ Unlock(Suspend(k, u, n)) /\ n \in Nat \ {0}
  BY DEF ThreadSuspend
<1>2. u # NullThread
  BY <1>1, ControlAssumption
<1>3. KInv(Suspend(k, u, n)) /\ RunsOn(Suspend(k, u, n)) /\ SameFM(k, Suspend(k, u, n))
  BY <1>1, <1>2, RunningFacts, SuspendOK
<1> QED
  BY <1>1, <1>3, QuietServes

\* NKern::ThreadResume, ThreadForceResume, ThreadSetPriority and ThreadRelease.
LEMMA ResumeServes ==
    ASSUME NEW t \in Thread, NEW u \in Thread, NEW m \in FMArg(t), NEW p \in Pri, IInv,
           \/ ThreadResume(t, u, m)
           \/ ThreadForceResume(t, u, m)
           \/ ThreadSetPriority(t, u, p, m)
           \/ ThreadRelease(t, u, m)
    PROVE  Served
<1>1. Running(t) /\ KInv(k) /\ RunsOn(k)
  BY RunningFacts DEF ThreadResume, ThreadForceResume, ThreadSetPriority, ThreadRelease
<1>2. CASE ThreadResume(t, u, m)
  <2>1. Unlock(ThenSignal(Resume(k, u), t, m))
    BY <1>2 DEF ThreadResume
  <2>2. KInv(Resume(k, u)) /\ RunsOn(Resume(k, u)) /\ SameFM(k, Resume(k, u))
    BY <1>1, ResumeOK
  <2> QED
    BY <1>1, <2>1, <2>2, ThenSignalServes
<1>3. CASE ThreadForceResume(t, u, m)
  <2>1. Unlock(ThenSignal(ForceResume(k, u), t, m))
    BY <1>3 DEF ThreadForceResume
  <2>2. KInv(ForceResume(k, u)) /\ RunsOn(ForceResume(k, u)) /\ SameFM(k, ForceResume(k, u))
    BY <1>1, ForceResumeOK
  <2> QED
    BY <1>1, <2>1, <2>2, ThenSignalServes
<1>4. CASE ThreadSetPriority(t, u, p, m)
  <2>1. Unlock(ThenSignal(SetPriority(k, u, p), t, m))
    BY <1>4 DEF ThreadSetPriority
  <2>2. KInv(SetPriority(k, u, p)) /\ RunsOn(SetPriority(k, u, p)) /\ SameFM(k, SetPriority(k, u, p))
    BY <1>1, SetPriorityOK
  <2> QED
    BY <1>1, <2>1, <2>2, ThenSignalServes
<1>5. CASE ThreadRelease(t, u, m)
  <2>1. Unlock(ThenSignal(Release(k, u, KErrNone), t, m)) /\ KErrNone \in Int
    BY <1>5 DEF ThreadRelease, KErrNone
  <2>2. KInv(Release(k, u, KErrNone)) /\ RunsOn(Release(k, u, KErrNone))
        /\ SameFM(k, Release(k, u, KErrNone))
    BY <1>1, <2>1, ReleaseOK
  <2> QED
    BY <1>1, <2>1, <2>2, ThenSignalServes
<1> QED
  BY <1>2, <1>3, <1>4, <1>5

\* NKern::ThreadKill of another thread, which may give up a wait for a mutex
\* just as its killer signals one.
LEMMA KillServes ==
    ASSUME NEW t \in Thread, NEW u \in Thread, NEW m \in FMArg(t), IInv, ThreadKill(t, u, m)
    PROVE  Served
<1> DEFINE k1 == Kill(k, u)
<1>1. Running(t) /\ <<t, u>> \in Killers /\ t # u /\ Unlock(ThenSignal(k1, t, m))
  BY DEF ThreadKill
<1>2. u # NullThread /\ KInv(k) /\ RunsOn(k) /\ k \in KState /\ Null \notin Mutex
  BY <1>1, ControlAssumption, RunningFacts
<1>3. /\ KInv(k1) /\ RunsOn(k1) /\ k1.heldFM = k.heldFM /\ k1.holding = k.holding
      /\ \/ k1.waitFM = k.waitFM
         \/ k1.waitFM = [k.waitFM EXCEPT ![u] = Null]
  BY <1>2, KillOK
<1> HIDE DEF k1
<1>4. \/ k1.waitFM = k.waitFM
      \/ k.waitFM[u] # Null /\ k1.waitFM = [k.waitFM EXCEPT ![u] = Null]
  <2>1. k.waitFM \in [Thread -> Mutex \cup {Null}]
    BY <1>2, FieldTypes
  <2> QED
    BY <1>3, <2>1
<1>5. CASE m = Null
  <2>1. Unlock(k1)
    BY <1>1, <1>5 DEF ThenSignal
  <2>2. FMStep(k, k1)
    BY <1>3, <1>4 DEF FMStep, Asks, Acquires, Releases, Withdraws
  <2> QED
    BY <1>3, <2>1, <2>2, UnlockServes DEF Good
<1>6. CASE m # Null
  <2>1. m = k.heldFM[t] /\ m \in Mutex
    BY <1>1, <1>6, RunningFacts DEF FMArg
  <2> DEFINE k2 == FMSignal(k1, t, m)
  <2>2. KInv(k2) /\ RunsOn(k2) /\ k2.holding = [k1.holding EXCEPT ![m] = Null] /\ k2.waitFM = k1.waitFM
    BY <1>3, <2>1, FMSignalOK
  <2>3. Unlock(k2)
    BY <1>1, <1>6 DEF ThenSignal
  <2> HIDE DEF k2
  <2>4. FMStep(k, k2)
    BY <1>1, <1>3, <1>4, <2>1, <2>2 DEF FMStep, Asks, Acquires, Releases, Withdraws
  <2> QED
    BY <2>2, <2>3, <2>4, UnlockServes DEF Good
<1> QED
  BY <1>5, <1>6

-----------------------------------------------------------------------------
\* Exits and critical sections

\* NKern::ThreadKill of the caller with the mutex it holds.
LEMMA KillSelfServes ==
    ASSUME NEW t \in Thread, IInv, ThreadKillSelf(t)
    PROVE  Served
<1> DEFINE m  == k.heldFM[t]
           k1 == [k EXCEPT !.csFunction[t] = ECSExitPending, !.waiting[m] = TRUE]
           k2 == FMSignal(k1, t, m)
<1>1. Running(t) /\ m # Null /\ k.csCount[t] = 0 /\ Unlock(k2)
  BY DEF ThreadKillSelf, NoFM
<1>2. m \in Mutex /\ KInv(k) /\ RunsOn(k) /\ k \in KState
  BY <1>1, RunningFacts
<1>3. k1 = FlagHeld([k EXCEPT !.csFunction[t] = ECSExitPending], t)
  BY <1>1, <1>2 DEF FlagHeld, KState
<1> HIDE DEF k1
<1>4. KInv(k1) /\ SameFM(k, k1) /\ RunsOn(k1)
  <2>1. InCS(k, t) /\ ECSExitPending \in Int /\ ECSExitPending >= ECSExitInProgress
        /\ ECSExitPending # ECSExitInProgress
    BY <1>1 DEF InCS, ECSExitPending, ECSExitInProgress
  <2> QED
    BY <1>2, <1>3, <2>1, FlagHeldOK
<1>5. m \in FMArg(t) /\ Unlock(ThenSignal(k1, t, m))
  BY <1>1 DEF FMArg, ThenSignal
<1> QED
  BY <1>1, <1>4, <1>5, ThenSignalServes

\* NThreadBase::Exit of a thread with nothing left to give up.
LEMMA ExitServes ==
    ASSUME NEW t \in Thread, NEW k1, IInv, t # NullThread, KInvBut(k1, t), RunsOn(k1),
           k1.csCount[t] = 0, k1.heldFM[t] = Null, k1.waitFM[t] = Null, SameFM(k, k1),
           Unlock(Exit(k1, t))
    PROVE  Served
<1>1. KInv(Exit(k1, t)) /\ SameFM(k1, Exit(k1, t)) /\ RunsOn(Exit(k1, t))
  BY ExitOK
<1> QED
  BY <1>1, QuietServes DEF SameFM

\* NKern::Exit.
LEMMA CallExitServes ==
    ASSUME NEW t \in Thread, IInv, CallExit(t)
    PROVE  Served
<1>1. Running(t) /\ k.heldFM[t] = Null /\ k.csCount[t] = 0 /\ Unlock(Exit(k, t))
  BY DEF CallExit, NoFM
<1>2. t # NullThread /\ KInvBut(k, t) /\ RunsOn(k) /\ k.waitFM[t] = Null /\ SameFM(k, k)
  BY <1>1, RunningFacts DEF KInv, KInvBut, DeferOK, SameFM
<1> QED
  BY <1>1, <1>2, ExitServes

\* NKern::DeferredExit.
LEMMA DeferredExitServes ==
    ASSUME NEW t \in Thread, IInv, DeferredExit(t)
    PROVE  Served
<1>1. Running(t)
  BY DEF DeferredExit
<1>2. t # NullThread /\ KInv(k) /\ RunsOn(k) /\ k.waitFM[t] = Null /\ k \in KState
  BY <1>1, RunningFacts
<1>3. CASE ~InCS(k, t)
  <2>1. k.heldFM[t] = Null /\ k.csCount[t] = 0 /\ Unlock(Exit(k, t))
    BY <1>3 DEF DeferredExit, InCS
  <2>2. KInvBut(k, t) /\ SameFM(k, k)
    BY <1>2 DEF KInv, KInvBut, DeferOK, SameFM
  <2> QED
    BY <1>2, <2>1, <2>2, ExitServes
<1>4. CASE InCS(k, t)
  <2> DEFINE f  == IF k.csFunction[t] >= 0 THEN ECSExitPending ELSE k.csFunction[t]
             k1 == FlagHeld([k EXCEPT !.csFunction[t] = f], t)
  <2>1. Unlock(k1)
    <3>1. [k EXCEPT !.csFunction[t] = IF @ >= 0 THEN ECSExitPending ELSE @]
              = [k EXCEPT !.csFunction[t] = f]
      BY <1>2 DEF KState
    <3> QED
      BY <1>4, <3>1 DEF DeferredExit
  <2>2. f \in Int /\ f >= ECSExitInProgress /\ (f = ECSExitInProgress => k.csCount[t] > 0)
    BY <1>2, FieldTypes DEF KInv, DeferOK, DeferAt, ECSExitPending, ECSExitInProgress
  <2> HIDE DEF f
  <2>3. KInv(k1) /\ SameFM(k, k1) /\ RunsOn(k1)
    BY <1>2, <1>4, <2>2, FlagHeldOK
  <2> QED
    BY <2>1, <2>3, QuietServes
<1> QED
  BY <1>3, <1>4

\* The end of NThreadBase::Exit.
LEMMA ExitHandlerDoneServes ==
    ASSUME NEW t \in Thread, IInv, ExitHandlerDone(t)
    PROVE  Served
<1> DEFINE k0 == SchedRemove(RescheduleNeeded(k), t)
           k1 == [k0 EXCEPT !.nstate[t] = "EDead", !.cont[t] = "run", !.arg[t] = k.arg[t]]
<1>1. Running(t) /\ k.heldFM[t] = Null /\ Unlock([k0 EXCEPT !.nstate[t] = "EDead"])
  BY DEF ExitHandlerDone, NoFM
<1>2. t # NullThread /\ KInv(k) /\ k.waitFM[t] = Null /\ k \in KState /\ k.nstate[t] = "EReady"
      /\ k.cont[t] = "run"
  BY <1>1, RunningFacts
<1>3. KInv(k1) /\ SameFM(k, k1) /\ RunsOn(k1)
  BY ZenonT(60), <1>1, <1>2, FieldTypes, GoesOff
<1>4. [k0 EXCEPT !.nstate[t] = "EDead"] = k1
  <2>1. RescheduleNeeded(k) \in KState /\ Same(k, RescheduleNeeded(k))
        /\ RescheduleNeeded(k).ready = k.ready
    BY <1>2 DEF KState, RescheduleNeeded, Same
  <2>2. k.pri[t] \in Pri /\ Inj(k.ready[k.pri[t]]) /\ t \in Range(k.ready[k.pri[t]])
    BY <1>2, FieldTypes DEF KInv, ReadyOK
  <2>3. k0 \in KState /\ k0.cont = k.cont /\ k0.arg = k.arg
    BY <2>1, <2>2, SchedRemoveEffect DEF Same
  <2> HIDE DEF k0
  <2>4. [k0.cont EXCEPT ![t] = "run"] = k0.cont /\ [k0.arg EXCEPT ![t] = k.arg[t]] = k0.arg
    BY <1>2, <2>3, FieldTypes
  <2> QED
    BY <2>3, <2>4 DEF KState
<1> QED
  BY <1>1, <1>3, <1>4, QuietServes

\* NKern::ThreadEnterCS.
LEMMA EnterCSServes ==
    ASSUME NEW t \in Thread, IInv, ThreadEnterCS(t)
    PROVE  Served
<1> DEFINE k1 == [k EXCEPT !.csCount[t] = @ + 1]
<1>1. Running(t) /\ Unlock(k1)
  BY DEF ThreadEnterCS
<1>2. KInv(k) /\ RunsOn(k) /\ k \in KState
  BY <1>1, RunningFacts
<1>3. /\ k.csCount[t] \in Int /\ k.csCount[t] >= 0 /\ k.csFunction[t] \in Int
      /\ k.csFunction[t] >= ECSExitInProgress
  BY <1>2, FieldTypes DEF KInv, DeferOK, DeferAt
<1>4. PICK c \in Int : c = k.csCount[t] + 1
  BY <1>3
<1>5. PICK f \in Int : f = k.csFunction[t] /\ f >= ECSExitInProgress
  BY <1>3
<1>6. k1 = [k EXCEPT !.csCount[t] = c, !.csFunction[t] = f]
  BY <1>2, <1>4, <1>5 DEF KState
<1> HIDE DEF k1
<1>7. KInv(k1) /\ SameFM(k, k1) /\ RunsOn(k1)
  <2>1. c > 0 /\ c >= 0 /\ f >= ECSExitInProgress
    BY <1>3, <1>4, <1>5
  <2>2. (f = ECSExitInProgress => c > 0)
        /\ (f # 0 => c > 0 \/ (k.heldFM[t] # Null /\ k.waiting[k.heldFM[t]]))
    BY <2>1
  <2>3. KInv(k1) /\ SameFM(k, k1) /\ (RunsOn(k) => RunsOn(k1))
    BY <1>2, <1>6, <2>1, <2>2, CsFunctionOK
  <2> QED
    BY <1>2, <2>3
<1> QED
  BY <1>1, <1>7, QuietServes

\* NKern::ThreadLeaveCS.
LEMMA LeaveCSServes ==
    ASSUME NEW t \in Thread, IInv, ThreadLeaveCS(t)
    PROVE  Served
<1> DEFINE k1 == [k EXCEPT !.csCount[t] = k.csCount[t] - 1]
           k2 == [k1 EXCEPT !.waiting[k.heldFM[t]] = TRUE]
<1>1. /\ Running(t) /\ k.csCount[t] > 0 /\ (k.csFunction[t] = ECSExitInProgress => k.csCount[t] > 1)
      /\ Unlock(IF k1.csCount[t] # 0 \/ k.csFunction[t] = 0 THEN k1
                ELSE IF k.heldFM[t] = Null THEN DoCsFunction(k1, t) ELSE k2)
  <2>1. k \in KState /\ Running(t)
    BY RunningFacts DEF ThreadLeaveCS
  <2>2. k.csCount[t] \in Int
    BY <2>1, FieldTypes
  <2> QED
    BY <2>1, <2>2 DEF ThreadLeaveCS, NoFM, Exiting
<1>2. /\ t # NullThread /\ KInv(k) /\ RunsOn(k) /\ k \in KState /\ k.waitFM[t] = Null
      /\ k.nstate[t] = "EReady"
  BY <1>1, RunningFacts
<1>3. /\ k.csCount[t] \in Int /\ k.csFunction[t] \in Int /\ k.csFunction[t] >= ECSExitInProgress
  BY <1>2, FieldTypes DEF KInv, DeferOK, DeferAt
<1>4. PICK c \in Nat : c = k.csCount[t] - 1
  BY <1>1, <1>3
<1>5. k1 = [k EXCEPT !.csCount[t] = c]
  BY <1>4
<1> HIDE DEF k1
<1>6. /\ KInvBut(k1, t) /\ SameFM(k, k1) /\ RunsOn(k1) /\ k1.csCount[t] = c
      /\ k1.csFunction = k.csFunction
  BY <1>2, <1>5, CsCountBut
<1>7. CASE c # 0 \/ k.csFunction[t] = 0
  <2>1. DeferAt(k1, t)
    BY <1>1, <1>3, <1>4, <1>6, <1>7 DEF DeferAt, ECSExitInProgress
  <2>2. KInv(k1)
    BY <1>6, <2>1 DEF KInv, KInvBut, DeferOK
  <2> QED
    BY <1>1, <1>6, <1>7, <2>2, QuietServes
<1>8. CASE c = 0 /\ k.csFunction[t] # 0 /\ k.heldFM[t] = Null
  <2> DEFINE k3 == DoCsFunction(k1, t)
  <2>1. k.csFunction[t] > 0 \/ k.csFunction[t] = ECSExitPending
    BY <1>1, <1>3, <1>4, <1>8 DEF ECSExitPending, ECSExitInProgress
  <2>2. KInv(k3) /\ SameFM(k1, k3) /\ RunsOn(k3)
    BY <1>2, <1>6, <1>8, <2>1, DoCsFunctionOK DEF SameFM
  <2>3. Unlock(k3)
    BY <1>1, <1>6, <1>8
  <2> QED
    BY <1>6, <2>2, <2>3, QuietServes DEF SameFM
<1>9. CASE c = 0 /\ k.csFunction[t] # 0 /\ k.heldFM[t] # Null
  <2>1. k1.csFunction[t] >= ECSExitPending /\ k1.heldFM[t] = k.heldFM[t]
    BY <1>1, <1>3, <1>4, <1>6, <1>9 DEF ECSExitPending, ECSExitInProgress, SameFM
  <2>2. k2 = [k1 EXCEPT !.waiting[k1.heldFM[t]] = TRUE]
    BY <2>1
  <2> HIDE DEF k2
  <2>3. KInv(k2) /\ SameFM(k1, k2) /\ RunsOn(k2)
    BY <1>6, <1>9, <2>1, <2>2, LeaveToSignal
  <2>4. Unlock(k2)
    BY <1>1, <1>6, <1>9
  <2> QED
    BY <1>6, <2>3, <2>4, QuietServes DEF SameFM
<1> QED
  BY <1>7, <1>8, <1>9

\* NKern::Block: the thread gives up its mutex, acts on what was deferred and,
\* unless it exits, blocks.
LEMMA BlockServes ==
    ASSUME NEW t \in Thread, NEW enterCS \in BOOLEAN, NEW claim \in BOOLEAN, IInv,
           Block(t, enterCS, claim)
    PROVE  Served
<1> DEFINE m   == k.heldFM[t]
           k1  == IF enterCS THEN [k EXCEPT !.csCount[t] = @ + 1] ELSE k
           k2  == IF NoFM(t) THEN k1
                  ELSE [k1 EXCEPT !.holding[m] = Null, !.heldFM[t] = Null,
                                  !.waiting[m] = FALSE]
           act == ~NoFM(t) /\ k.waiting[m] /\ k2.csCount[t] = 0
                           /\ k2.csFunction[t] # 0
           k3  == IF act THEN DoCsFunction(k2, t) ELSE k2
           k4  == RescheduleNeeded(IF k3.nstate[t] = "EReady"
                                   THEN SchedRemove(k3, t) ELSE k3)
           c   == IF claim THEN "Block" ELSE "run"
           a   == IF claim THEN m ELSE Null
           k5  == [k4 EXCEPT !.nstate[t] = "EBlocked", !.cont[t] = c, !.arg[t] = a]
<1>1. Running(t) /\ (claim => m # Null) /\ Unlock(IF act /\ Exiting(k3, t) THEN k3 ELSE k5)
  BY DEF Block, NoFM
<1>2. /\ t \in Thread \ {NullThread} /\ KInv(k) /\ RunsOn(k) /\ k \in KState /\ k.waitFM[t] = Null
      /\ k.nstate[t] = "EReady" /\ k.cont[t] = "run" /\ m \in Mutex \cup {Null}
      /\ Null \notin Mutex
  BY <1>1, RunningFacts
<1>3. /\ k.csCount[t] \in Int /\ k.csFunction[t] \in Int /\ k.count[t] \in Int /\ DeferAt(k, t)
      /\ k.count[t] # -1
  BY <1>2, FieldTypes DEF KInv, DeferOK, CountOK
<1>4. /\ k1 \in KState /\ KInv(k1) /\ SameFM(k, k1) /\ RunsOn(k1)
      /\ k1.csFunction = k.csFunction /\ k1.waiting = k.waiting /\ k1.count = k.count
      /\ k1.nstate = k.nstate /\ k1.cont = k.cont
  <2>1. CASE ~enterCS
    BY <1>2, <2>1 DEF SameFM
  <2>2. CASE enterCS
    <3>1. PICK n \in Nat : n = k.csCount[t] + 1 /\ n > 0
      BY <1>3 DEF DeferAt
    <3>2. k1 = [k EXCEPT !.csCount[t] = n]
      BY <2>2, <3>1
    <3> HIDE DEF k1
    <3>3. /\ KInvBut(k1, t) /\ SameFM(k, k1) /\ RunsOn(k1)
          /\ k1.csCount[t] = n /\ k1.csFunction = k.csFunction
          /\ k1.cont = k.cont /\ k1.nstate = k.nstate /\ k1.waiting = k.waiting
      BY <1>2, <3>2, CsCountBut
    <3>4. DeferAt(k1, t)
      BY <1>3, <3>1, <3>3 DEF DeferAt
    <3>5. k1.count = k.count
      BY <1>2, <3>2 DEF KState
    <3> QED
      BY <3>3, <3>4, <3>5 DEF KInv, KInvBut, DeferOK
  <2> QED
    BY <2>1, <2>2
<1> HIDE DEF k1
<1>5. /\ k2 \in KState /\ KInvBut(k2, t) /\ RunsOn(k2) /\ k2.heldFM[t] = Null /\ k2.waitFM = k.waitFM
      /\ k2.nstate[t] = "EReady" /\ k2.count = k.count /\ k2.csFunction = k.csFunction
      /\ k2.cont[t] = "run"
      /\ IF m = Null THEN k2 = k1 ELSE k2.holding = [k.holding EXCEPT ![m] = Null]
      /\ k2.csCount = k1.csCount
      /\ ~act => DeferAt(k2, t)
  <2>1. CASE m = Null
    <3>1. k2 = k1 /\ DeferAt(k1, t)
      BY <1>2, <1>4, <2>1 DEF NoFM, KInv, DeferOK
    <3> QED
      BY <1>2, <1>4, <2>1, <3>1 DEF KInv, KInvBut, DeferOK, SameFM
  <2>2. CASE m # Null
    <3>1. m \in Mutex /\ k1.heldFM[t] = m
      BY <1>2, <1>4, <2>2 DEF SameFM
    <3> DEFINE ho == [k1.holding EXCEPT ![m] = Null]
               he == [k1.heldFM EXCEPT ![t] = Null]
               wa == [k1.waiting EXCEPT ![m] = FALSE]
    <3> HIDE DEF m
    <3>2. ho \in [Mutex -> Thread \cup {Null}] /\ he \in [Thread -> Mutex \cup {Null}]
          /\ wa \in [Mutex -> BOOLEAN]
      BY <1>4, <3>1, FieldTypes
    <3>3. k2 = [k1 EXCEPT !.holding = ho, !.heldFM = he, !.waiting = wa]
      BY <2>2 DEF NoFM, m
    <3> HIDE DEF ho, he, wa
    <3>4. k2 \in KState
      BY <1>4, <3>2, <3>3 DEF KState
    <3>5. /\ k2.holding = ho /\ k2.heldFM = he /\ k2.waiting = wa
          /\ k2.cont = k1.cont /\ k2.arg = k1.arg /\ k2.nstate = k1.nstate
          /\ k2.pri = k1.pri /\ k2.ready = k1.ready
          /\ k2.suspendCount = k1.suspendCount /\ k2.count = k1.count
          /\ k2.csCount = k1.csCount /\ k2.csFunction = k1.csFunction
          /\ k2.waitFM = k1.waitFM /\ k2.fault = k1.fault
          /\ k2.current = k1.current /\ k2.resched = k1.resched
      BY <1>4, <3>3 DEF KState
    <3>6. act <=> k.waiting[m] /\ k2.csCount[t] = 0 /\ k.csFunction[t] # 0
      BY <1>4, <2>2, <3>5 DEF NoFM, m
    <3> HIDE DEF k2, act
    <3>7. k2.csCount = [k1.csCount EXCEPT ![t] = k2.csCount[t]]
      BY <1>4, <3>5, FieldTypes
    <3>8. GivesUp(k1, k2, t, m)
      BY <3>1, <3>5, <3>7 DEF GivesUp, ho, he, wa
    <3>9. /\ KInvBut(k2, t) /\ RunsOn(k2) /\ k2.heldFM[t] = Null
          /\ k2.nstate[t] = "EReady" /\ k2.cont[t] = "run"
          /\ k1.csFunction[t] # 0 /\ ~k1.waiting[m] => k1.csCount[t] > 0
      BY <1>4, <3>1, <3>4, <3>8, GiveUp
    <3>10. ~act => DeferAt(k2, t)
      <4>1. DeferAt(k1, t) /\ k1.csCount[t] \in Int
        BY <1>4, FieldTypes DEF KInv, DeferOK
      <4> QED
        BY <1>4, <3>5, <3>6, <3>9, <4>1 DEF DeferAt
    <3>11. k2.holding = [k.holding EXCEPT ![m] = Null]
      BY <1>4, <3>5 DEF ho, SameFM
    <3> QED
      BY <1>4, <2>2, <3>4, <3>5, <3>9, <3>10, <3>11 DEF SameFM, m
  <2> QED
    BY <2>1, <2>2
<1>6. act => k.csFunction[t] # 0 /\ k2.csCount[t] = 0
  BY <1>5
<1> HIDE DEF k2, act
<1>7. /\ KInv(k3) /\ RunsOn(k3) /\ SameFM(k2, k3) /\ k3.count = k.count
  <2>1. CASE ~act
    BY <1>5, <2>1 DEF KInv, KInvBut, DeferOK, SameFM
  <2>2. CASE act
    <3>1. k2.csFunction[t] > 0 \/ k2.csFunction[t] = ECSExitPending
      <4>1. DeferAt(k1, t) /\ k1.csCount[t] = 0 /\ k1.csFunction[t] = k.csFunction[t]
        BY <1>4, <1>5, <1>6, <2>2 DEF KInv, DeferOK
      <4> QED
        BY <1>3, <1>5, <1>6, <2>2, <4>1 DEF DeferAt, ECSExitPending, ECSExitInProgress
    <3>2. /\ KInv(k3) /\ SameFM(k2, k3) /\ RunsOn(k3)
      BY <1>2, <1>5, <1>6, <2>2, <3>1, DoCsFunctionOK
    <3>3. k3.count = k2.count
      BY <1>5, <2>2, DoCsFunctionCount
    <3> QED
      BY <1>5, <3>2, <3>3
  <2> QED
    BY <2>1, <2>2
<1> HIDE DEF k3
<1>8. k3 \in KState /\ k3.waitFM = k.waitFM /\ k3.heldFM[t] = Null
  BY <1>5, <1>7 DEF KInv, SameFM
<1>9. FMStep(k, k3)
  <2>1. CASE m = Null
    BY <1>4, <1>5, <1>7, <2>1 DEF FMStep, Asks, Acquires, Releases, Withdraws, SameFM
  <2>2. CASE m # Null
    BY <1>2, <1>5, <1>7, <1>8, <2>2 DEF FMStep, Asks, Acquires, Releases, Withdraws, SameFM
  <2> QED
    BY <2>1, <2>2
<1>10. a \in Mutex \cup {Null} /\ (c = "Block" => a # Null) /\ c \in {"run", "Block"}
  BY <1>1, <1>2
<1> HIDE DEF a, c, m
<1>11. KInv(k5) /\ SameFM(k3, k5) /\ RunsOn(k5)
  <2>1. CASE k3.nstate[t] = "EReady"
    <3>1. k4 = SchedRemove(RescheduleNeeded(k3), t)
      BY <1>8, <2>1 DEF KState, SchedRemove, PriListRemove, RescheduleNeeded
    <3> HIDE DEF k4
    <3> QED
      BY <1>2, <1>7, <1>8, <1>10, <2>1, <3>1, GoesOff
  <2>2. CASE k3.nstate[t] # "EReady"
    <3>1. k4 = RescheduleNeeded(k3)
      BY <2>2
    <3> HIDE DEF k4
    <3> QED
      BY <1>2, <1>3, <1>7, <1>8, <1>10, <2>2, <3>1, BlocksSuspended
  <2> QED
    BY <2>1, <2>2
<1> HIDE DEF k5
<1>12. FMStep(k, k5)
  <2>1. k5.holding = k3.holding /\ k5.waitFM = k3.waitFM
    BY <1>11 DEF SameFM
  <2> QED
    BY <1>9, <2>1, FMStepOnly
<1> QED
  BY <1>1, <1>7, <1>9, <1>11, <1>12, UnlockServes DEF Good

\* NKern::YieldTimeslice and NKern::RotateReadyList.
LEMMA YieldServes ==
    ASSUME NEW t \in Thread, NEW p \in Pri, IInv,
           YieldTimeslice(t) \/ CallRotateReadyList(t, p)
    PROVE  Served
<1>1. Running(t)
  BY DEF YieldTimeslice, CallRotateReadyList
<1>2. KInv(k) /\ RunsOn(k) /\ k \in KState
  BY <1>1, RunningFacts
<1>3. CASE CallRotateReadyList(t, p)
  <2>1. Unlock(RotateReadyList(k, p))
    BY <1>3 DEF CallRotateReadyList
  <2>2. KInv(RotateReadyList(k, p)) /\ RunsOn(RotateReadyList(k, p))
        /\ SameFM(k, RotateReadyList(k, p))
    BY <1>2, RotateReadyListOK
  <2> QED
    BY <2>1, <2>2, QuietServes
<1>4. CASE YieldTimeslice(t)
  <2> DEFINE k1 == [k EXCEPT !.time[t] = 0, !.resched = @ \/ ~Alone(k, t)]
             tm == [k.time EXCEPT ![t] = 0]
             re == k.resched \/ ~Alone(k, t)
  <2>1. Unlock(k1)
    BY <1>4 DEF YieldTimeslice
  <2>2. tm \in [Thread -> Int] /\ re \in BOOLEAN
    BY <1>2, FieldTypes DEF Alone
  <2>3. k1 = [k EXCEPT !.time = tm, !.resched = re]
    OBVIOUS
  <2> HIDE DEF k1, tm
  <2>4. k1 \in KState
    BY <1>2, <2>2, <2>3 DEF KState
  <2>5. /\ k1.nstate = k.nstate /\ k1.pri = k.pri /\ k1.ready = k.ready
        /\ k1.suspendCount = k.suspendCount /\ k1.count = k.count
        /\ k1.csCount = k.csCount /\ k1.csFunction = k.csFunction
        /\ k1.heldFM = k.heldFM /\ k1.waitFM = k.waitFM /\ k1.cont = k.cont
        /\ k1.arg = k.arg /\ k1.holding = k.holding /\ k1.fault = k.fault
        /\ k1.waiting = k.waiting /\ k1.current = k.current /\ (k.resched => k1.resched)
    BY <1>2, <2>3 DEF KState
  <2>6. KInv(k1) /\ RunsOn(k1)
    BY <1>2, <2>4, <2>5, Quiet
  <2> QED
    BY <2>1, <2>5, <2>6, QuietServes DEF SameFM
<1> QED
  BY <1>3, <1>4

-----------------------------------------------------------------------------
\* Threads that go on in a kernel function

\* A thread that takes again the mutex it gave up in FMFlash or Block.
LEMMA TakesAgain ==
    ASSUME NEW t \in Thread, IInv, k.current = t, ~k.resched, RunsOn(k),
           k.cont[t] \in {"FMFlash", "Block"},
           Unlock([FMWait(k, t, k.arg[t]) EXCEPT !.arg[t] = Null])
    PROVE  Served
<1> DEFINE m  == k.arg[t]
           k1 == FMWait(k, t, m)
           k2 == [k1 EXCEPT !.arg[t] = Null]
<1>1. KInv(k) /\ k \in KState /\ Null \notin Mutex /\ Unlock(k2)
  BY ThreadAssumption DEF IInv, KInv
<1>2. m \in Mutex /\ t # NullThread /\ k.waitFM[t] = Null /\ k.heldFM[t] = Null
      /\ k.nstate[t] = "EReady"
  BY <1>1, FieldTypes DEF KInv, ContOK, OwnerOK, IdleOK, RunsOn
<1> HIDE DEF m
<1>3. /\ KInv(k1) /\ RunsOn(k1) /\ k1.current = t /\ k1.cont[t] \in {"run", "FMWait"}
      /\ IF k.holding[m] = Null
         THEN /\ k1.holding = [k.holding EXCEPT ![m] = t]
              /\ k1.waitFM = [k.waitFM EXCEPT ![t] = Null]
         ELSE /\ k1.holding = k.holding
              /\ k1.waitFM = [k.waitFM EXCEPT ![t] = m]
  BY SMTT(30), <1>1, <1>2, FMWaitOK
<1> HIDE DEF k1
<1> DEFINE ar == [k1.arg EXCEPT ![t] = Null]
<1>4. k1 \in KState
  BY <1>3 DEF KInv
<1>5. ar \in [Thread -> Mutex \cup {Null}] /\ ar[t] = Null
  BY <1>4, FieldTypes
<1>6. k2 \in KState
  BY <1>4, <1>5 DEF KState
<1>7. /\ k2.arg = ar /\ k2.cont = k1.cont /\ k2.nstate = k1.nstate /\ k2.pri = k1.pri
      /\ k2.ready = k1.ready
      /\ k2.suspendCount = k1.suspendCount /\ k2.count = k1.count
      /\ k2.csCount = k1.csCount /\ k2.csFunction = k1.csFunction
      /\ k2.heldFM = k1.heldFM /\ k2.waitFM = k1.waitFM
      /\ k2.holding = k1.holding /\ k2.fault = k1.fault
      /\ k2.waiting = k1.waiting /\ k2.current = k1.current /\ k2.resched = k1.resched
  BY <1>4 DEF KState
<1> HIDE DEF k2
<1>8. /\ k2.cont = [k1.cont EXCEPT ![t] = k2.cont[t]]
      /\ k2.arg = [k1.arg EXCEPT ![t] = k2.arg[t]]
      /\ k2.cont[t] \in {"FMFlash", "Block"} => k2.arg[t] # Null
      /\ k2.cont[t] = "FMWait" <=> k1.waitFM[t] # Null
      /\ k1.heldFM[t] # Null \/ t = NullThread => k2.cont[t] = "run"
  <2>1. k2.cont = [k1.cont EXCEPT ![t] = k2.cont[t]]
        /\ k2.arg = [k1.arg EXCEPT ![t] = k2.arg[t]]
    BY <1>4, <1>5, <1>7, FieldTypes
  <2>2. k2.cont[t] = k1.cont[t]
    BY <1>7
  <2>3. k1.cont[t] = "FMWait" <=> k1.waitFM[t] # Null
    BY <1>3 DEF KInv, ContOK
  <2>4. k1.heldFM[t] # Null => k1.cont[t] = "run"
    BY <1>3 DEF KInv, OwnerOK
  <2> QED
    BY <1>2, <1>3, <2>1, <2>2, <2>3, <2>4
<1> HIDE DEF ar
<1>9. KInv(k2) /\ RunsOn(k2)
  BY <1>3, <1>6, <1>7, <1>8, ContinueOK
<1>10. FMStep(k, k1)
  BY <1>2, <1>3 DEF FMStep, Asks, Acquires
<1>11. FMStep(k, k2)
  BY <1>7, <1>10, FMStepOnly
<1> QED
  BY <1>1, <1>9, <1>11, UnlockServes DEF Good

\* Block claims its mutex again.
LEMMA ClaimServes ==
    ASSUME NEW t \in Thread, IInv, ClaimAfterBlock(t)
    PROVE  Served
<1>1. /\ k.current = t /\ ~k.resched /\ RunsOn(k) /\ k.cont[t] = "Block"
      /\ Unlock([FMWait(k, t, k.arg[t]) EXCEPT !.arg[t] = Null])
  BY DEF ClaimAfterBlock, IInv
<1> QED
  BY <1>1, TakesAgain

\* The return from TScheduler::Reschedule into each of the places it is
\* called from.
LEMMA ReturnServes ==
    ASSUME NEW t \in Thread, IInv,
           \/ ReturnToThread(t)
           \/ ReturnToFMWait(t)
           \/ ReturnToFMFlash(t)
           \/ ReturnToBlock(t)
           \/ ReturnToForcedExit(t)
    PROVE  Served
<1>1. kern = "locked" /\ k.current = t /\ ~k.resched
  BY DEF ReturnToThread, ReturnToFMWait, ReturnToFMFlash, ReturnToBlock, ReturnToForcedExit,
         Rescheduled
<1>2. KInv(k) /\ RunsOn(k) /\ k \in KState /\ Null \notin Mutex
  BY <1>1, ThreadAssumption DEF IInv, KInv
<1>3. k.nstate[t] = "EReady"
  BY <1>1, <1>2 DEF RunsOn
<1>4. CASE ReturnToThread(t) \/ ReturnToBlock(t)
  <2>1. Unlock(k)
    BY <1>4 DEF ReturnToThread, ReturnToBlock
  <2> QED
    BY <1>2, <2>1, QuietServes DEF SameFM
<1>5. CASE ReturnToFMWait(t)
  <2> DEFINE m  == k.waitFM[t]
             k1 == FMTake(k, t, m)
  <2>1. k.cont[t] = "FMWait" /\ Unlock(k1)
    BY <1>5 DEF ReturnToFMWait, Rescheduled
  <2>2. m \in Mutex /\ t # NullThread /\ k.heldFM[t] = Null /\ k.holding[m] = Null
    BY <1>1, <1>2, <2>1, FieldTypes DEF KInv, ContOK, OwnerOK, IdleOK, RunsOn
  <2> HIDE DEF m
  <2>3. /\ KInv(k1) /\ RunsOn(k1) /\ k1.holding = [k.holding EXCEPT ![m] = t]
        /\ k1.waitFM = [k.waitFM EXCEPT ![t] = Null]
    BY <1>1, <1>2, <1>3, <2>2, FMTakeOK
  <2> HIDE DEF k1
  <2>4. FMStep(k, k1)
    BY <2>2, <2>3 DEF FMStep, Acquires, m
  <2> QED
    BY <2>1, <2>3, <2>4, UnlockServes DEF Good
<1>6. CASE ReturnToFMFlash(t)
  <2>1. k.cont[t] = "FMFlash" /\ Unlock([FMWait(k, t, k.arg[t]) EXCEPT !.arg[t] = Null])
    BY <1>6 DEF ReturnToFMFlash, Rescheduled
  <2> QED
    BY <1>1, <1>2, <2>1, TakesAgain
<1>7. CASE ReturnToForcedExit(t)
  <2> DEFINE k1 == [k EXCEPT !.csCount[t] = 0]
  <2>1. k.cont[t] = "ForcedExit" /\ Unlock(Exit(k1, t))
    BY <1>7 DEF ReturnToForcedExit, Rescheduled, ForcedExit
  <2>2. t # NullThread /\ k.heldFM[t] = Null /\ k.waitFM[t] = Null
    BY <1>2, <2>1 DEF KInv, ContOK, OwnerOK, IdleOK
  <2>3. KInvBut(k1, t) /\ SameFM(k, k1) /\ RunsOn(k1) /\ k1.csCount[t] = 0
    BY <1>2, CsCountBut
  <2> HIDE DEF k1
  <2> QED
    BY <2>1, <2>2, <2>3, ExitServes DEF SameFM
<1> QED
  BY <1>4, <1>5, <1>6, <1>7

-----------------------------------------------------------------------------
\* Interrupts and the scheduler

\* TimesliceTick and a device's interrupt.
LEMMA InterruptServes ==
    ASSUME IInv, Interrupt
    PROVE  Served
<1>1. KInv(k) /\ k \in KState
  BY DEF IInv, KInv
<1>2. CASE TimesliceTick
  <2> DEFINE t  == k.current
             tm == [k.time EXCEPT ![t] = @ - 1]
             re == k.resched \/ k.time[t] = 1
             k1 == [k EXCEPT !.time = tm, !.resched = re]
  <2>1. tm \in [Thread -> Int] /\ re \in BOOLEAN
    BY <1>1, FieldTypes
  <2>2. k' = k1
    BY <1>2 DEF TimesliceTick
  <2>3. /\ kern' = IF kern = "unlocked" /\ k1.resched THEN "locked" ELSE kern
        /\ idfcs' = idfcs
    BY <1>2 DEF TimesliceTick
  <2>4. ticks' \in 0..MaxLockedTicks
    BY <1>2, ControlAssumption DEF TimesliceTick, IInv
  <2> HIDE DEF tm, re
  <2>5. k1 \in KState
    BY <1>1, <2>1 DEF KState
  <2>6. /\ k1.nstate = k.nstate /\ k1.pri = k.pri /\ k1.ready = k.ready
        /\ k1.suspendCount = k.suspendCount /\ k1.count = k.count
        /\ k1.csCount = k.csCount /\ k1.csFunction = k.csFunction
        /\ k1.heldFM = k.heldFM /\ k1.waitFM = k.waitFM /\ k1.cont = k.cont
        /\ k1.arg = k.arg /\ k1.holding = k.holding /\ k1.fault = k.fault
        /\ k1.waiting = k.waiting /\ k1.current = k.current /\ k1.resched = re
    BY <1>1 DEF KState
  <2> HIDE DEF k1
  <2>7. KInv(k1) /\ (RunsOn(k) => RunsOn(k1))
    BY <1>1, <2>5, <2>6, Quiet DEF re
  <2>8. FMStep(k, k')
    BY <2>2, <2>6 DEF FMStep
  <2>9. IInv'
    BY <2>2, <2>3, <2>4, <2>7 DEF IInv
  <2> QED
    BY <2>8, <2>9 DEF Served
<1>3. ASSUME NEW u \in Thread, DeviceInterrupt(u) PROVE Served
  <2>1. /\ k' = k /\ ticks' = ticks /\ idfcs' = idfcs \cup {u} /\ u # NullThread
        /\ kern' = IF kern = "unlocked" THEN "locked" ELSE kern
    BY <1>3 DEF DeviceInterrupt
  <2>2. IInv'
    BY <2>1 DEF IInv
  <2> QED
    BY <2>1, <2>2 DEF Served, FMStep
<1> QED
  BY <1>2, <1>3 DEF Interrupt

\* The steps of TScheduler::Reschedule.
LEMMA RescheduleServes ==
    ASSUME IInv, Reschedule
    PROVE  Served
<1>1. KInv(k) /\ k \in KState
  BY DEF IInv, KInv
<1>2. ASSUME NEW u \in Thread, RunIdfc(u) PROVE Served
  <2> DEFINE k1 == SemSignal(k, u)
  <2>1. /\ k' = k1 /\ ticks' = ticks /\ idfcs' = idfcs \ {u} /\ kern' = kern /\ kern = "locked"
    BY <1>2 DEF RunIdfc
  <2>2. KInv(k1) /\ SameFM(k, k1) /\ RunsOn(k1)
    BY <1>1, <2>1, SemSignalOK DEF IInv
  <2> HIDE DEF k1
  <2>3. IInv'
    BY <2>1, <2>2 DEF IInv
  <2> QED
    BY <2>1, <2>2, <2>3 DEF Served, FMStep, SameFM
<1>3. CASE ClearRescheduleFlag
  <2> DEFINE k1 == [k EXCEPT !.resched = FALSE]
  <2>1. k' = k1 /\ ticks' = ticks /\ idfcs' = idfcs /\ kern' = "selecting"
    BY <1>3 DEF ClearRescheduleFlag
  <2>2. k1 \in KState
    BY <1>1 DEF KState
  <2>3. /\ k1.nstate = k.nstate /\ k1.pri = k.pri /\ k1.ready = k.ready
        /\ k1.suspendCount = k.suspendCount /\ k1.count = k.count
        /\ k1.csCount = k.csCount /\ k1.csFunction = k.csFunction
        /\ k1.heldFM = k.heldFM /\ k1.waitFM = k.waitFM /\ k1.cont = k.cont
        /\ k1.arg = k.arg /\ k1.holding = k.holding /\ k1.fault = k.fault
        /\ k1.waiting = k.waiting
    BY <1>1 DEF KState
  <2> HIDE DEF k1
  <2>4. KInv(k1)
    BY <1>1, <2>2, <2>3, Quiet
  <2>5. IInv'
    BY <2>1, <2>4 DEF IInv
  <2> QED
    BY <2>1, <2>3, <2>5 DEF Served, FMStep
<1>4. CASE SwitchThread
  <2> DEFINE k1 == SelectThread(k)
  <2>1. k' = k1 /\ ticks' = ticks /\ idfcs' = idfcs /\ kern' = "locked"
    BY <1>4 DEF SwitchThread
  <2>2. KInv(k1) /\ RunsOn(k1) /\ k1.holding = k.holding /\ k1.waitFM = k.waitFM
    BY <1>1, SelectThreadOK
  <2> HIDE DEF k1
  <2>3. IInv'
    BY <2>1, <2>2 DEF IInv
  <2> QED
    BY <2>1, <2>2, <2>3 DEF Served, FMStep
<1> QED
  BY <1>2, <1>3, <1>4, ReturnServes DEF Reschedule

\* Every step of the scheduler.
LEMMA NextServes ==
    ASSUME IInv, Next
    PROVE  Served
<1>1. ASSUME NEW t \in Thread, ThreadStep(t) PROVE Served
  <2>1. CASE \E m \in Mutex : CallFMWait(t, m)
    BY <2>1, CallFMWaitServes
  <2>2. CASE CallFMSignal(t) \/ CallFMFlash(t) \/ WaitForAnyRequest(t)
    BY <2>2, CallFMSignalServes, CallFMFlashServes, WaitForAnyRequestServes
  <2>3. CASE \E u \in Thread \ {NullThread} :
               \/ \E m \in FMArg(t) : ThreadRequestSignal(t, u, m)
               \/ \E n \in 0..2 : ThreadRequestSignalN(t, u, n)
    BY <2>3, RequestSignalServes
  <2>4. CASE \E u \in Thread, n \in 1..2 : ThreadSuspend(t, u, n)
    BY <2>4, SuspendServes
  <2>5. CASE \E u \in Thread, m \in FMArg(t) :
               \/ ThreadResume(t, u, m)
               \/ ThreadForceResume(t, u, m)
               \/ \E p \in Pri \ {0} : ThreadSetPriority(t, u, p, m)
               \/ ThreadRelease(t, u, m)
    <3>1. PICK p \in Pri : TRUE
      BY ThreadAssumption
    <3> QED
      BY <2>5, <3>1, ResumeServes
  <2>6. CASE \E u \in Thread, m \in FMArg(t) : ThreadKill(t, u, m)
    BY <2>6, KillServes
  <2>7. CASE ThreadKillSelf(t) \/ CallExit(t) \/ DeferredExit(t) \/ ExitHandlerDone(t)
    BY <2>7, KillSelfServes, CallExitServes, DeferredExitServes, ExitHandlerDoneServes
  <2>8. CASE ThreadEnterCS(t) \/ ThreadLeaveCS(t) \/ ClaimAfterBlock(t)
    BY <2>8, EnterCSServes, LeaveCSServes, ClaimServes
  <2>9. CASE \E enterCS, claim \in BOOLEAN : Block(t, enterCS, claim)
    BY <2>9, BlockServes
  <2>10. CASE YieldTimeslice(t) \/ \E p \in Pri : CallRotateReadyList(t, p)
    <3>1. PICK p \in Pri : TRUE
      BY ThreadAssumption
    <3> QED
      BY <2>10, <3>1, YieldServes
  <2> QED
    BY <1>1, <2>1, <2>2, <2>3, <2>4, <2>5, <2>6, <2>7, <2>8, <2>9, <2>10 DEF ThreadStep
<1> QED
  BY <1>1, InterruptServes, RescheduleServes DEF Next

-----------------------------------------------------------------------------
\* Theorems

\* The state after boot: only the idle thread is ready.
LEMMA InitInvariant == Init => IInv
<1> SUFFICES ASSUME Init PROVE IInv
  OBVIOUS
<1>1. k \in KState
  <2>1. /\ [p \in Pri |-> IF p = InitPri[NullThread] THEN <<NullThread>> ELSE <<>>]
              \in [Pri -> Seq(Thread)]
    <3>1. <<NullThread>> \in Seq(Thread) /\ <<>> \in Seq(Thread)
      BY ThreadAssumption
    <3> QED
      BY <3>1
  <2> QED
    BY <2>1, ThreadAssumption DEF Init, KState, NState, Cont
<1>2. ReadyOK(k)
  <2> SUFFICES ASSUME NEW p \in Pri
               PROVE  /\ Inj(k.ready[p])
                      /\ \A t \in Thread : t \in Range(k.ready[p]) <=>
                             k.nstate[t] = "EReady" /\ k.pri[t] = p
    BY DEF ReadyOK
  <2>1. /\ k.ready[p] = IF p = InitPri[NullThread] THEN <<NullThread>> ELSE <<>>
        /\ \A t \in Thread : /\ k.nstate[t] = "EReady" <=> t = NullThread
                             /\ k.pri[t] = InitPri[t]
    BY DEF Init
  <2>2. /\ Inj(<<NullThread>>) /\ Range(<<NullThread>>) = {NullThread}
        /\ Inj(<<>>) /\ Range(<<>>) = {}
    BY DEF Inj, Range
  <2>3. NullThread \in Thread
    BY ThreadAssumption
  <2> QED
    BY <2>1, <2>2, <2>3
<1>3. CountOK(k) /\ SuspOK(k) /\ IdleOK(k)
  BY ThreadAssumption DEF Init, CountOK, SuspOK, IdleOK
<1>4. HolderOK(k)
  BY ThreadAssumption DEF Init, HolderOK
<1>5. OwnerOK(k) /\ ContOK(k)
  BY DEF Init, OwnerOK, ContOK
<1>6. DeferOK(k)
  BY DEF Init, DeferOK, DeferAt, ECSExitInProgress
<1>7. RunsOn(k)
  BY ThreadAssumption DEF Init, RunsOn
<1> QED
  BY <1>1, <1>2, <1>3, <1>4, <1>5, <1>6, <1>7, ControlAssumption DEF IInv, KInv, Init

\* Nothing changes in a stuttering step.
LEMMA StutterInvariant == IInv /\ UNCHANGED vars => IInv'
BY DEF IInv, vars

\* The invariant of the scheduler holds in every behaviour, whatever the
\* threads call and whenever interrupts come.
THEOREM Invariance == Spec => []IInv
<1>1. IInv /\ [Next]_vars => IInv'
  BY NextServes, StutterInvariant DEF Served
<1> QED
  BY InitInvariant, <1>1, PTL DEF Spec

\* Every field of the kernel state keeps its type; iCurrentThread always points
\* to a thread.
THEOREM TypeCorrect == Spec => []TypeOK
<1>1. IInv => TypeOK
  BY DEF IInv, KInv, TypeOK
<1> QED
  BY Invariance, <1>1, PTL

\* Mutual exclusion: iHoldingThread and iHeldFastMutex agree, although
\* NFastMutex::Wait takes the mutex after YieldTo without another test.
THEOREM MutualExclusion == Spec => []HolderConsistent
<1>1. IInv => HolderConsistent
  BY DEF IInv, KInv, HolderOK, HolderConsistent
<1> QED
  BY Invariance, <1>1, PTL

\* SelectThread may switch to the holder of a mutex without looking at its
\* state: no thread can suspend, kill or block a holder.
THEOREM HoldersCanRun == Spec => []HolderReady
<1>1. IInv => HolderReady
  BY DEF IInv, KInv, OwnerOK, HolderReady
<1> QED
  BY Invariance, <1>1, PTL

\* The ready list holds the ready threads, each once, at its own priority,
\* through every suspension, kill, release and change of priority.
THEOREM ReadyListCorrect == Spec => []ReadyListOK
<1>1. IInv => ReadyListOK
  BY DEF IInv, KInv, ReadyOK, ReadyListOK, Inj, IsInjective
<1> QED
  BY Invariance, <1>1, PTL

\* With the kernel unlocked the processor executes a ready thread.
THEOREM RunningIsReady == Spec => []RunningReady
<1>1. IInv => RunningReady
  <2> SUFFICES ASSUME IInv, kern = "unlocked"
               PROVE  k.nstate[k.current] = "EReady" /\ k.suspendCount[k.current] = 0
    BY DEF RunningReady
  <2>1. k.nstate[k.current] = "EReady"
    BY DEF IInv, RunsOn
  <2>2. k.current \in Thread /\ k.suspendCount \in [Thread -> Int]
    BY FieldTypes DEF IInv, KInv
  <2>3. k.suspendCount[k.current] =< 0 /\ ~(k.suspendCount[k.current] < 0)
    BY <2>1, <2>2 DEF IInv, KInv, SuspOK
  <2> QED
    BY <2>1, <2>2, <2>3
<1> QED
  BY Invariance, <1>1, PTL

\* NThreadBase::Exit and DoCsFunction never reach FAULT().
THEOREM NeverFaults == Spec => []NoFault
<1>1. IInv => NoFault
  BY DEF IInv, KInv, DeferOK, NoFault
<1> QED
  BY Invariance, <1>1, PTL

\* A deferred suspension or exit is acted on when the thread leaves its critical
\* section or signals its mutex.
THEOREM DeferralsKept == Spec => []DeferredNotLost
<1>1. IInv => DeferredNotLost
  BY DEF IInv, KInv, DeferOK, DeferAt, DeferredNotLost
<1> QED
  BY Invariance, <1>1, PTL

\* A suspended thread never runs, and every suspended thread has a suspension
\* that a resume will end.
THEOREM SuspensionCorrect == Spec => []SuspendedNotReady
<1>1. IInv => SuspendedNotReady
  BY DEF IInv, KInv, SuspOK, SuspendedNotReady
<1> QED
  BY Invariance, <1>1, PTL

\* The request semaphore counts its waiter, also after a kill or a SignalN.
THEOREM RequestsCounted == Spec => []RequestCount
<1>1. IInv => RequestCount
  BY DEF IInv, KInv, CountOK, RequestCount
<1> QED
  BY Invariance, <1>1, PTL

-----------------------------------------------------------------------------
\* The fast mutexes

\* What the services do to the mutexes, FastMutex allows.
LEMMA FMStepAllowed ==
    ASSUME IInv, FMStep(k, k')
    PROVE  [FM!FMNext]_(FM!fmvars)
<1>1. HolderOK(k) /\ Null \notin Mutex \cup Thread
  BY ThreadAssumption DEF IInv, KInv
<1>2. ASSUME NEW t \in Thread, k.heldFM[t] = Null PROVE ~FM!Holds(t)
  BY <1>1, <1>2 DEF HolderOK, FM!Holds
<1>3. CASE k'.holding = k.holding /\ k'.waitFM = k.waitFM
  BY <1>3 DEF FM!fmvars
<1>4. CASE Asks(k, k'.holding, k'.waitFM)
  <2>1. PICK t \in Thread, m \in Mutex :
           /\ k.heldFM[t] = Null /\ k.waitFM[t] = Null /\ k.holding[m] # Null
           /\ k'.holding = k.holding /\ k'.waitFM = [k.waitFM EXCEPT ![t] = m]
    BY <1>4 DEF Asks
  <2>2. FM!Ask(t, m)
    BY <1>2, <2>1 DEF FM!Ask
  <2> QED
    BY <2>2 DEF FM!FMNext
<1>5. CASE Acquires(k, k'.holding, k'.waitFM)
  <2>1. PICK t \in Thread, m \in Mutex :
           /\ k.heldFM[t] = Null /\ k.waitFM[t] \in {m, Null} /\ k.holding[m] = Null
           /\ k'.holding = [k.holding EXCEPT ![m] = t]
           /\ k'.waitFM = [k.waitFM EXCEPT ![t] = Null]
    BY <1>5 DEF Acquires
  <2>2. FM!Acquire(t, m)
    BY <1>2, <2>1 DEF FM!Acquire
  <2> QED
    BY <2>2 DEF FM!FMNext
<1>6. CASE Releases(k, k'.holding, k'.waitFM)
  <2>1. PICK t \in Thread, m \in Mutex :
           /\ k.heldFM[t] = m /\ k'.holding = [k.holding EXCEPT ![m] = Null]
           /\ k'.waitFM = k.waitFM
    BY <1>6 DEF Releases
  <2>2. FM!Release(t, m)
    BY <1>1, <2>1 DEF FM!Release, HolderOK
  <2> QED
    BY <2>2 DEF FM!FMNext
<1>7. CASE Withdraws(k, k'.holding, k'.waitFM)
  <2>1. PICK u \in Thread :
           /\ k.waitFM[u] # Null /\ k'.waitFM = [k.waitFM EXCEPT ![u] = Null]
           /\ \/ k'.holding = k.holding
              \/ \E t \in Thread \ {u}, m \in Mutex :
                    k.heldFM[t] = m /\ k'.holding = [k.holding EXCEPT ![m] = Null]
    BY <1>7 DEF Withdraws
  <2>2. FM!Withdraw(u)
    BY <1>1, <2>1 DEF FM!Withdraw, HolderOK
  <2> QED
    BY <2>2 DEF FM!FMNext
<1> QED
  BY <1>3, <1>4, <1>5, <1>6, <1>7 DEF FMStep

\* iHoldingThread, iHeldFastMutex and iWaitFastMutex are exact in every behaviour.
THEOREM HoldersAreExact == Spec => []HoldersExact
<1>1. TypeOK /\ HolderConsistent => HoldersExact
  BY DEF HoldersExact
<1> QED
  BY <1>1, TypeCorrect, MutualExclusion, PTL

\* The states of the threads agree with their suspensions, waits and mutexes.
THEOREM ThreadStatesCorrect == Spec => []ThreadStatesOK
<1>1. HolderReady /\ RunningReady /\ SuspendedNotReady /\ RequestCount => ThreadStatesOK
  BY DEF ThreadStatesOK
<1> QED
  BY <1>1, HoldersCanRun, RunningIsReady, SuspensionCorrect, RequestsCounted, PTL

\* Deferred suspensions and exits are acted on, and at the right moment.
THEOREM NothingIsForgotten == Spec => []NothingForgotten
<1>1. DeferredNotLost /\ NoFault => NothingForgotten
  BY DEF NothingForgotten
<1> QED
  BY <1>1, DeferralsKept, NeverFaults, PTL

\* The scheduler implements the fast mutexes of FastMutex: every service, every
\* interrupt and every reschedule, with its kills and deferred exits, takes,
\* gives up and waits for mutexes only as that specification allows.
THEOREM Refinement == Spec => ImplementsFastMutex
<1>1. Init => FM!FMInit
  BY DEF Init, FM!FMInit
<1>2. IInv /\ [Next]_vars => [FM!FMNext]_(FM!fmvars)
  <2>1. ASSUME IInv, Next PROVE [FM!FMNext]_(FM!fmvars)
    BY <2>1, NextServes, FMStepAllowed DEF Served
  <2>2. ASSUME UNCHANGED vars PROVE [FM!FMNext]_(FM!fmvars)
    BY <2>2 DEF vars, FM!fmvars
  <2> QED
    BY <2>1, <2>2
<1> QED
  BY Invariance, <1>1, <1>2, PTL DEF Spec, ImplementsFastMutex, FM!FMSpec

FMType ==
    /\ k.holding \in [Mutex -> Thread \cup {Null}]
    /\ k.waitFM \in [Thread -> Mutex \cup {Null}]

\* What FastMutex allows is enough for fast mutexes never to nest, whatever else the
\* scheduler does.
THEOREM NestingNever == FM!FMSpec => []FM!NoNesting
<1> DEFINE I == FMType /\ FM!NoNesting
<1>0. Null \notin Thread /\ Null \notin Mutex
  BY ThreadAssumption
<1>1. FM!FMInit => I
  BY <1>0 DEF FM!FMInit, FMType, FM!NoNesting, FM!Holds
<1>2. I /\ [FM!FMNext]_(FM!fmvars) => I'
  <2> SUFFICES ASSUME I, [FM!FMNext]_(FM!fmvars) PROVE I'
    OBVIOUS
  <2>1. CASE UNCHANGED FM!fmvars
    BY <2>1 DEF FM!fmvars, FMType, FM!NoNesting, FM!Holds
  <2>2. ASSUME NEW t \in Thread, NEW m \in Mutex, FM!Ask(t, m) PROVE I'
    BY <1>0, <2>2 DEF FM!Ask, FMType, FM!NoNesting, FM!Holds
  <2>3. ASSUME NEW t \in Thread, NEW m \in Mutex, FM!Acquire(t, m) PROVE I'
    BY <1>0, <2>3 DEF FM!Acquire, FMType, FM!NoNesting, FM!Holds
  <2>4. ASSUME NEW t \in Thread, NEW m \in Mutex, FM!Release(t, m) PROVE I'
    BY <1>0, <2>4 DEF FM!Release, FMType, FM!NoNesting, FM!Holds
  <2>5. ASSUME NEW u \in Thread, FM!Withdraw(u) PROVE I'
    <3>1. \A x \in Thread : (k.waitFM)'[x] = IF x = u THEN Null ELSE k.waitFM[x]
      BY <2>5 DEF FM!Withdraw, FMType
    <3>2. \A n \in Mutex : (k.holding)'[n] \in {Null, k.holding[n]}
      BY <2>5 DEF FM!Withdraw, FMType
    <3>3. FMType'
      BY <2>5 DEF FM!Withdraw, FMType
    <3>4. \A x \in Thread, n \in Mutex : (k.holding)'[n] = x => k.holding[n] = x
      BY <1>0, <3>2
    <3>5. ASSUME NEW x \in Thread
          PROVE  /\ \A n, o \in Mutex : (k.holding)'[n] = x /\ (k.holding)'[o] = x => n = o
                 /\ (k.waitFM)'[x] # Null => ~FM!Holds(x)'
      BY <3>1, <3>4 DEF FM!NoNesting, FM!Holds
    <3>6. (FM!NoNesting)'
      BY <3>5 DEF FM!NoNesting
    <3> QED
      BY <3>3, <3>6
  <2> QED
    BY <2>1, <2>2, <2>3, <2>4, <2>5 DEF FM!FMNext
<1>3. I => FM!NoNesting
  OBVIOUS
<1> QED
  BY <1>1, <1>2, <1>3, PTL DEF FM!FMSpec

\* So no thread of the scheduler ever holds two fast mutexes, or waits for one while
\* it holds another: they cannot deadlock.
THEOREM MutexesNeverNest == Spec => []FM!NoNesting
  BY NestingNever, Refinement, PTL DEF ImplementsFastMutex

-----------------------------------------------------------------------------
\* The thread that runs

\* The current thread is the one that should run, or something is to change that, or
\* it holds up a waiting thread.
Right(a) ==
    \/ a.resched \/ Flagged(a) \/ Waits(a)
    \/ a.current \in Blockers /\ Exiting(a, a.current)
    \/ Highest(a) /\ SysFree(a)

\* Except while a thread is being selected.
RightInv == kern # "selecting" => Right(k)

\* A calm step keeps the right thread running.
LEMMA CalmRight ==
    ASSUME NEW a, NEW b, Right(a), Calm(a, b)
    PROVE  Right(b)
BY DEF Right, Calm

\* NKern::Unlock leaves the state of the service.
LEMMA UnlockLeaves ==
    ASSUME NEW k1, Unlock(k1)
    PROVE  k' = k1
BY DEF Unlock

\* A service that ends by signalling the mutex of its caller, if it has one.
LEMMA ThenSignalCalm ==
    ASSUME NEW t \in Thread, NEW m \in FMArg(t), NEW k1, IInv, Running(t),
           KInv(k1), Calm(k, k1), k1.heldFM = k.heldFM,
           Unlock(ThenSignal(k1, t, m))
    PROVE  Calm(k, k')
<1>1. k' = ThenSignal(k1, t, m)
  BY UnlockLeaves
<1>2. CASE m = Null
  BY <1>1, <1>2 DEF ThenSignal
<1>3. CASE m # Null
  <2>1. m = k.heldFM[t] /\ m \in Mutex /\ k1.current = t /\ k1.heldFM[t] = m
    BY <1>3, RunningFacts DEF FMArg, Calm
  <2>2. Calm(k1, FMSignal(k1, t, m))
    BY <2>1, FMSignalCalm
  <2>3. k' = FMSignal(k1, t, m)
    BY <1>1, <1>3 DEF ThenSignal
  <2> QED
    BY <2>2, <2>3, CalmTrans
<1> QED
  BY <1>2, <1>3

\* NKern::FMWait, FMSignal and FMFlash.
LEMMA MutexCalls ==
    ASSUME NEW t \in Thread, IInv,
           (\E m \in Mutex : CallFMWait(t, m)) \/ CallFMSignal(t) \/ CallFMFlash(t)
    PROVE  Calm(k, k')
<1>1. Running(t) /\ KInv(k) /\ k \in KState /\ k.current = t
  BY RunningFacts DEF CallFMWait, CallFMSignal, CallFMFlash
<1>2. ASSUME NEW m \in Mutex, CallFMWait(t, m) PROVE Calm(k, k')
  <2>1. k.heldFM[t] = Null /\ k' = FMWait(k, t, m)
    BY <1>2, UnlockLeaves DEF CallFMWait, NoFM
  <2> QED
    BY <1>1, <2>1, FMWaitCalm
<1>3. ASSUME ~NoFM(t)
      PROVE  LET k1 == FMSignal(k, t, k.heldFM[t]) IN Calm(k, k1) /\ k1 \in KState /\ k1.current = t
  <2> DEFINE m == k.heldFM[t]
  <2>1. m \in Mutex
    BY <1>1, <1>3, RunningFacts DEF NoFM
  <2> HIDE DEF m
  <2>2. Calm(k, FMSignal(k, t, m))
    BY <1>1, <2>1, FMSignalCalm DEF m
  <2>3. KInv(FMSignal(k, t, m))
    BY <1>1, <2>1, FMSignalOK DEF m
  <2>4. FMSignal(k, t, m).current = t
    BY <1>1, <2>2 DEF Calm
  <2> QED
    BY <2>2, <2>3, <2>4 DEF KInv, m
<1>4. CASE CallFMSignal(t)
  <2>1. ~NoFM(t) /\ k' = FMSignal(k, t, k.heldFM[t])
    BY <1>4, UnlockLeaves DEF CallFMSignal
  <2> QED
    BY <1>3, <2>1
<1>5. CASE CallFMFlash(t)
  <2> DEFINE m  == k.heldFM[t]
             k1 == FMSignal(k, t, m)
             k2 == [k1 EXCEPT !.cont[t] = "FMFlash", !.arg[t] = m]
  <2>1. ~NoFM(t) /\ k' \in {k1, k2}
    BY <1>5, UnlockLeaves DEF CallFMFlash
  <2>2. Calm(k, k1) /\ k1 \in KState /\ k1.current = t
    BY <1>3, <2>1
  <2> HIDE DEF k1
  <2>3. /\ k2.nstate = k1.nstate /\ k2.pri = k1.pri /\ k2.ready = k1.ready /\ k2.time = k1.time
        /\ k2.current = k1.current /\ k2.heldFM = k1.heldFM /\ k2.holding = k1.holding
        /\ k2.resched = k1.resched /\ k2.waiting = k1.waiting
        /\ k2.waitFM = k1.waitFM /\ k2.csFunction = k1.csFunction
        /\ k2.cont = [k1.cont EXCEPT ![t] = "FMFlash"]
    BY <2>2 DEF KState
  <2> HIDE DEF k2
  <2>4. \A u \in Thread \ {t} : k2.cont[u] = k1.cont[u]
    BY <2>2, <2>3, FieldTypes
  <2>5. Quietly(k1, k2) /\ (Waits(k1) => Waits(k2)) /\ (Exiting(k1, t) => Exiting(k2, t))
    BY <2>2, <2>3, <2>4 DEF Quietly, Waits, Exiting
  <2>6. Calm(k1, k2)
    BY <2>2, <2>5, QuietCalm
  <2> QED
    BY <2>1, <2>2, <2>6, CalmTrans
<1> QED
  BY <1>2, <1>4, <1>5

\* Services on request semaphores and on other threads.
LEMMA ThreadCalls ==
    ASSUME NEW t \in Thread, IInv,
           \/ WaitForAnyRequest(t)
           \/ \E u \in Thread \ {NullThread}, m \in FMArg(t) : ThreadRequestSignal(t, u, m)
           \/ \E u \in Thread \ {NullThread}, n \in 0..2 : ThreadRequestSignalN(t, u, n)
           \/ \E u \in Thread, n \in 1..2 : ThreadSuspend(t, u, n)
           \/ \E u \in Thread, m \in FMArg(t) : ThreadResume(t, u, m)
           \/ \E u \in Thread, m \in FMArg(t) : ThreadForceResume(t, u, m)
           \/ \E u \in Thread, p \in Pri \ {0}, m \in FMArg(t) : ThreadSetPriority(t, u, p, m)
           \/ \E u \in Thread, m \in FMArg(t) : ThreadRelease(t, u, m)
           \/ \E u \in Thread, m \in FMArg(t) : ThreadKill(t, u, m)
    PROVE  Calm(k, k')
<1>1. Running(t) /\ KInv(k) /\ RunsOn(k) /\ k \in KState /\ ReadyOK(k) /\ k.current = t
      /\ k.nstate[t] = "EReady"
  BY RunningFacts DEF WaitForAnyRequest, ThreadRequestSignal, ThreadRequestSignalN,
     ThreadSuspend, ThreadResume, ThreadForceResume, ThreadSetPriority, ThreadRelease,
     ThreadKill, KInv
<1>2. CASE WaitForAnyRequest(t)
  <2>1. k' = SemWait(k, t)
    BY <1>2, UnlockLeaves DEF WaitForAnyRequest
  <2>2. SameSched(k, k') \/ Stops(k, k')
    BY <1>1, <2>1, SemWaitEffect
  <2>3. Calm(k, k')
    BY <1>1, <2>2, SameWakes, WakesCalm, StopsCalm
  <2> QED
    BY <2>3
<1>3. ASSUME NEW u \in Thread, NEW k1, NEW m \in FMArg(t), Wakes(k, k1, u), KInv(k1),
             Unlock(ThenSignal(k1, t, m))
      PROVE  Calm(k, k')
  <2>1. Calm(k, k1)
    BY <1>1, <1>3, WakesCalm
  <2>2. k1.heldFM = k.heldFM
    BY <1>3 DEF Wakes
  <2> QED
    BY <1>1, <1>3, <2>1, <2>2, ThenSignalCalm
<1>4. ASSUME NEW u \in Thread \ {NullThread}, NEW m \in FMArg(t), ThreadRequestSignal(t, u, m)
      PROVE  Calm(k, k')
  <2>1. Unlock(ThenSignal(SemSignal(k, u), t, m))
    BY <1>4 DEF ThreadRequestSignal
  <2>2. Wakes(k, SemSignal(k, u), u) /\ KInv(SemSignal(k, u))
    BY <1>1, SignalWakes, SemSignalOK
  <2> QED
    BY <1>3, <2>1, <2>2
<1>5. ASSUME NEW u \in Thread \ {NullThread}, NEW n \in 0..2, ThreadRequestSignalN(t, u, n)
      PROVE  Calm(k, k')
  <2>1. k' = SemSignalN(k, u, n) /\ n \in Nat
    BY <1>5, UnlockLeaves DEF ThreadRequestSignalN
  <2>2. Wakes(k, k', u)
    BY <1>1, <2>1, SignalWakes
  <2> QED
    BY <1>1, <2>2, WakesCalm
<1>6. ASSUME NEW u \in Thread, NEW n \in 1..2, ThreadSuspend(t, u, n)
      PROVE  Calm(k, k')
  <2>1. k' = Suspend(k, u, n) /\ n \in Nat \ {0}
    BY <1>6, UnlockLeaves DEF ThreadSuspend
  <2> QED
    BY <1>1, <2>1, SuspendCalm
<1>7. ASSUME NEW u \in Thread, NEW m \in FMArg(t), ThreadResume(t, u, m) \/ ThreadForceResume(t, u, m)
      PROVE  Calm(k, k')
  <2>1. \/ Unlock(ThenSignal(Resume(k, u), t, m))
        \/ Unlock(ThenSignal(ForceResume(k, u), t, m))
    BY <1>7 DEF ThreadResume, ThreadForceResume
  <2>2. /\ Wakes(k, Resume(k, u), u) /\ KInv(Resume(k, u))
        /\ Wakes(k, ForceResume(k, u), u) /\ KInv(ForceResume(k, u))
    BY <1>1, ResumeWakes, ResumeOK, ForceResumeOK
  <2> QED
    BY <1>3, <2>1, <2>2
<1>8. ASSUME NEW u \in Thread, NEW p \in Pri, NEW m \in FMArg(t), ThreadSetPriority(t, u, p, m)
      PROVE  Calm(k, k')
  <2>1. Unlock(ThenSignal(SetPriority(k, u, p), t, m))
    BY <1>8 DEF ThreadSetPriority
  <2>2. /\ Calm(k, SetPriority(k, u, p)) /\ KInv(SetPriority(k, u, p))
        /\ SetPriority(k, u, p).heldFM = k.heldFM
    BY <1>1, SetPriorityCalm, SetPriorityOK DEF SameFM
  <2> QED
    BY <1>1, <2>1, <2>2, ThenSignalCalm
<1>9. ASSUME NEW u \in Thread, NEW m \in FMArg(t), ThreadRelease(t, u, m)
      PROVE  Calm(k, k')
  <2>1. Unlock(ThenSignal(Release(k, u, KErrNone), t, m)) /\ KErrNone \in Int
    BY <1>9 DEF ThreadRelease, KErrNone
  <2>2. Wakes(k, Release(k, u, KErrNone), u) /\ KInv(Release(k, u, KErrNone))
    BY <1>1, <2>1, SignalWakes, ReleaseOK
  <2> QED
    BY <1>3, <2>1, <2>2
<1>10. ASSUME NEW u \in Thread, NEW m \in FMArg(t), ThreadKill(t, u, m)
      PROVE  Calm(k, k')
  <2>1. Unlock(ThenSignal(Kill(k, u), t, m)) /\ u # t /\ u # NullThread
    BY <1>10, ControlAssumption DEF ThreadKill
  <2>2. /\ Calm(k, Kill(k, u)) /\ KInv(Kill(k, u)) /\ Kill(k, u).heldFM = k.heldFM
    BY <1>1, <2>1, KillCalm, KillOK
  <2> QED
    BY <1>1, <2>1, <2>2, ThenSignalCalm
<1> QED
  BY <1>2, <1>4, <1>5, <1>6, <1>7, <1>8, <1>9, <1>10

\* What a thread does to itself: exit, critical sections, its turn.
LEMMA OwnCalls ==
    ASSUME NEW t \in Thread, IInv,
           \/ ThreadKillSelf(t) \/ CallExit(t) \/ DeferredExit(t) \/ ExitHandlerDone(t)
           \/ ThreadEnterCS(t) \/ ThreadLeaveCS(t) \/ YieldTimeslice(t)
           \/ \E p \in Pri : CallRotateReadyList(t, p)
    PROVE  Calm(k, k')
<1>1. Running(t) /\ KInv(k) /\ k \in KState /\ ReadyOK(k) /\ k.current = t
      /\ k.nstate[t] = "EReady"
  BY RunningFacts DEF ThreadKillSelf, CallExit, DeferredExit, ExitHandlerDone, ThreadEnterCS,
     ThreadLeaveCS, YieldTimeslice, CallRotateReadyList, KInv
<1>2. k.csFunction[t] \in Int /\ DeferAt(k, t)
  BY <1>1, FieldTypes DEF KInv, DeferOK
<1>3. ASSUME NEW f \in Int, k.csFunction[t] # ECSExitInProgress \/ f = k.csFunction[t]
      PROVE  Calm(k, FlagHeld([k EXCEPT !.csFunction[t] = f], t))
  <2> DEFINE k1 == FlagHeld([k EXCEPT !.csFunction[t] = f], t)
  <2>1. /\ Quietly(k, k1) /\ k1.waitFM = k.waitFM /\ k1.cont = k.cont
        /\ k1.csFunction = [k.csFunction EXCEPT ![t] = f]
    BY <1>1, FlagHeldEffect
  <2> HIDE DEF k1
  <2>2. (Waits(k) => Waits(k1)) /\ (Exiting(k, t) => Exiting(k1, t))
    BY <1>1, <1>3, <2>1, FieldTypes DEF Waits, Exiting, Quietly
  <2>3. Calm(k, k1)
    BY <1>1, <2>1, <2>2, QuietCalm
  <2> QED
    BY <2>3 DEF k1
<1>4. CASE ThreadKillSelf(t)
  <2> DEFINE m  == k.heldFM[t]
             k1 == [k EXCEPT !.csFunction[t] = ECSExitPending, !.waiting[m] = TRUE]
  <2>1. m # Null /\ k.csCount[t] = 0 /\ k' = FMSignal(k1, t, m)
    BY <1>4, UnlockLeaves DEF ThreadKillSelf, NoFM
  <2>2. m \in Mutex
    BY <1>1, <2>1, RunningFacts
  <2>3. k1 = FlagHeld([k EXCEPT !.csFunction[t] = ECSExitPending], t)
    BY <1>1, <2>1 DEF FlagHeld, KState
  <2>4. k.csFunction[t] # ECSExitInProgress /\ ECSExitPending \in Int
    BY <1>2, <2>1 DEF DeferAt, ECSExitPending, ECSExitInProgress
  <2>5. Calm(k, k1)
    BY <1>3, <2>3, <2>4
  <2>6. KInv(k1) /\ k1.heldFM = k.heldFM /\ k1.current = t
    <3>1. InCS(k, t) /\ ECSExitPending \in Int /\ ECSExitPending >= ECSExitInProgress
          /\ ECSExitPending # ECSExitInProgress
      BY <2>1 DEF InCS, ECSExitPending, ECSExitInProgress
    <3>2. KInv(k1) /\ SameFM(k, k1)
      BY <1>1, <2>3, <3>1, FlagHeldOK
    <3> QED
      BY <1>1, <3>2 DEF SameFM
  <2> HIDE DEF k1
  <2>7. Calm(k1, FMSignal(k1, t, m))
    BY <2>2, <2>6, FMSignalCalm
  <2> QED
    BY <2>1, <2>5, <2>7, CalmTrans
<1>5. CASE CallExit(t)
  <2>1. k' = Exit(k, t)
    BY <1>5, UnlockLeaves DEF CallExit
  <2> QED
    BY <1>1, <2>1, ExitCalm
<1>6. CASE DeferredExit(t)
  <2> DEFINE f == IF k.csFunction[t] >= 0 THEN ECSExitPending ELSE k.csFunction[t]
  <2>1. k' = Exit(k, t) \/ k' = FlagHeld([k EXCEPT !.csFunction[t] = f], t)
    <3>1. [k EXCEPT !.csFunction[t] = IF @ >= 0 THEN ECSExitPending ELSE @]
              = [k EXCEPT !.csFunction[t] = f]
      BY <1>1 DEF KState
    <3> QED
      BY <1>6, <3>1, UnlockLeaves DEF DeferredExit
  <2>2. f \in Int /\ (k.csFunction[t] # ECSExitInProgress \/ f = k.csFunction[t])
    BY <1>2 DEF ECSExitPending, ECSExitInProgress
  <2> HIDE DEF f
  <2> QED
    BY <1>1, <1>3, <2>1, <2>2, ExitCalm
<1>7. CASE ExitHandlerDone(t)
  <2>1. k' = [SchedRemove(RescheduleNeeded(k), t) EXCEPT !.nstate[t] = "EDead"]
    BY <1>7, UnlockLeaves DEF ExitHandlerDone
  <2>2. "EDead" \in NState
    BY DEF NState
  <2> QED
    BY <1>1, <2>1, <2>2, RemoveStops, StopsCalm
<1>8. ASSUME NEW c \in Int
      PROVE  LET k1 == [k EXCEPT !.csCount[t] = c]
             IN  /\ k1 \in KState /\ Calm(k, k1) /\ k1.csFunction = k.csFunction
                 /\ k1.current = t /\ k1.csCount[t] = c /\ ReadyOK(k1) /\ k1.heldFM = k.heldFM
  <2> DEFINE cs == [k.csCount EXCEPT ![t] = c]
             k1 == [k EXCEPT !.csCount = cs]
  <2>1. cs \in [Thread -> Int] /\ cs[t] = c
    BY <1>1, FieldTypes
  <2> HIDE DEF cs
  <2>2. k1 \in KState
    BY <1>1, <2>1 DEF KState
  <2>3. /\ k1.nstate = k.nstate /\ k1.pri = k.pri /\ k1.ready = k.ready /\ k1.time = k.time
        /\ k1.current = k.current /\ k1.heldFM = k.heldFM /\ k1.holding = k.holding
        /\ k1.resched = k.resched /\ k1.waiting = k.waiting /\ k1.csCount = cs
        /\ k1.waitFM = k.waitFM /\ k1.cont = k.cont /\ k1.csFunction = k.csFunction
    BY <1>1 DEF KState
  <2> HIDE DEF k1
  <2>4. Quietly(k, k1) /\ (Waits(k) => Waits(k1)) /\ (Exiting(k, t) => Exiting(k1, t))
        /\ ReadyOK(k1)
    BY <1>1, <2>3 DEF Quietly, Waits, Exiting, ReadyOK
  <2>5. Calm(k, k1)
    BY <1>1, <2>4, QuietCalm
  <2> QED
    BY <1>1, <2>1, <2>2, <2>3, <2>4, <2>5 DEF k1, cs
<1>9. CASE ThreadEnterCS(t)
  <2>1. k' = [k EXCEPT !.csCount[t] = k.csCount[t] + 1] /\ k.csCount[t] + 1 \in Int
    BY <1>1, <1>9, UnlockLeaves, FieldTypes DEF ThreadEnterCS
  <2> QED
    BY <1>8, <2>1
<1>10. CASE ThreadLeaveCS(t)
  <2> DEFINE c  == k.csCount[t] - 1
             k1 == [k EXCEPT !.csCount[t] = c]
             w  == [k1.waiting EXCEPT ![k.heldFM[t]] = TRUE]
             k2 == [k1 EXCEPT !.waiting = w]
  <2>1. /\ k.csCount[t] > (IF Exiting(k, t) THEN 1 ELSE 0)
        /\ k' = IF k1.csCount[t] # 0 \/ k.csFunction[t] = 0 THEN k1
                ELSE IF k.heldFM[t] = Null THEN DoCsFunction(k1, t) ELSE k2
    BY <1>10, UnlockLeaves DEF ThreadLeaveCS, NoFM
  <2>2. c \in Int /\ k.csCount[t] \in Int
    BY <1>1, FieldTypes
  <2>3. /\ k1 \in KState /\ Calm(k, k1) /\ k1.csFunction = k.csFunction
        /\ k1.current = t /\ k1.csCount[t] = c /\ ReadyOK(k1) /\ k1.heldFM = k.heldFM
    BY <1>8, <2>2
  <2> HIDE DEF k1
  <2>4. ASSUME c = 0 PROVE Calm(k1, DoCsFunction(k1, t))
    <3>1. ~Exiting(k1, t)
      BY <2>1, <2>2, <2>3, <2>4 DEF Exiting
    <3> QED
      BY <2>3, <3>1, DoCsFunctionCalm
  <2>5. Calm(k1, k2)
    <3>1. \A m \in Mutex : k1.waiting[m] => w[m]
      BY <2>3, FieldTypes
    <3> HIDE DEF w
    <3>2. /\ k2.nstate = k1.nstate /\ k2.pri = k1.pri /\ k2.ready = k1.ready /\ k2.time = k1.time
          /\ k2.current = k1.current /\ k2.heldFM = k1.heldFM /\ k2.holding = k1.holding
          /\ k2.resched = k1.resched /\ k2.waiting = w
          /\ k2.waitFM = k1.waitFM /\ k2.cont = k1.cont /\ k2.csFunction = k1.csFunction
      BY <2>3 DEF KState
    <3> HIDE DEF k2
    <3>3. Quietly(k1, k2) /\ (Waits(k1) => Waits(k2)) /\ (Exiting(k1, t) => Exiting(k2, t))
      BY <3>1, <3>2 DEF Quietly, Waits, Exiting
    <3> QED
      BY <2>3, <3>3, QuietCalm
  <2> HIDE DEF k2
  <2> QED
    BY <2>1, <2>3, <2>4, <2>5, CalmTrans
<1>11. CASE YieldTimeslice(t)
  <2> DEFINE k1 == [k EXCEPT !.time[t] = 0, !.resched = @ \/ ~Alone(k, t)]
  <2>1. k' = k1
    BY <1>11, UnlockLeaves DEF YieldTimeslice
  <2>2. /\ k1.nstate = k.nstate /\ k1.pri = k.pri /\ k1.csFunction = k.csFunction
        /\ k1.current = k.current /\ k1.heldFM = k.heldFM /\ k1.holding = k.holding
        /\ (k.resched => k1.resched) /\ k1.waiting = k.waiting
        /\ k1.waitFM = k.waitFM /\ k1.cont = k.cont
    BY <1>1 DEF KState
  <2> HIDE DEF k1
  <2>3. Calm(k, k1)
    BY <2>2 DEF Calm, Flagged, Highest, SysFree, Waits, Exiting
  <2> QED
    BY <2>1, <2>3
<1>12. ASSUME NEW p \in Pri, CallRotateReadyList(t, p) PROVE Calm(k, k')
  <2>1. k' = RotateReadyList(k, p)
    BY <1>12, UnlockLeaves DEF CallRotateReadyList
  <2> QED
    BY <1>1, <2>1, RotateCalm
<1> QED
  BY <1>4, <1>5, <1>6, <1>7, <1>9, <1>10, <1>11, <1>12

\* Threads that go on in a kernel function.
LEMMA TakesAgainCalm ==
    ASSUME NEW t \in Thread, IInv, k.current = t, k.cont[t] \in {"FMFlash", "Block"},
           k' = [FMWait(k, t, k.arg[t]) EXCEPT !.arg[t] = Null], ~k.resched, RunsOn(k)
    PROVE  Calm(k, k')
<1> DEFINE m  == k.arg[t]
           k1 == FMWait(k, t, m)
           k2 == [k1 EXCEPT !.arg[t] = Null]
<1>1. KInv(k) /\ k \in KState /\ Null \notin Mutex
  BY ThreadAssumption DEF IInv, KInv
<1>2. m \in Mutex /\ k.heldFM[t] = Null /\ k.nstate[t] = "EReady" /\ t # NullThread /\ k.waitFM[t] = Null
  BY <1>1, FieldTypes DEF KInv, ContOK, OwnerOK, RunsOn, IdleOK
<1> HIDE DEF m
<1>3. Calm(k, k1)
  BY <1>1, <1>2, FMWaitCalm
<1>4. k1 \in KState
  BY <1>1, <1>2, FMWaitOK DEF KInv
<1> HIDE DEF k1
<1>5. /\ k2.nstate = k1.nstate /\ k2.pri = k1.pri /\ k2.csFunction = k1.csFunction
      /\ k2.current = k1.current /\ k2.heldFM = k1.heldFM /\ k2.holding = k1.holding
      /\ k2.resched = k1.resched /\ k2.waiting = k1.waiting
      /\ k2.waitFM = k1.waitFM /\ k2.cont = k1.cont
  BY <1>4 DEF KState
<1>6. k' = k2
  BY DEF k1, m
<1> HIDE DEF k2
<1>7. Calm(k1, k2)
  BY <1>5 DEF Calm, Flagged, Highest, SysFree, Waits, Exiting
<1> QED
  BY <1>3, <1>6, <1>7, CalmTrans

\* Wherever Reschedule returns to.
LEMMA Returns ==
    ASSUME NEW t \in Thread, IInv,
           \/ ClaimAfterBlock(t)
           \/ ReturnToThread(t)
           \/ ReturnToFMWait(t)
           \/ ReturnToFMFlash(t)
           \/ ReturnToBlock(t)
           \/ ReturnToForcedExit(t)
    PROVE  Calm(k, k')
<1>1. k.current = t /\ KInv(k) /\ k \in KState /\ RunsOn(k) /\ ~k.resched
  BY DEF ReturnToThread, ReturnToFMWait, ReturnToFMFlash, ReturnToBlock, ReturnToForcedExit,
         Rescheduled, ClaimAfterBlock, IInv, KInv
<1>2. CASE ReturnToThread(t) \/ ReturnToBlock(t)
  <2>1. k' = k
    BY <1>2, UnlockLeaves DEF ReturnToThread, ReturnToBlock
  <2> QED
    BY <2>1 DEF Calm
<1>3. CASE ReturnToFMWait(t)
  <2>1. k' = FMTake(k, t, k.waitFM[t]) /\ k.cont[t] = "FMWait"
    BY <1>3, UnlockLeaves DEF ReturnToFMWait, Rescheduled
  <2>2. k.waitFM[t] \in Mutex /\ k.heldFM[t] = Null
    BY <1>1, <2>1, FieldTypes DEF KInv, ContOK, OwnerOK
  <2> QED
    BY <1>1, <2>1, <2>2, FMWaitCalm
<1>4. CASE ReturnToFMFlash(t) \/ ClaimAfterBlock(t)
  <2>1. k.cont[t] \in {"FMFlash", "Block"} /\ k' = [FMWait(k, t, k.arg[t]) EXCEPT !.arg[t] = Null]
    BY <1>4, UnlockLeaves DEF ReturnToFMFlash, ClaimAfterBlock, Rescheduled
  <2> QED
    BY <1>1, <2>1, TakesAgainCalm
<1>5. CASE ReturnToForcedExit(t)
  <2>1. k' = ForcedExit(k, t)
    BY <1>5, UnlockLeaves DEF ReturnToForcedExit
  <2> QED
    BY <1>1, <2>1, ExitCalm
<1> QED
  BY <1>2, <1>3, <1>4, <1>5

\* NKern::Block asks for a reschedule, unless the thread exits instead.
LEMMA BlockRight ==
    ASSUME NEW t \in Thread, NEW enterCS \in BOOLEAN, NEW claim \in BOOLEAN, IInv,
           Block(t, enterCS, claim)
    PROVE  Right(k')
<1> DEFINE m   == k.heldFM[t]
           k1  == IF enterCS THEN [k EXCEPT !.csCount[t] = @ + 1] ELSE k
           k2  == IF NoFM(t) THEN k1
                  ELSE [k1 EXCEPT !.holding[m] = Null, !.heldFM[t] = Null,
                                  !.waiting[m] = FALSE]
           act == ~NoFM(t) /\ k.waiting[m] /\ k2.csCount[t] = 0
                           /\ k2.csFunction[t] # 0
           k3  == IF act THEN DoCsFunction(k2, t) ELSE k2
           k30 == IF k3.nstate[t] = "EReady" THEN SchedRemove(k3, t) ELSE k3
           k4  == RescheduleNeeded(k30)
           c   == IF claim THEN "Block" ELSE "run"
           a   == IF claim THEN m ELSE Null
           k5  == [k4 EXCEPT !.nstate[t] = "EBlocked", !.cont[t] = c, !.arg[t] = a]
<1>1. Running(t) /\ t \in Blockers /\ k' = IF act /\ Exiting(k3, t) THEN k3 ELSE k5
  <2>1. Running(t) /\ t \in Blockers /\ Unlock(IF act /\ Exiting(k3, t) THEN k3 ELSE k5)
    BY DEF Block, NoFM
  <2> HIDE DEF k3, k5, act
  <2> QED
    BY <2>1, UnlockLeaves
<1>2. /\ t \in Thread \ {NullThread} /\ KInv(k) /\ k \in KState /\ k.current = t
      /\ m \in Mutex \cup {Null} /\ Null \notin Mutex
  BY <1>1, RunningFacts
<1>3. k' \in KState
  BY BlockServes DEF Served, IInv, KInv
<1>4. CASE ~(act /\ Exiting(k3, t))
  <2>1. k' = k5
    BY <1>1, <1>4
  <2> HIDE DEF k30, k3, c, a
  <2>2. k4 = [k30 EXCEPT !.resched = TRUE]
    BY DEF RescheduleNeeded
  <2> HIDE DEF k4
  <2>3. k'.resched
    BY <1>3, <2>1, <2>2 DEF KState
  <2> QED
    BY <2>3 DEF Right
<1>5. CASE act /\ Exiting(k3, t)
  <2>1. /\ k.csCount[t] \in Int /\ DeferAt(k, t)
    BY <1>2, FieldTypes DEF KInv, DeferOK
  <2>2. m \in Mutex
    BY <1>2, <1>5 DEF NoFM
  <2> DEFINE cs == IF enterCS THEN [k.csCount EXCEPT ![t] = @ + 1] ELSE k.csCount
             ho == [k.holding EXCEPT ![m] = Null]
             he == [k.heldFM EXCEPT ![t] = Null]
             wa == [k.waiting EXCEPT ![m] = FALSE]
             kb == [k EXCEPT !.csCount = cs, !.holding = ho, !.heldFM = he, !.waiting = wa]
  <2>3. k2 = kb
    BY <1>2, <1>5 DEF KState
  <2>4. /\ cs \in [Thread -> Int] /\ ho \in [Mutex -> Thread \cup {Null}]
        /\ he \in [Thread -> Mutex \cup {Null}] /\ wa \in [Mutex -> BOOLEAN]
        /\ cs[t] = 0 => k.csCount[t] = 0
    BY <1>2, <2>1, <2>2, FieldTypes DEF DeferAt
  <2> HIDE DEF cs, ho, he, wa
  <2>5. kb \in KState /\ kb.csCount = cs /\ kb.csFunction = k.csFunction /\ kb.current = t
        /\ kb.ready = k.ready /\ kb.nstate = k.nstate /\ kb.pri = k.pri
    BY <1>2, <2>4 DEF KState
  <2> HIDE DEF kb
  <2>6. ~Exiting(kb, t) /\ ReadyOK(kb)
    <3>1. cs[t] = 0
      BY <1>5, <2>3, <2>5
    <3>2. k.csCount[t] = 0
      BY <2>4, <3>1
    <3>3. k.csFunction[t] # ECSExitInProgress
      BY <2>1, <3>2 DEF DeferAt
    <3> QED
      BY <1>2, <2>5, <3>3 DEF Exiting, KInv, ReadyOK
  <2>7. k3 = DoCsFunction(kb, t)
    BY <1>5, <2>3
  <2>8. k3.current = t
    <3>1. Calm(kb, DoCsFunction(kb, kb.current))
      BY <2>5, <2>6, DoCsFunctionCalm
    <3> QED
      BY <2>5, <2>7, <3>1 DEF Calm
  <2>9. k'.current = t /\ Exiting(k', t)
    BY <1>1, <1>5, <2>8
  <2> QED
    BY <1>1, <2>9 DEF Right
<1> QED
  BY <1>4, <1>5

\* Interrupts and the scheduler: a thread is selected when it is the right one.
LEMMA InterruptRight ==
    ASSUME IInv, RightInv, Interrupt
    PROVE  RightInv'
<1>1. KInv(k) /\ k \in KState
  BY DEF IInv, KInv
<1>2. CASE TimesliceTick
  <2> DEFINE tm == [k.time EXCEPT ![k.current] = @ - 1]
             re == k.resched \/ k.time[k.current] = 1
             k1 == [k EXCEPT !.time = tm, !.resched = re]
  <2>1. k' = k1 /\ (kern' # "selecting" => kern # "selecting")
    BY <1>2 DEF TimesliceTick
  <2> HIDE DEF tm, re
  <2>2. /\ k1.nstate = k.nstate /\ k1.pri = k.pri /\ k1.csFunction = k.csFunction
        /\ k1.current = k.current /\ k1.heldFM = k.heldFM /\ k1.holding = k.holding
        /\ k1.resched = re /\ k1.waiting = k.waiting
        /\ k1.waitFM = k.waitFM /\ k1.cont = k.cont
    BY <1>1 DEF KState
  <2> HIDE DEF k1
  <2>3. Calm(k, k1)
    BY <2>2 DEF Calm, Flagged, Highest, SysFree, Waits, Exiting, re
  <2> QED
    BY <2>1, <2>3, CalmRight DEF RightInv
<1>3. CASE \E u \in Thread : DeviceInterrupt(u)
  BY <1>3 DEF DeviceInterrupt, RightInv
<1> QED
  BY <1>2, <1>3 DEF Interrupt

\* ... and it stays the right one until the kernel is unlocked.
LEMMA ReschedRight ==
    ASSUME IInv, RightInv, Reschedule
    PROVE  RightInv'
<1>1. KInv(k) /\ k \in KState /\ ReadyOK(k)
  BY DEF IInv, KInv
<1>2. ASSUME NEW u \in Thread, RunIdfc(u) PROVE RightInv'
  <2>1. k' = SemSignal(k, u) /\ Right(k)
    BY <1>2 DEF RunIdfc, RightInv
  <2>2. Calm(k, k')
    BY <1>1, <2>1, SignalWakes, WakesCalm
  <2> QED
    BY <2>1, <2>2, CalmRight DEF RightInv
<1>3. CASE ClearRescheduleFlag
  BY <1>3 DEF ClearRescheduleFlag, RightInv
<1>4. CASE SwitchThread
  <2>1. k' = SelectThread(k)
    BY <1>4 DEF SwitchThread
  <2> QED
    BY <1>1, <2>1, SelectThreadChoice DEF RightInv, Right
<1>5. ASSUME NEW t \in Thread,
             \/ ReturnToThread(t) \/ ReturnToFMWait(t) \/ ReturnToFMFlash(t)
             \/ ReturnToBlock(t) \/ ReturnToForcedExit(t)
      PROVE  RightInv'
  <2>1. Calm(k, k')
    BY <1>5, Returns
  <2>2. kern # "selecting"
    BY <1>5 DEF ReturnToThread, ReturnToFMWait, ReturnToFMFlash, ReturnToBlock,
       ReturnToForcedExit, Rescheduled
  <2> QED
    BY <2>1, <2>2, CalmRight DEF RightInv
<1> QED
  BY <1>2, <1>3, <1>4, <1>5 DEF Reschedule

\* Every step.
LEMMA NextRight ==
    ASSUME IInv, RightInv, Next
    PROVE  RightInv'
<1>1. ASSUME NEW t \in Thread, ThreadStep(t) PROVE RightInv'
  <2>1. CASE \E enterCS, claim \in BOOLEAN : Block(t, enterCS, claim)
    BY <2>1, BlockRight DEF RightInv
  <2>2. ASSUME Calm(k, k'), kern # "selecting" PROVE RightInv'
    BY <2>2, CalmRight DEF RightInv
  <2>3. CASE (\E m \in Mutex : CallFMWait(t, m)) \/ CallFMSignal(t) \/ CallFMFlash(t)
    <3>1. kern # "selecting"
      BY <2>3 DEF CallFMWait, CallFMSignal, CallFMFlash, Running
    <3> QED
      BY <2>2, <2>3, <3>1, MutexCalls
  <2>4. CASE \/ WaitForAnyRequest(t)
             \/ \E u \in Thread \ {NullThread}, m \in FMArg(t) : ThreadRequestSignal(t, u, m)
             \/ \E u \in Thread \ {NullThread}, n \in 0..2 : ThreadRequestSignalN(t, u, n)
             \/ \E u \in Thread, n \in 1..2 : ThreadSuspend(t, u, n)
             \/ \E u \in Thread, m \in FMArg(t) : ThreadResume(t, u, m)
             \/ \E u \in Thread, m \in FMArg(t) : ThreadForceResume(t, u, m)
             \/ \E u \in Thread, p \in Pri \ {0}, m \in FMArg(t) : ThreadSetPriority(t, u, p, m)
             \/ \E u \in Thread, m \in FMArg(t) : ThreadRelease(t, u, m)
             \/ \E u \in Thread, m \in FMArg(t) : ThreadKill(t, u, m)
    <3>1. kern # "selecting"
      BY <2>4 DEF WaitForAnyRequest, ThreadRequestSignal, ThreadRequestSignalN, ThreadSuspend,
         ThreadResume, ThreadForceResume, ThreadSetPriority, ThreadRelease, ThreadKill, Running
    <3> QED
      BY <2>2, <2>4, <3>1, ThreadCalls
  <2>5. CASE \/ ThreadKillSelf(t) \/ CallExit(t) \/ DeferredExit(t) \/ ExitHandlerDone(t)
             \/ ThreadEnterCS(t) \/ ThreadLeaveCS(t) \/ YieldTimeslice(t)
             \/ \E p \in Pri : CallRotateReadyList(t, p)
    <3>1. kern # "selecting"
      BY <2>5 DEF ThreadKillSelf, CallExit, DeferredExit, ExitHandlerDone, ThreadEnterCS,
         ThreadLeaveCS, YieldTimeslice, CallRotateReadyList, Running
    <3> QED
      BY <2>2, <2>5, <3>1, OwnCalls
  <2>6. CASE ClaimAfterBlock(t)
    <3>1. kern # "selecting"
      BY <2>6 DEF ClaimAfterBlock
    <3> QED
      BY <2>2, <2>6, <3>1, Returns
  <2> QED
    BY <1>1, <2>1, <2>3, <2>4, <2>5, <2>6 DEF ThreadStep
<1> QED
  BY <1>1, InterruptRight, ReschedRight DEF Next

\* Whenever the kernel is not selecting a thread, the current thread is the right one,
\* a reschedule is due, or the thread holds up others as nk_priv.h does not say.
THEOREM RightThread == Spec => []RightInv
<1>1. Init => RightInv
  <2> SUFFICES ASSUME Init PROVE Highest(k) /\ SysFree(k)
    BY DEF RightInv, Right
  <2>1. \A u \in Thread : k.nstate[u] = "EReady" => u = NullThread
    BY DEF Init
  <2>2. k.current = NullThread /\ NullThread \in Thread /\ k.pri = InitPri /\ k.holding[SysLock] = Null
    BY ThreadAssumption DEF Init
  <2>3. InitPri[NullThread] \in Int
    BY <2>2, ThreadAssumption, PriInt
  <2>4. InitPri[NullThread] =< InitPri[NullThread]
    BY <2>3
  <2> QED
    BY <2>1, <2>2, <2>4 DEF Highest, SysFree
<1>2. IInv /\ RightInv /\ [Next]_vars => RightInv'
  BY NextRight DEF vars, RightInv
<1> QED
  BY <1>1, <1>2, Invariance, PTL DEF Spec

\* While a thread of a higher priority is ready, the thread that executes holds a
\* flagged mutex, or another waits for a mutex, or NKern::Block made it exit: after any
\* sequence of wake-ups, suspensions, changes of priority, ticks and reschedules.
THEOREM HighestRuns == Spec => []HighestReadyRunsUnlessFMWait
<1>1. IInv /\ RightInv => HighestReadyRunsUnlessFMWait
  <2> SUFFICES ASSUME IInv, RightInv, kern = "unlocked", ReadyAbove(k.current) # {}
               PROVE  HoldsFlagged \/ Contended \/ ExitsFromBlock
    BY DEF HighestReadyRunsUnlessFMWait
  <2>1. Right(k) /\ ~k.resched /\ k \in KState /\ k.current \in Thread
    BY FieldTypes DEF IInv, RightInv, KInv
  <2>2. \A u \in Thread : k.pri[u] \in Int
    BY <2>1, FieldTypes, PriInt
  <2>3. ~Highest(k)
    BY <2>1, <2>2 DEF Highest, ReadyAbove
  <2> QED
    BY <2>1, <2>3 DEF Right, Flagged, Waits, HoldsFlagged, Contended, ExitsFromBlock
<1> QED
  BY <1>1, Invariance, RightThread, PTL

\* A thread with KThreadAttImplicitSystemLock executes while another holds the system
\* lock only in those cases.
THEOREM SysLockIsRespected == Spec => []ImplicitSysLock
<1>1. IInv /\ RightInv => ImplicitSysLock
  BY DEF IInv, RightInv, Right, ImplicitSysLock, RunsWithoutSysLock, SysFree,
         Flagged, Waits, HoldsFlagged, Contended, ExitsFromBlock
<1> QED
  BY <1>1, Invariance, RightThread, PTL

-----------------------------------------------------------------------------
\* Steady threads

\* Turns and flags are in order, who blocks does not exit, and a current thread that
\* has lost its turn has more time left than the kernel stays locked.
SteadyOK ==
    /\ Ordered(k)
    /\ kern # "selecting" => Settled(k)
    /\ \A t \in Blockers : Whole(k, t)
    /\ \/ IsFirst(k, k.current) \/ k.time[k.current] = -1
       \/ k.time[k.current] > MaxLockedTicks - ticks
    /\ kern = "unlocked" => ticks = 0

\* What a step that follows the rules leaves.
LEMMA FollowsSteady ==
    ASSUME NEW X, Steady, IInv, IInv', SteadyOK, Follows(k, k', X), X \cap Blockers = {},
           kern # "selecting", kern' = "unlocked" => ticks' = 0,
           kern' # "unlocked" => ticks' = ticks
    PROVE  SteadyOK'
<1>1. Ordered(k') /\ Settled(k') /\ k'.current = k.current
  BY DEF Follows
<1>2. \A t \in Blockers : Whole(k', t)
  <2> SUFFICES ASSUME NEW t \in Blockers PROVE Whole(k', t)
    OBVIOUS
  <2>1. t \in Thread \ X
    BY ControlAssumption
  <2> QED
    BY <2>1 DEF Follows, SteadyOK
<1>3. k'.current \in Thread /\ k' \in KState
  BY FieldTypes DEF IInv, KInv
<1>4. \/ IsFirst(k', k'.current) \/ k'.time[k'.current] = -1
      \/ k'.time[k'.current] > MaxLockedTicks - ticks'
  <2>1. CASE kern' = "unlocked"
    <3>1. ~k'.resched
      BY <2>1 DEF IInv
    <3>2. IsFirst(k', k'.current)
      BY <1>1, <1>3, <3>1 DEF Settled, Flagged, Ordered, Turns
    <3> QED
      BY <3>2
  <2>2. CASE kern' # "unlocked"
    <3> DEFINE c == k.current
    <3>1. ticks' = ticks /\ ticks \in 0..MaxLockedTicks /\ MaxLockedTicks \in Nat
      BY <2>2, ControlAssumption DEF IInv
    <3>2. Timeslice[c] = -1 \/ Timeslice[c] > MaxLockedTicks - ticks
      <4>1. Timeslice[c] = -1 \/ Timeslice[c] > MaxLockedTicks
        BY <1>1, <1>3 DEF Steady
      <4>2. Timeslice[c] \in Int
        BY <1>1, <1>3, ThreadAssumption
      <4> HIDE DEF c
      <4> QED
        BY <3>1, <4>1, <4>2
    <3>3. CASE IsFirst(k', c)
      BY <1>1, <3>3
    <3>4. CASE k'.time[c] = Timeslice[c]
      BY <1>1, <3>1, <3>2, <3>4
    <3>5. CASE ~IsFirst(k, c) /\ k'.time[c] = k.time[c]
      BY <1>1, <3>1, <3>5 DEF SteadyOK
    <3> QED
      BY <3>3, <3>4, <3>5 DEF Follows
  <2> QED
    BY <2>1, <2>2
<1> QED
  BY <1>1, <1>2, <1>4 DEF SteadyOK

\* A service of the kernel.
LEMMA ServiceSteady ==
    ASSUME NEW X, NEW k1, Steady, IInv, IInv', SteadyOK, Unlock(k1), Follows(k, k1, X),
           X \cap Blockers = {}, kern # "selecting"
    PROVE  SteadyOK'
<1>1. k' = k1 /\ (kern' = "unlocked" => ticks' = 0) /\ (kern' # "unlocked" => ticks' = ticks)
  BY DEF Unlock
<1> QED
  BY <1>1, FollowsSteady

\* ... that ends by signalling the mutex of its caller, if it has one.
LEMMA ThenSignalSteady ==
    ASSUME NEW X, NEW t \in Thread, NEW m \in FMArg(t), NEW k1, Steady, IInv, IInv',
           SteadyOK, Running(t), Unlock(ThenSignal(k1, t, m)), Follows(k, k1, X),
           X \cap Blockers = {}, KInv(k1), k1.heldFM = k.heldFM
    PROVE  SteadyOK'
<1>1. kern # "selecting"
  BY DEF Running
<1>2. CASE m = Null
  <2>1. Unlock(k1)
    BY <1>2 DEF ThenSignal
  <2> QED
    BY <1>1, <2>1, ServiceSteady
<1>3. CASE m # Null
  <2>1. m = k.heldFM[t] /\ m \in Mutex /\ k1.current = t /\ k1.heldFM[t] = m
    BY <1>3, RunningFacts DEF FMArg, Follows
  <2>2. Follows(k1, FMSignal(k1, t, m), {})
    BY <2>1, FMSignalOrdered DEF Follows
  <2>3. Follows(k1, FMSignal(k1, t, m), X)
    BY <2>2 DEF Follows
  <2>4. Unlock(FMSignal(k1, t, m))
    BY <1>3 DEF ThenSignal
  <2>5. Follows(k, FMSignal(k1, t, m), X)
    BY <2>3, FollowsTrans
  <2> QED
    BY <1>1, <2>4, <2>5, ServiceSteady
<1> QED
  BY <1>2, <1>3

\* A change of where a thread continues, or of a count the scheduler does not look at.
LEMMA AsideOrdered ==
    ASSUME NEW a \in KState, NEW b, NEW t \in Thread, Ordered(a), Settled(a),
           b.nstate = a.nstate, b.pri = a.pri, b.ready = a.ready, b.time = a.time,
           b.current = a.current, b.heldFM = a.heldFM, b.holding = a.holding,
           b.resched = a.resched, \A m \in Mutex : a.waiting[m] => b.waiting[m],
           b.waitFM = a.waitFM,
           b.suspendCount = a.suspendCount, b.csFunction = a.csFunction,
           \A u \in Thread : b.cont[u] = a.cont[u] \/ b.cont[u] # "ForcedExit"
    PROVE  Follows(a, b, {})
<1>1. Quietly(a, b)
  BY DEF Quietly
<1>2. Plain(b) /\ \A u \in Thread : Whole(a, u) => Whole(b, u)
  BY DEF Plain, Ordered, Whole
<1> QED
  BY <1>1, <1>2, QuietOrdered

\* NKern::FMWait, FMSignal and FMFlash.
LEMMA MutexSteady ==
    ASSUME NEW t \in Thread, Steady, IInv, IInv', SteadyOK,
           (\E m \in Mutex : CallFMWait(t, m)) \/ CallFMSignal(t) \/ CallFMFlash(t)
    PROVE  SteadyOK'
<1>1. Running(t) /\ KInv(k) /\ k \in KState /\ k.current = t /\ ~k.resched
      /\ k.nstate[t] = "EReady" /\ kern # "selecting"
  BY RunningFacts DEF CallFMWait, CallFMSignal, CallFMFlash, Running
<1>2. Ordered(k) /\ Settled(k) /\ HolderOK(k)
  BY <1>1 DEF SteadyOK, KInv
<1>3. ASSUME NEW m \in Mutex, CallFMWait(t, m) PROVE SteadyOK'
  <2>1. k.heldFM[t] = Null /\ Unlock(FMWait(k, t, m))
    BY <1>3 DEF CallFMWait, NoFM
  <2>2. Follows(k, FMWait(k, t, m), {})
    BY <1>1, <1>2, <2>1, FMWaitOrdered
  <2> QED
    BY <1>1, <2>1, <2>2, ServiceSteady
<1> DEFINE m  == k.heldFM[t]
           k1 == FMSignal(k, t, m)
<1>4. ASSUME ~NoFM(t) PROVE Follows(k, k1, {}) /\ k1 \in KState
  <2>1. m \in Mutex
    BY <1>1, <1>4, RunningFacts DEF NoFM
  <2>2. Follows(k, k1, {})
    BY <1>1, <1>2, <2>1, FMSignalOrdered
  <2>3. KInv(k1)
    BY <1>1, <2>1, FMSignalOK
  <2> QED
    BY <2>2, <2>3 DEF KInv
<1>5. CASE CallFMSignal(t)
  <2>1. ~NoFM(t) /\ Unlock(k1)
    BY <1>5 DEF CallFMSignal
  <2> QED
    BY <1>1, <1>4, <2>1, ServiceSteady
<1>6. CASE CallFMFlash(t)
  <2> DEFINE k2 == [k1 EXCEPT !.cont[t] = "FMFlash", !.arg[t] = m]
  <2>1. ~NoFM(t) /\ (Unlock(k1) \/ Unlock(k2))
    BY <1>6 DEF CallFMFlash
  <2>2. Follows(k, k1, {}) /\ k1 \in KState
    BY <1>4, <2>1
  <2> HIDE DEF k1, m
  <2>3. /\ k2.nstate = k1.nstate /\ k2.pri = k1.pri /\ k2.ready = k1.ready /\ k2.time = k1.time
        /\ k2.current = k1.current /\ k2.heldFM = k1.heldFM /\ k2.holding = k1.holding
        /\ k2.resched = k1.resched /\ k2.waiting = k1.waiting
        /\ k2.waitFM = k1.waitFM /\ k2.csFunction = k1.csFunction
        /\ k2.suspendCount = k1.suspendCount
        /\ k2.cont = [k1.cont EXCEPT ![t] = "FMFlash"]
    BY <2>2 DEF KState
  <2> HIDE DEF k2
  <2>4. \A u \in Thread : k2.cont[u] = k1.cont[u] \/ k2.cont[u] # "ForcedExit"
    BY <2>2, <2>3, FieldTypes
  <2>5. Follows(k1, k2, {})
    BY <2>2, <2>3, <2>4, AsideOrdered DEF Follows
  <2>6. Follows(k, k2, {})
    BY <2>2, <2>5, FollowsTrans
  <2> QED
    BY <1>1, <2>1, <2>2, <2>6, ServiceSteady
<1> QED
  BY <1>3, <1>5, <1>6

\* Services on request semaphores and on other threads.
LEMMA ThreadSteady ==
    ASSUME NEW t \in Thread, Steady, IInv, IInv', SteadyOK,
           \/ WaitForAnyRequest(t)
           \/ \E u \in Thread \ {NullThread}, m \in FMArg(t) : ThreadRequestSignal(t, u, m)
           \/ \E u \in Thread \ {NullThread}, n \in 0..2 : ThreadRequestSignalN(t, u, n)
           \/ \E u \in Thread, n \in 1..2 : ThreadSuspend(t, u, n)
           \/ \E u \in Thread, m \in FMArg(t) : ThreadResume(t, u, m)
           \/ \E u \in Thread, m \in FMArg(t) : ThreadForceResume(t, u, m)
           \/ \E u \in Thread, p \in Pri \ {0}, m \in FMArg(t) : ThreadSetPriority(t, u, p, m)
           \/ \E u \in Thread, m \in FMArg(t) : ThreadRelease(t, u, m)
           \/ \E u \in Thread, m \in FMArg(t) : ThreadKill(t, u, m)
    PROVE  SteadyOK'
<1>1. Running(t) /\ KInv(k) /\ k \in KState /\ ReadyOK(k) /\ k.current = t
      /\ k.nstate[t] = "EReady" /\ k.waitFM[t] = Null /\ kern # "selecting"
  BY RunningFacts DEF WaitForAnyRequest, ThreadRequestSignal, ThreadRequestSignalN,
     ThreadSuspend, ThreadResume, ThreadForceResume, ThreadSetPriority, ThreadRelease,
     ThreadKill, KInv, Running
<1>2. Ordered(k) /\ Settled(k)
  BY <1>1 DEF SteadyOK
<1>3. ASSUME NEW u \in Thread, NEW k1, Wakes(k, k1, u)
      PROVE  Follows(k, k1, {}) /\ k1.heldFM = k.heldFM
  BY <1>1, <1>2, <1>3, WakesOrdered DEF Wakes
<1>4. CASE WaitForAnyRequest(t)
  <2> DEFINE k1 == SemWait(k, t)
  <2>1. Unlock(k1) /\ k.heldFM[t] = Null
    BY <1>4 DEF WaitForAnyRequest, NoFM
  <2>2. SameSched(k, k1) \/ Stops(k, k1)
    BY <1>1, SemWaitEffect
  <2> HIDE DEF k1
  <2>3. Follows(k, k1, {})
    BY <1>1, <1>2, <1>3, <2>1, <2>2, SameWakes, StopsOrdered
  <2> QED
    BY <1>1, <2>1, <2>3, ServiceSteady
<1>5. ASSUME NEW u \in Thread \ {NullThread}, NEW m \in FMArg(t), ThreadRequestSignal(t, u, m)
      PROVE  SteadyOK'
  <2>1. Unlock(ThenSignal(SemSignal(k, u), t, m))
    BY <1>5 DEF ThreadRequestSignal
  <2>2. Wakes(k, SemSignal(k, u), u) /\ KInv(SemSignal(k, u))
    BY <1>1, SignalWakes, SemSignalOK
  <2> QED
    BY <1>1, <1>3, <2>1, <2>2, ThenSignalSteady
<1>6. ASSUME NEW u \in Thread \ {NullThread}, NEW n \in 0..2, ThreadRequestSignalN(t, u, n)
      PROVE  SteadyOK'
  <2>1. Unlock(SemSignalN(k, u, n)) /\ n \in Nat
    BY <1>6 DEF ThreadRequestSignalN
  <2>2. Wakes(k, SemSignalN(k, u, n), u)
    BY <1>1, <2>1, SignalWakes
  <2> QED
    BY <1>1, <1>3, <2>1, <2>2, ServiceSteady
<1>7. ASSUME NEW u \in Thread, NEW m \in FMArg(t), ThreadRelease(t, u, m)
      PROVE  SteadyOK'
  <2>1. Unlock(ThenSignal(Release(k, u, KErrNone), t, m)) /\ KErrNone \in Int
    BY <1>7 DEF ThreadRelease, KErrNone
  <2>2. Wakes(k, Release(k, u, KErrNone), u) /\ KInv(Release(k, u, KErrNone))
    BY <1>1, <2>1, SignalWakes, ReleaseOK
  <2> QED
    BY <1>1, <1>3, <2>1, <2>2, ThenSignalSteady
<1>8. ASSUME NEW u \in Thread, NEW m \in FMArg(t), ThreadKill(t, u, m)
      PROVE  SteadyOK'
  <2>1. Unlock(ThenSignal(Kill(k, u), t, m)) /\ u # t /\ u # NullThread /\ u \notin Blockers
    BY <1>8, ControlAssumption DEF ThreadKill, Steady
  <2>2. /\ Follows(k, Kill(k, u), {u}) /\ KInv(Kill(k, u)) /\ Kill(k, u).heldFM = k.heldFM
    BY <1>1, <1>2, <2>1, KillOrdered, KillOK
  <2> QED
    BY <1>1, <2>1, <2>2, ThenSignalSteady
<1>9. ~(\E u \in Thread, n \in 1..2 : ThreadSuspend(t, u, n))
      /\ ~(\E u \in Thread, m \in FMArg(t) : ThreadResume(t, u, m) \/ ThreadForceResume(t, u, m))
      /\ ~(\E u \in Thread, p \in Pri \ {0}, m \in FMArg(t) : ThreadSetPriority(t, u, p, m))
  BY DEF Steady, ThreadSuspend, ThreadResume, ThreadForceResume, ThreadSetPriority
<1> QED
  BY <1>4, <1>5, <1>6, <1>7, <1>8, <1>9

\* What a thread does to itself: exit, critical sections, its turn.
LEMMA OwnSteady ==
    ASSUME NEW t \in Thread, Steady, IInv, IInv', SteadyOK,
           \/ ThreadKillSelf(t) \/ CallExit(t) \/ DeferredExit(t) \/ ExitHandlerDone(t)
           \/ ThreadEnterCS(t) \/ ThreadLeaveCS(t) \/ YieldTimeslice(t)
           \/ \E p \in Pri : CallRotateReadyList(t, p)
    PROVE  SteadyOK'
<1>1. Running(t) /\ KInv(k) /\ k \in KState /\ ReadyOK(k) /\ k.current = t
      /\ k.nstate[t] = "EReady" /\ k.waitFM[t] = Null /\ kern # "selecting" /\ ~k.resched
  BY RunningFacts DEF ThreadKillSelf, CallExit, DeferredExit, ExitHandlerDone, ThreadEnterCS,
     ThreadLeaveCS, YieldTimeslice, CallRotateReadyList, KInv, Running
<1>2. Ordered(k) /\ Settled(k) /\ k.csFunction[t] \in Int /\ k.csFunction[t] =< 0
  BY <1>1, FieldTypes DEF SteadyOK, Ordered, Plain
<1>3. CASE ThreadKillSelf(t)
  <2> DEFINE m  == k.heldFM[t]
             k1 == [k EXCEPT !.csFunction[t] = ECSExitPending, !.waiting[m] = TRUE]
  <2>1. /\ m # Null /\ k.csCount[t] = 0 /\ Unlock(FMSignal(k1, t, m)) /\ {t} \cap Blockers = {}
    BY <1>3 DEF ThreadKillSelf, NoFM, Steady
  <2>2. m \in Mutex
    BY <1>1, <2>1, RunningFacts
  <2>3. k1 = FlagHeld([k EXCEPT !.csFunction[t] = ECSExitPending], t)
    BY <1>1, <2>1 DEF FlagHeld, KState
  <2>4. ECSExitPending \in Int /\ ECSExitPending =< 0 /\ ECSExitPending >= ECSExitInProgress
        /\ ECSExitPending # ECSExitInProgress
    BY DEF ECSExitPending, ECSExitInProgress
  <2>5. Follows(k, k1, {t})
    BY <1>1, <1>2, <2>3, <2>4, FlagHeldOrdered
  <2>6. KInv(k1) /\ k1.heldFM = k.heldFM
    <3>1. InCS(k, t)
      BY <2>1 DEF InCS
    <3>2. KInv(k1) /\ SameFM(k, k1)
      BY <1>1, <2>3, <2>4, <3>1, FlagHeldOK
    <3> QED
      BY <3>2 DEF SameFM
  <2> HIDE DEF k1, m
  <2>7. k1.current = t /\ k1.heldFM[t] = m
    BY <1>1, <2>5, <2>6 DEF Follows, m
  <2>8. Follows(k1, FMSignal(k1, t, m), {})
    BY <2>2, <2>5, <2>6, <2>7, FMSignalOrdered DEF Follows
  <2>9. Follows(k1, FMSignal(k1, t, m), {t})
    BY <2>8 DEF Follows
  <2>10. Follows(k, FMSignal(k1, t, m), {t})
    BY <2>5, <2>9, FollowsTrans
  <2> QED
    BY <1>1, <2>1, <2>10, ServiceSteady
<1>4. CASE CallExit(t)
  <2>1. Unlock(Exit(k, t)) /\ {t} \cap Blockers = {}
    BY <1>4 DEF CallExit, Steady
  <2> QED
    BY <1>1, <1>2, <2>1, ExitOrdered, ServiceSteady
<1>5. CASE DeferredExit(t)
  <2> DEFINE f == IF k.csFunction[t] >= 0 THEN ECSExitPending ELSE k.csFunction[t]
             k1 == FlagHeld([k EXCEPT !.csFunction[t] = f], t)
  <2>1. Unlock(Exit(k, t)) \/ Unlock(k1)
    <3>1. [k EXCEPT !.csFunction[t] = IF @ >= 0 THEN ECSExitPending ELSE @]
              = [k EXCEPT !.csFunction[t] = f]
      BY <1>1 DEF KState
    <3> QED
      BY <1>5, <3>1 DEF DeferredExit
  <2>2. f \in Int /\ f =< 0 /\ {t} \cap Blockers = {}
    BY <1>2, <1>5 DEF ECSExitPending, DeferredExit, Steady
  <2> HIDE DEF f
  <2>3. Follows(k, k1, {t}) /\ Follows(k, Exit(k, t), {t})
    BY <1>1, <1>2, <2>2, FlagHeldOrdered, ExitOrdered
  <2> HIDE DEF k1
  <2> QED
    BY <1>1, <2>1, <2>2, <2>3, ServiceSteady
<1>6. CASE ExitHandlerDone(t)
  <2> DEFINE k1 == [SchedRemove(RescheduleNeeded(k), t) EXCEPT !.nstate[t] = "EDead"]
  <2>1. Unlock(k1) /\ k.heldFM[t] = Null
    BY <1>6 DEF ExitHandlerDone, NoFM
  <2>2. "EDead" \in NState
    BY DEF NState
  <2>3. Stops(k, k1)
    BY <1>1, <2>2, RemoveStops
  <2> HIDE DEF k1
  <2>4. Follows(k, k1, {})
    BY <1>1, <1>2, <2>1, <2>3, StopsOrdered
  <2> QED
    BY <1>1, <2>1, <2>4, ServiceSteady
<1>7. ASSUME NEW c \in Int
      PROVE  LET k1 == [k EXCEPT !.csCount[t] = c]
             IN  /\ k1 \in KState /\ Follows(k, k1, {}) /\ k1.csFunction = k.csFunction
                 /\ k1.current = t /\ k1.csCount[t] = c
  <2> DEFINE cs == [k.csCount EXCEPT ![t] = c]
             k1 == [k EXCEPT !.csCount = cs]
  <2>1. cs \in [Thread -> Int] /\ cs[t] = c
    BY <1>1, FieldTypes
  <2> HIDE DEF cs
  <2>2. k1 \in KState
    BY <1>1, <2>1 DEF KState
  <2>3. /\ k1.nstate = k.nstate /\ k1.pri = k.pri /\ k1.ready = k.ready /\ k1.time = k.time
        /\ k1.current = k.current /\ k1.heldFM = k.heldFM /\ k1.holding = k.holding
        /\ k1.resched = k.resched /\ k1.waiting = k.waiting /\ k1.csCount = cs
        /\ k1.waitFM = k.waitFM /\ k1.cont = k.cont /\ k1.csFunction = k.csFunction
        /\ k1.suspendCount = k.suspendCount
    BY <1>1 DEF KState
  <2> HIDE DEF k1
  <2>4. Follows(k, k1, {})
    BY <1>1, <1>2, <2>3, AsideOrdered
  <2> QED
    BY <1>1, <2>1, <2>2, <2>3, <2>4 DEF k1, cs
<1>8. CASE ThreadEnterCS(t)
  <2>1. Unlock([k EXCEPT !.csCount[t] = k.csCount[t] + 1]) /\ k.csCount[t] + 1 \in Int
    BY <1>1, <1>8, FieldTypes DEF ThreadEnterCS
  <2> QED
    BY <1>1, <1>7, <2>1, ServiceSteady
<1>9. CASE ThreadLeaveCS(t)
  <2> DEFINE c  == k.csCount[t] - 1
             k1 == [k EXCEPT !.csCount[t] = c]
             w  == [k1.waiting EXCEPT ![k.heldFM[t]] = TRUE]
             k2 == [k1 EXCEPT !.waiting = w]
  <2>1. Unlock(IF k1.csCount[t] # 0 \/ k1.csFunction[t] = 0 THEN k1
               ELSE IF k.heldFM[t] = Null THEN DoCsFunction(k1, t) ELSE k2)
    <3>1. k1.csFunction[t] = k.csFunction[t]
      BY <1>1 DEF KState
    <3> QED
      BY <1>9, <3>1 DEF ThreadLeaveCS, NoFM
  <2>2. c \in Int
    BY <1>1, FieldTypes
  <2>3. k1 \in KState /\ Follows(k, k1, {})
    BY <1>7, <2>2
  <2> HIDE DEF k1
  <2>4. ASSUME k1.csFunction[t] # 0 PROVE Follows(k, DoCsFunction(k1, t), {})
    <3>1. Follows(k1, DoCsFunction(k1, t), {})
      BY <2>3, <2>4, DoCsFunctionOrdered DEF Follows
    <3> QED
      BY <2>3, <3>1, FollowsTrans
  <2>5. Follows(k, k2, {})
    <3>1. \A m \in Mutex : k1.waiting[m] => w[m]
      BY <2>3, FieldTypes
    <3> HIDE DEF w
    <3>2. /\ k2.nstate = k1.nstate /\ k2.pri = k1.pri /\ k2.ready = k1.ready /\ k2.time = k1.time
          /\ k2.current = k1.current /\ k2.heldFM = k1.heldFM /\ k2.holding = k1.holding
          /\ k2.resched = k1.resched /\ k2.waiting = w /\ k2.suspendCount = k1.suspendCount
          /\ k2.waitFM = k1.waitFM /\ k2.cont = k1.cont /\ k2.csFunction = k1.csFunction
      BY <2>3 DEF KState
    <3> HIDE DEF k2
    <3>3. Follows(k1, k2, {})
      BY <2>3, <3>1, <3>2, AsideOrdered DEF Follows
    <3> QED
      BY <2>3, <3>3, FollowsTrans
  <2> HIDE DEF k2
  <2> QED
    BY <1>1, <2>1, <2>3, <2>4, <2>5, ServiceSteady
<1>10. CASE YieldTimeslice(t)
  <2> DEFINE tm == [k.time EXCEPT ![t] = 0]
             re == k.resched \/ ~Alone(k, t)
             k1 == [k EXCEPT !.time[t] = 0, !.resched = @ \/ ~Alone(k, t)]
  <2>1. Unlock(k1)
    BY <1>10 DEF YieldTimeslice
  <2>2. /\ k1.nstate = k.nstate /\ k1.pri = k.pri /\ k1.ready = k.ready /\ k1.time = tm
        /\ k1.current = k.current /\ k1.heldFM = k.heldFM /\ k1.holding = k.holding
        /\ k1.resched = re /\ k1.waiting = k.waiting
        /\ k1.waitFM = k.waitFM /\ k1.cont = k.cont /\ k1.csFunction = k.csFunction
        /\ k1.suspendCount = k.suspendCount
    BY <1>1 DEF KState
  <2>3. tm[t] = 0 /\ \A u \in Thread \ {t} : tm[u] = k.time[u]
    BY <1>1, FieldTypes
  <2> HIDE DEF k1, tm
  <2>4. IsFirst(k, t)
    BY <1>1, <1>2 DEF Settled, Flagged, Ordered, Turns
  <2>5. Turns(k1) /\ WaitersOK(k1) /\ Plain(k1)
    BY <1>2, <2>2, <2>3, <2>4 DEF Ordered, Turns, IsFirst, WaitersOK, Plain
  <2>6. Settled(k1) /\ IsFirst(k1, t)
    BY <1>1, <1>2, <2>2, <2>4 DEF Settled, Flagged, Highest, SysFree, IsFirst, Alone
  <2>7. \A u \in Thread : Whole(k, u) => Whole(k1, u)
    BY <2>2 DEF Whole
  <2>8. Follows(k, k1, {})
    BY <1>1, <2>2, <2>5, <2>6, <2>7 DEF Follows, Ordered
  <2> QED
    BY <1>1, <2>1, <2>8, ServiceSteady
<1>11. ~\E p \in Pri : CallRotateReadyList(t, p)
  BY DEF Steady, CallRotateReadyList
<1> QED
  BY <1>3, <1>4, <1>5, <1>6, <1>8, <1>9, <1>10, <1>11

\* NKern::Block: nothing was put off, so the thread gives up its mutex and blocks.
LEMMA BlockSteady ==
    ASSUME NEW t \in Thread, NEW enterCS \in BOOLEAN, NEW claim \in BOOLEAN,
           Steady, IInv, IInv', SteadyOK, Block(t, enterCS, claim)
    PROVE  SteadyOK'
<1> DEFINE m   == k.heldFM[t]
           k1  == IF enterCS THEN [k EXCEPT !.csCount[t] = @ + 1] ELSE k
           k2  == IF NoFM(t) THEN k1
                  ELSE [k1 EXCEPT !.holding[m] = Null, !.heldFM[t] = Null,
                                  !.waiting[m] = FALSE]
           act == ~NoFM(t) /\ k.waiting[m] /\ k2.csCount[t] = 0
                           /\ k2.csFunction[t] # 0
           k3  == IF act THEN DoCsFunction(k2, t) ELSE k2
           k4  == RescheduleNeeded(IF k3.nstate[t] = "EReady"
                                   THEN SchedRemove(k3, t) ELSE k3)
           c   == IF claim THEN "Block" ELSE "run"
           a   == IF claim THEN m ELSE Null
           k5  == [k4 EXCEPT !.nstate[t] = "EBlocked", !.cont[t] = c, !.arg[t] = a]
<1>1. Running(t) /\ t \in Blockers /\ Unlock(IF act /\ Exiting(k3, t) THEN k3 ELSE k5)
  BY DEF Block, NoFM
<1>2. /\ t \in Thread \ {NullThread} /\ KInv(k) /\ k \in KState /\ k.current = t
      /\ m \in Mutex \cup {Null} /\ Null \notin Mutex /\ k.waitFM[t] = Null
      /\ k.nstate[t] = "EReady" /\ kern # "selecting" /\ ReadyOK(k)
  BY <1>1, RunningFacts DEF Running, KInv
<1>3. Ordered(k) /\ Settled(k) /\ k.csFunction[t] = 0
  BY <1>1, <1>2 DEF SteadyOK, Whole
<1> DEFINE cs == IF enterCS THEN [k.csCount EXCEPT ![t] = @ + 1] ELSE k.csCount
           ho == IF m = Null THEN k.holding ELSE [k.holding EXCEPT ![m] = Null]
           he == IF m = Null THEN k.heldFM ELSE [k.heldFM EXCEPT ![t] = Null]
           wa == IF m = Null THEN k.waiting ELSE [k.waiting EXCEPT ![m] = FALSE]
           kb == [k EXCEPT !.csCount = cs, !.holding = ho, !.heldFM = he, !.waiting = wa]
<1>4. k2 = kb
  BY <1>2 DEF KState, NoFM
<1> HIDE DEF m
<1>5a. /\ k.csCount \in [Thread -> Int] /\ k.holding \in [Mutex -> Thread \cup {Null}]
       /\ k.heldFM \in [Thread -> Mutex \cup {Null}] /\ k.waiting \in [Mutex -> BOOLEAN]
  BY <1>2, FieldTypes
<1>5b. k.heldFM[t] = m
  BY DEF m
<1>5c. cs \in [Thread -> Int]
  BY <1>2, <1>5a
<1>5d. /\ ho \in [Mutex -> Thread \cup {Null}]
       /\ \A n \in Mutex : ho[n] = k.holding[n] \/ (n = m /\ ho[n] = Null)
  BY <1>2, <1>5a
<1>5e. /\ wa \in [Mutex -> BOOLEAN]
       /\ \A n \in Mutex : wa[n] = k.waiting[n] \/ (n = m /\ ho[n] = Null)
  BY <1>2, <1>5a
<1>5f. /\ he \in [Thread -> Mutex \cup {Null}] /\ he[t] = Null
       /\ \A u \in Thread \ {t} : he[u] = k.heldFM[u]
  BY <1>2, <1>5a, <1>5b
<1>5. /\ cs \in [Thread -> Int] /\ ho \in [Mutex -> Thread \cup {Null}]
      /\ he \in [Thread -> Mutex \cup {Null}] /\ wa \in [Mutex -> BOOLEAN]
      /\ he[t] = Null /\ \A u \in Thread \ {t} : he[u] = k.heldFM[u]
      /\ \A n \in Mutex : (ho[n] = k.holding[n] /\ wa[n] = k.waiting[n]) \/ ho[n] = Null
  BY <1>5c, <1>5d, <1>5e, <1>5f
<1> HIDE DEF cs, ho, he, wa
<1>6. /\ kb \in KState /\ kb.csFunction = k.csFunction /\ kb.current = t
      /\ kb.ready = k.ready /\ kb.nstate = k.nstate /\ kb.pri = k.pri
      /\ kb.holding = ho /\ kb.heldFM = he /\ kb.waiting = wa /\ kb.time = k.time
      /\ kb.waitFM = k.waitFM /\ kb.cont = k.cont /\ kb.suspendCount = k.suspendCount
  BY <1>2, <1>5 DEF KState
<1> HIDE DEF kb, k2
<1>7. ~act /\ k3 = kb
  BY <1>3, <1>4, <1>6
<1>8. k4 = SchedRemove(RescheduleNeeded(kb), t)
  <2>1. k4 = RescheduleNeeded(SchedRemove(kb, t))
    BY <1>2, <1>6, <1>7
  <2> HIDE DEF k3
  <2> QED
    BY <1>6, <2>1 DEF KState, SchedRemove, PriListRemove, RescheduleNeeded
<1>9. Unlock(k5)
  BY <1>1, <1>7
<1> HIDE DEF k4, k3, act, c, a
<1> DEFINE k6 == [k4 EXCEPT !.nstate[t] = "EBlocked"]
<1>10. Stops(kb, k6)
  <2>1. ReadyOK(kb) /\ "EBlocked" \in NState
    BY <1>2, <1>6 DEF ReadyOK, NState
  <2> QED
    BY <1>2, <1>6, <1>8, <2>1, RemoveStops
<1>11. k5 = [k6 EXCEPT !.cont[t] = c, !.arg[t] = a]
  OBVIOUS
<1> HIDE DEF k5
<1>12. DOMAIN k6 = DOMAIN k
  <2>1. DOMAIN kb = DOMAIN k
    BY <1>2, <1>6 DEF KState
  <2> QED
    BY <1>8, <2>1 DEF SchedRemove, PriListRemove, RescheduleNeeded
<1> HIDE DEF k6
<1>13. /\ k5.nstate = k6.nstate /\ k5.pri = k6.pri /\ k5.ready = k6.ready /\ k5.time = k6.time
       /\ k5.current = k6.current /\ k5.heldFM = k6.heldFM /\ k5.holding = k6.holding
       /\ k5.resched = k6.resched /\ k5.waiting = k6.waiting
       /\ k5.waitFM = k6.waitFM /\ k5.csFunction = k6.csFunction
       /\ k5.suspendCount = k6.suspendCount
       /\ k5.cont = [k6.cont EXCEPT ![t] = c]
  BY <1>2, <1>11, <1>12 DEF KState
<1>14. Ordered(kb)
  <2>1. Turns(kb) /\ Plain(kb)
    BY <1>3, <1>5, <1>6 DEF Ordered, Turns, IsFirst, Plain
  <2>2. WaitersOK(kb)
    <3>1. \A u \in Thread : k.waitFM[u] \in Mutex \cup {Null}
      BY <1>2, FieldTypes
    <3> QED
      BY <1>3, <1>5, <1>6, <3>1 DEF Ordered, WaitersOK
  <2> QED
    BY <2>1, <2>2 DEF Ordered
<1>15. Follows(kb, k6, {})
  <2>1. ReadyOK(kb)
    BY <1>2, <1>6 DEF ReadyOK
  <2> QED
    BY <1>2, <1>5, <1>6, <1>10, <1>14, <2>1, StopsOrdered
<1>16. Ordered(k5) /\ Settled(k5) /\ k5.current = t /\ k5.time[t] = Timeslice[t]
  <2>1. Turns(k5) /\ WaitersOK(k5) /\ Plain(k5)
    BY <1>13, <1>15 DEF Follows, Ordered, Turns, WaitersOK, Plain, IsFirst
  <2>2. k5.resched /\ k5.current = t
    BY <1>6, <1>10, <1>13 DEF Stops
  <2>3. k5.time[t] = Timeslice[t]
    BY <1>2, <1>6, <1>10, <1>13, FieldTypes DEF Stops
  <2> QED
    BY <2>1, <2>2, <2>3 DEF Ordered, Settled
<1>17. \A u \in Thread : Whole(k, u) => Whole(k5, u)
  <2>1. k5.csFunction = k.csFunction /\ k5.cont = [k.cont EXCEPT ![t] = c] /\ c # "ForcedExit"
    BY <1>6, <1>10, <1>13 DEF Stops, c
  <2> QED
    BY <1>2, <2>1, FieldTypes DEF Whole
<1>18. Follows(k, k5, {})
  BY <1>2, <1>16, <1>17 DEF Follows
<1> QED
  BY <1>2, <1>9, <1>18, ServiceSteady

\* A thread that takes again the mutex it gave up.
LEMMA TakesAgainSteady ==
    ASSUME NEW t \in Thread, Steady, IInv, IInv', SteadyOK, k.current = t, ~k.resched,
           RunsOn(k), k.cont[t] \in {"FMFlash", "Block"}, kern # "selecting",
           Unlock([FMWait(k, t, k.arg[t]) EXCEPT !.arg[t] = Null])
    PROVE  SteadyOK'
<1> DEFINE m  == k.arg[t]
           k1 == FMWait(k, t, m)
           k2 == [k1 EXCEPT !.arg[t] = Null]
<1>1. KInv(k) /\ k \in KState /\ HolderOK(k) /\ Ordered(k) /\ Settled(k)
  BY DEF IInv, KInv, SteadyOK
<1>2. m \in Mutex /\ t # NullThread /\ k.waitFM[t] = Null /\ k.heldFM[t] = Null
      /\ k.nstate[t] = "EReady"
  BY <1>1, FieldTypes DEF KInv, ContOK, OwnerOK, IdleOK, RunsOn
<1>3. Unlock(k2)
  OBVIOUS
<1> HIDE DEF m
<1>4. KInv(k1) /\ Follows(k, k1, {})
  BY <1>1, <1>2, FMWaitOK, FMWaitOrdered
<1> HIDE DEF k1
<1>5. k1 \in KState
  BY <1>4 DEF KInv
<1>6. /\ k2.nstate = k1.nstate /\ k2.pri = k1.pri /\ k2.ready = k1.ready /\ k2.time = k1.time
      /\ k2.current = k1.current /\ k2.heldFM = k1.heldFM /\ k2.holding = k1.holding
      /\ k2.resched = k1.resched /\ k2.waiting = k1.waiting
      /\ k2.waitFM = k1.waitFM /\ k2.csFunction = k1.csFunction
      /\ k2.suspendCount = k1.suspendCount /\ k2.cont = k1.cont
  BY <1>5 DEF KState
<1> HIDE DEF k2
<1>7. Follows(k1, k2, {})
  BY <1>4, <1>5, <1>6, AsideOrdered DEF Follows
<1>8. Follows(k, k2, {})
  BY <1>4, <1>7, FollowsTrans
<1> QED
  BY <1>3, <1>8, ServiceSteady

\* The return from TScheduler::Reschedule.
LEMMA ReturnsSteady ==
    ASSUME NEW t \in Thread, Steady, IInv, IInv', SteadyOK,
           \/ ReturnToThread(t) \/ ReturnToFMWait(t) \/ ReturnToFMFlash(t)
           \/ ReturnToBlock(t) \/ ReturnToForcedExit(t) \/ ClaimAfterBlock(t)
    PROVE  SteadyOK'
<1>1. kern # "selecting" /\ k.current = t /\ ~k.resched /\ RunsOn(k)
  <2>1. kern # "selecting" /\ k.current = t /\ (kern = "unlocked" \/ ~k.resched)
    BY DEF ReturnToThread, ReturnToFMWait, ReturnToFMFlash, ReturnToBlock, ReturnToForcedExit,
       Rescheduled, ClaimAfterBlock
  <2> QED
    BY <2>1 DEF IInv
<1>2. KInv(k) /\ k \in KState /\ HolderOK(k) /\ Ordered(k) /\ Settled(k)
  BY <1>1 DEF IInv, KInv, SteadyOK
<1>3. CASE ReturnToThread(t) \/ ReturnToBlock(t)
  <2>1. Unlock(k)
    BY <1>3 DEF ReturnToThread, ReturnToBlock
  <2>2. Follows(k, k, {})
    <3>1. IsFirst(k, k.current) \/ ~IsFirst(k, k.current)
      OBVIOUS
    <3> QED
      BY <1>2, <3>1 DEF Follows
  <2> QED
    BY <1>1, <2>1, <2>2, ServiceSteady
<1>4. CASE ReturnToFMWait(t)
  <2> DEFINE m  == k.waitFM[t]
  <2>1. k.cont[t] = "FMWait" /\ Unlock(FMTake(k, t, m))
    BY <1>4 DEF ReturnToFMWait, Rescheduled
  <2>2. m \in Mutex /\ k.heldFM[t] = Null /\ k.holding[m] = Null
    BY <1>1, <1>2, <2>1, FieldTypes DEF KInv, ContOK, OwnerOK, IdleOK, RunsOn
  <2> HIDE DEF m
  <2>3. Follows(k, FMTake(k, t, m), {})
    BY <1>1, <1>2, <2>2, FMTakeOrdered
  <2> QED
    BY <1>1, <2>1, <2>3, ServiceSteady
<1>5. CASE ReturnToFMFlash(t) \/ ClaimAfterBlock(t)
  <2>1. k.cont[t] \in {"FMFlash", "Block"} /\ Unlock([FMWait(k, t, k.arg[t]) EXCEPT !.arg[t] = Null])
    BY <1>5 DEF ReturnToFMFlash, ClaimAfterBlock, Rescheduled
  <2> QED
    BY <1>1, <2>1, TakesAgainSteady
<1>6. CASE ReturnToForcedExit(t)
  <2>1. Unlock(ForcedExit(k, t)) /\ k.cont[t] = "ForcedExit"
    BY <1>6 DEF ReturnToForcedExit, Rescheduled
  <2>2. {t} \cap Blockers = {}
    BY <2>1 DEF SteadyOK, Whole
  <2>3. Follows(k, ForcedExit(k, t), {t})
    BY <1>2, ExitOrdered
  <2> QED
    BY <1>1, <2>1, <2>2, <2>3, ServiceSteady
<1> QED
  BY <1>3, <1>4, <1>5, <1>6

\* The current thread is the first of its priority while the kernel is unlocked.
LEMMA UnlockedFirst ==
    ASSUME IInv, SteadyOK, kern = "unlocked"
    PROVE  IsFirst(k, k.current)
<1>1. ~k.resched /\ k.current \in Thread
  BY FieldTypes DEF IInv, KInv
<1> QED
  BY <1>1 DEF SteadyOK, Settled, Flagged, Ordered, Turns

\* A tick takes time from the current thread, whose time ends only when it has the turn.
LEMMA TickSteady ==
    ASSUME Steady, IInv, IInv', SteadyOK, TimesliceTick
    PROVE  SteadyOK'
<1> DEFINE c  == k.current
           tm == [k.time EXCEPT ![c] = @ - 1]
           re == k.resched \/ k.time[c] = 1
           k1 == [k EXCEPT !.time = tm, !.resched = re]
<1>1. k \in KState /\ c \in Thread /\ k.time \in [Thread -> Int]
  BY FieldTypes DEF IInv, KInv
<1>2. /\ k' = k1 /\ (kern' # "selecting" => kern # "selecting") /\ k.time[c] > 0
      /\ kern' = "unlocked" => kern = "unlocked"
      /\ kern = "unlocked" \/ ticks < MaxLockedTicks
      /\ ticks' = IF kern = "unlocked" THEN 0 ELSE ticks + 1
  BY DEF TimesliceTick
<1>3. tm[c] = k.time[c] - 1 /\ \A u \in Thread \ {c} : tm[u] = k.time[u]
  BY <1>1
<1> HIDE DEF tm, re
<1>4. /\ k1.nstate = k.nstate /\ k1.pri = k.pri /\ k1.ready = k.ready /\ k1.time = tm
      /\ k1.current = k.current /\ k1.heldFM = k.heldFM /\ k1.holding = k.holding
      /\ k1.resched = re /\ k1.waiting = k.waiting /\ k1.csFunction = k.csFunction
      /\ k1.waitFM = k.waitFM /\ k1.cont = k.cont /\ k1.suspendCount = k.suspendCount
  BY <1>1 DEF KState
<1> HIDE DEF k1
<1>5. IsFirst(k, c) \/ (tm[c] > MaxLockedTicks - ticks' /\ tm[c] > 0)
  <2>1. CASE kern = "unlocked"
    BY <2>1, UnlockedFirst
  <2>2. CASE kern # "unlocked"
    <3>1. ticks < MaxLockedTicks /\ ticks' = ticks + 1 /\ ticks \in Nat /\ MaxLockedTicks \in Nat
      BY <1>2, <2>2, ControlAssumption DEF IInv
    <3>2. IsFirst(k, c) \/ k.time[c] > MaxLockedTicks - ticks
      BY <1>2 DEF SteadyOK
    <3>3. k.time[c] \in Int
      BY <1>1
    <3> HIDE DEF c
    <3> QED
      BY <1>3, <3>1, <3>2, <3>3
  <2> QED
    BY <2>1, <2>2
<1>6. Turns(k1)
  <2>1. tm[c] = 0 => IsFirst(k, c)
    BY <1>5
  <2>2. \A u \in Thread : tm[u] = 0 => IsFirst(k, u)
    BY <1>3, <2>1 DEF SteadyOK, Ordered, Turns
  <2> QED
    BY <1>4, <2>2 DEF SteadyOK, Ordered, Turns, IsFirst
<1>7. WaitersOK(k1) /\ Plain(k1)
  BY <1>4 DEF SteadyOK, Ordered, WaitersOK, Plain
<1>8. kern # "selecting" => Settled(k1)
  <2> SUFFICES ASSUME Settled(k) PROVE Settled(k1)
    BY DEF SteadyOK
  <2>1. ~re => ~k.resched /\ tm[c] # 0
    BY <1>1, <1>3 DEF re
  <2>2. CASE re
    BY <1>4, <2>2 DEF Settled
  <2>3. CASE ~re /\ Flagged(k)
    BY <1>4, <2>3 DEF Settled, Flagged
  <2>4. CASE ~re /\ ~Flagged(k)
    <3>1. Highest(k) /\ SysFree(k) /\ IsFirst(k, c)
      BY <2>1, <2>4 DEF Settled
    <3> QED
      BY <1>4, <2>1, <2>4, <3>1 DEF Settled, Highest, SysFree, IsFirst
  <2> QED
    BY <2>2, <2>3, <2>4
<1>9. \A t \in Blockers : Whole(k1, t)
  BY <1>4 DEF SteadyOK, Whole
<1>10. kern' = "unlocked" => ticks' = 0
  BY <1>2
<1>11. IsFirst(k1, k1.current) \/ k1.time[k1.current] > MaxLockedTicks - ticks'
  BY <1>4, <1>5 DEF IsFirst
<1> QED
  BY <1>2, <1>6, <1>7, <1>8, <1>9, <1>10, <1>11 DEF SteadyOK, Ordered

\* The steps of TScheduler::Reschedule.
LEMMA ReschedSteady ==
    ASSUME Steady, IInv, IInv', SteadyOK, Reschedule
    PROVE  SteadyOK'
<1>1. KInv(k) /\ k \in KState /\ ReadyOK(k) /\ Ordered(k)
  BY DEF IInv, KInv, SteadyOK
<1>2. ASSUME NEW u \in Thread, RunIdfc(u) PROVE SteadyOK'
  <2>1. k' = SemSignal(k, u) /\ Settled(k) /\ kern = "locked" /\ kern' = kern /\ ticks' = ticks
    BY <1>2 DEF RunIdfc, SteadyOK
  <2>2. Wakes(k, k', u)
    BY <1>1, <2>1, SignalWakes
  <2>3. Follows(k, k', {})
    BY <1>1, <2>1, <2>2, WakesOrdered
  <2> QED
    BY <2>1, <2>3, FollowsSteady
<1>3. CASE ClearRescheduleFlag
  <2> DEFINE k1 == [k EXCEPT !.resched = FALSE]
  <2>1. k' = k1 /\ ticks' = ticks /\ kern' = "selecting"
    BY <1>3 DEF ClearRescheduleFlag
  <2>2. /\ k1.nstate = k.nstate /\ k1.pri = k.pri /\ k1.ready = k.ready /\ k1.time = k.time
        /\ k1.current = k.current /\ k1.heldFM = k.heldFM /\ k1.holding = k.holding
        /\ k1.waiting = k.waiting /\ k1.csFunction = k.csFunction
        /\ k1.waitFM = k.waitFM /\ k1.cont = k.cont /\ k1.suspendCount = k.suspendCount
    BY <1>1 DEF KState
  <2> HIDE DEF k1
  <2>3. Ordered(k1)
    BY <1>1, <2>2 DEF Ordered, Turns, WaitersOK, Plain, IsFirst
  <2>4. \A t \in Blockers : Whole(k1, t)
    BY <2>2 DEF SteadyOK, Whole
  <2>5. \/ IsFirst(k1, k1.current) \/ k1.time[k1.current] = -1
        \/ k1.time[k1.current] > MaxLockedTicks - ticks
    BY <2>2 DEF SteadyOK, IsFirst
  <2> QED
    BY <2>1, <2>3, <2>4, <2>5 DEF SteadyOK
<1>4. CASE SwitchThread
  <2>1. k' = SelectThread(k) /\ kern' = "locked" /\ ticks' = ticks
    BY <1>4 DEF SwitchThread
  <2>2. /\ Ordered(k') /\ Settled(k') /\ IsFirst(k', k'.current)
        /\ k'.csFunction = k.csFunction /\ k'.cont = k.cont
    BY <1>1, <2>1, SelectThreadOrdered
  <2> QED
    BY <2>1, <2>2 DEF SteadyOK, Whole
<1>5. ASSUME NEW t \in Thread,
             \/ ReturnToThread(t) \/ ReturnToFMWait(t) \/ ReturnToFMFlash(t)
             \/ ReturnToBlock(t) \/ ReturnToForcedExit(t)
      PROVE  SteadyOK'
  BY <1>5, ReturnsSteady
<1> QED
  BY <1>2, <1>3, <1>4, <1>5 DEF Reschedule

\* Every step.
LEMMA NextSteady ==
    ASSUME Steady, IInv, SteadyOK, [Next]_vars
    PROVE  SteadyOK'
<1>1. IInv'
  BY NextServes, StutterInvariant DEF Served
<1>2. ASSUME NEW t \in Thread, ThreadStep(t) PROVE SteadyOK'
  BY <1>1, <1>2, MutexSteady, ThreadSteady, OwnSteady, BlockSteady, ReturnsSteady DEF ThreadStep
<1>3. CASE Interrupt
  <2>1. CASE TimesliceTick
    BY <1>1, <2>1, TickSteady
  <2>2. ASSUME NEW u \in Thread, DeviceInterrupt(u) PROVE SteadyOK'
    BY <2>2 DEF DeviceInterrupt, SteadyOK
  <2> QED
    BY <1>3, <2>1, <2>2 DEF Interrupt
<1>4. CASE UNCHANGED vars
  BY <1>4 DEF vars, SteadyOK
<1> QED
  BY <1>1, <1>2, <1>3, <1>4, ReschedSteady DEF Next

\* Among Steady threads no flag is missed: whatever wakes up, exits, waits, ticks and
\* blocks in whatever order, a thread that runs in the place of another holds a flagged
\* mutex.
THEOREM NoFlagIsMissed == Spec => []HolderFlagged
<1> DEFINE I == Steady => SteadyOK
<1>1. Init => I
  <2> SUFFICES ASSUME Init, Steady PROVE SteadyOK
    OBVIOUS
  <2>1. /\ k.current = NullThread /\ NullThread \in Thread /\ k.pri = InitPri
        /\ k.holding[SysLock] = Null /\ k.time = Timeslice /\ kern = "unlocked" /\ ticks = 0
        /\ \A u \in Thread : /\ k.nstate[u] = "EReady" => u = NullThread
                             /\ k.heldFM[u] = Null /\ k.waitFM[u] = Null /\ k.time[u] = Timeslice[u]
                             /\ k.csFunction[u] = 0 /\ k.suspendCount[u] = 0 /\ k.cont[u] = "run"
    BY ThreadAssumption DEF Init
  <2>2. InitPri[NullThread] \in Pri /\ InitPri[NullThread] \in Int
    BY <2>1, ThreadAssumption, PriInt
  <2>3. k.ready[InitPri[NullThread]] = <<NullThread>>
    BY <2>2 DEF Init
  <2>4. IsFirst(k, NullThread)
    <3>1. <<NullThread>> # <<>> /\ Head(<<NullThread>>) = NullThread
      OBVIOUS
    <3> QED
      BY <2>1, <2>3, <3>1 DEF IsFirst
  <2>5. \A u \in Thread : k.time[u] # 0
    <3>1. \A u \in Thread : Timeslice[u] # 0
      BY ControlAssumption DEF Steady
    <3> QED
      BY <2>1, <3>1
  <2>6. Ordered(k)
    BY <2>1, <2>5 DEF Ordered, Turns, WaitersOK, Plain
  <2>7. Settled(k)
    <3>1. InitPri[NullThread] =< InitPri[NullThread]
      BY <2>2
    <3>2. Highest(k) /\ SysFree(k)
      BY <2>1, <3>1 DEF Highest, SysFree
    <3> QED
      BY <2>1, <2>4, <2>5, <3>2 DEF Settled
  <2>8. \A t \in Blockers : Whole(k, t)
    BY <2>1, ControlAssumption DEF Whole
  <2> QED
    BY <2>1, <2>4, <2>6, <2>7, <2>8 DEF SteadyOK
<1>2. IInv /\ I /\ [Next]_vars => I'
  BY NextSteady DEF Steady
<1>3. IInv /\ I => HolderFlagged
  <2> SUFFICES ASSUME IInv, SteadyOK, kern = "unlocked"
               PROVE  \/ HoldsFlagged
                      \/ /\ ReadyAbove(k.current) = {} /\ ~RunsWithoutSysLock
                         /\ k.time[k.current] = 0 => Alone(k, k.current)
    BY DEF HolderFlagged, InheritedPriorityIsFlagged, SliceNotOverrun, SysLockIsFlagged
  <2>1. Settled(k) /\ ~k.resched /\ k \in KState /\ k.current \in Thread
    BY FieldTypes DEF IInv, SteadyOK, KInv
  <2>2. \A u \in Thread : k.pri[u] \in Int
    BY <2>1, FieldTypes, PriInt
  <2>3. Highest(k) => ReadyAbove(k.current) = {}
    BY <2>1, <2>2 DEF Highest, ReadyAbove
  <2>4. SysFree(k) => ~RunsWithoutSysLock
    BY DEF SysFree, RunsWithoutSysLock
  <2> QED
    BY <2>1, <2>3, <2>4 DEF Settled, Flagged, HoldsFlagged
<1> QED
  BY <1>1, <1>2, <1>3, Invariance, PTL DEF Spec
=============================================================================
