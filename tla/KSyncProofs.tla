----------------------------- MODULE KSyncProofs ------------------------------
(***************************************************************************)
(* The functions of the kernel's semaphores, mutexes, condition variables  *)
(* and threads (modules KSync and KThread), for all sets of threads and    *)
(* objects: the invariant of a consistent system, and what each function   *)
(* that a call is made of preserves of it.  A thread that a function has   *)
(* taken off one queue and not yet put on another is in flux: the facts    *)
(* about queues and counters are stated up to a set X of such threads.     *)
(***************************************************************************)
EXTENDS KThread, QueueProofs, FiniteSetTheorems, WellFoundedInduction

\* Queue q is sorted by the priorities f gives, highest first.
Down(q, f) == \A i, j \in DOMAIN q : i < j => f[q[i]] >= f[q[j]]

\* The places of queue q whose thread goes before one of priority v.
Ahead(q, f, v) == {i \in DOMAIN q : f[q[i]] >= v}

\* Queue q with t added as WaitAdd does.
Ins(q, f, t) == InsertAt(q, Cardinality({i \in DOMAIN q : f[q[i]] >= f[t]}) + 1, t)

\* A set of naturals that is not empty has a least element.
LEMMA LeastNat ==
    ASSUME NEW T \in SUBSET Nat, T # {}
    PROVE  \E x \in T : \A y \in T : x =< y
<1>1. PICK x \in T : \A y \in T : ~(<<y, x>> \in OpToRel(<, Nat))
  BY NatLessThanWellFounded, WFMin
<1>2. \A y \in T : ~(y < x)
  BY <1>1 DEF OpToRel
<1> QED
  BY <1>2

\* Those who go before a thread are the first so many.
LEMMA AheadIs ==
    ASSUME NEW S, NEW q \in Seq(S), NEW f \in [S -> Int], Down(q, f), NEW v \in Int
    PROVE  \E c \in 0..Len(q) : Ahead(q, f, v) = 1..c /\ Cardinality(Ahead(q, f, v)) = c
<1> DEFINE A == {i \in DOMAIN q : f[q[i]] >= v}
           B == {i \in 1..Len(q) : ~(f[q[i]] >= v)}
<1>1. Len(q) \in Nat /\ DOMAIN q = 1..Len(q) /\ \A i \in 1..Len(q) : f[q[i]] \in Int
  OBVIOUS
<1>2. \E c \in 0..Len(q) : A = 1..c
  <2>1. CASE B = {}
    <3>1. A = 1..Len(q)
      BY <1>1, <2>1
    <3> QED
      BY <1>1, <3>1
  <2>2. CASE B # {}
    <3>0. B \in SUBSET Nat
      BY <1>1
    <3>1. PICK x \in B : \A y \in B : x =< y
      <4> HIDE DEF B
      <4> QED
        BY <2>2, <3>0, LeastNat, Zenon
    <3>2. x \in 1..Len(q) /\ ~(f[q[x]] >= v)
      OBVIOUS
    <3>3. ASSUME NEW i \in 1..Len(q) PROVE f[q[i]] >= v <=> i =< x - 1
      <4>1. CASE i < x
        BY <1>1, <3>1, <3>2, <3>3, <4>1
      <4>2. CASE i = x
        BY <1>1, <3>2, <4>2
      <4>3. CASE x < i
        <5>1. f[q[x]] >= f[q[i]]
          BY <1>1, <3>2, <3>3, <4>3 DEF Down
        <5> QED
          BY <1>1, <3>2, <3>3, <4>3, <5>1
      <4> QED
        BY <1>1, <3>2, <3>3, <4>1, <4>2, <4>3
    <3>4. A = 1..(x - 1) /\ x - 1 \in 0..Len(q)
      BY <1>1, <3>2, <3>3
    <3> QED
      BY <3>4
  <2> QED
    BY <2>1, <2>2
<1>3. PICK c \in 0..Len(q) : A = 1..c
  BY <1>2
<1>4. Cardinality(1..c) = c
  BY <1>1, FS_Interval
<1> QED
  BY <1>3, <1>4 DEF Ahead

\* Ins puts t at place n.
InsertedAt(S, q, f, t, n) ==
    /\ Ins(q, f, t) \in Seq(S) /\ DOMAIN Ins(q, f, t) = 1..(Len(q) + 1)
    /\ \A i \in 1..Len(q) : f[q[i]] >= f[t] <=> i < n
    /\ \A i \in 1..(Len(q) + 1) :
          Ins(q, f, t)[i] = IF i < n THEN q[i] ELSE IF i = n THEN t ELSE q[i - 1]

\* WaitAdd puts a thread behind those of its priority and keeps the queue sorted.
LEMMA InsPositions ==
    ASSUME NEW S, NEW q \in Seq(S), NEW f \in [S -> Int], Down(q, f), NEW t \in S
    PROVE  \E n \in 1..(Len(q) + 1) : InsertedAt(S, q, f, t, n)
<1>1. Len(q) \in Nat /\ DOMAIN q = 1..Len(q) /\ f[t] \in Int
  OBVIOUS
<1>2. PICK c \in 0..Len(q) : Ahead(q, f, f[t]) = 1..c /\ Cardinality(Ahead(q, f, f[t])) = c
  BY <1>1, AheadIs
<1>3. Ins(q, f, t) = InsertAt(q, c + 1, t)
  <2>1. Cardinality({i \in DOMAIN q : f[q[i]] >= f[t]}) = c
    BY <1>2 DEF Ahead
  <2> QED
    BY <2>1 DEF Ins
<1>4. \A i \in 1..Len(q) : f[q[i]] >= f[t] <=> i < c + 1
  BY <1>1, <1>2 DEF Ahead
<1>5. CASE c + 1 =< Len(q)
  <2>1. c + 1 \in 1..Len(q)
    BY <1>1, <1>5
  <2>2. /\ InsertAt(q, c + 1, t) \in Seq(S)
        /\ DOMAIN InsertAt(q, c + 1, t) = 1..(Len(q) + 1)
        /\ \A i \in 1..(Len(q) + 1) :
              InsertAt(q, c + 1, t)[i] = IF i < c + 1 THEN q[i]
                                         ELSE IF i = c + 1 THEN t ELSE q[i - 1]
    <3> DEFINE n == c + 1
               r == InsertAt(q, n, t)
               m == Len(q)
    <3> HIDE DEF n
    <3>1. q \in Seq(S) /\ t \in S /\ n \in 1..Len(q)
      BY <2>1 DEF n
    <3>2. /\ r \in Seq(S) /\ DOMAIN r = 1..(m + 1)
          /\ \A i \in 1..(m + 1) : r[i] = IF i < n THEN q[i] ELSE IF i = n THEN t ELSE q[i - 1]
      BY <3>1, InsertPositions
    <3> QED
      BY <3>2 DEF n
  <2>3. c + 1 \in 1..(Len(q) + 1)
    BY <1>1, <2>1
  <2> QED
    BY <1>3, <1>4, <2>2, <2>3 DEF InsertedAt
<1>6. CASE c = Len(q)
  <2>1. SubSeq(q, 1, c) = q
    BY <1>1, <1>6
  <2>2. SubSeq(q, c + 1, Len(q)) = <<>>
    BY <1>1, <1>6
  <2>3. (c + 1) - 1 = c
    BY <1>1
  <2>4. InsertAt(q, c + 1, t) = (q \o <<t>>) \o <<>>
    <3>1. InsertAt(q, c + 1, t)
             = (SubSeq(q, 1, (c + 1) - 1) \o <<t>>) \o SubSeq(q, c + 1, Len(q))
      BY DEF InsertAt
    <3> QED
      BY <2>1, <2>2, <2>3, <3>1
  <2>5. q \o <<t>> = Append(q, t) /\ Append(q, t) \in Seq(S)
    OBVIOUS
  <2>6. InsertAt(q, c + 1, t) = Append(q, t)
    <3>1. Append(q, t) \o <<>> = Append(q, t)
      BY <2>5
    <3> QED
      BY <2>4, <2>5, <3>1
  <2>7. /\ DOMAIN Append(q, t) = 1..(Len(q) + 1)
        /\ \A i \in 1..(Len(q) + 1) : Append(q, t)[i] = IF i < c + 1 THEN q[i] ELSE t
    BY <1>1, <1>6
  <2>8. \A i \in 1..(Len(q) + 1) : ~(i < c + 1) => i = c + 1
    BY <1>1, <1>6
  <2>9. c + 1 \in 1..(Len(q) + 1)
    BY <1>1, <1>6
  <2> QED
    BY <1>3, <1>4, <2>5, <2>6, <2>7, <2>8, <2>9 DEF InsertedAt
<1>7. c + 1 =< Len(q) \/ c = Len(q)
  <2>1. \A a, b \in Nat : a \in 0..b => a + 1 =< b \/ a = b
    OBVIOUS
  <2>2. c \in Nat
    BY <1>1
  <2> QED
    BY <1>1, <2>1, <2>2
<1> QED
  BY <1>5, <1>6, <1>7

\* Ins puts a thread into a queue that is in the order of the priorities, and keeps
\* the order.
LEMMA InsQueue ==
    ASSUME NEW S, NEW q \in Seq(S), NEW f \in [S -> Int], Down(q, f), NEW t \in S,
           Inj(q), t \notin Range(q)
    PROVE  /\ Ins(q, f, t) \in Seq(S) /\ Inj(Ins(q, f, t)) /\ Down(Ins(q, f, t), f)
           /\ Range(Ins(q, f, t)) = Range(q) \cup {t}
           /\ Len(Ins(q, f, t)) = Len(q) + 1
<1> DEFINE r == Ins(q, f, t)
           L == Len(q)
<1>1. PICK n \in 1..(L + 1) :
         /\ r \in Seq(S) /\ DOMAIN r = 1..(L + 1)
         /\ \A i \in 1..L : f[q[i]] >= f[t] <=> i < n
         /\ \A i \in 1..(L + 1) : r[i] = IF i < n THEN q[i] ELSE IF i = n THEN t ELSE q[i - 1]
  <2>1. PICK n \in 1..(Len(q) + 1) : InsertedAt(S, q, f, t, n)
    BY InsPositions
  <2> QED
    BY <2>1 DEF InsertedAt
<1>2. L \in Nat /\ DOMAIN q = 1..L /\ f[t] \in Int /\ n \in Nat
  OBVIOUS
<1>3. \A i \in 1..L : q[i] \in S /\ f[q[i]] \in Int /\ q[i] # t
  BY <1>2 DEF Range
<1>4. Len(r) = L + 1
  BY <1>1, <1>2
<1> DEFINE g(i) == IF i < n THEN i ELSE i - 1
<1> HIDE DEF r, L
<1>5. ASSUME NEW i \in 1..(L + 1), i # n
      PROVE  /\ g(i) \in 1..L /\ r[i] = q[g(i)] /\ r[i] # t
             /\ (i < n <=> f[r[i]] >= f[t]) /\ f[r[i]] \in Int
  <2>1. CASE i < n
    BY <1>1, <1>2, <1>3, <2>1
  <2>2. CASE i > n
    <3>1. i - 1 \in 1..L /\ ~(i < n) /\ ~(i - 1 < n)
      BY <1>2, <1>5, <2>2
    <3>2. r[i] = q[i - 1]
      BY <1>1, <1>5, <3>1
    <3> QED
      BY <1>1, <1>3, <3>1, <3>2
  <2> QED
    BY <1>2, <1>5, <2>1, <2>2
<1>6. n \in 1..(L + 1) /\ r[n] = t
  BY <1>1, <1>2
<1>7. Inj(r)
  <2> SUFFICES ASSUME NEW i \in 1..(L + 1), NEW j \in 1..(L + 1), r[i] = r[j] PROVE i = j
    BY <1>1 DEF Inj
  <2>1. CASE i = n \/ j = n
    BY <1>5, <1>6, <2>1
  <2>2. CASE i # n /\ j # n
    <3>1. g(i) \in 1..L /\ g(j) \in 1..L /\ q[g(i)] = q[g(j)]
      BY <1>5, <2>2
    <3>2. g(i) = g(j)
      BY <1>2, <3>1 DEF Inj
    <3> QED
      BY <1>2, <2>2, <3>2
  <2> QED
    BY <2>1, <2>2
<1>8. Range(r) = Range(q) \cup {t}
  <2>1. ASSUME NEW x \in Range(r) PROVE x \in Range(q) \cup {t}
    <3>1. PICK i \in 1..(L + 1) : x = r[i]
      BY <1>1, <2>1 DEF Range
    <3> QED
      BY <1>2, <1>5, <1>6, <3>1 DEF Range
  <2>2. t \in Range(r)
    BY <1>1, <1>6 DEF Range
  <2>3. ASSUME NEW x \in Range(q) PROVE x \in Range(r)
    <3>1. PICK i \in 1..L : x = q[i]
      BY <1>2, <2>3 DEF Range
    <3>2. CASE i < n
      <4>1. i \in 1..(L + 1) /\ r[i] = q[i]
        BY <1>1, <1>2, <3>2
      <4> QED
        BY <1>1, <3>1, <4>1 DEF Range
    <3>3. CASE ~(i < n)
      <4>1. i + 1 \in 1..(L + 1) /\ ~(i + 1 < n) /\ i + 1 # n /\ (i + 1) - 1 = i
        BY <1>2, <3>3
      <4>2. r[i + 1] = q[i]
        BY <1>1, <4>1
      <4> QED
        BY <1>1, <3>1, <4>1, <4>2 DEF Range
    <3> QED
      BY <3>2, <3>3
  <2> QED
    BY <2>1, <2>2, <2>3
<1>9. Down(r, f)
  <2> SUFFICES ASSUME NEW i \in 1..(L + 1), NEW j \in 1..(L + 1), i < j
               PROVE  f[r[i]] >= f[r[j]]
    BY <1>1 DEF Down
  <2>1. CASE i = n
    BY <1>2, <1>5, <1>6, <2>1
  <2>2. CASE j = n
    BY <1>2, <1>5, <1>6, <2>2
  <2>3. CASE i # n /\ j # n
    <3>1. g(i) \in 1..L /\ g(j) \in 1..L /\ r[i] = q[g(i)] /\ r[j] = q[g(j)]
      BY <1>5, <2>3
    <3>2. g(i) < g(j)
      BY <1>2, <2>3
    <3> QED
      BY <1>2, <3>1, <3>2 DEF Down
  <2> QED
    BY <2>1, <2>2, <2>3
<1> QED
  BY <1>1, <1>4, <1>7, <1>8, <1>9 DEF r, L

\* Taking a thread off keeps the queue sorted.
LEMMA WithoutDown ==
    ASSUME NEW S, NEW q \in Seq(S), NEW t \in S, t \in Range(q), Inj(q), NEW f, Down(q, f)
    PROVE  Down(Without(q, t), f) /\ Len(Without(q, t)) = Len(q) - 1
           /\ Len(q) \in Nat \ {0}
<1>1. Len(q) \in Nat /\ DOMAIN q = 1..Len(q)
  OBVIOUS
<1>2. PICK n \in 1..Len(q) :
         /\ q[n] = t /\ DOMAIN Without(q, t) = 1..(Len(q) - 1)
         /\ \A i \in 1..(Len(q) - 1) :
               Without(q, t)[i] = IF i < n THEN q[i] ELSE q[i + 1]
  BY WithoutPositions
<1> DEFINE g(i) == IF i < n THEN i ELSE i + 1
           r == Without(q, t)
<1> HIDE DEF r
<1>3. \A i \in 1..(Len(q) - 1) : g(i) \in 1..Len(q) /\ r[i] = q[g(i)]
  BY <1>1, <1>2 DEF r
<1>4. \A i, j \in 1..(Len(q) - 1) : i < j => g(i) < g(j)
  BY <1>1, <1>2
<1>5. Down(r, f)
  <2> SUFFICES ASSUME NEW i \in 1..(Len(q) - 1), NEW j \in 1..(Len(q) - 1), i < j
               PROVE  f[r[i]] >= f[r[j]]
    BY <1>2 DEF Down, r
  <2> QED
    BY <1>1, <1>3, <1>4 DEF Down
<1>6. Len(r) = Len(q) - 1
  <2>1. r \in Seq(S)
    BY WithoutQueue DEF r
  <2>2. DOMAIN r = 1..Len(r) /\ Len(r) \in Nat
    BY <2>1
  <2>3. 1..Len(r) = 1..(Len(q) - 1) /\ Len(q) - 1 \in Nat
    <3>1. DOMAIN r = 1..(Len(q) - 1)
      BY <1>2 DEF r
    <3>2. Len(q) - 1 \in Nat
      BY <1>1, <1>2
    <3> QED
      BY <2>2, <3>1, <3>2
  <2>4. \A a, b \in Nat : 1..a = 1..b => a = b
    <3> SUFFICES ASSUME NEW a \in Nat, NEW b \in Nat, 1..a = 1..b PROVE a = b
      OBVIOUS
    <3>1. a \in 1..a \/ a = 0
      OBVIOUS
    <3>2. b \in 1..b \/ b = 0
      OBVIOUS
    <3> QED
      BY <3>1, <3>2
  <2> QED
    BY <2>2, <2>3, <2>4
<1> QED
  BY <1>1, <1>2, <1>5, <1>6 DEF r

\* Without the head, a queue is its tail.
LEMMA TailIsWithout ==
    ASSUME NEW S, NEW q \in Seq(S), Inj(q), q # <<>>
    PROVE  Without(q, Head(q)) = Tail(q)
<1>1. Len(q) \in Nat \ {0} /\ DOMAIN q = 1..Len(q) /\ Head(q) = q[1] /\ 1 \in DOMAIN q
  OBVIOUS
<1>2. (CHOOSE i \in DOMAIN q : q[i] = Head(q)) = 1
  BY <1>1 DEF Inj
<1>3. Without(q, Head(q)) = SubSeq(q, 1, 0) \o SubSeq(q, 2, Len(q))
  <2>1. Without(q, Head(q)) = RemoveAt(q, 1)
    BY <1>2 DEF Without
  <2>2. RemoveAt(q, 1) = SubSeq(q, 1, 1 - 1) \o SubSeq(q, 1 + 1, Len(q))
    BY DEF RemoveAt
  <2>3. 1 - 1 = 0 /\ 1 + 1 = 2
    OBVIOUS
  <2> QED
    BY <2>1, <2>2, <2>3
<1>4. SubSeq(q, 1, 0) = <<>>
  OBVIOUS
<1>5. SubSeq(q, 2, Len(q)) = Tail(q)
  OBVIOUS
<1> QED
  BY <1>3, <1>4, <1>5

-----------------------------------------------------------------------------
MutexWaits == {"EWaitMutex", "EWaitMutexSuspended", "EHoldMutexPending"}
CondWaits == {"EWaitCondVar", "EWaitCondVarSuspended"}
SemWaits == {"EWaitSemaphore", "EWaitSemaphoreSuspended"}
OnWaitQ == {"EWaitSemaphore", "EWaitMutex", "EWaitCondVar"}
OnSuspQ == {"EWaitSemaphoreSuspended", "EWaitMutexSuspended", "EWaitCondVarSuspended"}
Idle == {"EReady", "EDead"}

\* The M-states of waiting and of suspended waiting, for each kind of object.
LEMMA WaitStates ==
    /\ \A o \in Mutex : WaitState[o] = "EWaitMutex" /\ SuspState[o] = "EWaitMutexSuspended"
    /\ \A o \in Sem : WaitState[o] = "EWaitSemaphore" /\ SuspState[o] = "EWaitSemaphoreSuspended"
    /\ \A o \in Cond : WaitState[o] = "EWaitCondVar" /\ SuspState[o] = "EWaitCondVarSuspended"
    /\ \A o \in Obj : WaitState[o] \in OnWaitQ /\ SuspState[o] \in OnSuspQ
<1>1. Mutex \cap Sem = {} /\ Mutex \cap Cond = {} /\ Sem \cap Cond = {}
  BY SyncAssumption
<1> QED
  BY <1>1 DEF WaitState, SuspState, Obj, OnWaitQ, OnSuspQ

\* The M-states ms, the objects wo waited for and the queues W, S and P: a thread not
\* in X is on exactly the queue that its M-state names; those in X are on none.
QTypes(ms, wo, W, S, P) ==
    /\ ms \in [Thread -> MState] /\ wo \in [Thread -> Obj \cup {Null}]
    /\ W \in [Obj -> Seq(Thread)] /\ S \in [Obj -> Seq(Thread)] /\ P \in [Mutex -> Seq(Thread)]

OnW(ms, wo, W, X) == \A o \in Obj :
    /\ Inj(W[o])
    /\ \A t \in Thread : t \in Range(W[o]) <=> t \notin X /\ wo[t] = o /\ ms[t] = WaitState[o]
OnS(ms, wo, S, X) == \A o \in Obj :
    /\ Inj(S[o])
    /\ \A t \in Thread : t \in Range(S[o]) <=> t \notin X /\ wo[t] = o /\ ms[t] = SuspState[o]
OnP(ms, wo, P, X) == \A m \in Mutex :
    /\ Inj(P[m])
    /\ \A t \in Thread : t \in Range(P[m]) <=> t \notin X /\ wo[t] = m /\ ms[t] = "EHoldMutexPending"

Placed(ms, wo, W, S, P, X) ==
    QTypes(ms, wo, W, S, P) /\ OnW(ms, wo, W, X) /\ OnS(ms, wo, S, X) /\ OnP(ms, wo, P, X)

\* Only t differs.
But(f, g, t) == \A u \in Thread : u # t => g[u] = f[u]

\* A thread taken off a wait queue is in flux.
LEMMA OffWait ==
    ASSUME NEW ms, NEW wo, NEW W, NEW S, NEW P, NEW X, Placed(ms, wo, W, S, P, X),
           NEW o \in Obj, NEW t \in Thread, t \in Range(W[o])
    PROVE  Placed(ms, wo, [W EXCEPT ![o] = Without(W[o], t)], S, P, X \cup {t})
<1> DEFINE W2 == [W EXCEPT ![o] = Without(W[o], t)]
<1>1. QTypes(ms, wo, W, S, P) /\ OnW(ms, wo, W, X) /\ OnS(ms, wo, S, X) /\ OnP(ms, wo, P, X)
  BY DEF Placed
<1>2. t \notin X /\ wo[t] = o /\ ms[t] = WaitState[o]
  BY <1>1 DEF OnW
<1>3. W[o] \in Seq(Thread) /\ Inj(W[o])
  BY <1>1 DEF QTypes, OnW
<1>4. /\ Without(W[o], t) \in Seq(Thread) /\ Inj(Without(W[o], t))
      /\ Range(Without(W[o], t)) = Range(W[o]) \ {t}
  BY <1>3, WithoutQueue
<1>5. QTypes(ms, wo, W2, S, P)
  BY <1>1, <1>4 DEF QTypes
<1>6. OnW(ms, wo, W2, X \cup {t})
  <2> SUFFICES ASSUME NEW x \in Obj
               PROVE  /\ Inj(W2[x])
                      /\ \A u \in Thread : u \in Range(W2[x]) <=> u \notin X \cup {t} /\ wo[u] = x /\ ms[u] = WaitState[x]
    BY DEF OnW
  <2>2. /\ Inj(W[x])
        /\ \A u \in Thread : u \in Range(W[x]) <=> u \notin X /\ wo[u] = x /\ ms[u] = WaitState[x]
    BY <1>1 DEF OnW
  <2>3. CASE x = o
    <3>1. W2[x] = Without(W[o], t)
      BY <1>1, <2>3 DEF QTypes
    <3> QED
      BY <1>4, <2>2, <2>3, <3>1
  <2>4. CASE x # o
    <3>1. W2[x] = W[x]
      BY <1>1, <2>4 DEF QTypes
    <3> QED
      BY <1>2, <2>2, <2>4, <3>1
  <2> QED
    BY <2>3, <2>4
<1>7. OnS(ms, wo, S, X \cup {t})
  BY <1>1, <1>2, WaitStates, SyncAssumption DEF OnS, OnWaitQ, OnSuspQ
<1>8. OnP(ms, wo, P, X \cup {t})
  BY <1>1, <1>2, WaitStates, SyncAssumption DEF OnP, OnWaitQ
<1> QED
  BY <1>5, <1>6, <1>7, <1>8 DEF Placed

\* The same for a suspended queue.
LEMMA OffSusp ==
    ASSUME NEW ms, NEW wo, NEW W, NEW S, NEW P, NEW X, Placed(ms, wo, W, S, P, X),
           NEW o \in Obj, NEW t \in Thread, t \in Range(S[o])
    PROVE  Placed(ms, wo, W, [S EXCEPT ![o] = Without(S[o], t)], P, X \cup {t})
<1> DEFINE S2 == [S EXCEPT ![o] = Without(S[o], t)]
<1>1. QTypes(ms, wo, W, S, P) /\ OnW(ms, wo, W, X) /\ OnS(ms, wo, S, X) /\ OnP(ms, wo, P, X)
  BY DEF Placed
<1>2. t \notin X /\ wo[t] = o /\ ms[t] = SuspState[o]
  BY <1>1 DEF OnS
<1>3. S[o] \in Seq(Thread) /\ Inj(S[o])
  BY <1>1 DEF QTypes, OnS
<1>4. /\ Without(S[o], t) \in Seq(Thread) /\ Inj(Without(S[o], t))
      /\ Range(Without(S[o], t)) = Range(S[o]) \ {t}
  BY <1>3, WithoutQueue
<1>5. QTypes(ms, wo, W, S2, P)
  BY <1>1, <1>4 DEF QTypes
<1>6. OnS(ms, wo, S2, X \cup {t})
  <2> SUFFICES ASSUME NEW x \in Obj
               PROVE  /\ Inj(S2[x])
                      /\ \A u \in Thread : u \in Range(S2[x]) <=> u \notin X \cup {t} /\ wo[u] = x /\ ms[u] = SuspState[x]
    BY DEF OnS
  <2>2. /\ Inj(S[x])
        /\ \A u \in Thread : u \in Range(S[x]) <=> u \notin X /\ wo[u] = x /\ ms[u] = SuspState[x]
    BY <1>1 DEF OnS
  <2>3. CASE x = o
    <3>1. S2[x] = Without(S[o], t)
      BY <1>1, <2>3 DEF QTypes
    <3> QED
      BY <1>4, <2>2, <2>3, <3>1
  <2>4. CASE x # o
    <3>1. S2[x] = S[x]
      BY <1>1, <2>4 DEF QTypes
    <3> QED
      BY <1>2, <2>2, <2>4, <3>1
  <2> QED
    BY <2>3, <2>4
<1>7. OnW(ms, wo, W, X \cup {t})
  BY <1>1, <1>2, WaitStates, SyncAssumption DEF OnW, OnWaitQ, OnSuspQ
<1>8. OnP(ms, wo, P, X \cup {t})
  BY <1>1, <1>2, WaitStates, SyncAssumption DEF OnP, OnSuspQ
<1> QED
  BY <1>5, <1>6, <1>7, <1>8 DEF Placed

\* The same for a pending queue.
LEMMA OffPend ==
    ASSUME NEW ms, NEW wo, NEW W, NEW S, NEW P, NEW X, Placed(ms, wo, W, S, P, X),
           NEW m \in Mutex, NEW t \in Thread, t \in Range(P[m])
    PROVE  Placed(ms, wo, W, S, [P EXCEPT ![m] = Without(P[m], t)], X \cup {t})
<1> DEFINE P2 == [P EXCEPT ![m] = Without(P[m], t)]
<1>1. QTypes(ms, wo, W, S, P) /\ OnW(ms, wo, W, X) /\ OnS(ms, wo, S, X) /\ OnP(ms, wo, P, X)
  BY DEF Placed
<1>2. t \notin X /\ wo[t] = m /\ ms[t] = "EHoldMutexPending"
  BY <1>1 DEF OnP
<1>3. P[m] \in Seq(Thread) /\ Inj(P[m])
  BY <1>1 DEF QTypes, OnP
<1>4. /\ Without(P[m], t) \in Seq(Thread) /\ Inj(Without(P[m], t))
      /\ Range(Without(P[m], t)) = Range(P[m]) \ {t}
  BY <1>3, WithoutQueue
<1>5. QTypes(ms, wo, W, S, P2)
  BY <1>1, <1>4 DEF QTypes
<1>6. OnP(ms, wo, P2, X \cup {t})
  <2> SUFFICES ASSUME NEW x \in Mutex
               PROVE  /\ Inj(P2[x])
                      /\ \A u \in Thread : u \in Range(P2[x])
                            <=> u \notin X \cup {t} /\ wo[u] = x /\ ms[u] = "EHoldMutexPending"
    BY DEF OnP
  <2>2. /\ Inj(P[x])
        /\ \A u \in Thread : u \in Range(P[x]) <=> u \notin X /\ wo[u] = x /\ ms[u] = "EHoldMutexPending"
    BY <1>1 DEF OnP
  <2>3. CASE x = m
    <3>1. P2[x] = Without(P[m], t)
      BY <1>1, <2>3 DEF QTypes
    <3> QED
      BY <1>4, <2>2, <2>3, <3>1
  <2>4. CASE x # m
    <3>1. P2[x] = P[x]
      BY <1>1, <2>4 DEF QTypes
    <3> QED
      BY <1>2, <2>2, <2>4, <3>1
  <2> QED
    BY <2>3, <2>4
<1>7. OnW(ms, wo, W, X \cup {t})
  BY <1>1, <1>2, WaitStates, SyncAssumption DEF OnW, OnWaitQ
<1>8. OnS(ms, wo, S, X \cup {t})
  BY <1>1, <1>2, WaitStates, SyncAssumption DEF OnS, OnSuspQ
<1> QED
  BY <1>5, <1>6, <1>7, <1>8 DEF Placed

\* t, which is on no queue, is put on one.
LEMMA OnWait ==
    ASSUME NEW ms, NEW wo, NEW W, NEW S, NEW P, NEW t \in Thread, NEW X,
           t \notin X, Placed(ms, wo, W, S, P, X \cup {t}),
           NEW ms2 \in [Thread -> MState], NEW wo2 \in [Thread -> Obj \cup {Null}],
           But(ms, ms2, t), But(wo, wo2, t), NEW o \in Obj, ms2[t] = WaitState[o], wo2[t] = o,
           NEW q \in Seq(Thread), Inj(q), Range(q) = Range(W[o]) \cup {t}
    PROVE  Placed(ms2, wo2, [W EXCEPT ![o] = q], S, P, X)
<1> DEFINE W2 == [W EXCEPT ![o] = q]
<1>1. /\ QTypes(ms, wo, W, S, P) /\ OnW(ms, wo, W, X \cup {t})
      /\ OnS(ms, wo, S, X \cup {t}) /\ OnP(ms, wo, P, X \cup {t})
  BY DEF Placed
<1>3. QTypes(ms2, wo2, W2, S, P)
  BY <1>1 DEF QTypes
<1>4. OnW(ms2, wo2, W2, X)
  <2> SUFFICES ASSUME NEW x \in Obj
               PROVE  /\ Inj(W2[x])
                      /\ \A u \in Thread : u \in Range(W2[x]) <=> u \notin X /\ wo2[u] = x /\ ms2[u] = WaitState[x]
    BY DEF OnW
  <2>2. /\ Inj(W[x])
        /\ \A u \in Thread : u \in Range(W[x]) <=> u \notin X \cup {t} /\ wo[u] = x /\ ms[u] = WaitState[x]
    BY <1>1 DEF OnW
  <2>3. CASE x = o
    <3>1. W2[x] = q
      BY <1>1, <2>3 DEF QTypes
    <3> QED
      BY <2>2, <2>3, <3>1 DEF But
  <2>4. CASE x # o
    <3>1. W2[x] = W[x]
      BY <1>1, <2>4 DEF QTypes
    <3> QED
      BY <2>2, <2>4, <3>1 DEF But
  <2> QED
    BY <2>3, <2>4
<1>5. ms2[t] \in OnWaitQ
  BY WaitStates
<1>6. OnS(ms2, wo2, S, X)
  BY <1>1, <1>5, WaitStates DEF OnS, But, OnWaitQ, OnSuspQ
<1>7. OnP(ms2, wo2, P, X)
  BY <1>1, <1>5 DEF OnP, But, OnWaitQ
<1> QED
  BY <1>3, <1>4, <1>6, <1>7 DEF Placed

\* A thread in flux is put on a suspended queue, with the M-state and the object of
\* that queue.
LEMMA OnSusp ==
    ASSUME NEW ms, NEW wo, NEW W, NEW S, NEW P, NEW t \in Thread, NEW X,
           t \notin X, Placed(ms, wo, W, S, P, X \cup {t}),
           NEW ms2 \in [Thread -> MState], NEW wo2 \in [Thread -> Obj \cup {Null}],
           But(ms, ms2, t), But(wo, wo2, t), NEW o \in Obj, ms2[t] = SuspState[o], wo2[t] = o
    PROVE  Placed(ms2, wo2, W, [S EXCEPT ![o] = Append(S[o], t)], P, X)
<1> DEFINE S2 == [S EXCEPT ![o] = Append(S[o], t)]
<1>1. /\ QTypes(ms, wo, W, S, P) /\ OnW(ms, wo, W, X \cup {t})
      /\ OnS(ms, wo, S, X \cup {t}) /\ OnP(ms, wo, P, X \cup {t})
  BY DEF Placed
<1>8. S[o] \in Seq(Thread) /\ Inj(S[o]) /\ t \notin Range(S[o])
  BY <1>1 DEF QTypes, OnS
<1>9. /\ Append(S[o], t) \in Seq(Thread) /\ Inj(Append(S[o], t))
      /\ Range(Append(S[o], t)) = Range(S[o]) \cup {t}
  BY <1>8, AppendQueue
<1>3. QTypes(ms2, wo2, W, S2, P)
  BY <1>1, <1>9 DEF QTypes
<1>4. OnS(ms2, wo2, S2, X)
  <2> SUFFICES ASSUME NEW x \in Obj
               PROVE  /\ Inj(S2[x])
                      /\ \A u \in Thread : u \in Range(S2[x]) <=> u \notin X /\ wo2[u] = x /\ ms2[u] = SuspState[x]
    BY DEF OnS
  <2>2. /\ Inj(S[x])
        /\ \A u \in Thread : u \in Range(S[x]) <=> u \notin X \cup {t} /\ wo[u] = x /\ ms[u] = SuspState[x]
    BY <1>1 DEF OnS
  <2>3. CASE x = o
    <3>1. S2[x] = Append(S[o], t)
      BY <1>1, <2>3 DEF QTypes
    <3> QED
      BY <1>9, <2>2, <2>3, <3>1 DEF But
  <2>4. CASE x # o
    <3>1. S2[x] = S[x]
      BY <1>1, <2>4 DEF QTypes
    <3> QED
      BY <2>2, <2>4, <3>1 DEF But
  <2> QED
    BY <2>3, <2>4
<1>5. ms2[t] \in OnSuspQ
  BY WaitStates
<1>6. OnW(ms2, wo2, W, X)
  BY <1>1, <1>5, WaitStates DEF OnW, But, OnWaitQ, OnSuspQ
<1>7. OnP(ms2, wo2, P, X)
  BY <1>1, <1>5 DEF OnP, But, OnSuspQ
<1> QED
  BY <1>3, <1>4, <1>6, <1>7 DEF Placed

\* The same for the pending queue of a mutex.
LEMMA OnPend ==
    ASSUME NEW ms, NEW wo, NEW W, NEW S, NEW P, NEW t \in Thread, NEW X,
           t \notin X, Placed(ms, wo, W, S, P, X \cup {t}),
           NEW ms2 \in [Thread -> MState], NEW wo2 \in [Thread -> Obj \cup {Null}],
           But(ms, ms2, t), But(wo, wo2, t), NEW m \in Mutex,
           ms2[t] = "EHoldMutexPending", wo2[t] = m
    PROVE  Placed(ms2, wo2, W, S, [P EXCEPT ![m] = Append(P[m], t)], X)
<1> DEFINE P2 == [P EXCEPT ![m] = Append(P[m], t)]
<1>1. /\ QTypes(ms, wo, W, S, P) /\ OnW(ms, wo, W, X \cup {t})
      /\ OnS(ms, wo, S, X \cup {t}) /\ OnP(ms, wo, P, X \cup {t})
  BY DEF Placed
<1>8. P[m] \in Seq(Thread) /\ Inj(P[m]) /\ t \notin Range(P[m])
  BY <1>1 DEF QTypes, OnP
<1>9. /\ Append(P[m], t) \in Seq(Thread) /\ Inj(Append(P[m], t))
      /\ Range(Append(P[m], t)) = Range(P[m]) \cup {t}
  BY <1>8, AppendQueue
<1>3. QTypes(ms2, wo2, W, S, P2)
  BY <1>1, <1>9 DEF QTypes
<1>4. OnP(ms2, wo2, P2, X)
  <2> SUFFICES ASSUME NEW x \in Mutex
               PROVE  /\ Inj(P2[x])
                      /\ \A u \in Thread : u \in Range(P2[x])
                            <=> u \notin X /\ wo2[u] = x /\ ms2[u] = "EHoldMutexPending"
    BY DEF OnP
  <2>2. /\ Inj(P[x])
        /\ \A u \in Thread : u \in Range(P[x]) <=> u \notin X \cup {t} /\ wo[u] = x /\ ms[u] = "EHoldMutexPending"
    BY <1>1 DEF OnP
  <2>3. CASE x = m
    <3>1. P2[x] = Append(P[m], t)
      BY <1>1, <2>3 DEF QTypes
    <3> QED
      BY <1>9, <2>2, <2>3, <3>1 DEF But
  <2>4. CASE x # m
    <3>1. P2[x] = P[x]
      BY <1>1, <2>4 DEF QTypes
    <3> QED
      BY <2>2, <2>4, <3>1 DEF But
  <2> QED
    BY <2>3, <2>4
<1>6. OnW(ms2, wo2, W, X)
  BY <1>1, WaitStates DEF OnW, But, OnWaitQ
<1>7. OnS(ms2, wo2, S, X)
  BY <1>1, WaitStates DEF OnS, But, OnSuspQ
<1> QED
  BY <1>3, <1>4, <1>6, <1>7 DEF Placed

\* t no longer waits.
LEMMA OnNone ==
    ASSUME NEW ms, NEW wo, NEW W, NEW S, NEW P, NEW t \in Thread, NEW X,
           t \notin X, Placed(ms, wo, W, S, P, X \cup {t}),
           NEW ms2 \in [Thread -> MState], NEW wo2 \in [Thread -> Obj \cup {Null}],
           But(ms, ms2, t), But(wo, wo2, t), ms2[t] \in Idle
    PROVE  Placed(ms2, wo2, W, S, P, X)
<1>1. /\ QTypes(ms, wo, W, S, P) /\ OnW(ms, wo, W, X \cup {t})
      /\ OnS(ms, wo, S, X \cup {t}) /\ OnP(ms, wo, P, X \cup {t})
  BY DEF Placed
<1>3. QTypes(ms2, wo2, W, S, P)
  BY <1>1 DEF QTypes
<1>4. OnW(ms2, wo2, W, X)
  BY <1>1, WaitStates DEF OnW, But, OnWaitQ, Idle
<1>5. OnS(ms2, wo2, S, X)
  BY <1>1, WaitStates DEF OnS, But, OnSuspQ, Idle
<1>6. OnP(ms2, wo2, P, X)
  BY <1>1 DEF OnP, But, Idle
<1> QED
  BY <1>3, <1>4, <1>5, <1>6 DEF Placed

\* A thread on no queue may be in any M-state;
LEMMA FluxAny ==
    ASSUME NEW ms, NEW wo, NEW W, NEW S, NEW P, NEW t \in Thread, NEW X,
           t \in X, Placed(ms, wo, W, S, P, X),
           NEW ms2 \in [Thread -> MState], NEW wo2 \in [Thread -> Obj \cup {Null}],
           But(ms, ms2, t), But(wo, wo2, t)
    PROVE  Placed(ms2, wo2, W, S, P, X)
<1>1. QTypes(ms, wo, W, S, P) /\ OnW(ms, wo, W, X) /\ OnS(ms, wo, S, X) /\ OnP(ms, wo, P, X)
  BY DEF Placed
<1>3. QTypes(ms2, wo2, W, S, P)
  BY <1>1 DEF QTypes
<1>4. OnW(ms2, wo2, W, X)
  BY <1>1 DEF OnW, But
<1>5. OnS(ms2, wo2, S, X)
  BY <1>1 DEF OnS, But
<1>6. OnP(ms2, wo2, P, X)
  BY <1>1 DEF OnP, But
<1> QED
  BY <1>3, <1>4, <1>5, <1>6 DEF Placed

\* a thread that does not wait is on none.
LEMMA NoneFlux ==
    ASSUME NEW ms, NEW wo, NEW W, NEW S, NEW P, NEW X, Placed(ms, wo, W, S, P, X),
           NEW t \in Thread, ms[t] \in Idle
    PROVE  Placed(ms, wo, W, S, P, X \cup {t})
<1>1. QTypes(ms, wo, W, S, P) /\ OnW(ms, wo, W, X) /\ OnS(ms, wo, S, X) /\ OnP(ms, wo, P, X)
  BY DEF Placed
<1>4. OnW(ms, wo, W, X \cup {t})
  BY <1>1, WaitStates DEF OnW, OnWaitQ, Idle
<1>5. OnS(ms, wo, S, X \cup {t})
  BY <1>1, WaitStates DEF OnS, OnSuspQ, Idle
<1>6. OnP(ms, wo, P, X \cup {t})
  BY <1>1 DEF OnP, Idle
<1> QED
  BY <1>1, <1>4, <1>5, <1>6 DEF Placed

\* Priorities are integers from 1 to 63.
LEMMA PriNat == Pri \subseteq Int /\ \A p \in Pri : p \in 1..63
<1>1. Pri \subseteq 1..63
  BY SyncAssumption DEF KNumPriorities
<1> QED
  BY <1>1

\* The queues with the priorities pri: those in W are sorted.
QS(ms, wo, W, S, P, pri, X) ==
    /\ Placed(ms, wo, W, S, P, X)
    /\ pri \in [Thread -> Pri]
    /\ \A o \in Obj : Down(W[o], pri)

\* Types that the queues' invariant gives.
LEMMA QTyped ==
    ASSUME NEW ms, NEW wo, NEW W, NEW S, NEW P, NEW pri, NEW X, QS(ms, wo, W, S, P, pri, X)
    PROVE  /\ ms \in [Thread -> MState] /\ wo \in [Thread -> Obj \cup {Null}]
           /\ W \in [Obj -> Seq(Thread)] /\ S \in [Obj -> Seq(Thread)]
           /\ P \in [Mutex -> Seq(Thread)] /\ pri \in [Thread -> Pri]
           /\ pri \in [Thread -> Int]
BY PriNat DEF QS, Placed, QTypes

\* The queue a thread is on is told by its M-state and the object it waits for.
LEMMA QWhere ==
    ASSUME NEW ms, NEW wo, NEW W, NEW S, NEW P, NEW pri, NEW X, QS(ms, wo, W, S, P, pri, X),
           NEW o \in Obj, NEW t \in Thread
    PROVE  /\ t \in Range(W[o]) <=> t \notin X /\ wo[t] = o /\ ms[t] = WaitState[o]
           /\ t \in Range(S[o]) <=> t \notin X /\ wo[t] = o /\ ms[t] = SuspState[o]
           /\ o \in Mutex =>
                 (t \in Range(P[o]) <=> t \notin X /\ wo[t] = o /\ ms[t] = "EHoldMutexPending")
           /\ Inj(W[o]) /\ Inj(S[o]) /\ (o \in Mutex => Inj(P[o])) /\ Down(W[o], pri)
<1>1. OnW(ms, wo, W, X) /\ OnS(ms, wo, S, X) /\ OnP(ms, wo, P, X) /\ \A x \in Obj : Down(W[x], pri)
  BY DEF QS, Placed
<1> QED
  BY <1>1 DEF OnW, OnS, OnP

\* The first of a queue.
LEMMA QHead ==
    ASSUME NEW ms, NEW wo, NEW W, NEW S, NEW P, NEW pri, NEW X, QS(ms, wo, W, S, P, pri, X),
           NEW o \in Obj
    PROVE  /\ Len(W[o]) \in Nat /\ Len(S[o]) \in Nat
           /\ W[o] # <<>> => /\ Head(W[o]) \in Thread /\ Head(W[o]) \in Range(W[o])
                             /\ \A u \in Range(W[o]) : pri[Head(W[o])] >= pri[u]
           /\ S[o] # <<>> => /\ Head(S[o]) \in Thread /\ Head(S[o]) \in Range(S[o])
                             /\ Tail(S[o]) = Without(S[o], Head(S[o]))
           /\ o \in Mutex /\ P[o] # <<>> =>
                 /\ Head(P[o]) \in Thread /\ Head(P[o]) \in Range(P[o])
                 /\ Tail(P[o]) = Without(P[o], Head(P[o]))
<1>1. /\ W[o] \in Seq(Thread) /\ S[o] \in Seq(Thread) /\ (o \in Mutex => P[o] \in Seq(Thread))
      /\ pri \in [Thread -> Int]
  BY QTyped
<1>2. Inj(W[o]) /\ Inj(S[o]) /\ (o \in Mutex => Inj(P[o])) /\ Down(W[o], pri)
  <2>1. OnW(ms, wo, W, X) /\ OnS(ms, wo, S, X) /\ OnP(ms, wo, P, X) /\ Down(W[o], pri)
    BY DEF QS, Placed
  <2> QED
    BY <2>1 DEF OnW, OnS, OnP
<1>3. ASSUME W[o] # <<>>
      PROVE  /\ Head(W[o]) \in Thread /\ Head(W[o]) \in Range(W[o])
             /\ \A u \in Range(W[o]) : pri[Head(W[o])] >= pri[u]
  <2>1. Head(W[o]) \in Thread /\ Head(W[o]) \in Range(W[o])
    BY <1>1, <1>2, <1>3, TailQueue
  <2>2. ASSUME NEW u \in Range(W[o]) PROVE pri[Head(W[o])] >= pri[u]
    <3>1. 1 \in DOMAIN W[o] /\ Head(W[o]) = W[o][1] /\ DOMAIN W[o] = 1..Len(W[o])
      BY <1>1, <1>3
    <3>2. PICK i \in DOMAIN W[o] : u = W[o][i]
      BY <2>2 DEF Range
    <3>3. i \in Nat /\ (1 < i \/ i = 1)
      BY <1>1, <3>1
    <3>4. pri[W[o][1]] \in Int
      BY <1>1, <3>1
    <3> QED
      BY <1>2, <3>1, <3>2, <3>3, <3>4 DEF Down
  <2> QED
    BY <2>1, <2>2
<1>4. ASSUME S[o] # <<>>
      PROVE  /\ Head(S[o]) \in Thread /\ Head(S[o]) \in Range(S[o])
             /\ Tail(S[o]) = Without(S[o], Head(S[o]))
  <2>1. Head(S[o]) \in Thread /\ Head(S[o]) \in Range(S[o])
    BY <1>1, <1>2, <1>4, TailQueue
  <2>2. Tail(S[o]) = Without(S[o], Head(S[o]))
    BY <1>1, <1>2, <1>4, TailIsWithout
  <2> QED
    BY <2>1, <2>2
<1>5. ASSUME o \in Mutex, P[o] # <<>>
      PROVE  /\ Head(P[o]) \in Thread /\ Head(P[o]) \in Range(P[o])
             /\ Tail(P[o]) = Without(P[o], Head(P[o]))
  <2>1. Head(P[o]) \in Thread /\ Head(P[o]) \in Range(P[o])
    BY <1>1, <1>2, <1>5, TailQueue
  <2>2. Tail(P[o]) = Without(P[o], Head(P[o]))
    BY <1>1, <1>2, <1>5, TailIsWithout
  <2> QED
    BY <2>1, <2>2
<1>6. Len(W[o]) \in Nat /\ Len(S[o]) \in Nat
  BY <1>1
<1> QED
  BY <1>3, <1>4, <1>5, <1>6

\* A thread is taken off its queue.
LEMMA QOffWait ==
    ASSUME NEW ms, NEW wo, NEW W, NEW S, NEW P, NEW pri, NEW X, QS(ms, wo, W, S, P, pri, X),
           NEW o \in Obj, NEW t \in Thread, t \in Range(W[o])
    PROVE  /\ QS(ms, wo, [W EXCEPT ![o] = Without(W[o], t)], S, P, pri, X \cup {t})
           /\ t \notin X /\ wo[t] = o /\ ms[t] = WaitState[o]
           /\ Len(W[o]) \in Nat \ {0} /\ Len(Without(W[o], t)) = Len(W[o]) - 1
<1>1. Placed(ms, wo, W, S, P, X) /\ W \in [Obj -> Seq(Thread)]
  BY QTyped DEF QS
<1>2. W[o] \in Seq(Thread) /\ Inj(W[o]) /\ Down(W[o], pri)
  BY <1>1, QWhere
<1>3. Placed(ms, wo, [W EXCEPT ![o] = Without(W[o], t)], S, P, X \cup {t})
  BY <1>1, OffWait
<1>4. /\ Down(Without(W[o], t), pri) /\ Len(Without(W[o], t)) = Len(W[o]) - 1
      /\ Len(W[o]) \in Nat \ {0}
  BY <1>2, WithoutDown
<1>5. \A x \in Obj : Down([W EXCEPT ![o] = Without(W[o], t)][x], pri)
  <2>1. \A x \in Obj : Down(W[x], pri)
    BY DEF QS
  <2> QED
    BY <1>1, <1>4, <2>1
<1>6. t \notin X /\ wo[t] = o /\ ms[t] = WaitState[o]
  BY QWhere
<1> QED
  BY <1>3, <1>4, <1>5, <1>6 DEF QS

\* A suspended thread taken off its queue.
LEMMA QOffSusp ==
    ASSUME NEW ms, NEW wo, NEW W, NEW S, NEW P, NEW pri, NEW X, QS(ms, wo, W, S, P, pri, X),
           NEW o \in Obj, NEW t \in Thread, t \in Range(S[o])
    PROVE  /\ QS(ms, wo, W, [S EXCEPT ![o] = Without(S[o], t)], P, pri, X \cup {t})
           /\ t \notin X /\ wo[t] = o /\ ms[t] = SuspState[o]
           /\ Len(S[o]) \in Nat \ {0} /\ Len(Without(S[o], t)) = Len(S[o]) - 1
<1>1. Placed(ms, wo, W, S, P, X) /\ S \in [Obj -> Seq(Thread)]
  BY QTyped DEF QS
<1>2. S[o] \in Seq(Thread) /\ Inj(S[o])
  BY <1>1, QWhere
<1>3. Placed(ms, wo, W, [S EXCEPT ![o] = Without(S[o], t)], P, X \cup {t})
  BY <1>1, OffSusp
<1>4. Len(Without(S[o], t)) = Len(S[o]) - 1 /\ Len(S[o]) \in Nat \ {0}
  <2> DEFINE f == [u \in Thread |-> 0]
  <2>1. Down(S[o], f)
    BY <1>2 DEF Down
  <2> HIDE DEF f
  <2> QED
    BY <1>2, <2>1, WithoutDown
<1>6. t \notin X /\ wo[t] = o /\ ms[t] = SuspState[o]
  BY QWhere
<1> QED
  BY <1>3, <1>4, <1>6 DEF QS

\* A thread with a mutex on offer taken off the pending queue.
LEMMA QOffPend ==
    ASSUME NEW ms, NEW wo, NEW W, NEW S, NEW P, NEW pri, NEW X, QS(ms, wo, W, S, P, pri, X),
           NEW m \in Mutex, NEW t \in Thread, t \in Range(P[m])
    PROVE  /\ QS(ms, wo, W, S, [P EXCEPT ![m] = Without(P[m], t)], pri, X \cup {t})
           /\ t \notin X /\ wo[t] = m /\ ms[t] = "EHoldMutexPending"
<1>1. Placed(ms, wo, W, S, P, X)
  BY DEF QS
<1>3. Placed(ms, wo, W, S, [P EXCEPT ![m] = Without(P[m], t)], X \cup {t})
  BY <1>1, OffPend
<1>6. t \notin X /\ wo[t] = m /\ ms[t] = "EHoldMutexPending"
  BY QWhere DEF Obj
<1> QED
  BY <1>3, <1>6 DEF QS

\* A thread that is on no queue is put on one.
LEMMA QOnWait ==
    ASSUME NEW ms, NEW wo, NEW W, NEW S, NEW P, NEW pri, NEW X, NEW t \in Thread, t \notin X,
           QS(ms, wo, W, S, P, pri, X \cup {t}),
           NEW ms2 \in [Thread -> MState], NEW wo2 \in [Thread -> Obj \cup {Null}],
           But(ms, ms2, t), But(wo, wo2, t), NEW o \in Obj, ms2[t] = WaitState[o], wo2[t] = o
    PROVE  /\ QS(ms2, wo2, [W EXCEPT ![o] = Ins(W[o], pri, t)], S, P, pri, X)
           /\ Len(Ins(W[o], pri, t)) = Len(W[o]) + 1
           /\ Range(Ins(W[o], pri, t)) = Range(W[o]) \cup {t}
           /\ Ins(W[o], pri, t) \in Seq(Thread)
<1> DEFINE q == Ins(W[o], pri, t)
<1>1. Placed(ms, wo, W, S, P, X \cup {t}) /\ W \in [Obj -> Seq(Thread)]
  BY QTyped DEF QS
<1>2. W[o] \in Seq(Thread) /\ Inj(W[o]) /\ Down(W[o], pri) /\ t \notin Range(W[o])
  BY <1>1, QWhere
<1>3. pri \in [Thread -> Int]
  BY QTyped
<1>4. /\ q \in Seq(Thread) /\ Inj(q) /\ Down(q, pri)
      /\ Range(q) = Range(W[o]) \cup {t} /\ Len(q) = Len(W[o]) + 1
  BY <1>2, <1>3, InsQueue
<1> HIDE DEF q
<1>5. Placed(ms2, wo2, [W EXCEPT ![o] = q], S, P, X)
  BY <1>1, <1>4, OnWait
<1>6. \A x \in Obj : Down([W EXCEPT ![o] = q][x], pri)
  <2>1. \A x \in Obj : Down(W[x], pri)
    BY DEF QS
  <2> QED
    BY <1>1, <1>4, <2>1
<1> QED
  BY <1>4, <1>5, <1>6 DEF QS, q

\* A thread in flux suspended on an object.
LEMMA QOnSusp ==
    ASSUME NEW ms, NEW wo, NEW W, NEW S, NEW P, NEW pri, NEW X, NEW t \in Thread, t \notin X,
           QS(ms, wo, W, S, P, pri, X \cup {t}),
           NEW ms2 \in [Thread -> MState], NEW wo2 \in [Thread -> Obj \cup {Null}],
           But(ms, ms2, t), But(wo, wo2, t), NEW o \in Obj, ms2[t] = SuspState[o], wo2[t] = o
    PROVE  /\ QS(ms2, wo2, W, [S EXCEPT ![o] = Append(S[o], t)], P, pri, X)
           /\ Len(Append(S[o], t)) = Len(S[o]) + 1
<1>1. Placed(ms, wo, W, S, P, X \cup {t}) /\ S \in [Obj -> Seq(Thread)]
  BY QTyped DEF QS
<1>2. Placed(ms2, wo2, W, [S EXCEPT ![o] = Append(S[o], t)], P, X)
  BY <1>1, OnSusp
<1>3. Len(Append(S[o], t)) = Len(S[o]) + 1
  <2>1. S[o] \in Seq(Thread)
    BY <1>1
  <2> QED
    BY <2>1
<1> QED
  BY <1>2, <1>3 DEF QS

\* A thread in flux offered a mutex.
LEMMA QOnPend ==
    ASSUME NEW ms, NEW wo, NEW W, NEW S, NEW P, NEW pri, NEW X, NEW t \in Thread, t \notin X,
           QS(ms, wo, W, S, P, pri, X \cup {t}),
           NEW ms2 \in [Thread -> MState], NEW wo2 \in [Thread -> Obj \cup {Null}],
           But(ms, ms2, t), But(wo, wo2, t), NEW m \in Mutex,
           ms2[t] = "EHoldMutexPending", wo2[t] = m
    PROVE  QS(ms2, wo2, W, S, [P EXCEPT ![m] = Append(P[m], t)], pri, X)
<1>1. Placed(ms, wo, W, S, P, X \cup {t})
  BY DEF QS
<1>2. Placed(ms2, wo2, W, S, [P EXCEPT ![m] = Append(P[m], t)], X)
  BY <1>1, OnPend
<1> QED
  BY <1>2 DEF QS

\* A thread in flux that ends up on no queue.
LEMMA QOnNone ==
    ASSUME NEW ms, NEW wo, NEW W, NEW S, NEW P, NEW pri, NEW X, NEW t \in Thread, t \notin X,
           QS(ms, wo, W, S, P, pri, X \cup {t}),
           NEW ms2 \in [Thread -> MState], NEW wo2 \in [Thread -> Obj \cup {Null}],
           But(ms, ms2, t), But(wo, wo2, t), ms2[t] \in Idle
    PROVE  QS(ms2, wo2, W, S, P, pri, X)
<1>1. Placed(ms, wo, W, S, P, X \cup {t})
  BY DEF QS
<1>2. Placed(ms2, wo2, W, S, P, X)
  BY <1>1, OnNone
<1> QED
  BY <1>2 DEF QS

\* A thread in flux may be in any M-state.
LEMMA QFluxAny ==
    ASSUME NEW ms, NEW wo, NEW W, NEW S, NEW P, NEW pri, NEW X, NEW t \in Thread, t \in X,
           QS(ms, wo, W, S, P, pri, X),
           NEW ms2 \in [Thread -> MState], NEW wo2 \in [Thread -> Obj \cup {Null}],
           But(ms, ms2, t), But(wo, wo2, t)
    PROVE  QS(ms2, wo2, W, S, P, pri, X)
<1>1. Placed(ms, wo, W, S, P, X)
  BY DEF QS
<1>2. Placed(ms2, wo2, W, S, P, X)
  BY <1>1, FluxAny
<1> QED
  BY <1>2 DEF QS

\* A thread on no queue may be said to be in flux.
LEMMA QNoneFlux ==
    ASSUME NEW ms, NEW wo, NEW W, NEW S, NEW P, NEW pri, NEW X, NEW t \in Thread,
           QS(ms, wo, W, S, P, pri, X), ms[t] \in Idle
    PROVE  QS(ms, wo, W, S, P, pri, X \cup {t})
<1>1. Placed(ms, wo, W, S, P, X)
  BY DEF QS
<1>2. Placed(ms, wo, W, S, P, X \cup {t})
  BY <1>1, NoneFlux
<1> QED
  BY <1>2 DEF QS

\* The priority of a thread that is on no wait queue changes.
LEMMA QPri ==
    ASSUME NEW ms, NEW wo, NEW W, NEW S, NEW P, NEW pri, NEW X, NEW t \in Thread,
           QS(ms, wo, W, S, P, pri, X), t \in X \/ ms[t] \notin OnWaitQ, NEW p \in Pri
    PROVE  QS(ms, wo, W, S, P, [pri EXCEPT ![t] = p], X)
<1>1. Placed(ms, wo, W, S, P, X) /\ W \in [Obj -> Seq(Thread)] /\ pri \in [Thread -> Pri]
  BY QTyped DEF QS
<1>2. \A o \in Obj : t \notin Range(W[o])
  <2> SUFFICES ASSUME NEW o \in Obj PROVE t \notin Range(W[o])
    OBVIOUS
  <2>1. WaitState[o] \in OnWaitQ
    BY WaitStates
  <2> QED
    BY <2>1, QWhere
<1>3. ASSUME NEW o \in Obj PROVE Down(W[o], [pri EXCEPT ![t] = p])
  <2>1. \A i \in DOMAIN W[o] : W[o][i] # t /\ W[o][i] \in Thread
    BY <1>1, <1>2 DEF Range
  <2>2. \A i \in DOMAIN W[o] : [pri EXCEPT ![t] = p][W[o][i]] = pri[W[o][i]]
    BY <1>1, <2>1
  <2>3. Down(W[o], pri)
    BY DEF QS
  <2> HIDE DEF QS
  <2> QED
    BY <2>2, <2>3 DEF Down
<1> QED
  BY <1>1, <1>3 DEF QS

-----------------------------------------------------------------------------
\* The queues W with t off, and on by priority or at the end of, that of o.
Off(W, o, t) == [W EXCEPT ![o] = Without(W[o], t)]
Put(W, o, f, t) == [W EXCEPT ![o] = Ins(W[o], f, t)]
App(W, o, t) == [W EXCEPT ![o] = Append(W[o], t)]

\* The queue of o has n threads more, the others are as they were.
Longer(W, W2, o, n) ==
    /\ W2[o] \in Seq(Thread) /\ Len(W2[o]) \in Nat /\ Len(W[o]) \in Nat
    /\ Len(W2[o]) = Len(W[o]) + n
    /\ \A x : x # o => W2[x] = W[x]

NonEmpty(q) == q # <<>>
OnlyAt(P, P2, m) == \A x : x # m => P2[x] = P[x]

\* A waiting thread taken off its queue, which is one shorter.
LEMMA OffWaitQ ==
    ASSUME NEW ms, NEW wo, NEW W, NEW S, NEW P, NEW pri, NEW X, QS(ms, wo, W, S, P, pri, X),
           NEW o \in Obj, NEW t \in Thread, t \in Range(W[o])
    PROVE  /\ QS(ms, wo, Off(W, o, t), S, P, pri, X \cup {t}) /\ Longer(W, Off(W, o, t), o, -1)
           /\ t \notin X /\ wo[t] = o /\ ms[t] = WaitState[o] /\ NonEmpty(W[o])
<1>1. /\ QS(ms, wo, Off(W, o, t), S, P, pri, X \cup {t})
      /\ t \notin X /\ wo[t] = o /\ ms[t] = WaitState[o]
  BY QOffWait DEF Off
<1>2. W \in [Obj -> Seq(Thread)]
  BY QTyped
<1>3. W[o] \in Seq(Thread) /\ Inj(W[o]) /\ NonEmpty(W[o]) /\ Down(W[o], pri)
  <2>1. Inj(W[o]) /\ Down(W[o], pri)
    BY QWhere
  <2> QED
    BY <1>2, <2>1 DEF Range, NonEmpty
<1>4. Without(W[o], t) \in Seq(Thread) /\ Len(Without(W[o], t)) = Len(W[o]) - 1
  BY <1>3, WithoutQueue, WithoutDown
<1>5. Off(W, o, t)[o] = Without(W[o], t) /\ \A x : x # o => Off(W, o, t)[x] = W[x]
  BY <1>2 DEF Off
<1>6. Longer(W, Off(W, o, t), o, -1)
  BY <1>3, <1>4, <1>5 DEF Longer
<1> QED
  BY <1>1, <1>3, <1>6

\* The same for a suspended one.
LEMMA OffSuspQ ==
    ASSUME NEW ms, NEW wo, NEW W, NEW S, NEW P, NEW pri, NEW X, QS(ms, wo, W, S, P, pri, X),
           NEW o \in Obj, NEW t \in Thread, t \in Range(S[o])
    PROVE  /\ QS(ms, wo, W, Off(S, o, t), P, pri, X \cup {t}) /\ Longer(S, Off(S, o, t), o, -1)
           /\ t \notin X /\ wo[t] = o /\ ms[t] = SuspState[o] /\ NonEmpty(S[o])
<1>1. /\ QS(ms, wo, W, Off(S, o, t), P, pri, X \cup {t})
      /\ t \notin X /\ wo[t] = o /\ ms[t] = SuspState[o]
  BY QOffSusp DEF Off
<1>2. S \in [Obj -> Seq(Thread)]
  BY QTyped
<1>3. S[o] \in Seq(Thread) /\ Inj(S[o]) /\ NonEmpty(S[o])
  <2>1. Inj(S[o])
    BY QWhere
  <2> QED
    BY <1>2, <2>1 DEF Range, NonEmpty
<1>4. Without(S[o], t) \in Seq(Thread) /\ Len(Without(S[o], t)) = Len(S[o]) - 1
  <2> DEFINE f == [u \in Thread |-> 0]
  <2>1. Down(S[o], f)
    BY <1>3 DEF Down
  <2> HIDE DEF f
  <2> QED
    BY <1>3, <2>1, WithoutQueue, WithoutDown
<1>5. Off(S, o, t)[o] = Without(S[o], t) /\ \A x : x # o => Off(S, o, t)[x] = S[x]
  BY <1>2 DEF Off
<1>6. Longer(S, Off(S, o, t), o, -1)
  BY <1>3, <1>4, <1>5 DEF Longer
<1> QED
  BY <1>1, <1>3, <1>6

\* The same for one with a mutex on offer.
LEMMA OffPendQ ==
    ASSUME NEW ms, NEW wo, NEW W, NEW S, NEW P, NEW pri, NEW X, QS(ms, wo, W, S, P, pri, X),
           NEW m \in Mutex, NEW t \in Thread, t \in Range(P[m])
    PROVE  /\ QS(ms, wo, W, S, Off(P, m, t), pri, X \cup {t})
           /\ t \notin X /\ wo[t] = m /\ ms[t] = "EHoldMutexPending"
           /\ NonEmpty(P[m]) /\ OnlyAt(P, Off(P, m, t), m)
<1>1. /\ QS(ms, wo, W, S, Off(P, m, t), pri, X \cup {t})
      /\ t \notin X /\ wo[t] = m /\ ms[t] = "EHoldMutexPending"
  BY QOffPend DEF Off
<1>2. P \in [Mutex -> Seq(Thread)]
  BY QTyped
<1>3. NonEmpty(P[m])
  BY <1>2 DEF Range, NonEmpty
<1>4. OnlyAt(P, Off(P, m, t), m)
  BY <1>2 DEF Off, OnlyAt
<1> QED
  BY <1>1, <1>3, <1>4

\* A thread in flux put on a wait queue, which is one longer.
LEMMA OnWaitQueue ==
    ASSUME NEW ms, NEW wo, NEW W, NEW S, NEW P, NEW pri, NEW X, NEW t \in Thread, t \notin X,
           QS(ms, wo, W, S, P, pri, X \cup {t}),
           NEW ms2 \in [Thread -> MState], NEW wo2 \in [Thread -> Obj \cup {Null}],
           But(ms, ms2, t), But(wo, wo2, t), NEW o \in Obj, ms2[t] = WaitState[o], wo2[t] = o
    PROVE  QS(ms2, wo2, Put(W, o, pri, t), S, P, pri, X) /\ Longer(W, Put(W, o, pri, t), o, 1)
<1>1. /\ QS(ms2, wo2, Put(W, o, pri, t), S, P, pri, X)
      /\ Ins(W[o], pri, t) \in Seq(Thread)
  BY QOnWait DEF Put
<1>2. W \in [Obj -> Seq(Thread)]
  BY QTyped
<1>3. W[o] \in Seq(Thread)
  BY <1>2
<1>4. Len(Ins(W[o], pri, t)) = Len(W[o]) + 1
  <2>1. Inj(W[o]) /\ Down(W[o], pri) /\ t \notin Range(W[o]) /\ pri \in [Thread -> Int]
    BY QWhere, QTyped
  <2>2. \A q \in Seq(Thread) : Inj(q) /\ Down(q, pri) /\ t \notin Range(q)
            => Len(Ins(q, pri, t)) = Len(q) + 1
    BY <2>1, InsQueue
  <2> QED
    BY <1>3, <2>1, <2>2, Zenon
<1>5. Put(W, o, pri, t)[o] = Ins(W[o], pri, t) /\ \A x : x # o => Put(W, o, pri, t)[x] = W[x]
  BY <1>2 DEF Put
<1>6. Longer(W, Put(W, o, pri, t), o, 1)
  BY <1>1, <1>3, <1>4, <1>5 DEF Longer
<1> QED
  BY <1>1, <1>6

\* The same for a suspended queue.
LEMMA OnSuspQueue ==
    ASSUME NEW ms, NEW wo, NEW W, NEW S, NEW P, NEW pri, NEW X, NEW t \in Thread, t \notin X,
           QS(ms, wo, W, S, P, pri, X \cup {t}),
           NEW ms2 \in [Thread -> MState], NEW wo2 \in [Thread -> Obj \cup {Null}],
           But(ms, ms2, t), But(wo, wo2, t), NEW o \in Obj, ms2[t] = SuspState[o], wo2[t] = o
    PROVE  QS(ms2, wo2, W, App(S, o, t), P, pri, X) /\ Longer(S, App(S, o, t), o, 1)
<1>1. QS(ms2, wo2, W, App(S, o, t), P, pri, X)
  BY QOnSusp DEF App
<1>2. S \in [Obj -> Seq(Thread)]
  BY QTyped
<1>3. S[o] \in Seq(Thread)
  BY <1>2
<1>4. Append(S[o], t) \in Seq(Thread) /\ Len(Append(S[o], t)) = Len(S[o]) + 1
  BY <1>3
<1>5. App(S, o, t)[o] = Append(S[o], t) /\ \A x : x # o => App(S, o, t)[x] = S[x]
  BY <1>2 DEF App
<1>6. Longer(S, App(S, o, t), o, 1)
  BY <1>3, <1>4, <1>5 DEF Longer
<1> QED
  BY <1>1, <1>6

\* The same for a pending queue.
LEMMA OnPendQueue ==
    ASSUME NEW ms, NEW wo, NEW W, NEW S, NEW P, NEW pri, NEW X, NEW t \in Thread, t \notin X,
           QS(ms, wo, W, S, P, pri, X \cup {t}),
           NEW ms2 \in [Thread -> MState], NEW wo2 \in [Thread -> Obj \cup {Null}],
           But(ms, ms2, t), But(wo, wo2, t), NEW m \in Mutex,
           ms2[t] = "EHoldMutexPending", wo2[t] = m
    PROVE  /\ QS(ms2, wo2, W, S, App(P, m, t), pri, X)
           /\ OnlyAt(P, App(P, m, t), m)
<1>1. QS(ms2, wo2, W, S, App(P, m, t), pri, X)
  BY QOnPend DEF App
<1>2. P \in [Mutex -> Seq(Thread)]
  BY QTyped
<1>4. OnlyAt(P, App(P, m, t), m)
  BY <1>2 DEF App, OnlyAt
<1> QED
  BY <1>1, <1>4

\* The fields of a state.
Fields == {"mstate", "waitObj", "pri", "defPri", "cleanupQ", "blocked", "timed", "susp", "cs",
           "csFunction", "ret", "pc", "obj", "cond", "todo", "waitQ", "suspQ", "pendQ", "phase",
           "holder", "clnPri", "holdCount", "waitCount", "count", "cvMutex", "fault"}
Rec(r) == DOMAIN r = Fields /\ r = [f \in DOMAIN r |-> r[f]]

Rets == {"KErrNone", "KErrTimedOut", "KErrGeneral", "KErrDied"}
Phases == {"live", "resetting", "deleted"}

\* What only a thread's own steps, and those that suspend, kill, destroy and give
\* mutexes, change.
CtlT(r) ==
    /\ r.defPri \in [Thread -> Pri] /\ r.cleanupQ \in [Thread -> SUBSET Mutex]
    /\ r.susp \in [Thread -> Nat] /\ r.cs \in [Thread -> BOOLEAN]
    /\ r.csFunction \in [Thread -> Int] /\ r.pc \in [Thread -> Cont]
    /\ r.obj \in [Thread -> Obj \cup {Null}] /\ r.cond \in [Thread -> Cond \cup {Null}]
    /\ r.todo \in [Thread -> Nat] /\ r.phase \in [Obj -> Phases]
    /\ r.holder \in [Mutex -> Thread \cup {Null}] /\ r.holdCount \in [Mutex -> Nat]

SameCtl(r, s) ==
    /\ s.defPri = r.defPri /\ s.cleanupQ = r.cleanupQ /\ s.susp = r.susp /\ s.cs = r.cs
    /\ s.csFunction = r.csFunction /\ s.pc = r.pc /\ s.obj = r.obj /\ s.cond = r.cond
    /\ s.todo = r.todo /\ s.phase = r.phase /\ s.holder = r.holder
    /\ s.holdCount = r.holdCount

RunT(r) ==
    /\ r.blocked \in [Thread -> BOOLEAN] /\ r.timed \in [Thread -> BOOLEAN]
    /\ r.ret \in [Thread -> Rets] /\ r.fault \in BOOLEAN
    /\ r.clnPri \in [Mutex -> Pri \cup {0}]

CntT(r) ==
    /\ r.waitCount \in [Mutex \cup Cond -> Nat] /\ r.count \in [Sem -> Int]
    /\ r.cvMutex \in [Cond -> Mutex \cup {Null}]

SameCnt(r, s) == s.waitCount = r.waitCount /\ s.count = r.count /\ s.cvMutex = r.cvMutex
SameRun(r, s) == s.blocked = r.blocked /\ s.timed = r.timed /\ s.ret = r.ret

RQ(r, X) == QS(r.mstate, r.waitObj, r.waitQ, r.suspQ, r.pendQ, r.pri, X)

\* a threads on the wait queue, b on the suspended queue and d others are counted by n.
Tally(phase, n, a, b, d) ==
    /\ phase = "live" => n = a + b + d
    /\ phase = "resetting" => n >= a + b + d
SemTally(n, a, d) == a + d = IF n < 0 THEN -n ELSE 0

\* The counters of object o when d threads are counted that are on no queue.
CountAt(r, o, d) ==
    /\ r.phase[o] = "deleted" => r.waitQ[o] = <<>> /\ r.suspQ[o] = <<>>
    /\ o \in Mutex /\ r.phase[o] = "deleted" => r.pendQ[o] = <<>>
    /\ o \in Mutex \cup Cond =>
          Tally(r.phase[o], r.waitCount[o], Len(r.waitQ[o]), Len(r.suspQ[o]), d)
    /\ o \in Cond /\ r.phase[o] = "live" => (r.cvMutex[o] = Null <=> r.waitCount[o] = 0)
    /\ o \in Sem /\ r.phase[o] # "deleted" => SemTally(r.count[o], Len(r.waitQ[o]), d)

\* What is counted and the numbers of threads may move together.
LEMMA TallyMove ==
    ASSUME NEW phase, NEW n \in Nat, NEW a \in Nat, NEW b \in Nat, NEW d \in Nat,
           Tally(phase, n, a, b, d), NEW a2 \in Nat, NEW b2 \in Nat, NEW d2 \in Nat, NEW n2 \in Int,
           n2 - a2 - b2 - d2 = n - a - b - d
    PROVE  Tally(phase, n2, a2, b2, d2)
BY DEF Tally

\* n counts as many threads that are on no queue more than n2 as d has more than e.
Shift(n, x, y, d, n2, a, b, e) ==
    n \in Nat /\ n2 \in Int /\ n2 - a - b - e = n - x - y - d

\* A thread more or less is on a queue of o or counted there.
Recount(r, s, o, d, a, b, e) ==
    /\ r.phase[o] # "deleted" /\ s.phase[o] = r.phase[o]
    /\ Len(r.waitQ[o]) \in Nat /\ Len(r.suspQ[o]) \in Nat
    /\ a \in Nat /\ b \in Nat /\ a = Len(s.waitQ[o]) /\ b = Len(s.suspQ[o])
    /\ o \in Mutex \cup Cond =>
          Shift(r.waitCount[o], Len(r.waitQ[o]), Len(r.suspQ[o]), d, s.waitCount[o], a, b, e)
    /\ o \in Cond /\ r.phase[o] = "live" => (s.cvMutex[o] = Null <=> s.waitCount[o] = 0)
    /\ o \in Sem => SemTally(s.count[o], a, e)

\* The count of one object after its queues and counter have changed.
LEMMA CountMove ==
    ASSUME NEW r, NEW s, NEW o, NEW d \in Nat, CountAt(r, o, d), NEW e \in Nat, NEW a, NEW b,
           Recount(r, s, o, d, a, b, e)
    PROVE  CountAt(s, o, e)
<1> DEFINE x == Len(r.waitQ[o])
           y == Len(r.suspQ[o])
           n == r.waitCount[o]
           n2 == s.waitCount[o]
           ph == r.phase[o]
<1>1. ASSUME o \in Mutex \cup Cond PROVE Tally(s.phase[o], n2, a, b, e)
  <2>1. /\ n \in Nat /\ x \in Nat /\ y \in Nat /\ n2 \in Int /\ a \in Nat /\ b \in Nat
        /\ n2 - a - b - e = n - x - y - d
    BY <1>1 DEF Shift, Recount
  <2>2. Tally(ph, n, x, y, d)
    BY <1>1 DEF CountAt
  <2>3. s.phase[o] = ph /\ a = Len(s.waitQ[o]) /\ b = Len(s.suspQ[o])
    BY DEF Recount
  <2> HIDE DEF x, y, n, n2, ph
  <2>4. Tally(ph, n2, a, b, e)
    BY <2>1, <2>2, TallyMove
  <2> QED
    BY <2>3, <2>4
<1>2. a = Len(s.waitQ[o]) /\ b = Len(s.suspQ[o])
  BY DEF Recount
<1> QED
  BY <1>1, <1>2 DEF CountAt, Recount

\* The queues, with the threads in X on none of them.
QOK(r, X) ==
    /\ Rec(r) /\ CtlT(r) /\ RunT(r) /\ CntT(r) /\ RQ(r, X)
    /\ \A o \in Obj : CountAt(r, o, 0)

\* The queues of o and what counts them are as they were.
SameAt(r, s, o) ==
    /\ s.waitQ[o] = r.waitQ[o] /\ s.suspQ[o] = r.suspQ[o]
    /\ o \in Mutex => s.pendQ[o] = r.pendQ[o]
    /\ o \in Mutex \cup Cond => s.waitCount[o] = r.waitCount[o]
    /\ o \in Sem => s.count[o] = r.count[o]
    /\ o \in Cond => s.cvMutex[o] = r.cvMutex[o]
    /\ s.phase[o] = r.phase[o]

\* An object whose counter and queues are the same has the same count.
LEMMA SameCounts ==
    ASSUME NEW r, NEW s, NEW o, NEW d, SameAt(r, s, o), CountAt(r, o, d)
    PROVE  CountAt(s, o, d)
BY DEF SameAt, CountAt

\* Control fields keep their types.
LEMMA SameCtlT ==
    ASSUME NEW r, NEW s, SameCtl(r, s), CtlT(r)
    PROVE  CtlT(s)
BY DEF SameCtl, CtlT

-----------------------------------------------------------------------------
\* TThreadWaitList::ChangePriority of a thread on the list.
LEMMA ChangePriorityFields ==
    ASSUME NEW r, Rec(r), NEW o, NEW t, NEW p, t \in Range(r.waitQ[o]), p # r.pri[t],
           NEW s, s = ChangePriority(r, o, t, p)
    PROVE  /\ Rec(s) /\ SameCtl(r, s) /\ SameCnt(r, s) /\ SameRun(r, s)
           /\ s.mstate = r.mstate /\ s.waitObj = r.waitObj /\ s.suspQ = r.suspQ
           /\ s.pendQ = r.pendQ /\ s.clnPri = r.clnPri /\ s.fault = r.fault
           /\ s.pri = [r.pri EXCEPT ![t] = p]
           /\ s.waitQ = Put(Off(r.waitQ, o, t), o, s.pri, t)
<1> DEFINE k1 == [WaitRemove(r, o, t) EXCEPT !.pri[t] = p]
<1>1. s = WaitAdd(k1, o, t)
  BY DEF ChangePriority
<1>2. /\ DOMAIN k1 = Fields /\ SameCtl(r, k1) /\ SameCnt(r, k1) /\ SameRun(r, k1)
      /\ k1.mstate = r.mstate /\ k1.waitObj = r.waitObj /\ k1.suspQ = r.suspQ
      /\ k1.pendQ = r.pendQ /\ k1.clnPri = r.clnPri /\ k1.fault = r.fault
      /\ k1.pri = [r.pri EXCEPT ![t] = p]
      /\ k1.waitQ = Off(r.waitQ, o, t)
  BY SMT DEF Rec, Fields, WaitRemove, Off, SameCtl, SameCnt, SameRun
<1> HIDE DEF k1
<1>3. /\ DOMAIN s = Fields /\ SameCtl(k1, s) /\ SameCnt(k1, s) /\ SameRun(k1, s)
      /\ s.mstate = k1.mstate /\ s.waitObj = k1.waitObj /\ s.suspQ = k1.suspQ
      /\ s.pendQ = k1.pendQ /\ s.clnPri = k1.clnPri /\ s.fault = k1.fault
      /\ s.pri = k1.pri
      /\ s.waitQ = Put(k1.waitQ, o, k1.pri, t)
  BY <1>1, <1>2, SMT DEF Fields, WaitAdd, SameCtl, SameCnt, SameRun, Ins, Put
<1>4. s = [f \in DOMAIN s |-> s[f]]
  BY <1>1, SMT DEF WaitAdd
<1>5. SameCtl(r, s) /\ SameCnt(r, s) /\ SameRun(r, s)
  BY <1>2, <1>3 DEF SameCtl, SameCnt, SameRun
<1> QED
  BY <1>2, <1>3, <1>4, <1>5 DEF Rec

\* Only the priorities of threads differ, and the order of queues.
OnlyPri(r, s) ==
    /\ SameCtl(r, s) /\ SameCnt(r, s) /\ SameRun(r, s)
    /\ s.mstate = r.mstate /\ s.waitObj = r.waitObj /\ s.clnPri = r.clnPri

\* Types that the queues' invariant gives, of the fields.
LEMMA QTypes2 ==
    ASSUME NEW r, NEW X, RQ(r, X)
    PROVE  /\ r.mstate \in [Thread -> MState] /\ r.waitObj \in [Thread -> Obj \cup {Null}]
           /\ r.waitQ \in [Obj -> Seq(Thread)] /\ r.suspQ \in [Obj -> Seq(Thread)]
           /\ r.pendQ \in [Mutex -> Seq(Thread)] /\ r.pri \in [Thread -> Pri]
           /\ r.pri \in [Thread -> Int]
BY QTyped DEF RQ

\* The queue a thread is on, from the fields.
LEMMA RWhere ==
    ASSUME NEW r, NEW X, RQ(r, X), NEW o \in Obj, NEW t \in Thread
    PROVE  /\ t \in Range(r.waitQ[o]) <=> t \notin X /\ r.waitObj[t] = o /\ r.mstate[t] = WaitState[o]
           /\ t \in Range(r.suspQ[o]) <=> t \notin X /\ r.waitObj[t] = o /\ r.mstate[t] = SuspState[o]
           /\ o \in Mutex =>
                 (t \in Range(r.pendQ[o])
                     <=> t \notin X /\ r.waitObj[t] = o /\ r.mstate[t] = "EHoldMutexPending")
<1> DEFINE ms == r.mstate
           wo == r.waitObj
           W == r.waitQ
           S == r.suspQ
           P == r.pendQ
           pri == r.pri
<1>1. QS(ms, wo, W, S, P, pri, X)
  BY DEF RQ
<1> HIDE DEF ms, wo, W, S, P, pri
<1>2. /\ t \in Range(W[o]) <=> t \notin X /\ wo[t] = o /\ ms[t] = WaitState[o]
      /\ t \in Range(S[o]) <=> t \notin X /\ wo[t] = o /\ ms[t] = SuspState[o]
      /\ o \in Mutex =>
           (t \in Range(P[o]) <=> t \notin X /\ wo[t] = o /\ ms[t] = "EHoldMutexPending")
  BY <1>1, QWhere
<1> QED
  BY <1>2 DEF ms, wo, W, S, P

\* SThreadWaitList::ChangePriority moves a thread to where its new priority belongs.
LEMMA ChangePriorityKeeps ==
    ASSUME NEW r, NEW X, QOK(r, X), NEW o \in Obj, NEW t \in Thread, t \in Range(r.waitQ[o]),
           NEW p \in Pri, NEW s, s = ChangePriority(r, o, t, p)
    PROVE  /\ QOK(s, X) /\ OnlyPri(r, s) /\ s.fault = r.fault
           /\ s.pri = [r.pri EXCEPT ![t] = p]
<1>1. /\ Rec(r) /\ CtlT(r) /\ RunT(r) /\ CntT(r) /\ RQ(r, X)
      /\ \A x \in Obj : CountAt(r, x, 0)
  BY DEF QOK
<1>2. CASE p = r.pri[t]
  <2>1. s = r
    BY <1>2 DEF ChangePriority
  <2>2. r.pri = [r.pri EXCEPT ![t] = p]
    BY <1>1, <1>2, QTypes2
  <2> QED
    BY <2>1, <2>2 DEF OnlyPri, SameCtl, SameCnt, SameRun
<1>3. CASE p # r.pri[t]
  <2> DEFINE W == r.waitQ
             ms == r.mstate
             wo == r.waitObj
             S == r.suspQ
             P == r.pendQ
             f == r.pri
             g == [r.pri EXCEPT ![t] = p]
             W1 == Off(W, o, t)
             W2 == Put(W1, o, g, t)
  <2>1. /\ Rec(s) /\ SameCtl(r, s) /\ SameCnt(r, s) /\ SameRun(r, s)
        /\ s.mstate = r.mstate /\ s.waitObj = r.waitObj /\ s.suspQ = r.suspQ
        /\ s.pendQ = r.pendQ /\ s.clnPri = r.clnPri /\ s.fault = r.fault
        /\ s.pri = g /\ s.waitQ = W2
    BY <1>1, <1>3, ChangePriorityFields
  <2>2. /\ ms \in [Thread -> MState] /\ wo \in [Thread -> Obj \cup {Null}]
        /\ QS(ms, wo, W, S, P, f, X) /\ t \in Range(W[o])
    BY <1>1, QTypes2 DEF RQ
  <2>3. g = [f EXCEPT ![t] = p]
    OBVIOUS
  <2> HIDE DEF ms, wo, W, S, P, f, g
  <2>4. /\ QS(ms, wo, W1, S, P, f, X \cup {t}) /\ Longer(W, W1, o, -1)
        /\ t \notin X /\ wo[t] = o /\ ms[t] = WaitState[o] /\ NonEmpty(W[o])
    BY <2>2, OffWaitQ
  <2> HIDE DEF W1
  <2>5. QS(ms, wo, W1, S, P, g, X \cup {t})
    BY <2>3, <2>4, QPri
  <2>6. But(ms, ms, t) /\ But(wo, wo, t)
    BY DEF But
  <2>7. QS(ms, wo, W2, S, P, g, X) /\ Longer(W1, W2, o, 1)
    BY <2>2, <2>4, <2>5, <2>6, OnWaitQueue
  <2> HIDE DEF W2
  <2>8. RQ(s, X)
    BY <2>1, <2>7 DEF RQ, ms, wo, S, P
  <2>9. \A x \in Obj : CountAt(s, x, 0)
    <3> SUFFICES ASSUME NEW x \in Obj PROVE CountAt(s, x, 0)
      OBVIOUS
    <3>1. CASE x = o
      <4>1. Len(W2[o]) = Len(W[o])
        BY <2>4, <2>7 DEF Longer
      <4>2. W2[o] # <<>>
        BY <2>2, <2>4, <2>7, <4>1, QTyped DEF Longer
      <4>3. CountAt(r, o, 0)
        BY <1>1
      <4> QED
        BY <2>1, <2>4, <3>1, <4>1, <4>2, <4>3 DEF CountAt, SameCnt, SameCtl, NonEmpty, W
    <3>2. CASE x # o
      <4>1. W2[x] = r.waitQ[x]
        BY <2>4, <2>7, <3>2 DEF Longer, W
      <4>2. SameAt(r, s, x)
        BY <2>1, <4>1 DEF SameAt, SameCnt, SameCtl
      <4> QED
        BY <1>1, <4>2, SameCounts
    <3> QED
      BY <3>1, <3>2
  <2>10. CtlT(s) /\ RunT(s) /\ CntT(s)
    BY <1>1, <2>1, SameCtlT DEF RunT, CntT, SameRun, SameCnt
  <2> QED
    BY <2>1, <2>8, <2>9, <2>10 DEF QOK, OnlyPri, g
<1> QED
  BY <1>2, <1>3

\* The priority of a thread on no wait queue.
SetPri(r, t, p) == [r EXCEPT !.pri[t] = p]

\* The priority of a thread that is on no wait queue.
LEMMA SetPriKeeps ==
    ASSUME NEW r, NEW X, QOK(r, X), NEW t \in Thread, t \in X \/ r.mstate[t] \notin OnWaitQ,
           NEW p \in Pri, NEW s, s = SetPri(r, t, p)
    PROVE  /\ QOK(s, X) /\ OnlyPri(r, s) /\ s.fault = r.fault
           /\ s.pri = [r.pri EXCEPT ![t] = p]
<1>1. /\ Rec(r) /\ CtlT(r) /\ RunT(r) /\ CntT(r) /\ RQ(r, X)
      /\ \A x \in Obj : CountAt(r, x, 0)
  BY DEF QOK
<1>2. /\ DOMAIN s = Fields /\ SameCtl(r, s) /\ SameCnt(r, s) /\ SameRun(r, s)
      /\ s.mstate = r.mstate /\ s.waitObj = r.waitObj /\ s.suspQ = r.suspQ
      /\ s.pendQ = r.pendQ /\ s.clnPri = r.clnPri /\ s.fault = r.fault
      /\ s.pri = [r.pri EXCEPT ![t] = p] /\ s.waitQ = r.waitQ
  BY <1>1, SMT DEF SetPri, Rec, Fields, SameCtl, SameCnt, SameRun
<1>3. s = [f \in DOMAIN s |-> s[f]]
  BY SMT DEF SetPri
<1>4. RQ(s, X)
  <2> DEFINE ms == r.mstate
             wo == r.waitObj
             W == r.waitQ
             S == r.suspQ
             P == r.pendQ
             f == r.pri
  <2>1. QS(ms, wo, W, S, P, f, X) /\ (t \in X \/ ms[t] \notin OnWaitQ)
    BY <1>1 DEF RQ
  <2> HIDE DEF ms, wo, W, S, P, f
  <2>2. QS(ms, wo, W, S, P, [f EXCEPT ![t] = p], X)
    BY <2>1, QPri
  <2> QED
    BY <1>2, <2>2 DEF RQ, ms, wo, W, S, P, f
<1>5. \A x \in Obj : CountAt(s, x, 0)
  <2> SUFFICES ASSUME NEW x \in Obj PROVE CountAt(s, x, 0)
    OBVIOUS
  <2>1. SameAt(r, s, x)
    BY <1>2 DEF SameAt, SameCnt, SameCtl
  <2> QED
    BY <1>1, <2>1, SameCounts
<1>6. CtlT(s) /\ RunT(s) /\ CntT(s)
  BY <1>1, <1>2, SameCtlT DEF RunT, CntT, SameRun, SameCnt
<1> QED
  BY <1>2, <1>3, <1>4, <1>5, <1>6 DEF QOK, OnlyPri, Rec

\* Where a thread is.
SameWhere(r, s) == s.mstate = r.mstate /\ s.waitObj = r.waitObj
Lands(r, s, t, ms, o) ==
    /\ s.mstate \in [Thread -> MState] /\ But(r.mstate, s.mstate, t) /\ s.mstate[t] = ms
    /\ s.waitObj \in [Thread -> Obj \cup {Null}] /\ But(r.waitObj, s.waitObj, t)
    /\ s.waitObj[t] = o

\* A thread gets off, and on, a queue.
OffW(r, s, o, t) ==
    /\ SameWhere(r, s) /\ s.pri = r.pri /\ s.waitQ = Off(r.waitQ, o, t)
    /\ s.suspQ = r.suspQ /\ s.pendQ = r.pendQ
OffS(r, s, o, t) ==
    /\ SameWhere(r, s) /\ s.pri = r.pri /\ s.suspQ = Off(r.suspQ, o, t)
    /\ s.waitQ = r.waitQ /\ s.pendQ = r.pendQ
OffP(r, s, m, t) ==
    /\ SameWhere(r, s) /\ s.pri = r.pri /\ s.pendQ = Off(r.pendQ, m, t)
    /\ s.waitQ = r.waitQ /\ s.suspQ = r.suspQ
GetW(r, s, o, t) ==
    /\ s.pri = r.pri /\ s.waitQ = Put(r.waitQ, o, r.pri, t)
    /\ s.suspQ = r.suspQ /\ s.pendQ = r.pendQ
GetS(r, s, o, t) ==
    /\ s.pri = r.pri /\ s.suspQ = App(r.suspQ, o, t) /\ s.waitQ = r.waitQ /\ s.pendQ = r.pendQ
GetP(r, s, m, t) ==
    /\ s.pri = r.pri /\ s.pendQ = App(r.pendQ, m, t) /\ s.waitQ = r.waitQ /\ s.suspQ = r.suspQ

\* A record in which a thread has been taken off a wait queue.
LEMMA ROffWait ==
    ASSUME NEW r, NEW X, RQ(r, X), NEW o \in Obj, NEW t \in Thread, t \in Range(r.waitQ[o]),
           NEW s, OffW(r, s, o, t)
    PROVE  /\ RQ(s, X \cup {t}) /\ t \notin X /\ r.waitObj[t] = o /\ r.mstate[t] = WaitState[o]
           /\ Longer(r.waitQ, s.waitQ, o, -1) /\ NonEmpty(r.waitQ[o])
<1> DEFINE ms == r.mstate
           wo == r.waitObj
           W == r.waitQ
           S == r.suspQ
           P == r.pendQ
           f == r.pri
<1>1. QS(ms, wo, W, S, P, f, X) /\ t \in Range(W[o])
  BY DEF RQ
<1> HIDE DEF ms, wo, W, S, P, f
<1>2. /\ QS(ms, wo, Off(W, o, t), S, P, f, X \cup {t})
      /\ Longer(W, Off(W, o, t), o, -1) /\ NonEmpty(W[o])
      /\ t \notin X /\ wo[t] = o /\ ms[t] = WaitState[o]
  BY <1>1, OffWaitQ
<1> QED
  BY <1>2 DEF RQ, OffW, SameWhere, ms, wo, W, S, P, f

\* The same for a suspended queue.
LEMMA ROffSusp ==
    ASSUME NEW r, NEW X, RQ(r, X), NEW o \in Obj, NEW t \in Thread, t \in Range(r.suspQ[o]),
           NEW s, OffS(r, s, o, t)
    PROVE  /\ RQ(s, X \cup {t}) /\ t \notin X /\ r.waitObj[t] = o /\ r.mstate[t] = SuspState[o]
           /\ Longer(r.suspQ, s.suspQ, o, -1) /\ NonEmpty(r.suspQ[o])
<1> DEFINE ms == r.mstate
           wo == r.waitObj
           W == r.waitQ
           S == r.suspQ
           P == r.pendQ
           f == r.pri
<1>1. QS(ms, wo, W, S, P, f, X) /\ t \in Range(S[o])
  BY DEF RQ
<1> HIDE DEF ms, wo, W, S, P, f
<1>2. /\ QS(ms, wo, W, Off(S, o, t), P, f, X \cup {t})
      /\ Longer(S, Off(S, o, t), o, -1) /\ NonEmpty(S[o])
      /\ t \notin X /\ wo[t] = o /\ ms[t] = SuspState[o]
  BY <1>1, OffSuspQ
<1> QED
  BY <1>2 DEF RQ, OffS, SameWhere, ms, wo, W, S, P, f

\* The same for a pending queue.
LEMMA ROffPend ==
    ASSUME NEW r, NEW X, RQ(r, X), NEW o \in Mutex, NEW t \in Thread, t \in Range(r.pendQ[o]),
           NEW s, OffP(r, s, o, t)
    PROVE  /\ RQ(s, X \cup {t}) /\ t \notin X /\ r.waitObj[t] = o
           /\ r.mstate[t] = "EHoldMutexPending"
           /\ NonEmpty(r.pendQ[o]) /\ OnlyAt(r.pendQ, s.pendQ, o)
<1> DEFINE ms == r.mstate
           wo == r.waitObj
           W == r.waitQ
           S == r.suspQ
           P == r.pendQ
           f == r.pri
<1>1. QS(ms, wo, W, S, P, f, X) /\ t \in Range(P[o])
  BY DEF RQ
<1> HIDE DEF ms, wo, W, S, P, f
<1>2. /\ QS(ms, wo, W, S, Off(P, o, t), f, X \cup {t})
      /\ NonEmpty(P[o]) /\ OnlyAt(P, Off(P, o, t), o)
      /\ t \notin X /\ wo[t] = o /\ ms[t] = "EHoldMutexPending"
  BY <1>1, OffPendQ
<1> QED
  BY <1>2 DEF RQ, OffP, SameWhere, ms, wo, W, S, P, f

\* A record in which a thread has been put on a wait queue.
LEMMA ROnWait ==
    ASSUME NEW r, NEW X, NEW t \in Thread, t \notin X, RQ(r, X \cup {t}), NEW o \in Obj,
           NEW s, Lands(r, s, t, WaitState[o], o), GetW(r, s, o, t)
    PROVE  RQ(s, X) /\ Longer(r.waitQ, s.waitQ, o, 1)
<1> DEFINE ms == r.mstate
           wo == r.waitObj
           W == r.waitQ
           S == r.suspQ
           P == r.pendQ
           f == r.pri
           ms2 == s.mstate
           wo2 == s.waitObj
<1>1. QS(ms, wo, W, S, P, f, X \cup {t})
  BY DEF RQ
<1>2. /\ ms2 \in [Thread -> MState] /\ But(ms, ms2, t) /\ ms2[t] = WaitState[o]
      /\ wo2 \in [Thread -> Obj \cup {Null}] /\ But(wo, wo2, t) /\ wo2[t] = o
  BY DEF Lands
<1> HIDE DEF ms, wo, W, S, P, f, ms2, wo2
<1>3. /\ QS(ms2, wo2, Put(W, o, f, t), S, P, f, X)
      /\ Longer(W, Put(W, o, f, t), o, 1)
  BY <1>1, <1>2, OnWaitQueue
<1> QED
  BY <1>3 DEF RQ, GetW, ms, wo, W, S, P, f, ms2, wo2

\* The same for a suspended queue.
LEMMA ROnSusp ==
    ASSUME NEW r, NEW X, NEW t \in Thread, t \notin X, RQ(r, X \cup {t}), NEW o \in Obj,
           NEW s, Lands(r, s, t, SuspState[o], o), GetS(r, s, o, t)
    PROVE  RQ(s, X) /\ Longer(r.suspQ, s.suspQ, o, 1)
<1> DEFINE ms == r.mstate
           wo == r.waitObj
           W == r.waitQ
           S == r.suspQ
           P == r.pendQ
           f == r.pri
           ms2 == s.mstate
           wo2 == s.waitObj
<1>1. QS(ms, wo, W, S, P, f, X \cup {t})
  BY DEF RQ
<1>2. /\ ms2 \in [Thread -> MState] /\ But(ms, ms2, t) /\ ms2[t] = SuspState[o]
      /\ wo2 \in [Thread -> Obj \cup {Null}] /\ But(wo, wo2, t) /\ wo2[t] = o
  BY DEF Lands
<1> HIDE DEF ms, wo, W, S, P, f, ms2, wo2
<1>3. /\ QS(ms2, wo2, W, App(S, o, t), P, f, X)
      /\ Longer(S, App(S, o, t), o, 1)
  BY <1>1, <1>2, OnSuspQueue
<1> QED
  BY <1>3 DEF RQ, GetS, ms, wo, W, S, P, f, ms2, wo2

\* The same for a pending queue.
LEMMA ROnPend ==
    ASSUME NEW r, NEW X, NEW t \in Thread, t \notin X, RQ(r, X \cup {t}), NEW o \in Mutex,
           NEW s, Lands(r, s, t, "EHoldMutexPending", o), GetP(r, s, o, t)
    PROVE  RQ(s, X) /\ OnlyAt(r.pendQ, s.pendQ, o)
<1> DEFINE ms == r.mstate
           wo == r.waitObj
           W == r.waitQ
           S == r.suspQ
           P == r.pendQ
           f == r.pri
           ms2 == s.mstate
           wo2 == s.waitObj
<1>1. QS(ms, wo, W, S, P, f, X \cup {t})
  BY DEF RQ
<1>2. /\ ms2 \in [Thread -> MState] /\ But(ms, ms2, t) /\ ms2[t] = "EHoldMutexPending"
      /\ wo2 \in [Thread -> Obj \cup {Null}] /\ But(wo, wo2, t) /\ wo2[t] = o
  BY DEF Lands
<1> HIDE DEF ms, wo, W, S, P, f, ms2, wo2
<1>3. /\ QS(ms2, wo2, W, S, App(P, o, t), f, X)
      /\ OnlyAt(P, App(P, o, t), o)
  BY <1>1, <1>2, OnPendQueue
<1> QED
  BY <1>3 DEF RQ, GetP, ms, wo, W, S, P, f, ms2, wo2

\* Every queue is as it was.
SameQ(r, s) == s.waitQ = r.waitQ /\ s.suspQ = r.suspQ /\ s.pendQ = r.pendQ

\* A record in which a thread has been left on no queue.
LEMMA ROnNone ==
    ASSUME NEW r, NEW X, NEW t \in Thread, t \notin X, RQ(r, X \cup {t}), NEW ms \in Idle,
           NEW s, Lands(r, s, t, ms, Null), s.pri = r.pri, SameQ(r, s)
    PROVE  RQ(s, X)
<1> DEFINE ms1 == r.mstate
           wo1 == r.waitObj
           W == r.waitQ
           S == r.suspQ
           P == r.pendQ
           f == r.pri
           ms2 == s.mstate
           wo2 == s.waitObj
<1>1. QS(ms1, wo1, W, S, P, f, X \cup {t})
  BY DEF RQ
<1>2. /\ ms2 \in [Thread -> MState] /\ But(ms1, ms2, t) /\ ms2[t] \in Idle
      /\ wo2 \in [Thread -> Obj \cup {Null}] /\ But(wo1, wo2, t)
  BY DEF Lands
<1> HIDE DEF ms1, wo1, W, S, P, f, ms2, wo2
<1>3. QS(ms2, wo2, W, S, P, f, X)
  BY <1>1, <1>2, QOnNone
<1> QED
  BY <1>3 DEF RQ, SameQ, ms1, wo1, W, S, P, f, ms2, wo2

\* A thread on no queue changes what it waits for.
LEMMA RFlux ==
    ASSUME NEW r, NEW X, NEW t \in Thread, RQ(r, X), t \in X, NEW ms, NEW o,
           NEW s, Lands(r, s, t, ms, o), s.pri = r.pri, SameQ(r, s)
    PROVE  RQ(s, X)
<1> DEFINE ms1 == r.mstate
           wo1 == r.waitObj
           W == r.waitQ
           S == r.suspQ
           P == r.pendQ
           f == r.pri
           ms2 == s.mstate
           wo2 == s.waitObj
<1>1. QS(ms1, wo1, W, S, P, f, X)
  BY DEF RQ
<1>2. /\ ms2 \in [Thread -> MState] /\ But(ms1, ms2, t)
      /\ wo2 \in [Thread -> Obj \cup {Null}] /\ But(wo1, wo2, t)
  BY DEF Lands
<1> HIDE DEF ms1, wo1, W, S, P, f, ms2, wo2
<1>3. QS(ms2, wo2, W, S, P, f, X)
  BY <1>1, <1>2, QFluxAny
<1> QED
  BY <1>3 DEF RQ, SameQ, ms1, wo1, W, S, P, f, ms2, wo2

\* A thread on no queue may be said to be in flux.
LEMMA RNone ==
    ASSUME NEW r, NEW X, NEW t \in Thread, RQ(r, X), r.mstate[t] \in Idle
    PROVE  RQ(r, X \cup {t})
<1> DEFINE ms == r.mstate
           wo == r.waitObj
           W == r.waitQ
           S == r.suspQ
           P == r.pendQ
           f == r.pri
<1>1. QS(ms, wo, W, S, P, f, X) /\ ms[t] \in Idle
  BY DEF RQ
<1> HIDE DEF ms, wo, W, S, P, f
<1>2. QS(ms, wo, W, S, P, f, X \cup {t})
  BY <1>1, QNoneFlux
<1> QED
  BY <1>2 DEF RQ, ms, wo, W, S, P, f

\* The first of a queue.
LEMMA RHead ==
    ASSUME NEW r, NEW X, RQ(r, X), NEW o \in Obj
    PROVE  /\ Len(r.waitQ[o]) \in Nat /\ Len(r.suspQ[o]) \in Nat
           /\ r.waitQ[o] # <<>> => /\ Head(r.waitQ[o]) \in Thread
                                   /\ Head(r.waitQ[o]) \in Range(r.waitQ[o])
                                   /\ \A u \in Range(r.waitQ[o]) : r.pri[Head(r.waitQ[o])] >= r.pri[u]
           /\ r.suspQ[o] # <<>> => /\ Head(r.suspQ[o]) \in Thread
                                   /\ Head(r.suspQ[o]) \in Range(r.suspQ[o])
                                   /\ Tail(r.suspQ[o]) = Without(r.suspQ[o], Head(r.suspQ[o]))
           /\ o \in Mutex /\ r.pendQ[o] # <<>> =>
                 /\ Head(r.pendQ[o]) \in Thread /\ Head(r.pendQ[o]) \in Range(r.pendQ[o])
                 /\ Tail(r.pendQ[o]) = Without(r.pendQ[o], Head(r.pendQ[o]))
<1> DEFINE ms == r.mstate
           wo == r.waitObj
           W == r.waitQ
           S == r.suspQ
           P == r.pendQ
           f == r.pri
<1>1. QS(ms, wo, W, S, P, f, X)
  BY DEF RQ
<1> HIDE DEF ms, wo, W, S, P, f
<1>2. /\ Len(W[o]) \in Nat /\ Len(S[o]) \in Nat
      /\ W[o] # <<>> => /\ Head(W[o]) \in Thread /\ Head(W[o]) \in Range(W[o])
                        /\ \A u \in Range(W[o]) : f[Head(W[o])] >= f[u]
      /\ S[o] # <<>> => /\ Head(S[o]) \in Thread /\ Head(S[o]) \in Range(S[o])
                        /\ Tail(S[o]) = Without(S[o], Head(S[o]))
      /\ o \in Mutex /\ P[o] # <<>> =>
            /\ Head(P[o]) \in Thread /\ Head(P[o]) \in Range(P[o])
            /\ Tail(P[o]) = Without(P[o], Head(P[o]))
  BY <1>1, QHead
<1> QED
  BY <1>2 DEF ms, wo, W, S, P, f

\* The priority of a thread that is on no wait queue may be anything.
LEMMA RPri ==
    ASSUME NEW r, NEW X, NEW t \in Thread, RQ(r, X), t \in X \/ r.mstate[t] \notin OnWaitQ,
           NEW p \in Pri, NEW s, SameWhere(r, s), SameQ(r, s), s.pri = [r.pri EXCEPT ![t] = p]
    PROVE  RQ(s, X)
<1> DEFINE ms == r.mstate
           wo == r.waitObj
           W == r.waitQ
           S == r.suspQ
           P == r.pendQ
           f == r.pri
<1>1. QS(ms, wo, W, S, P, f, X) /\ (t \in X \/ ms[t] \notin OnWaitQ)
  BY DEF RQ
<1> HIDE DEF ms, wo, W, S, P, f
<1>2. QS(ms, wo, W, S, P, [f EXCEPT ![t] = p], X)
  BY <1>1, QPri
<1> QED
  BY <1>2 DEF RQ, SameWhere, SameQ, ms, wo, W, S, P, f

\* The queues, when d threads that are on no queue are counted at object y.
FQ(r, X, y, d) ==
    /\ Rec(r) /\ CtlT(r) /\ RunT(r) /\ CntT(r) /\ RQ(r, X)
    /\ \A x \in Obj : x # y => CountAt(r, x, 0)
    /\ y \in Obj => CountAt(r, y, d)

\* Without a difference in a count, the invariant is that of quiet queues.
LEMMA FluxNone ==
    ASSUME NEW r, NEW X, NEW y
    PROVE  QOK(r, X) <=> FQ(r, X, y, 0)
BY DEF QOK, FQ

\* Types that the invariant gives while a count differs.
LEMMA FQTypes ==
    ASSUME NEW r, NEW X, NEW y, NEW d, FQ(r, X, y, d)
    PROVE  /\ Rec(r) /\ CtlT(r) /\ RunT(r) /\ CntT(r) /\ RQ(r, X)
           /\ r.mstate \in [Thread -> MState] /\ r.waitObj \in [Thread -> Obj \cup {Null}]
           /\ r.waitQ \in [Obj -> Seq(Thread)] /\ r.suspQ \in [Obj -> Seq(Thread)]
           /\ r.pendQ \in [Mutex -> Seq(Thread)] /\ r.pri \in [Thread -> Pri]
           /\ r.pri \in [Thread -> Int]
<1>1. RQ(r, X)
  BY DEF FQ
<1> QED
  BY <1>1, QTypes2 DEF FQ

\* What is kept when a thread gets on or off a queue.
Kept(r, s) == Rec(s) /\ SameCtl(r, s) /\ RunT(s)

\* The same control and counters have the same types.
LEMMA KeptT ==
    ASSUME NEW r, NEW s, NEW X, NEW y, NEW d, FQ(r, X, y, d), Kept(r, s), SameCnt(r, s)
    PROVE  CtlT(s) /\ CntT(s)
<1>1. CtlT(r) /\ CntT(r)
  BY DEF FQ
<1>2. CtlT(s)
  BY <1>1, SameCtlT DEF Kept
<1> QED
  BY <1>1, <1>2 DEF CntT, SameCnt

SameRest(r, s) == SameCtl(r, s) /\ SameRun(r, s) /\ s.clnPri = r.clnPri /\ s.fault = r.fault

\* Only queues and counters changed.
LEMMA SameRestKept ==
    ASSUME NEW r, NEW s, NEW X, NEW y, NEW d, FQ(r, X, y, d), Rec(s), SameRest(r, s)
    PROVE  Kept(r, s)
BY DEF FQ, Kept, SameRest, RunT, SameRun

\* A thread leaves a wait queue; it is still counted.
LEMMA TakeWait ==
    ASSUME NEW r, NEW X, QOK(r, X), NEW o \in Obj, NEW t \in Thread, t \in Range(r.waitQ[o]),
           NEW s, s = WaitRemove(r, o, t)
    PROVE  /\ FQ(s, X \cup {t}, o, 1) /\ SameRest(r, s) /\ SameWhere(r, s) /\ SameCnt(r, s)
           /\ s.pri = r.pri /\ s.suspQ = r.suspQ /\ s.pendQ = r.pendQ
           /\ t \notin X /\ r.waitObj[t] = o /\ r.mstate[t] = WaitState[o]
           /\ r.phase[o] # "deleted"
<1>0. /\ Rec(r) /\ CtlT(r) /\ RunT(r) /\ CntT(r) /\ RQ(r, X)
      /\ \A x \in Obj : CountAt(r, x, 0)
  BY DEF QOK
<1>1. /\ DOMAIN s = Fields /\ SameRest(r, s) /\ SameWhere(r, s) /\ SameCnt(r, s)
      /\ s.pri = r.pri /\ s.suspQ = r.suspQ /\ s.pendQ = r.pendQ
      /\ s.waitQ = Off(r.waitQ, o, t)
  BY <1>0, SMT DEF Rec, Fields, WaitRemove, Off, SameRest, SameCtl, SameRun, SameWhere, SameCnt
<1>2. s = [f \in DOMAIN s |-> s[f]]
  BY SMT DEF WaitRemove
<1>3. Rec(s)
  BY <1>1, <1>2 DEF Rec
<1>4. /\ RQ(s, X \cup {t}) /\ t \notin X /\ r.waitObj[t] = o /\ r.mstate[t] = WaitState[o]
      /\ Longer(r.waitQ, s.waitQ, o, -1) /\ NonEmpty(r.waitQ[o])
  <2>1. RQ(r, X) /\ OffW(r, s, o, t)
    BY <1>0, <1>1 DEF OffW
  <2> QED
    BY <2>1, ROffWait
<1>5. CtlT(s) /\ RunT(s) /\ CntT(s)
  BY <1>0, <1>1, SameCtlT DEF SameRest, SameRun, SameCnt, RunT, CntT
<1>6. \A x \in Obj : x # o => CountAt(s, x, 0)
  <2> SUFFICES ASSUME NEW x \in Obj, x # o PROVE CountAt(s, x, 0)
    OBVIOUS
  <2>1. SameAt(r, s, x)
    BY <1>1, <1>4 DEF SameAt, Longer, SameCnt, SameRest, SameCtl
  <2> QED
    BY <1>0, <2>1, SameCounts
<1>7. CountAt(r, o, 0)
  BY <1>0
<1>8. r.phase[o] # "deleted"
  BY <1>4, <1>7 DEF NonEmpty, CountAt
<1>9. /\ Len(s.suspQ[o]) \in Nat /\ (o \in Mutex \cup Cond => r.waitCount[o] \in Nat)
      /\ (o \in Sem => r.count[o] \in Int)
  BY <1>0, <1>4, RHead DEF CntT
<1>10. CountAt(s, o, 1)
  <2>1. /\ s.phase[o] = r.phase[o] /\ s.suspQ[o] = r.suspQ[o] /\ SameCnt(r, s)
        /\ Len(r.waitQ[o]) = Len(s.waitQ[o]) + 1 /\ Len(s.waitQ[o]) \in Nat
    BY <1>1, <1>4 DEF Longer, SameRest, SameCtl
  <2> DEFINE a == Len(s.waitQ[o])
             b == Len(s.suspQ[o])
  <2>2. a \in Nat /\ b \in Nat /\ a = Len(s.waitQ[o]) /\ b = Len(s.suspQ[o])
        /\ Len(r.waitQ[o]) = a + 1 /\ Len(r.suspQ[o]) = b
    BY <1>9, <2>1
  <2> HIDE DEF a, b
  <2>3. o \in Mutex \cup Cond =>
           Shift(r.waitCount[o], Len(r.waitQ[o]), Len(r.suspQ[o]), 0, s.waitCount[o], a, b, 1)
    <3> DEFINE x == Len(r.waitQ[o])
               y == Len(r.suspQ[o])
               n == r.waitCount[o]
    <3>1. x = a + 1 /\ y = b /\ a \in Nat /\ b \in Nat /\ s.waitCount[o] = n
      BY <2>1, <2>2 DEF SameCnt
    <3>2. o \in Mutex \cup Cond => n \in Nat
      BY <1>9
    <3> HIDE DEF x, y, n
    <3>3. o \in Mutex \cup Cond => Shift(n, x, y, 0, n, a, b, 1)
      BY <3>1, <3>2 DEF Shift
    <3> QED
      BY <3>1, <3>3 DEF x, y, n
  <2>4. o \in Cond /\ r.phase[o] = "live" => (s.cvMutex[o] = Null <=> s.waitCount[o] = 0)
    BY <1>7, <2>1 DEF CountAt, SameCnt
  <2>5. o \in Sem => SemTally(s.count[o], a, 1)
    BY <1>7, <1>8, <1>9, <2>1, <2>2 DEF CountAt, SameCnt, SemTally
  <2>6. Recount(r, s, o, 0, a, b, 1)
    BY <1>8, <2>1, <2>2, <2>3, <2>4, <2>5 DEF Recount
  <2> QED
    BY <1>7, <2>6, CountMove
<1> QED
  BY <1>1, <1>3, <1>4, <1>5, <1>6, <1>8, <1>10 DEF FQ

SuspRemove(r, o, t) == [r EXCEPT !.suspQ[o] = Without(@, t)]
PendRemove(r, m, t) == [r EXCEPT !.pendQ[m] = Without(@, t)]

\* How a suspended thread is counted.
SuspCounts(o) == IF o \in Sem THEN 0 ELSE 1

\* DMutex, DCondVar and DSemaphore take a thread off their suspended queue.
LEMMA TakeSusp ==
    ASSUME NEW r, NEW X, QOK(r, X), NEW o \in Obj, NEW t \in Thread, t \in Range(r.suspQ[o]),
           NEW s, s = SuspRemove(r, o, t)
    PROVE  /\ FQ(s, X \cup {t}, o, SuspCounts(o)) /\ SameRest(r, s) /\ SameWhere(r, s)
           /\ SameCnt(r, s) /\ s.pri = r.pri /\ s.waitQ = r.waitQ /\ s.pendQ = r.pendQ
           /\ t \notin X /\ r.waitObj[t] = o /\ r.mstate[t] = SuspState[o]
           /\ r.phase[o] # "deleted"
<1>0. /\ Rec(r) /\ CtlT(r) /\ RunT(r) /\ CntT(r) /\ RQ(r, X)
      /\ \A x \in Obj : CountAt(r, x, 0)
  BY DEF QOK
<1>1. /\ DOMAIN s = Fields /\ SameRest(r, s) /\ SameWhere(r, s) /\ SameCnt(r, s)
      /\ s.pri = r.pri /\ s.waitQ = r.waitQ /\ s.pendQ = r.pendQ
      /\ s.suspQ = Off(r.suspQ, o, t)
  BY <1>0, SMT DEF Rec, Fields, SuspRemove, Off, SameRest, SameCtl, SameRun, SameWhere, SameCnt
<1>2. s = [f \in DOMAIN s |-> s[f]]
  BY SMT DEF SuspRemove
<1>3. Rec(s)
  BY <1>1, <1>2 DEF Rec
<1>4. /\ RQ(s, X \cup {t}) /\ t \notin X /\ r.waitObj[t] = o /\ r.mstate[t] = SuspState[o]
      /\ Longer(r.suspQ, s.suspQ, o, -1) /\ NonEmpty(r.suspQ[o])
  <2>1. RQ(r, X) /\ OffS(r, s, o, t)
    BY <1>0, <1>1 DEF OffS
  <2> QED
    BY <2>1, ROffSusp
<1>5. CtlT(s) /\ RunT(s) /\ CntT(s)
  BY <1>0, <1>1, SameCtlT DEF SameRest, SameRun, SameCnt, RunT, CntT
<1>6. \A x \in Obj : x # o => CountAt(s, x, 0)
  <2> SUFFICES ASSUME NEW x \in Obj, x # o PROVE CountAt(s, x, 0)
    OBVIOUS
  <2>1. SameAt(r, s, x)
    BY <1>1, <1>4 DEF SameAt, Longer, SameCnt, SameRest, SameCtl
  <2> QED
    BY <1>0, <2>1, SameCounts
<1>7. CountAt(r, o, 0)
  BY <1>0
<1>8. r.phase[o] # "deleted"
  BY <1>4, <1>7 DEF NonEmpty, CountAt
<1>9. /\ Len(s.waitQ[o]) \in Nat /\ (o \in Mutex \cup Cond => r.waitCount[o] \in Nat)
      /\ (o \in Sem => r.count[o] \in Int)
  BY <1>0, <1>4, RHead DEF CntT
<1>10. CountAt(s, o, SuspCounts(o))
  <2>1. /\ s.phase[o] = r.phase[o] /\ s.waitQ[o] = r.waitQ[o] /\ SameCnt(r, s)
        /\ Len(r.suspQ[o]) = Len(s.suspQ[o]) + 1 /\ Len(s.suspQ[o]) \in Nat
    BY <1>1, <1>4 DEF Longer, SameRest, SameCtl
  <2> DEFINE a == Len(s.waitQ[o])
             b == Len(s.suspQ[o])
             e == SuspCounts(o)
  <2>2. a \in Nat /\ b \in Nat /\ a = Len(s.waitQ[o]) /\ b = Len(s.suspQ[o])
        /\ Len(r.waitQ[o]) = a /\ Len(r.suspQ[o]) = b + 1
    BY <1>9, <2>1
  <2>6. e \in Nat /\ (o \in Mutex \cup Cond => e = 1) /\ (o \in Sem => e = 0)
    BY SyncAssumption DEF SuspCounts
  <2> HIDE DEF a, b, e
  <2>3. o \in Mutex \cup Cond =>
           Shift(r.waitCount[o], Len(r.waitQ[o]), Len(r.suspQ[o]), 0, s.waitCount[o], a, b, e)
    <3> DEFINE x == Len(r.waitQ[o])
               y == Len(r.suspQ[o])
               n == r.waitCount[o]
    <3>1. x = a /\ y = b + 1 /\ a \in Nat /\ b \in Nat /\ s.waitCount[o] = n /\ (o \in Mutex \cup Cond => e = 1)
      BY <2>1, <2>2, <2>6 DEF SameCnt
    <3>2. o \in Mutex \cup Cond => n \in Nat
      BY <1>9
    <3> HIDE DEF x, y, n
    <3>3. o \in Mutex \cup Cond => Shift(n, x, y, 0, n, a, b, e)
      BY <3>1, <3>2 DEF Shift
    <3> QED
      BY <3>1, <3>3 DEF x, y, n
  <2>4. o \in Cond /\ r.phase[o] = "live" => (s.cvMutex[o] = Null <=> s.waitCount[o] = 0)
    BY <1>7, <2>1 DEF CountAt, SameCnt
  <2>5. o \in Sem => SemTally(s.count[o], a, e)
    BY <1>7, <1>8, <1>9, <2>1, <2>2, <2>6 DEF CountAt, SameCnt
  <2>8. Recount(r, s, o, 0, a, b, e)
    BY <1>8, <2>1, <2>2, <2>3, <2>4, <2>5, <2>6 DEF Recount
  <2>7. CountAt(s, o, e)
    BY <1>7, <2>6, <2>8, CountMove
  <2> QED
    BY <2>7 DEF e
<1> QED
  BY <1>1, <1>3, <1>4, <1>5, <1>6, <1>8, <1>10 DEF FQ

\* DMutex takes a thread off its pending queue.
LEMMA TakePend ==
    ASSUME NEW r, NEW X, QOK(r, X), NEW m \in Mutex, NEW t \in Thread, t \in Range(r.pendQ[m]),
           NEW s, s = PendRemove(r, m, t)
    PROVE  /\ QOK(s, X \cup {t}) /\ SameRest(r, s) /\ SameWhere(r, s)
           /\ SameCnt(r, s) /\ s.pri = r.pri /\ s.waitQ = r.waitQ /\ s.suspQ = r.suspQ
           /\ t \notin X /\ r.waitObj[t] = m /\ r.mstate[t] = "EHoldMutexPending"
           /\ r.phase[m] # "deleted"
<1>0. /\ Rec(r) /\ CtlT(r) /\ RunT(r) /\ CntT(r) /\ RQ(r, X)
      /\ \A x \in Obj : CountAt(r, x, 0)
  BY DEF QOK
<1>1. /\ DOMAIN s = Fields /\ SameRest(r, s) /\ SameWhere(r, s) /\ SameCnt(r, s)
      /\ s.pri = r.pri /\ s.waitQ = r.waitQ /\ s.suspQ = r.suspQ
      /\ s.pendQ = Off(r.pendQ, m, t)
  BY <1>0, SMT DEF Rec, Fields, PendRemove, Off, SameRest, SameCtl, SameRun, SameWhere, SameCnt
<1>2. s = [f \in DOMAIN s |-> s[f]]
  BY SMT DEF PendRemove
<1>3. Rec(s)
  BY <1>1, <1>2 DEF Rec
<1>4. /\ RQ(s, X \cup {t}) /\ t \notin X /\ r.waitObj[t] = m /\ r.mstate[t] = "EHoldMutexPending"
      /\ NonEmpty(r.pendQ[m]) /\ OnlyAt(r.pendQ, s.pendQ, m)
  <2>1. RQ(r, X) /\ OffP(r, s, m, t)
    BY <1>0, <1>1 DEF OffP
  <2> QED
    BY <2>1, ROffPend
<1>5. CtlT(s) /\ RunT(s) /\ CntT(s)
  BY <1>0, <1>1, SameCtlT DEF SameRest, SameRun, SameCnt, RunT, CntT
<1>7. CountAt(r, m, 0) /\ m \in Obj
  BY <1>0 DEF Obj
<1>8. r.phase[m] # "deleted"
  BY <1>4, <1>7 DEF NonEmpty, CountAt
<1>6. \A x \in Obj : CountAt(s, x, 0)
  <2> SUFFICES ASSUME NEW x \in Obj PROVE CountAt(s, x, 0)
    OBVIOUS
  <2>1. CASE x # m
    <3>1. SameAt(r, s, x)
      BY <1>1, <1>4, <2>1 DEF SameAt, OnlyAt, SameCnt, SameRest, SameCtl
    <3> QED
      BY <1>0, <3>1, SameCounts
  <2>2. CASE x = m
    BY <1>1, <1>7, <1>8, <2>2 DEF NonEmpty, CountAt, SameCnt, SameRest, SameCtl
  <2> QED
    BY <2>1, <2>2
<1> QED
  BY <1>1, <1>3, <1>4, <1>5, <1>6, <1>8 DEF QOK

\* The lengths of the queues and the counters are integers.
LEMMA CountTypes ==
    ASSUME NEW r, NEW X, RQ(r, X), CntT(r), NEW o \in Obj
    PROVE  /\ Len(r.waitQ[o]) \in Nat /\ Len(r.suspQ[o]) \in Nat
           /\ o \in Mutex \cup Cond => r.waitCount[o] \in Nat
           /\ o \in Sem => r.count[o] \in Int
BY RHead DEF CntT

\* A thread in flux ends up with a mutex on offer.
LEMMA LandPend ==
    ASSUME NEW r, NEW X, NEW t \in Thread, t \notin X, NEW y, NEW d, FQ(r, X \cup {t}, y, d),
           NEW m \in Mutex, r.phase[m] # "deleted", NEW s, Kept(r, s), SameCnt(r, s),
           Lands(r, s, t, "EHoldMutexPending", m), GetP(r, s, m, t)
    PROVE  FQ(s, X, y, d)
<1>1. RQ(r, X \cup {t})
  BY DEF FQ
<1>2. RQ(s, X) /\ OnlyAt(r.pendQ, s.pendQ, m)
  BY <1>1, ROnPend
<1>3. CtlT(s) /\ CntT(s)
  BY KeptT
<1>4. ASSUME NEW x \in Obj, NEW e, CountAt(r, x, e) PROVE CountAt(s, x, e)
  <2>1. CASE x # m
    <3>1. SameAt(r, s, x)
      BY <1>2, <2>1 DEF SameAt, OnlyAt, GetP, SameCnt, Kept, SameCtl
    <3> QED
      BY <1>4, <3>1, SameCounts
  <2>2. CASE x = m
    BY <1>4, <2>2 DEF CountAt, GetP, SameCnt, Kept, SameCtl
  <2> QED
    BY <2>1, <2>2
<1> QED
  BY <1>2, <1>3, <1>4 DEF FQ, Kept

\* A thread in flux ends up waiting for nothing.
LEMMA LandIdle ==
    ASSUME NEW r, NEW X, NEW t \in Thread, t \notin X, NEW y, NEW d, FQ(r, X \cup {t}, y, d),
           NEW s, Kept(r, s), SameCnt(r, s), NEW ms \in Idle,
           Lands(r, s, t, ms, Null), SameQ(r, s), s.pri = r.pri
    PROVE  FQ(s, X, y, d)
<1>1. RQ(r, X \cup {t})
  BY DEF FQ
<1>2. RQ(s, X)
  BY <1>1, ROnNone
<1>3. CtlT(s) /\ CntT(s)
  BY KeptT
<1>4. ASSUME NEW x \in Obj, NEW e, CountAt(r, x, e) PROVE CountAt(s, x, e)
  <2>1. SameAt(r, s, x)
    BY DEF SameAt, SameQ, SameCnt, Kept, SameCtl
  <2> QED
    BY <1>4, <2>1, SameCounts
<1> QED
  BY <1>2, <1>3, <1>4 DEF FQ, Kept

\* Nothing that the queues are about changes.
LEMMA LandSame ==
    ASSUME NEW r, NEW X, NEW y, NEW d, FQ(r, X, y, d),
           NEW s, Kept(r, s), SameCnt(r, s), SameWhere(r, s), SameQ(r, s), s.pri = r.pri
    PROVE  FQ(s, X, y, d)
<1>1. RQ(s, X)
  BY DEF FQ, RQ, SameWhere, SameQ
<1>3. CtlT(s) /\ CntT(s)
  BY KeptT
<1>4. ASSUME NEW x \in Obj, NEW e, CountAt(r, x, e) PROVE CountAt(s, x, e)
  <2>1. SameAt(r, s, x)
    BY DEF SameAt, SameQ, SameCnt, Kept, SameCtl
  <2> QED
    BY <1>4, <2>1, SameCounts
<1> QED
  BY <1>1, <1>3, <1>4 DEF FQ, Kept

\* A thread in flux, which was counted already, ends up waiting.
LEMMA LandWait ==
    ASSUME NEW r, NEW X, NEW t \in Thread, t \notin X, NEW o \in Obj, FQ(r, X \cup {t}, o, 1),
           r.phase[o] # "deleted", NEW s, Kept(r, s), SameCnt(r, s),
           Lands(r, s, t, WaitState[o], o), GetW(r, s, o, t)
    PROVE  QOK(s, X)
<1>1. RQ(r, X \cup {t}) /\ CntT(r) /\ CountAt(r, o, 1)
  BY DEF FQ
<1>2. RQ(s, X) /\ Longer(r.waitQ, s.waitQ, o, 1)
  BY <1>1, ROnWait
<1>3. CtlT(s) /\ CntT(s)
  BY KeptT
<1>4. ASSUME NEW x \in Obj, x # o PROVE CountAt(s, x, 0)
  <2>1. SameAt(r, s, x)
    BY <1>2, <1>4 DEF SameAt, Longer, GetW, SameCnt, Kept, SameCtl
  <2>2. CountAt(r, x, 0)
    BY <1>4 DEF FQ
  <2> QED
    BY <2>1, <2>2, SameCounts
<1>5. CountAt(s, o, 0)
  <2> DEFINE a == Len(s.waitQ[o])
             b == Len(s.suspQ[o])
             x == Len(r.waitQ[o])
             y == Len(r.suspQ[o])
             n == r.waitCount[o]
             e == 1
  <2>1. /\ s.phase[o] = r.phase[o] /\ s.suspQ[o] = r.suspQ[o] /\ SameCnt(r, s)
    BY <1>2 DEF GetW, Kept, SameCtl
  <2>2. /\ a \in Nat /\ b \in Nat /\ x \in Nat /\ y \in Nat /\ a = x + 1 /\ b = y
        /\ (o \in Mutex \cup Cond => n \in Nat)
    BY <1>1, <1>2, <2>1, CountTypes DEF Longer
  <2>3. e \in Nat /\ (o \in Mutex \cup Cond => e = 1) /\ (o \in Sem => e = 1) /\ (o \in Sem => o \notin Mutex \cup Cond)
    BY SyncAssumption DEF SuspCounts
  <2> HIDE DEF a, b, x, y, n, e
  <2>4. o \in Mutex \cup Cond => Shift(n, x, y, e, n, a, b, 0)
    BY <2>2, <2>3 DEF Shift
  <2>5. o \in Mutex \cup Cond =>
           Shift(r.waitCount[o], Len(r.waitQ[o]), Len(r.suspQ[o]), e, s.waitCount[o], a, b, 0)
    BY <2>1, <2>4 DEF x, y, n, SameCnt
  <2>6. o \in Cond /\ r.phase[o] = "live" => (s.cvMutex[o] = Null <=> s.waitCount[o] = 0)
    BY <1>1, <2>1 DEF CountAt, SameCnt
  <2>7. o \in Sem => SemTally(r.count[o], x, e)
    BY <1>1 DEF CountAt, x, e
  <2>8. o \in Sem => SemTally(s.count[o], a, 0)
    BY <2>1, <2>2, <2>3, <2>7 DEF SameCnt, SemTally
  <2>9. Recount(r, s, o, e, a, b, 0)
    BY <2>1, <2>2, <2>5, <2>6, <2>8 DEF Recount, a, b, x, y
  <2>10. CountAt(r, o, e)
    BY <1>1 DEF e
  <2> QED
    BY <2>3, <2>9, <2>10, CountMove
<1> QED
  BY <1>2, <1>3, <1>4, <1>5 DEF QOK, FQ, Kept

\* The same for one that is suspended while it waits.
LEMMA LandSusp ==
    ASSUME NEW r, NEW X, NEW t \in Thread, t \notin X, NEW o \in Obj,
           FQ(r, X \cup {t}, o, SuspCounts(o)),
           r.phase[o] # "deleted", NEW s, Kept(r, s), SameCnt(r, s),
           Lands(r, s, t, SuspState[o], o), GetS(r, s, o, t)
    PROVE  QOK(s, X)
<1>1. RQ(r, X \cup {t}) /\ CntT(r) /\ CountAt(r, o, SuspCounts(o))
  BY DEF FQ
<1>2. RQ(s, X) /\ Longer(r.suspQ, s.suspQ, o, 1)
  BY <1>1, ROnSusp
<1>3. CtlT(s) /\ CntT(s)
  BY KeptT
<1>4. ASSUME NEW x \in Obj, x # o PROVE CountAt(s, x, 0)
  <2>1. SameAt(r, s, x)
    BY <1>2, <1>4 DEF SameAt, Longer, GetS, SameCnt, Kept, SameCtl
  <2>2. CountAt(r, x, 0)
    BY <1>4 DEF FQ
  <2> QED
    BY <2>1, <2>2, SameCounts
<1>5. CountAt(s, o, 0)
  <2> DEFINE a == Len(s.waitQ[o])
             b == Len(s.suspQ[o])
             x == Len(r.waitQ[o])
             y == Len(r.suspQ[o])
             n == r.waitCount[o]
             e == SuspCounts(o)
  <2>1. /\ s.phase[o] = r.phase[o] /\ s.waitQ[o] = r.waitQ[o] /\ SameCnt(r, s)
    BY <1>2 DEF GetS, Kept, SameCtl
  <2>2. /\ a \in Nat /\ b \in Nat /\ x \in Nat /\ y \in Nat /\ a = x /\ b = y + 1
        /\ (o \in Mutex \cup Cond => n \in Nat)
    BY <1>1, <1>2, <2>1, CountTypes DEF Longer
  <2>3. e \in Nat /\ (o \in Mutex \cup Cond => e = 1) /\ (o \in Sem => e = 0) /\ (o \in Sem => o \notin Mutex \cup Cond)
    BY SyncAssumption DEF SuspCounts
  <2> HIDE DEF a, b, x, y, n, e
  <2>4. o \in Mutex \cup Cond => Shift(n, x, y, e, n, a, b, 0)
    BY <2>2, <2>3 DEF Shift
  <2>5. o \in Mutex \cup Cond =>
           Shift(r.waitCount[o], Len(r.waitQ[o]), Len(r.suspQ[o]), e, s.waitCount[o], a, b, 0)
    BY <2>1, <2>4 DEF x, y, n, SameCnt
  <2>6. o \in Cond /\ r.phase[o] = "live" => (s.cvMutex[o] = Null <=> s.waitCount[o] = 0)
    BY <1>1, <2>1 DEF CountAt, SameCnt
  <2>7. o \in Sem => SemTally(r.count[o], x, e)
    BY <1>1 DEF CountAt, x, e
  <2>8. o \in Sem => SemTally(s.count[o], a, 0)
    BY <2>1, <2>2, <2>3, <2>7 DEF SameCnt, SemTally
  <2>9. Recount(r, s, o, e, a, b, 0)
    BY <2>1, <2>2, <2>5, <2>6, <2>8 DEF Recount, a, b, x, y
  <2>10. CountAt(r, o, e)
    BY <1>1 DEF e
  <2> QED
    BY <2>3, <2>9, <2>10, CountMove
<1> QED
  BY <1>2, <1>3, <1>4, <1>5 DEF QOK, FQ, Kept

\* Only counters change.
OnlyCounts(r, s) ==
    /\ SameCtl(r, s) /\ SameRun(r, s) /\ s.clnPri = r.clnPri /\ s.fault = r.fault
    /\ SameWhere(r, s) /\ SameQ(r, s) /\ s.pri = r.pri

SameCountAt(r, s, x) ==
    /\ x \in Mutex \cup Cond => s.waitCount[x] = r.waitCount[x]
    /\ x \in Sem => s.count[x] = r.count[x]
    /\ x \in Cond => s.cvMutex[x] = r.cvMutex[x]

\* A counter is changed, and with it what it differs by.
LEMMA CountChange ==
    ASSUME NEW r, NEW X, NEW o \in Obj, NEW d, FQ(r, X, o, d), NEW s, Rec(s), OnlyCounts(r, s),
           CntT(s), \A x \in Obj : x # o => SameCountAt(r, s, x), NEW e, CountAt(s, o, e)
    PROVE  FQ(s, X, o, e)
<1>1. /\ CtlT(r) /\ RunT(r) /\ RQ(r, X)
      /\ \A x \in Obj : x # o => CountAt(r, x, 0)
  BY DEF FQ
<1>2. CtlT(s) /\ RunT(s)
  BY <1>1, SameCtlT DEF OnlyCounts, RunT, SameRun
<1>3. RQ(s, X)
  BY <1>1 DEF OnlyCounts, SameWhere, SameQ, RQ
<1>4. ASSUME NEW x \in Obj, x # o PROVE CountAt(s, x, 0)
  <2>1. SameAt(r, s, x)
    BY <1>4 DEF SameAt, SameCountAt, OnlyCounts, SameQ, SameCtl
  <2> QED
    BY <1>1, <1>4, <2>1, SameCounts
<1> QED
  BY <1>2, <1>3, <1>4 DEF FQ

\* n threads more are counted at mutex or condition variable m.
WcAdd(r, m, n) == [r EXCEPT !.waitCount[m] = @ + n]

\* WcAdd changes one iWaitCount only.
LEMMA WcAddFields ==
    ASSUME NEW r, Rec(r), NEW m, NEW n, NEW s, s = WcAdd(r, m, n)
    PROVE  /\ Rec(s) /\ OnlyCounts(r, s)
           /\ s.waitCount = [r.waitCount EXCEPT ![m] = r.waitCount[m] + n]
           /\ s.count = r.count /\ s.cvMutex = r.cvMutex
<1>1. /\ DOMAIN s = Fields /\ OnlyCounts(r, s)
      /\ s.waitCount = [r.waitCount EXCEPT ![m] = r.waitCount[m] + n]
      /\ s.count = r.count /\ s.cvMutex = r.cvMutex
  BY SMT DEF Rec, Fields, WcAdd, OnlyCounts, SameCtl, SameRun, SameWhere, SameQ
<1>2. s = [f \in DOMAIN s |-> s[f]]
  BY SMT DEF WcAdd
<1> QED
  BY <1>1, <1>2 DEF Rec

\* The iWaitCount of a mutex, changed by one thread.
LEMMA MutexCount ==
    ASSUME NEW r, NEW X, NEW m \in Mutex, NEW d \in {0, 1}, NEW e \in {0, 1}, FQ(r, X, m, d),
           r.phase[m] # "deleted", NEW s, s = WcAdd(r, m, e - d)
    PROVE  FQ(s, X, m, e) /\ OnlyCounts(r, s) /\ s.count = r.count /\ s.cvMutex = r.cvMutex
<1>1. /\ Rec(r) /\ RQ(r, X) /\ CntT(r) /\ m \in Obj /\ CountAt(r, m, d) /\ CtlT(r)
  BY DEF FQ, Obj
<1>2. /\ Rec(s) /\ OnlyCounts(r, s)
      /\ s.waitCount = [r.waitCount EXCEPT ![m] = r.waitCount[m] + (e - d)]
      /\ s.count = r.count /\ s.cvMutex = r.cvMutex
  <2>1. e - d \in Int
    OBVIOUS
  <2> DEFINE n == e - d
  <2>2. s = WcAdd(r, m, n)
    OBVIOUS
  <2> HIDE DEF n
  <2>3. /\ Rec(s) /\ OnlyCounts(r, s)
        /\ s.waitCount = [r.waitCount EXCEPT ![m] = r.waitCount[m] + n]
        /\ s.count = r.count /\ s.cvMutex = r.cvMutex
    BY <1>1, <2>2, WcAddFields
  <2> QED
    BY <2>3 DEF n
<1> DEFINE a == Len(r.waitQ[m])
           b == Len(r.suspQ[m])
           n == r.waitCount[m]
           n2 == s.waitCount[m]
           ph == r.phase[m]
<1>3. a \in Nat /\ b \in Nat /\ n \in Nat /\ n2 = n + (e - d) /\ d \in Nat /\ e \in Nat
  <2>1. a \in Nat /\ b \in Nat /\ n \in Nat
    BY <1>1, CountTypes
  <2>2. n2 = n + (e - d)
    BY <1>1, <1>2 DEF CntT
  <2> QED
    BY <2>1, <2>2
<1>4. m \notin Cond /\ m \notin Sem
  BY SyncAssumption
<1>5. Tally(ph, n, a, b, d) /\ ph \in Phases /\ ph # "deleted"
  BY <1>1 DEF CountAt, CtlT
<1> HIDE DEF a, b, n, n2, ph
<1>6. Tally(ph, n2, a, b, e) /\ n2 \in Nat
  <2>1. n2 \in Int /\ n2 - a - b - e = n - a - b - d
    BY <1>3
  <2>2. Tally(ph, n2, a, b, e)
    BY <1>3, <1>5, <2>1, TallyMove
  <2>3. n2 \in Nat
    BY <1>3, <1>5 DEF Tally, Phases
  <2> QED
    BY <2>2, <2>3
<1>7. CountAt(s, m, e)
  <2>1. s.phase[m] = ph /\ Len(s.waitQ[m]) = a /\ Len(s.suspQ[m]) = b /\ s.waitCount[m] = n2
    BY <1>2 DEF OnlyCounts, SameCtl, SameQ, a, b, n2, ph
  <2> QED
    BY <1>4, <1>5, <1>6, <2>1 DEF CountAt
<1>8. CntT(s)
  BY <1>1, <1>2, <1>6 DEF CntT, n2
<1>9. \A x \in Obj : x # m => SameCountAt(r, s, x)
  BY <1>1, <1>2 DEF SameCountAt, CntT
<1> QED
  BY <1>1, <1>2, <1>7, <1>8, <1>9, CountChange

Uncounted(r, s, c) ==
    /\ s.waitCount = [r.waitCount EXCEPT ![c] = r.waitCount[c] - 1]
    /\ s.cvMutex = [r.cvMutex EXCEPT ![c] = IF r.waitCount[c] = 1 THEN Null ELSE r.cvMutex[c]]
    /\ s.count = r.count

\* CondUncount changes one iWaitCount, and the mutex of the condition variable.
LEMMA CondUncountFields ==
    ASSUME NEW r, Rec(r), NEW c, NEW s, s = CondUncount(r, c)
    PROVE  Rec(s) /\ OnlyCounts(r, s) /\ Uncounted(r, s, c)
<1>1. /\ DOMAIN s = Fields /\ OnlyCounts(r, s)
      /\ s.waitCount = [r.waitCount EXCEPT ![c] = r.waitCount[c] - 1]
      /\ s.cvMutex = [r.cvMutex EXCEPT ![c] = IF r.waitCount[c] = 1 THEN Null ELSE r.cvMutex[c]]
      /\ s.count = r.count
  BY SMT DEF Rec, Fields, CondUncount, OnlyCounts, SameCtl, SameRun, SameWhere, SameQ
<1>2. s = [f \in DOMAIN s |-> s[f]]
  <2> DEFINE v == IF r.waitCount[c] = 1 THEN Null ELSE r.cvMutex[c]
             q == [r EXCEPT !.waitCount[c] = @ - 1]
  <2>1. s = [q EXCEPT !.cvMutex[c] = v]
    BY SMT DEF CondUncount, Rec, Fields
  <2> HIDE DEF v, q
  <2> QED
    BY <2>1, SMT
<1> QED
  BY <1>1, <1>2 DEF Rec, Uncounted

\* Threads that wait for a condition variable keep its mutex in mind.
CvKept(r, s, X) ==
    \A u \in Thread \ X : r.mstate[u] \in CondWaits /\ r.waitObj[u] \in Cond
                             => s.cvMutex[r.waitObj[u]] = r.cvMutex[r.waitObj[u]]

\* A thread is no longer counted by a condition variable; the last one clears its
\* mutex.
LEMMA CondUncountKeeps ==
    ASSUME NEW r, NEW X, NEW c \in Cond, FQ(r, X, c, 1), r.phase[c] # "deleted",
           NEW s, s = CondUncount(r, c)
    PROVE  /\ QOK(s, X) /\ OnlyCounts(r, s) /\ s.count = r.count /\ CvKept(r, s, X)
           /\ r.phase[c] = "live" => r.cvMutex[c] \in Mutex
<1>1. /\ Rec(r) /\ RQ(r, X) /\ CntT(r) /\ c \in Obj /\ CountAt(r, c, 1) /\ CtlT(r)
  BY DEF FQ, Obj
<1>2. /\ Rec(s) /\ OnlyCounts(r, s)
      /\ s.waitCount = [r.waitCount EXCEPT ![c] = r.waitCount[c] - 1]
      /\ s.cvMutex = [r.cvMutex EXCEPT ![c] = IF r.waitCount[c] = 1 THEN Null ELSE r.cvMutex[c]]
      /\ s.count = r.count
  <2>1. Rec(s) /\ OnlyCounts(r, s) /\ Uncounted(r, s, c)
    BY <1>1, CondUncountFields
  <2> QED
    BY <2>1 DEF Uncounted
<1> DEFINE a == Len(r.waitQ[c])
           b == Len(r.suspQ[c])
           n == r.waitCount[c]
           n2 == s.waitCount[c]
           ph == r.phase[c]
           cv == r.cvMutex[c]
           cv2 == s.cvMutex[c]
<1>3. /\ a \in Nat /\ b \in Nat /\ n \in Nat /\ n2 = n - 1 /\ cv \in Mutex \cup {Null}
      /\ cv2 = IF n = 1 THEN Null ELSE cv
  <2>1. a \in Nat /\ b \in Nat /\ n \in Nat
    BY <1>1, CountTypes
  <2>2. n2 = n - 1
    BY <1>1, <1>2 DEF CntT
  <2>3. cv2 = IF n = 1 THEN Null ELSE cv
    BY <1>1, <1>2 DEF CntT
  <2>4. cv \in Mutex \cup {Null}
    BY <1>1 DEF CntT
  <2> QED
    BY <2>1, <2>2, <2>3, <2>4
<1>4. c \notin Mutex /\ c \notin Sem
  BY SyncAssumption
<1>5. Tally(ph, n, a, b, 1) /\ ph \in Phases /\ ph # "deleted" /\ (ph = "live" => (cv = Null <=> n = 0))
  BY <1>1 DEF CountAt, CtlT
<1>10. n = 1 => r.waitQ[c] = <<>> /\ r.suspQ[c] = <<>>
  <2>1. n = 1 => a = 0 /\ b = 0
    <3> HIDE DEF a, b, n, n2, ph, cv, cv2
    <3> QED
      BY <1>3, <1>5 DEF Tally, Phases
  <2>2. r.waitQ[c] \in Seq(Thread) /\ r.suspQ[c] \in Seq(Thread)
    BY <1>1, QTypes2
  <2> QED
    BY <2>1, <2>2
<1>11. CvKept(r, s, X)
  <2> SUFFICES ASSUME NEW u \in Thread \ X, r.mstate[u] \in CondWaits, r.waitObj[u] \in Cond
               PROVE  s.cvMutex[r.waitObj[u]] = r.cvMutex[r.waitObj[u]]
    BY DEF CvKept
  <2>1. CASE r.waitObj[u] # c
    BY <1>1, <1>2, <2>1 DEF CntT
  <2>2. CASE r.waitObj[u] = c
    <3>1. WaitState[c] = "EWaitCondVar" /\ SuspState[c] = "EWaitCondVarSuspended"
      BY WaitStates
    <3>2. u \in Range(r.waitQ[c]) \/ u \in Range(r.suspQ[c])
      BY <1>1, <2>2, <3>1, RWhere DEF CondWaits
    <3>3. Range(<<>>) = {}
      BY DEF Range
    <3>4. n # 1
      BY <1>10, <3>2, <3>3
    <3> QED
      BY <1>3, <2>2, <3>4
  <2> QED
    BY <2>1, <2>2
<1> HIDE DEF a, b, n, n2, ph, cv, cv2
<1>6. Tally(ph, n2, a, b, 0) /\ n2 \in Nat /\ (ph = "live" => (cv2 = Null <=> n2 = 0) /\ cv \in Mutex)
  BY <1>3, <1>5 DEF Tally, Phases
<1>7. CountAt(s, c, 0)
  <2>1. /\ s.phase[c] = ph /\ Len(s.waitQ[c]) = a /\ Len(s.suspQ[c]) = b /\ s.waitCount[c] = n2
        /\ s.cvMutex[c] = cv2
    BY <1>2 DEF OnlyCounts, SameCtl, SameQ, a, b, n2, ph, cv2
  <2> QED
    BY <1>4, <1>5, <1>6, <2>1 DEF CountAt
<1>8. CntT(s)
  <2>1. cv2 \in Mutex \cup {Null}
    BY <1>3
  <2> QED
    BY <1>1, <1>2, <1>3, <1>6, <2>1 DEF CntT, n2, cv2, n, cv
<1>9. \A x \in Obj : x # c => SameCountAt(r, s, x)
  BY <1>1, <1>2 DEF SameCountAt, CntT
<1>12. FQ(s, X, c, 0)
  BY <1>1, <1>2, <1>7, <1>8, <1>9, CountChange
<1>13. r.phase[c] = "live" => r.cvMutex[c] \in Mutex
  BY <1>6 DEF ph, cv
<1> QED
  BY <1>2, <1>11, <1>12, <1>13, FluxNone

Released(r, s, t, c) ==
    /\ s.blocked = [r.blocked EXCEPT ![t] = FALSE]
    /\ s.timed = [r.timed EXCEPT ![t] = FALSE]
    /\ s.ret = [r.ret EXCEPT ![t] = c]

SameData(r, s) == s.clnPri = r.clnPri /\ s.fault = r.fault /\ s.count = r.count /\ s.cvMutex = r.cvMutex

\* NThreadBase::Release keeps the types.
LEMMA ReleasedT ==
    ASSUME NEW r, NEW s, RunT(r), NEW t, NEW c \in Rets, Released(r, s, t, c),
           s.clnPri = r.clnPri, s.fault = r.fault
    PROVE  RunT(s)
BY DEF RunT, Released

\* The priority of a thread in flux is set.
LEMMA SetPriFlux ==
    ASSUME NEW r, NEW X, NEW y, NEW d, FQ(r, X, y, d), NEW t \in Thread, t \in X, NEW p \in Pri,
           NEW s, s = SetPri(r, t, p)
    PROVE  /\ FQ(s, X, y, d) /\ SameRest(r, s) /\ SameWhere(r, s) /\ SameCnt(r, s) /\ SameQ(r, s)
           /\ s.pri = [r.pri EXCEPT ![t] = p]
<1>0. Rec(r) /\ RQ(r, X)
  BY DEF FQ
<1>1. /\ DOMAIN s = Fields /\ SameRest(r, s) /\ SameWhere(r, s) /\ SameCnt(r, s) /\ SameQ(r, s)
      /\ s.pri = [r.pri EXCEPT ![t] = p]
  BY <1>0, SMT DEF Rec, Fields, SetPri, SameRest, SameCtl, SameRun, SameWhere, SameCnt, SameQ
<1>2. s = [f \in DOMAIN s |-> s[f]]
  BY SMT DEF SetPri
<1>3. Rec(s)
  BY <1>1, <1>2 DEF Rec
<1>4. Kept(r, s)
  BY <1>1, <1>3, SameRestKept
<1>5. RQ(s, X)
  BY <1>0, <1>1, RPri
<1>6. CtlT(s) /\ CntT(s)
  BY <1>1, <1>4, KeptT
<1>7. ASSUME NEW x \in Obj, NEW e, CountAt(r, x, e) PROVE CountAt(s, x, e)
  <2>1. SameAt(r, s, x)
    BY <1>1 DEF SameAt, SameQ, SameCnt, SameRest, SameCtl
  <2> QED
    BY <1>7, <2>1, SameCounts
<1> QED
  BY <1>1, <1>4, <1>5, <1>6, <1>7 DEF FQ, Kept

-----------------------------------------------------------------------------
\* t, off the wait queue of m, becomes pending.
Offer(v, m, t) ==
    ThreadRelease([v EXCEPT !.pendQ[m] = Append(@, t), !.mstate[t] = "EHoldMutexPending",
                            !.waitCount[m] = @ - 1], t, "KErrNone")

OfferEq(v, s, m, t) ==
    /\ SameCtl(v, s) /\ SameData(v, s) /\ s.pri = v.pri /\ s.waitQ = v.waitQ /\ s.suspQ = v.suspQ
    /\ s.waitObj = v.waitObj /\ s.mstate = [v.mstate EXCEPT ![t] = "EHoldMutexPending"]
    /\ s.pendQ = App(v.pendQ, m, t)
    /\ s.waitCount = [v.waitCount EXCEPT ![m] = v.waitCount[m] - 1]
    /\ Released(v, s, t, "KErrNone")

\* ThreadRelease keeps the fields.
LEMMA ReleaseRec ==
    ASSUME NEW q, NEW t, NEW c, DOMAIN q = Fields, NEW s, s = ThreadRelease(q, t, c)
    PROVE  Rec(s)
<1>1. DOMAIN s = Fields
  BY SMT DEF ThreadRelease, Fields
<1>2. s = [f \in DOMAIN s |-> s[f]]
  <2> DEFINE v == [[q EXCEPT !.blocked[t] = FALSE] EXCEPT !.timed[t] = FALSE]
  <2>1. s = [v EXCEPT !.ret[t] = c]
    BY SMT DEF ThreadRelease, Fields
  <2> HIDE DEF v
  <2> QED
    BY <2>1, SMT
<1> QED
  BY <1>1, <1>2 DEF Rec

\* Offer: a thread that no longer waits goes to the pending queue.
LEMMA OfferFields ==
    ASSUME NEW v, Rec(v), NEW m, NEW t, NEW s, s = Offer(v, m, t)
    PROVE  Rec(s) /\ OfferEq(v, s, m, t)
<1>1. OfferEq(v, s, m, t)
  BY SMT DEF Rec, Fields, Offer, ThreadRelease, OfferEq, SameCtl, SameData, Released, App
<1>2. Rec(s)
  <2> DEFINE q == [v EXCEPT !.pendQ[m] = Append(@, t), !.mstate[t] = "EHoldMutexPending",
                            !.waitCount[m] = @ - 1]
  <2>1. DOMAIN q = Fields /\ s = ThreadRelease(q, t, "KErrNone")
    BY SMT DEF Rec, Fields, Offer
  <2> HIDE DEF q
  <2> QED
    BY <2>1, ReleaseRec
<1> QED
  BY <1>1, <1>2

\* What t does: it is released and pending for m.
ToPending(r, s, m, t) == Lands(r, s, t, "EHoldMutexPending", m) /\ Released(r, s, t, "KErrNone")

\* A mutex is offered to a thread in flux.
LEMMA OfferKeeps ==
    ASSUME NEW v, NEW X, NEW m \in Mutex, NEW t \in Thread, t \notin X, FQ(v, X \cup {t}, m, 1),
           v.waitObj[t] = m, v.phase[m] # "deleted", NEW s, s = Offer(v, m, t)
    PROVE  /\ QOK(s, X) /\ SameCtl(v, s) /\ SameData(v, s) /\ s.pri = v.pri
           /\ ToPending(v, s, m, t)
<1> DEFINE w == WcAdd(v, m, 0 - 1)
<1>1. Rec(s) /\ OfferEq(v, s, m, t)
  BY OfferFields DEF FQ
<1>2. w = WcAdd(v, m, 0 - 1)
  OBVIOUS
<1> HIDE DEF w
<1>3. FQ(w, X \cup {t}, m, 0) /\ OnlyCounts(v, w) /\ w.count = v.count /\ w.cvMutex = v.cvMutex
  BY <1>2, MutexCount
<1>4. /\ v.waitCount \in [Mutex \cup Cond -> Nat] /\ RunT(v)
      /\ v.mstate \in [Thread -> MState] /\ v.waitObj \in [Thread -> Obj \cup {Null}]
  BY FQTypes DEF CntT
<1>5. w.waitCount = [v.waitCount EXCEPT ![m] = v.waitCount[m] - 1]
  <2>1. w.waitCount = [v.waitCount EXCEPT ![m] = v.waitCount[m] + (0 - 1)]
    BY <1>2, WcAddFields DEF FQ
  <2>2. v.waitCount[m] + (0 - 1) = v.waitCount[m] - 1
    BY <1>4
  <2> QED
    BY <2>1, <2>2
<1>6. RunT(s)
  BY <1>1, <1>4, ReleasedT DEF OfferEq, SameData, Rets
<1>7. Kept(w, s) /\ SameCnt(w, s) /\ GetP(w, s, m, t)
  BY <1>1, <1>3, <1>5, <1>6 DEF Kept, SameCnt, GetP, OnlyCounts, OfferEq, SameCtl, SameData, SameQ
<1>8. Lands(v, s, t, "EHoldMutexPending", m)
  <2>1. "EHoldMutexPending" \in MState
    BY DEF MState
  <2> QED
    BY <1>1, <1>4, <2>1 DEF OfferEq, Lands, But
<1>9. Lands(w, s, t, "EHoldMutexPending", m)
  BY <1>3, <1>8 DEF OnlyCounts, SameWhere, Lands
<1>10. w.phase[m] # "deleted"
  BY <1>3 DEF OnlyCounts, SameCtl
<1>11. FQ(s, X, m, 0)
  BY <1>3, <1>7, <1>9, <1>10, LandPend
<1> QED
  BY <1>1, <1>8, <1>11, FluxNone DEF OfferEq, ToPending

\* u waits for m.
MWaits(r, u, m) == r.mstate[u] = "EWaitMutex" /\ r.waitObj[u] = m

\* t, the first of those that wait for m, is released to be pending.
Woken(r, s, t, m, X) ==
    /\ t \in Thread /\ t \notin X /\ MWaits(r, t, m)
    /\ \A u \in Thread \ X : MWaits(r, u, m) => r.pri[t] >= r.pri[u]
    /\ ToPending(r, s, m, t)

\* The wait queue of a mutex holds the threads in EWaitMutex.
LEMMA MutexWaiter ==
    ASSUME NEW r, NEW X, RQ(r, X), NEW m \in Mutex, NEW t \in Thread
    PROVE  t \in Range(r.waitQ[m]) <=> t \notin X /\ MWaits(r, t, m)
<1>1. WaitState[m] = "EWaitMutex" /\ m \in Obj
  BY WaitStates DEF Obj
<1> QED
  BY <1>1, RWhere DEF MWaits

\* DMutex::WakeUpNextThread offers the mutex to the first waiting thread.
LEMMA WakeUpKeeps ==
    ASSUME NEW r, NEW X, QOK(r, X), NEW m \in Mutex, NonEmpty(r.waitQ[m]),
           NEW s, s = WakeUpNextThread(r, m)
    PROVE  /\ QOK(s, X) /\ SameCtl(r, s) /\ SameData(r, s) /\ s.pri = r.pri
           /\ Woken(r, s, Head(r.waitQ[m]), m, X)
<1> DEFINE t == Head(r.waitQ[m])
           v == WaitRemove(r, m, t)
<1>1. RQ(r, X) /\ m \in Obj
  BY DEF QOK, Obj
<1>2. /\ t \in Thread /\ t \in Range(r.waitQ[m])
      /\ \A u \in Range(r.waitQ[m]) : r.pri[t] >= r.pri[u]
  BY <1>1, RHead DEF NonEmpty
<1>3. s = Offer(v, m, t)
  BY DEF WakeUpNextThread, Offer
<1>4. v = WaitRemove(r, m, t)
  OBVIOUS
<1> HIDE DEF v, t
<1>5. /\ FQ(v, X \cup {t}, m, 1) /\ SameRest(r, v) /\ SameWhere(r, v) /\ SameCnt(r, v)
      /\ v.pri = r.pri /\ t \notin X /\ r.waitObj[t] = m /\ r.phase[m] # "deleted"
  BY <1>1, <1>2, <1>4, TakeWait
<1>6. v.waitObj[t] = m /\ v.phase[m] # "deleted"
  BY <1>5 DEF SameWhere, SameRest, SameCtl
<1>7. /\ QOK(s, X) /\ SameCtl(v, s) /\ SameData(v, s) /\ s.pri = v.pri
      /\ ToPending(v, s, m, t)
  BY <1>2, <1>3, <1>5, <1>6, OfferKeeps
<1>8. SameCtl(r, s) /\ SameData(r, s) /\ s.pri = r.pri
  BY <1>5, <1>7 DEF SameRest, SameCtl, SameData, SameCnt
<1>9. ToPending(r, s, m, t)
  BY <1>5, <1>7 DEF ToPending, Released, Lands, SameRest, SameRun, SameWhere
<1>10. MWaits(r, t, m) /\ \A u \in Thread \ X : MWaits(r, u, m) => r.pri[t] >= r.pri[u]
  BY <1>1, <1>2, MutexWaiter
<1> QED
  BY <1>2, <1>5, <1>7, <1>8, <1>9, <1>10 DEF Woken, t

-----------------------------------------------------------------------------
\* t, taken off the wait queue with another priority, becomes pending.
LEMMA RaiseOffer ==
    ASSUME NEW r, NEW X, QOK(r, X), NEW m \in Mutex, NEW t \in Thread, t \in Range(r.waitQ[m]),
           NEW p \in Pri, NEW s, s = Offer(SetPri(WaitRemove(r, m, t), t, p), m, t)
    PROVE  /\ QOK(s, X) /\ SameCtl(r, s) /\ SameData(r, s) /\ s.pri = [r.pri EXCEPT ![t] = p]
           /\ ToPending(r, s, m, t) /\ t \notin X /\ MWaits(r, t, m) /\ r.phase[m] # "deleted"
<1> DEFINE v == WaitRemove(r, m, t)
           w == SetPri(v, t, p)
<1>1. v = WaitRemove(r, m, t) /\ w = SetPri(v, t, p) /\ s = Offer(w, m, t) /\ m \in Obj
  BY DEF Obj
<1>2. RQ(r, X)
  BY DEF QOK
<1> HIDE DEF v, w
<1>5. /\ FQ(v, X \cup {t}, m, 1) /\ SameRest(r, v) /\ SameWhere(r, v) /\ SameCnt(r, v)
      /\ v.pri = r.pri /\ t \notin X /\ r.waitObj[t] = m /\ r.phase[m] # "deleted"
  BY <1>1, TakeWait
<1>6. /\ FQ(w, X \cup {t}, m, 1) /\ SameRest(v, w) /\ SameWhere(v, w) /\ SameCnt(v, w)
      /\ w.pri = [v.pri EXCEPT ![t] = p]
  <2>1. t \in X \cup {t}
    OBVIOUS
  <2> QED
    BY <1>1, <1>5, <2>1, SetPriFlux
<1>7. w.waitObj[t] = m /\ w.phase[m] # "deleted"
  BY <1>5, <1>6 DEF SameWhere, SameRest, SameCtl
<1>8. /\ QOK(s, X) /\ SameCtl(w, s) /\ SameData(w, s) /\ s.pri = w.pri
      /\ ToPending(w, s, m, t)
  BY <1>1, <1>5, <1>6, <1>7, OfferKeeps
<1>9. SameCtl(r, s) /\ SameData(r, s) /\ s.pri = [r.pri EXCEPT ![t] = p]
  BY <1>5, <1>6, <1>8 DEF SameRest, SameCtl, SameData, SameCnt
<1>10. ToPending(r, s, m, t)
  BY <1>5, <1>6, <1>8 DEF ToPending, Released, Lands, SameRest, SameRun, SameWhere
<1>11. MWaits(r, t, m)
  BY <1>2, MutexWaiter
<1> QED
  BY <1>5, <1>8, <1>9, <1>10, <1>11

\* What the new priority p of t does to threads, when those in X are on no queue.
Raised(r, s, t, p, m) ==
    /\ MWaits(r, t, m) /\ r.holder[m] = Null /\ r.phase[m] = "live" /\ p > r.pri[t]
    /\ ToPending(r, s, m, t) /\ s.cvMutex = r.cvMutex
Lowered(r, s, t, p, m, u, X) ==
    /\ r.mstate[t] = "EHoldMutexPending" /\ r.waitObj[t] = m
    /\ r.holder[m] = Null /\ r.phase[m] = "live" /\ p < r.pri[t] /\ p < r.pri[u]
    /\ Woken(r, s, u, m, X) /\ s.cvMutex = r.cvMutex
Signalled(r, s, t, p, c, m) ==
    /\ r.mstate[t] = "EWaitCondVar" /\ r.waitObj[t] = c /\ m = r.cvMutex[c] /\ p > r.pri[t]
    /\ r.phase[c] = "live" /\ CvKept(r, s, {t})
    /\ \/ r.holder[m] # Null /\ Lands(r, s, t, "EWaitMutex", m) /\ SameRun(r, s)
       \/ r.holder[m] = Null /\ ToPending(r, s, m, t)

Free(r, m) == r.holder[m] = Null /\ r.phase[m] = "live"
Pends(r, t, m) == r.mstate[t] = "EHoldMutexPending" /\ r.waitObj[t] = m
\* t is still a thread to offer a free mutex to.
KeepsOffer(r, t, p, X) ==
    \A m \in Mutex : Pends(r, t, m) /\ Free(r, m) =>
        p >= r.pri[t] \/ \A w \in Thread \ X : MWaits(r, w, m) => p >= r.pri[w]
Stays(r, s) == SameWhere(r, s) /\ SameRun(r, s) /\ s.cvMutex = r.cvMutex

LinkIs(l, s, m, p, n) == l.k = s /\ l.m = m /\ l.p = p /\ l.n = n
Ends(l, s) == LinkIs(l, s, Null, 0, 0)

\* The effect of SetActualPriority, and what is left to do.
OnlyOf(r, s, t, p, X) ==
    /\ SameCtl(r, s) /\ s.count = r.count /\ s.clnPri = r.clnPri
    /\ s.pri = [r.pri EXCEPT ![t] = p]
    /\ s.fault = r.fault \/ t \in X
MovedOn(r, s, t, p, X, l, n) ==
    \/ Ends(l, s) /\ Stays(r, s) /\ r.mstate[t] # "EWaitMutex" /\ KeepsOffer(r, t, p, X)
    \/ \E m \in Mutex : /\ MWaits(r, t, m) /\ (Free(r, m) => p =< r.pri[t]) /\ Stays(r, s)
                        /\ LinkIs(l, s, m, HighestPriority(s, m), n)
    \/ \E m \in Mutex : Ends(l, s) /\ Raised(r, s, t, p, m)
    \/ \E m \in Mutex, u \in Thread : Ends(l, s) /\ Lowered(r, s, t, p, m, u, X)
    \/ \E c \in Cond, m \in Mutex :
          /\ Signalled(r, s, t, p, c, m)
          /\ \/ Ends(l, s) /\ (r.holder[m] # Null => p =< r.clnPri[m])
             \/ r.holder[m] # Null /\ p > r.clnPri[m] /\ LinkIs(l, s, m, p, 0)
Moved(r, s, t, p, X, l, n) == OnlyOf(r, s, t, p, X) /\ MovedOn(r, s, t, p, X, l, n)

\* What the links of a chain are made of.
LEMMA LinkFields ==
    ASSUME NEW s, NEW m, NEW p, NEW n
    PROVE  LinkIs(Link(s, m, p, n), s, m, p, n) /\ Ends(Done(s), s)
BY DEF LinkIs, Link, Done, Ends

\* Only one thread's priority was changed.
LEMMA OnlyPriIs ==
    ASSUME NEW r, NEW s, NEW t, NEW p, NEW X, OnlyPri(r, s), s.fault = r.fault \/ t \in X,
           s.pri = [r.pri EXCEPT ![t] = p]
    PROVE  OnlyOf(r, s, t, p, X) /\ Stays(r, s)
BY DEF OnlyPri, OnlyOf, Stays, SameWhere, SameCnt

\* DMutex::ChangeWaitingThreadPriority moves the thread, and tells the holder if it
\* is higher.
LEMMA ChangeWaitingKeeps ==
    ASSUME NEW r, NEW X, QOK(r, X), NEW m \in Mutex, NEW t \in Thread, t \in Range(r.waitQ[m]),
           NEW p \in Pri, NEW n, NEW l, l = ChangeWaitingThreadPriority(r, m, t, p, n)
    PROVE  \E s : QOK(s, X) /\ Moved(r, s, t, p, X, l, n)
<1>1. RQ(r, X) /\ m \in Obj /\ r.phase \in [Obj -> Phases] /\ r.pri \in [Thread -> Int] /\ p \in Int
  BY QTypes2, PriNat DEF QOK, CtlT, Obj
<1>2. CASE r.holder[m] = Null /\ p > r.pri[t] /\ ~Resetting(r, m)
  <2> DEFINE s == Offer(SetPri(WaitRemove(r, m, t), t, p), m, t)
  <2>1. l = Done(s)
    BY <1>2 DEF ChangeWaitingThreadPriority, Offer, SetPri
  <2>2. s = Offer(SetPri(WaitRemove(r, m, t), t, p), m, t)
    OBVIOUS
  <2> HIDE DEF s
  <2>3. /\ QOK(s, X) /\ SameCtl(r, s) /\ SameData(r, s) /\ s.pri = [r.pri EXCEPT ![t] = p]
        /\ ToPending(r, s, m, t) /\ t \notin X /\ MWaits(r, t, m) /\ r.phase[m] # "deleted"
    BY <2>2, RaiseOffer
  <2>4. r.phase[m] = "live"
    BY <1>1, <1>2, <2>3 DEF Resetting, Phases
  <2>5. Raised(r, s, t, p, m)
    BY <1>2, <2>3, <2>4 DEF Raised, SameData
  <2>6. OnlyOf(r, s, t, p, X)
    BY <2>3 DEF OnlyOf, SameData
  <2>7. Ends(l, s)
    BY <2>1, LinkFields
  <2> QED
    BY <2>3, <2>5, <2>6, <2>7 DEF Moved, MovedOn
<1>3. CASE ~(r.holder[m] = Null /\ p > r.pri[t] /\ ~Resetting(r, m))
  <2> DEFINE s == ChangePriority(r, m, t, p)
  <2>1. l = Link(s, m, HighestPriority(s, m), n)
    BY <1>3 DEF ChangeWaitingThreadPriority
  <2>2. s = ChangePriority(r, m, t, p)
    OBVIOUS
  <2> HIDE DEF s
  <2>3. /\ QOK(s, X) /\ OnlyPri(r, s) /\ s.fault = r.fault
        /\ s.pri = [r.pri EXCEPT ![t] = p]
    BY <1>1, <2>2, ChangePriorityKeeps
  <2>4. OnlyOf(r, s, t, p, X) /\ Stays(r, s)
    BY <2>3, OnlyPriIs
  <2>5. MWaits(r, t, m)
    BY <1>1, MutexWaiter
  <2>6. Free(r, m) => p =< r.pri[t]
    BY <1>1, <1>3 DEF Free, Resetting
  <2>7. LinkIs(l, s, m, HighestPriority(s, m), n)
    BY <2>1, LinkFields
  <2> QED
    BY <2>3, <2>4, <2>5, <2>6, <2>7 DEF Moved, MovedOn
<1> QED
  BY <1>2, <1>3

\* Wait puts a thread on a wait queue.
LEMMA WaitFields ==
    ASSUME NEW r, Rec(r), NEW o, NEW t, NEW ms, NEW s, s = Wait(r, o, t, ms)
    PROVE  /\ Rec(s) /\ SameRest(r, s) /\ SameCnt(r, s) /\ GetW(r, s, o, t)
           /\ s.mstate = [r.mstate EXCEPT ![t] = ms] /\ s.waitObj = [r.waitObj EXCEPT ![t] = o]
<1> DEFINE v == [r EXCEPT !.mstate[t] = ms, !.waitObj[t] = o]
<1>1. s = WaitAdd(v, o, t)
  BY DEF Wait
<1>2. /\ DOMAIN v = Fields /\ SameRest(r, v) /\ SameCnt(r, v) /\ SameQ(r, v) /\ v.pri = r.pri
      /\ v.mstate = [r.mstate EXCEPT ![t] = ms] /\ v.waitObj = [r.waitObj EXCEPT ![t] = o]
  BY SMT DEF Rec, Fields, SameCtl, SameRun, SameRest, SameCnt, SameQ
<1> HIDE DEF v
<1>3. /\ DOMAIN s = Fields /\ SameRest(v, s) /\ SameCnt(v, s) /\ s.mstate = v.mstate
      /\ s.waitObj = v.waitObj /\ s.pri = v.pri /\ s.suspQ = v.suspQ /\ s.pendQ = v.pendQ
      /\ s.waitQ = Put(v.waitQ, o, v.pri, t)
  BY <1>1, <1>2, SMT DEF Fields, WaitAdd, SameCtl, SameRun, SameRest, SameCnt, Ins, Put
<1>4. s = [f \in DOMAIN s |-> s[f]]
  BY <1>1, SMT DEF WaitAdd
<1>5. Rec(s)
  BY <1>3, <1>4 DEF Rec
<1>6. SameRest(r, s) /\ SameCnt(r, s)
  BY <1>2, <1>3 DEF SameRest, SameCtl, SameRun, SameCnt
<1>7. GetW(r, s, o, t)
  BY <1>2, <1>3 DEF GetW, SameQ
<1> QED
  BY <1>2, <1>3, <1>5, <1>6, <1>7

\* A thread landed where its two fields say.
LEMMA LandsIs ==
    ASSUME NEW r, NEW s, NEW t \in Thread, r.mstate \in [Thread -> MState],
           r.waitObj \in [Thread -> Obj \cup {Null}], NEW ms \in MState, NEW o \in Obj \cup {Null},
           s.mstate = [r.mstate EXCEPT ![t] = ms], s.waitObj = [r.waitObj EXCEPT ![t] = o]
    PROVE  Lands(r, s, t, ms, o)
BY DEF Lands, But

\* Nothing but queues and counters was changed by two steps.
LEMMA SameRestTrans ==
    ASSUME NEW r, NEW v, NEW s, SameRest(r, v), SameRest(v, s)
    PROVE  SameRest(r, s)
BY DEF SameRest, SameCtl, SameRun

\* A thread in flux queues for a mutex.
LEMMA WaitForMutexKeeps ==
    ASSUME NEW r, NEW X, NEW t \in Thread, t \notin X, QOK(r, X \cup {t}), NEW m \in Mutex,
           r.phase[m] # "deleted", NEW n, NEW l, l = WaitForMutex(r, t, m, n)
    PROVE  \E s : /\ QOK(s, X) /\ SameRest(r, s) /\ s.count = r.count /\ s.cvMutex = r.cvMutex
                  /\ s.pri = r.pri /\ Lands(r, s, t, "EWaitMutex", m)
                  /\ \/ Ends(l, s) /\ r.pri[t] =< r.clnPri[m]
                     \/ r.pri[t] > r.clnPri[m] /\ LinkIs(l, s, m, r.pri[t], n)
<1> DEFINE v == WcAdd(r, m, 1 - 0)
           s == Wait(v, m, t, "EWaitMutex")
<1>1. v = WcAdd(r, m, 1 - 0) /\ s = Wait(v, m, t, "EWaitMutex") /\ m \in Obj /\ 1 - 0 = 1
  BY DEF Obj
<1>2. l = IF s.pri[t] > s.clnPri[m] THEN Link(s, m, s.pri[t], n) ELSE Done(s)
  BY <1>1 DEF WaitForMutex, WcAdd
<1> HIDE DEF v, s
<1>3. FQ(r, X \cup {t}, m, 0)
  BY FluxNone
<1>4. FQ(v, X \cup {t}, m, 1) /\ OnlyCounts(r, v) /\ v.count = r.count /\ v.cvMutex = r.cvMutex
  BY <1>1, <1>3, MutexCount
<1>5. Rec(v) /\ v.mstate \in [Thread -> MState] /\ v.waitObj \in [Thread -> Obj \cup {Null}]
  BY <1>4, FQTypes
<1>6. /\ Rec(s) /\ SameRest(v, s) /\ SameCnt(v, s) /\ GetW(v, s, m, t)
      /\ s.mstate = [v.mstate EXCEPT ![t] = "EWaitMutex"]
      /\ s.waitObj = [v.waitObj EXCEPT ![t] = m]
  BY <1>1, <1>5, WaitFields
<1>7. WaitState[m] = "EWaitMutex" /\ "EWaitMutex" \in MState /\ m \in Obj \cup {Null}
  BY <1>1, WaitStates DEF MState
<1>8. Lands(v, s, t, "EWaitMutex", m)
  BY <1>5, <1>6, <1>7, LandsIs
<1>9. v.phase[m] # "deleted"
  BY <1>4 DEF OnlyCounts, SameCtl
<1>10. Kept(v, s)
  BY <1>4, <1>6, SameRestKept
<1>11. QOK(s, X)
  BY <1>1, <1>4, <1>6, <1>7, <1>8, <1>9, <1>10, LandWait
<1>12. SameRest(r, s)
  <2>1. SameRest(r, v)
    BY <1>4 DEF OnlyCounts, SameRest
  <2> QED
    BY <1>6, <2>1, SameRestTrans
<1>13. s.count = r.count /\ s.cvMutex = r.cvMutex /\ s.pri = r.pri
  BY <1>4, <1>6 DEF SameCnt, GetW, OnlyCounts
<1>14. Lands(r, s, t, "EWaitMutex", m)
  BY <1>4, <1>8 DEF Lands, OnlyCounts, SameWhere
<1>15. s.clnPri = r.clnPri
  BY <1>12 DEF SameRest
<1>16. r.pri[t] \in Int /\ r.clnPri[m] \in Int
  <2>0. RQ(r, X \cup {t}) /\ RunT(r)
    BY DEF QOK
  <2>1. r.pri \in [Thread -> Int] /\ r.clnPri[m] \in Pri \cup {0}
    BY <2>0, QTypes2 DEF RunT
  <2>2. Pri \cup {0} \subseteq Int
    BY PriNat
  <2> QED
    BY <2>1, <2>2
<1>17. CASE r.pri[t] > r.clnPri[m]
  <2>1. LinkIs(l, s, m, r.pri[t], n)
    BY <1>2, <1>13, <1>15, <1>17, LinkFields
  <2> QED
    BY <1>11, <1>12, <1>13, <1>14, <1>17, <2>1
<1>18. CASE ~(r.pri[t] > r.clnPri[m])
  <2>1. Ends(l, s)
    BY <1>2, <1>13, <1>15, <1>18, LinkFields
  <2>2. r.pri[t] =< r.clnPri[m]
    BY <1>16, <1>18
  <2> QED
    BY <1>11, <1>12, <1>13, <1>14, <2>1, <2>2
<1> QED
  BY <1>17, <1>18

\* The operators that UnBlockThread ends in.
GoIdle(r, t, c) == ThreadRelease(Ready(r, t), t, c)
GoSusp(r, t, m) == [r EXCEPT !.mstate[t] = "EWaitMutexSuspended", !.waitObj[t] = m,
                             !.suspQ[m] = Append(@, t), !.waitCount[m] = @ + 1]
GoPend(r, t, m) == ThreadRelease([r EXCEPT !.mstate[t] = "EHoldMutexPending",
                       !.waitObj[t] = m, !.pendQ[m] = Append(@, t)], t, "KErrNone")

SameNumbers(r, s) == SameCtl(r, s) /\ SameData(r, s) /\ s.pri = r.pri

\* A thread is released and waits for nothing.
LEMMA GoIdleFields ==
    ASSUME NEW r, Rec(r), NEW t, NEW c, NEW s, s = GoIdle(r, t, c)
    PROVE  /\ Rec(s) /\ SameNumbers(r, s) /\ SameCnt(r, s) /\ SameQ(r, s) /\ Released(r, s, t, c)
           /\ s.mstate = [r.mstate EXCEPT ![t] = "EReady"]
           /\ s.waitObj = [r.waitObj EXCEPT ![t] = Null]
<1> DEFINE q == Ready(r, t)
<1>1. s = ThreadRelease(q, t, c)
  BY DEF GoIdle
<1>2. DOMAIN q = Fields
  BY SMT DEF Rec, Fields, Ready
<1>3. Rec(s)
  BY <1>1, <1>2, ReleaseRec
<1>4. /\ SameNumbers(r, s) /\ SameCnt(r, s) /\ SameQ(r, s) /\ Released(r, s, t, c)
      /\ s.mstate = [r.mstate EXCEPT ![t] = "EReady"]
      /\ s.waitObj = [r.waitObj EXCEPT ![t] = Null]
  BY <1>1, SMT DEF Rec, Fields, Ready, ThreadRelease, SameNumbers, SameCtl, SameData, SameCnt,
       SameQ, Released
<1> QED
  BY <1>3, <1>4

CountsOne(r, s, m) == s.waitCount = [r.waitCount EXCEPT ![m] = r.waitCount[m] + 1]

\* A suspended thread waits for the mutex it was given back to.
LEMMA GoSuspFields ==
    ASSUME NEW r, Rec(r), NEW t, NEW m, NEW s, s = GoSusp(r, t, m)
    PROVE  /\ Rec(s) /\ SameRest(r, s) /\ s.pri = r.pri /\ s.count = r.count
           /\ s.cvMutex = r.cvMutex
           /\ CountsOne(r, s, m) /\ GetS(r, s, m, t)
           /\ s.mstate = [r.mstate EXCEPT ![t] = "EWaitMutexSuspended"]
           /\ s.waitObj = [r.waitObj EXCEPT ![t] = m]
<1> DEFINE q == [r EXCEPT !.mstate[t] = "EWaitMutexSuspended", !.waitObj[t] = m,
                          !.suspQ[m] = Append(@, t)]
<1>0. s = [q EXCEPT !.waitCount[m] = @ + 1]
  BY DEF GoSusp
<1> HIDE DEF q
<1>1. s = [f \in DOMAIN s |-> s[f]]
  BY <1>0, SMT
<1> QED
  BY <1>1, SMT DEF GoSusp, Rec, Fields, SameRest, SameCtl, SameRun, GetS, App, CountsOne

\* A thread is released and offered the mutex.
LEMMA GoPendFields ==
    ASSUME NEW r, Rec(r), NEW t, NEW m, NEW s, s = GoPend(r, t, m)
    PROVE  /\ Rec(s) /\ SameNumbers(r, s) /\ SameCnt(r, s) /\ GetP(r, s, m, t)
           /\ Released(r, s, t, "KErrNone")
           /\ s.mstate = [r.mstate EXCEPT ![t] = "EHoldMutexPending"]
           /\ s.waitObj = [r.waitObj EXCEPT ![t] = m]
<1> DEFINE q == [r EXCEPT !.mstate[t] = "EHoldMutexPending", !.waitObj[t] = m, !.pendQ[m] = Append(@, t)]
<1>1. s = ThreadRelease(q, t, "KErrNone")
  BY DEF GoPend
<1>2. DOMAIN q = Fields
  BY SMT DEF Rec, Fields
<1>3. Rec(s)
  BY <1>1, <1>2, ReleaseRec
<1>4. /\ SameNumbers(r, s) /\ SameCnt(r, s) /\ GetP(r, s, m, t)
      /\ Released(r, s, t, "KErrNone")
      /\ s.mstate = [r.mstate EXCEPT ![t] = "EHoldMutexPending"]
      /\ s.waitObj = [r.waitObj EXCEPT ![t] = m]
  BY <1>1, SMT DEF Rec, Fields, ThreadRelease, SameNumbers, SameCtl, SameData, SameCnt,
       GetP, App, Released
<1> QED
  BY <1>3, <1>4

\* The numbers of a release are those of before.
LEMMA NumbersKept ==
    ASSUME NEW r, NEW X, NEW y, NEW d, FQ(r, X, y, d), NEW s, Rec(s), SameNumbers(r, s),
           NEW t, NEW c \in Rets, Released(r, s, t, c)
    PROVE  Kept(r, s)
<1>1. RunT(s)
  BY ReleasedT DEF FQ, SameNumbers, SameData
<1> QED
  BY <1>1 DEF Kept, SameNumbers

\* A thread in flux is made ready.
LEMMA GoIdleKeeps ==
    ASSUME NEW r, NEW X, NEW t \in Thread, t \notin X, NEW y, NEW d, FQ(r, X \cup {t}, y, d),
           NEW c \in Rets, NEW s, s = GoIdle(r, t, c)
    PROVE  /\ FQ(s, X, y, d) /\ SameNumbers(r, s) /\ SameCnt(r, s) /\ Released(r, s, t, c)
           /\ Lands(r, s, t, "EReady", Null)
<1>1. Rec(r) /\ r.mstate \in [Thread -> MState] /\ r.waitObj \in [Thread -> Obj \cup {Null}]
  BY FQTypes
<1>2. /\ Rec(s) /\ SameNumbers(r, s) /\ SameCnt(r, s) /\ SameQ(r, s) /\ Released(r, s, t, c)
      /\ s.mstate = [r.mstate EXCEPT ![t] = "EReady"]
      /\ s.waitObj = [r.waitObj EXCEPT ![t] = Null]
  BY <1>1, GoIdleFields
<1>3. "EReady" \in MState /\ "EReady" \in Idle /\ Null \in Obj \cup {Null}
  BY DEF MState, Idle
<1>4. Lands(r, s, t, "EReady", Null)
  BY <1>1, <1>2, <1>3, LandsIs
<1>5. Kept(r, s)
  BY <1>2, NumbersKept
<1>6. s.pri = r.pri
  BY <1>2 DEF SameNumbers
<1> QED
  BY <1>2, <1>3, <1>4, <1>5, <1>6, LandIdle

\* A thread in flux is offered mutex m.
LEMMA GoPendKeeps ==
    ASSUME NEW r, NEW X, NEW t \in Thread, t \notin X, NEW y, NEW d, FQ(r, X \cup {t}, y, d),
           NEW m \in Mutex, r.phase[m] # "deleted", NEW s, s = GoPend(r, t, m)
    PROVE  FQ(s, X, y, d) /\ SameNumbers(r, s) /\ SameCnt(r, s) /\ ToPending(r, s, m, t)
<1>1. Rec(r) /\ r.mstate \in [Thread -> MState] /\ r.waitObj \in [Thread -> Obj \cup {Null}]
  BY FQTypes
<1>2. /\ Rec(s) /\ SameNumbers(r, s) /\ SameCnt(r, s) /\ GetP(r, s, m, t)
      /\ Released(r, s, t, "KErrNone")
      /\ s.mstate = [r.mstate EXCEPT ![t] = "EHoldMutexPending"]
      /\ s.waitObj = [r.waitObj EXCEPT ![t] = m]
  BY <1>1, GoPendFields
<1>3. "EHoldMutexPending" \in MState /\ m \in Obj \cup {Null} /\ "KErrNone" \in Rets
  BY DEF MState, Obj, Rets
<1>4. Lands(r, s, t, "EHoldMutexPending", m)
  BY <1>1, <1>2, <1>3, LandsIs
<1>5. Kept(r, s)
  BY <1>2, <1>3, NumbersKept
<1>6. FQ(s, X, y, d)
  BY <1>2, <1>4, <1>5, LandPend
<1> QED
  BY <1>2, <1>4, <1>6 DEF ToPending

\* A thread in flux is suspended waiting for m.
LEMMA GoSuspKeeps ==
    ASSUME NEW r, NEW X, NEW t \in Thread, t \notin X, QOK(r, X \cup {t}),
           NEW m \in Mutex, r.phase[m] # "deleted", NEW s, s = GoSusp(r, t, m)
    PROVE  /\ QOK(s, X) /\ SameRest(r, s) /\ s.pri = r.pri /\ s.count = r.count
           /\ s.cvMutex = r.cvMutex /\ Lands(r, s, t, "EWaitMutexSuspended", m)
<1> DEFINE v == WcAdd(r, m, 1 - 0)
<1>0. v = WcAdd(r, m, 1 - 0) /\ 1 - 0 = 1
  OBVIOUS
<1> HIDE DEF v
<1>1. FQ(r, X \cup {t}, m, 0) /\ m \in Obj
  BY FluxNone DEF Obj
<1>2. FQ(v, X \cup {t}, m, 1) /\ OnlyCounts(r, v) /\ v.count = r.count /\ v.cvMutex = r.cvMutex
  BY <1>0, <1>1, MutexCount
<1>3. Rec(r) /\ r.mstate \in [Thread -> MState] /\ r.waitObj \in [Thread -> Obj \cup {Null}]
  BY <1>1, FQTypes
<1>4. /\ Rec(s) /\ SameRest(r, s) /\ s.pri = r.pri /\ s.count = r.count /\ s.cvMutex = r.cvMutex
      /\ CountsOne(r, s, m) /\ GetS(r, s, m, t)
      /\ s.mstate = [r.mstate EXCEPT ![t] = "EWaitMutexSuspended"]
      /\ s.waitObj = [r.waitObj EXCEPT ![t] = m]
  BY <1>3, GoSuspFields
<1>5. CountsOne(r, v, m)
  <2>1. v = WcAdd(r, m, 1)
    BY <1>0
  <2> QED
    BY <1>3, <2>1, WcAddFields DEF CountsOne
<1>6. SameRest(v, s) /\ SameCnt(v, s) /\ GetS(v, s, m, t) /\ v.phase[m] # "deleted"
  BY <1>2, <1>4, <1>5 DEF SameRest, OnlyCounts, SameCtl, SameRun, SameCnt, GetS, SameQ, CountsOne
<1>7. /\ "EWaitMutexSuspended" \in MState /\ m \in Obj \cup {Null}
      /\ SuspState[m] = "EWaitMutexSuspended"
  BY <1>1, WaitStates DEF MState
<1>8. Lands(r, s, t, "EWaitMutexSuspended", m)
  BY <1>3, <1>4, <1>7, LandsIs
<1>9. Lands(v, s, t, SuspState[m], m)
  BY <1>2, <1>7, <1>8 DEF Lands, OnlyCounts, SameWhere
<1>10. Kept(v, s)
  BY <1>2, <1>4, <1>6, SameRestKept
<1>11. FQ(v, X \cup {t}, m, SuspCounts(m))
  <2>1. m \notin Sem
    BY SyncAssumption
  <2> QED
    BY <1>2, <2>1 DEF SuspCounts
<1>12. QOK(s, X)
  BY <1>1, <1>6, <1>9, <1>10, <1>11, LandSusp
<1> QED
  BY <1>4, <1>8, <1>12

\* What UnBlockThread makes of t.
UnblockResets(r, s, t, c, l) ==
    /\ r.phase[c] = "resetting" /\ Ends(l, s) /\ Lands(r, s, t, "EReady", Null)
    /\ Released(r, s, t, "KErrGeneral")
UnblockSuspended(r, s, t, c, m, l) ==
    /\ r.phase[c] = "live" /\ m = r.cvMutex[c] /\ r.mstate[t] = "EWaitCondVarSuspended"
    /\ Ends(l, s) /\ Lands(r, s, t, "EWaitMutexSuspended", m) /\ SameRun(r, s)
UnblockQueues(r, s, t, c, m, l) ==
    /\ r.phase[c] = "live" /\ m = r.cvMutex[c] /\ r.mstate[t] = "EWaitCondVar"
    /\ r.holder[m] # Null /\ Lands(r, s, t, "EWaitMutex", m) /\ SameRun(r, s)
    /\ \/ Ends(l, s) /\ r.pri[t] =< r.clnPri[m]
       \/ r.pri[t] > r.clnPri[m] /\ LinkIs(l, s, m, r.pri[t], 0)
UnblockOffers(r, s, t, c, m, l) ==
    /\ r.phase[c] = "live" /\ m = r.cvMutex[c] /\ r.mstate[t] = "EWaitCondVar"
    /\ r.holder[m] = Null /\ ToPending(r, s, m, t) /\ Ends(l, s)
UnblockSame(r, s, t, X) ==
    /\ SameCtl(r, s) /\ s.count = r.count /\ s.clnPri = r.clnPri /\ s.pri = r.pri
    /\ s.fault = r.fault /\ CvKept(r, s, X \cup {t})
Unblocked(r, s, t, c, X, l) ==
    /\ UnblockSame(r, s, t, X)
    /\ \/ UnblockResets(r, s, t, c, l)
       \/ \E m \in Mutex : \/ UnblockSuspended(r, s, t, c, m, l)
                           \/ UnblockQueues(r, s, t, c, m, l)
                           \/ UnblockOffers(r, s, t, c, m, l)

\* The mutexes of condition variables were kept by two steps.
LEMMA CvKeptThrough ==
    ASSUME NEW r, NEW v, NEW s, NEW X, CvKept(r, v, X), s.cvMutex = v.cvMutex
    PROVE  CvKept(r, s, X)
BY DEF CvKept

\* A change of counters leaves the rest alone.
LEMMA OnlyCountsRest ==
    ASSUME NEW r, NEW v, OnlyCounts(r, v)
    PROVE  SameRest(r, v) /\ SameWhere(r, v) /\ v.pri = r.pri /\ v.mstate = r.mstate
           /\ v.holder = r.holder /\ v.phase = r.phase /\ v.clnPri = r.clnPri
BY DEF OnlyCounts, SameRest, SameWhere, SameCtl

\* A step back before the counting.
LEMMA LandsBack ==
    ASSUME NEW r, NEW v, SameWhere(r, v), NEW s, NEW t, NEW ms, NEW o, Lands(v, s, t, ms, o)
    PROVE  Lands(r, s, t, ms, o)
BY DEF Lands, SameWhere
\* A release seen from an earlier record.
LEMMA ReleasedBack ==
    ASSUME NEW r, NEW v, SameRun(r, v), NEW s, NEW t, NEW c, Released(v, s, t, c)
    PROVE  Released(r, s, t, c)
BY DEF Released, SameRun

\* DCondVar::UnBlockThread in a reset: the thread is released.
LEMMA UnblockReset ==
    ASSUME NEW r, NEW X, NEW t \in Thread, t \notin X, NEW c \in Cond, FQ(r, X \cup {t}, c, 1),
           Resetting(r, c), NEW l, l = UnBlockThread(r, c, t)
    PROVE  \E s : QOK(s, X) /\ Unblocked(r, s, t, c, X, l)
<1> DEFINE s == GoIdle(r, t, "KErrGeneral")
<1>1. s = GoIdle(r, t, "KErrGeneral") /\ c \in Obj
  BY DEF Obj
<1>2. l = Done(s)
  BY <1>1 DEF UnBlockThread, GoIdle
<1> HIDE DEF s
<1>3. /\ FQ(s, X, c, 1) /\ SameNumbers(r, s) /\ SameCnt(r, s) /\ Released(r, s, t, "KErrGeneral")
      /\ Lands(r, s, t, "EReady", Null)
  <2>1. "KErrGeneral" \in Rets
    BY DEF Rets
  <2> QED
    BY <1>1, <2>1, GoIdleKeeps
<1>4. CountAt(s, c, 0)
  <2>1. CountAt(s, c, 1) /\ s.phase[c] = "resetting" /\ RQ(s, X) /\ CntT(s)
    BY <1>1, <1>3 DEF FQ, SameNumbers, SameCtl, Resetting
  <2>2. Len(s.waitQ[c]) \in Nat /\ Len(s.suspQ[c]) \in Nat /\ s.waitCount[c] \in Nat
    BY <1>1, <2>1, CountTypes
  <2>3. Tally(s.phase[c], s.waitCount[c], Len(s.waitQ[c]), Len(s.suspQ[c]), 1)
    BY <2>1 DEF CountAt
  <2>4. Tally(s.phase[c], s.waitCount[c], Len(s.waitQ[c]), Len(s.suspQ[c]), 0)
    <3> DEFINE a == Len(s.waitQ[c])
               b == Len(s.suspQ[c])
               n == s.waitCount[c]
               ph == s.phase[c]
    <3>1. a \in Nat /\ b \in Nat /\ n \in Nat /\ ph = "resetting" /\ Tally(ph, n, a, b, 1)
      BY <2>1, <2>2, <2>3
    <3> HIDE DEF a, b, n, ph
    <3>2. Tally(ph, n, a, b, 0)
      BY <3>1 DEF Tally
    <3> QED
      BY <3>2 DEF a, b, n, ph
  <2> QED
    BY <2>1, <2>4, SyncAssumption DEF CountAt
<1>5. QOK(s, X)
  <2>1. Rec(s) /\ CntT(s) /\ OnlyCounts(s, s) /\ \A x \in Obj : x # c => SameCountAt(s, s, x)
    BY <1>3 DEF FQ, OnlyCounts, SameCtl, SameRun, SameWhere, SameQ, SameCountAt
  <2>2. FQ(s, X, c, 0)
    BY <1>1, <1>3, <1>4, <2>1, CountChange
  <2> QED
    BY <2>2, FluxNone
<1>6. Ends(l, s)
  BY <1>2, LinkFields
<1>7. UnblockSame(r, s, t, X)
  BY <1>3 DEF UnblockSame, SameNumbers, SameData, CvKept
<1>8. UnblockResets(r, s, t, c, l)
  BY <1>3, <1>6 DEF UnblockResets, Resetting
<1> QED
  BY <1>5, <1>7, <1>8 DEF Unblocked

\* DCondVar::UnBlockThread: the thread gets the mutex, waits for it or is suspended
\* on it.
LEMMA UnblockLive ==
    ASSUME NEW r, NEW X, NEW t \in Thread, t \notin X, NEW c \in Cond, FQ(r, X \cup {t}, c, 1),
           ~Resetting(r, c), r.phase[c] # "deleted",
           r.mstate[t] \in {"EWaitCondVar", "EWaitCondVarSuspended"},
           r.phase[r.cvMutex[c]] # "deleted", NEW l, l = UnBlockThread(r, c, t)
    PROVE  \E s : QOK(s, X) /\ Unblocked(r, s, t, c, X, l)
<1> DEFINE v == CondUncount(r, c)
           m == r.cvMutex[c]
<1>1. v = CondUncount(r, c) /\ c \in Obj
  BY DEF Obj
<1>2. /\ QOK(v, X \cup {t}) /\ OnlyCounts(r, v) /\ v.count = r.count /\ CvKept(r, v, X \cup {t})
      /\ r.phase[c] = "live" => m \in Mutex
  BY <1>1, CondUncountKeeps
<1>3. r.phase[c] = "live"
  BY <1>1 DEF FQ, CtlT, Phases, Resetting
<1>4. /\ SameRest(r, v) /\ SameWhere(r, v) /\ v.pri = r.pri /\ v.mstate = r.mstate
      /\ v.holder = r.holder /\ v.phase = r.phase /\ v.clnPri = r.clnPri
  BY <1>2, OnlyCountsRest
<1>5. m \in Mutex /\ v.phase[m] # "deleted" /\ m = r.cvMutex[c]
  BY <1>2, <1>3, <1>4
<1>6. l = IF r.mstate[t] = "EWaitCondVarSuspended" THEN Done(GoSusp(v, t, m))
          ELSE IF r.holder[m] # Null THEN WaitForMutex(v, t, m, 0) ELSE Done(GoPend(v, t, m))
  BY DEF UnBlockThread, GoSusp, GoPend
<1> HIDE DEF v, m
<1>7. CASE r.mstate[t] = "EWaitCondVarSuspended"
  <2> DEFINE s == GoSusp(v, t, m)
  <2>1. s = GoSusp(v, t, m)
    OBVIOUS
  <2>2. Ends(l, s)
    BY <1>6, <1>7, LinkFields
  <2> HIDE DEF s
  <2>3. /\ QOK(s, X) /\ SameRest(v, s) /\ s.pri = v.pri /\ s.count = v.count
        /\ s.cvMutex = v.cvMutex /\ Lands(v, s, t, "EWaitMutexSuspended", m)
    BY <1>2, <1>5, <2>1, GoSuspKeeps
  <2>4. SameRest(r, s)
    BY <1>4, <2>3, SameRestTrans
  <2>5. Lands(r, s, t, "EWaitMutexSuspended", m)
    BY <1>4, <2>3, LandsBack
  <2>6. CvKept(r, s, X \cup {t})
    BY <1>2, <2>3, CvKeptThrough
  <2>7. UnblockSame(r, s, t, X)
    BY <1>2, <1>4, <2>3, <2>4, <2>6 DEF UnblockSame, SameRest
  <2>8. UnblockSuspended(r, s, t, c, m, l)
    BY <1>3, <1>5, <1>7, <2>2, <2>4, <2>5 DEF UnblockSuspended, SameRest
  <2> QED
    BY <1>5, <2>3, <2>7, <2>8 DEF Unblocked
<1>8. CASE r.mstate[t] # "EWaitCondVarSuspended" /\ r.holder[m] # Null
  <2>1. l = WaitForMutex(v, t, m, 0)
    BY <1>6, <1>8
  <2>2. PICK s : /\ QOK(s, X) /\ SameRest(v, s) /\ s.count = v.count /\ s.cvMutex = v.cvMutex
                 /\ s.pri = v.pri /\ Lands(v, s, t, "EWaitMutex", m)
                 /\ \/ Ends(l, s) /\ v.pri[t] =< v.clnPri[m]
                    \/ v.pri[t] > v.clnPri[m] /\ LinkIs(l, s, m, v.pri[t], 0)
    BY <1>2, <1>5, <2>1, WaitForMutexKeeps
  <2>4. SameRest(r, s)
    BY <1>4, <2>2, SameRestTrans
  <2>5. Lands(r, s, t, "EWaitMutex", m)
    BY <1>4, <2>2, LandsBack
  <2>6. CvKept(r, s, X \cup {t})
    BY <1>2, <2>2, CvKeptThrough
  <2>7. UnblockSame(r, s, t, X)
    BY <1>2, <1>4, <2>2, <2>4, <2>6 DEF UnblockSame, SameRest
  <2>8. UnblockQueues(r, s, t, c, m, l)
    BY <1>3, <1>4, <1>5, <1>8, <2>2, <2>4, <2>5 DEF UnblockQueues, SameRest
  <2> QED
    BY <1>5, <2>2, <2>7, <2>8 DEF Unblocked
<1>9. CASE r.mstate[t] # "EWaitCondVarSuspended" /\ r.holder[m] = Null
  <2> DEFINE s == GoPend(v, t, m)
  <2>1. s = GoPend(v, t, m)
    OBVIOUS
  <2>2. Ends(l, s)
    BY <1>6, <1>9, LinkFields
  <2> HIDE DEF s
  <2>0. FQ(v, X \cup {t}, c, 0)
    BY <1>2, FluxNone
  <2>3. /\ FQ(s, X, c, 0) /\ SameNumbers(v, s) /\ SameCnt(v, s) /\ ToPending(v, s, m, t)
    BY <1>5, <2>0, <2>1, GoPendKeeps
  <2>4. QOK(s, X)
    BY <2>3, FluxNone
  <2>5. ToPending(r, s, m, t)
    BY <1>4, <2>3, LandsBack, ReleasedBack DEF ToPending, SameRest
  <2>6. CvKept(r, s, X \cup {t})
    BY <1>2, <2>3, CvKeptThrough DEF SameCnt
  <2>7. UnblockSame(r, s, t, X)
    BY <1>2, <1>4, <2>3, <2>6 DEF UnblockSame, SameRest, SameNumbers, SameData, SameCtl, SameCnt
  <2>8. UnblockOffers(r, s, t, c, m, l)
    BY <1>3, <1>5, <1>9, <2>2, <2>5 DEF UnblockOffers
  <2> QED
    BY <1>5, <2>4, <2>7, <2>8 DEF Unblocked
<1> QED
  BY <1>7, <1>8, <1>9

\* DCondVar::UnBlockThread.
LEMMA UnblockKeeps ==
    ASSUME NEW r, NEW X, NEW t \in Thread, t \notin X, NEW c \in Cond, FQ(r, X \cup {t}, c, 1),
           r.phase[c] # "deleted",
           r.mstate[t] \in {"EWaitCondVar", "EWaitCondVarSuspended"},
           r.phase[r.cvMutex[c]] # "deleted", NEW l, l = UnBlockThread(r, c, t)
    PROVE  \E s : QOK(s, X) /\ Unblocked(r, s, t, c, X, l)
BY UnblockReset, UnblockLive

\* h is the highest priority of the threads on the wait queue of m, 0 if there is none.
High(r, X, m, h) ==
    /\ \A w \in Thread \ X : MWaits(r, w, m) => h >= r.pri[w]
    /\ h = 0 \/ \E w \in Thread \ X : MWaits(r, w, m) /\ h = r.pri[w]

\* DMutex::HighestPriority is the highest of the waiting threads.
LEMMA HighestIs ==
    ASSUME NEW r, NEW X, RQ(r, X), NEW m \in Mutex, NEW h, h = HighestPriority(r, m)
    PROVE  High(r, X, m, h) /\ h \in Pri \cup {0} /\ (h # 0 => NonEmpty(r.waitQ[m]))
<1>1. m \in Obj
  BY DEF Obj
<1>2. \A w \in Thread : w \in Range(r.waitQ[m]) <=> w \notin X /\ MWaits(r, w, m)
  BY MutexWaiter
<1>3. CASE r.waitQ[m] = <<>>
  <2>1. Range(r.waitQ[m]) = {} /\ h = 0
    BY <1>3 DEF Range, HighestPriority
  <2> QED
    BY <1>2, <2>1 DEF High
<1>4. CASE r.waitQ[m] # <<>>
  <2> DEFINE u == Head(r.waitQ[m])
  <2>1. /\ u \in Thread /\ u \in Range(r.waitQ[m])
        /\ \A w \in Range(r.waitQ[m]) : r.pri[u] >= r.pri[w]
    BY <1>1, <1>4, RHead
  <2>2. h = r.pri[u] /\ r.pri \in [Thread -> Pri]
    BY <1>4, QTypes2 DEF HighestPriority
  <2> HIDE DEF u
  <2>3. NonEmpty(r.waitQ[m])
    BY <1>4 DEF NonEmpty
  <2>4. h \in Pri
    BY <2>1, <2>2
  <2>5. \A w \in Thread \ X : MWaits(r, w, m) => h >= r.pri[w]
    BY <1>2, <2>1, <2>2
  <2>6. u \in Thread \ X /\ MWaits(r, u, m)
    BY <1>2, <2>1
  <2> QED
    BY <2>2, <2>3, <2>4, <2>5, <2>6 DEF High
<1> QED
  BY <1>3, <1>4

\* A thread that stays as it is while others' priorities change, also when it has
\* been taken off its queue.
Fixed(r, u) ==
    \/ r.mstate[u] = "EReady"
    \/ r.mstate[u] = "EWaitMutex" /\ r.waitObj[u] \in Mutex /\ r.holder[r.waitObj[u]] # Null

SetFault(r, b) == [r EXCEPT !.fault = b]
\* SetFault changes the flag of the assertions only.
LEMMA SetFaultFields ==
    ASSUME NEW r, Rec(r), NEW b, NEW s, s = SetFault(r, b)
    PROVE  /\ Rec(s) /\ SameCtl(r, s) /\ SameRun(r, s) /\ SameCnt(r, s) /\ SameWhere(r, s)
           /\ SameQ(r, s) /\ s.pri = r.pri /\ s.clnPri = r.clnPri /\ s.fault = b
<1>1. s = [f \in DOMAIN s |-> s[f]]
  BY SMT DEF SetFault
<1> QED
  BY <1>1, SMT DEF SetFault, Rec, Fields, SameCtl, SameRun, SameCnt, SameWhere, SameQ

\* A debug build stops: t is not on the queue.
LEMMA OffQueueKeeps ==
    ASSUME NEW r, NEW X, QOK(r, X), NEW m \in Mutex, NEW t \in Thread, t \in X,
           r.holder[m] # Null, MWaits(r, t, m),
           NEW p \in Pri, NEW n, NEW l, l = ChangeWaitingThreadPriority(r, m, t, p, n)
    PROVE  \E s : QOK(s, X) /\ Moved(r, s, t, p, X, l, n)
<1> DEFINE v == SetPri(r, t, p)
           b == TRUE
           s == SetFault(v, b)
<1>1. RQ(r, X) /\ Rec(r)
  BY DEF QOK
<1>2. t \notin Range(r.waitQ[m])
  BY <1>1, MutexWaiter
<1>3. s = ChangePriority(r, m, t, p)
  BY <1>2 DEF ChangePriority, SetPri, SetFault
<1>4. l = Link(s, m, HighestPriority(s, m), n)
  BY <1>3 DEF ChangeWaitingThreadPriority
<1>5. v = SetPri(r, t, p)
  OBVIOUS
<1>16. s = SetFault(v, b)
  OBVIOUS
<1>17. b \in BOOLEAN
  BY DEF b
<1> HIDE DEF v, s, b
<1>6. FQ(r, X, m, 0)
  BY FluxNone
<1>7. /\ FQ(v, X, m, 0) /\ SameRest(r, v) /\ SameWhere(r, v) /\ SameCnt(r, v) /\ SameQ(r, v)
      /\ v.pri = [r.pri EXCEPT ![t] = p]
  BY <1>5, <1>6, SetPriFlux
<1>8. Rec(v)
  BY <1>7 DEF FQ
<1>9. /\ Rec(s) /\ SameCtl(v, s) /\ SameRun(v, s) /\ SameCnt(v, s) /\ SameWhere(v, s) /\ SameQ(v, s)
      /\ s.pri = v.pri /\ s.clnPri = v.clnPri /\ s.fault = b
  BY <1>8, <1>16, SetFaultFields
<1>10. Kept(v, s)
  BY <1>7, <1>9, <1>17 DEF Kept, FQ, RunT, SameRun
<1>11. FQ(s, X, m, 0)
  BY <1>7, <1>9, <1>10, LandSame
<1>12. QOK(s, X)
  BY <1>11, FluxNone
<1>13. OnlyOf(r, s, t, p, X) /\ Stays(r, s)
  BY <1>7, <1>9 DEF OnlyOf, Stays, SameRest, SameCtl, SameRun, SameCnt, SameWhere
<1>14. LinkIs(l, s, m, HighestPriority(s, m), n)
  BY <1>4, LinkFields
<1>15. ~Free(r, m)
  BY DEF Free
<1> QED
  BY <1>12, <1>13, <1>14, <1>15 DEF Moved, MovedOn

\* NThread's priority is set, of a thread on no wait queue.
LEMMA SetPriOnly ==
    ASSUME NEW r, NEW X, QOK(r, X), NEW t \in Thread, t \in X \/ r.mstate[t] \notin OnWaitQ,
           NEW p \in Pri, NEW s, s = SetPri(r, t, p)
    PROVE  QOK(s, X) /\ OnlyOf(r, s, t, p, X) /\ Stays(r, s) /\ OnlyPri(r, s) /\ s.fault = r.fault
<1>2. /\ QOK(s, X) /\ OnlyPri(r, s) /\ s.fault = r.fault /\ s.pri = [r.pri EXCEPT ![t] = p]
  BY SetPriKeeps
<1> QED
  BY <1>2, OnlyPriIs

\* DMutex::ChangePendingThreadPriority; the mutex goes to another waiting thread if
\* that is higher.
LEMMA PendingKeeps ==
    ASSUME NEW r, NEW X, QOK(r, X), NEW m \in Mutex, NEW t \in Thread, t \notin X, Pends(r, t, m),
           NEW p \in Pri, NEW l, l = Done(ChangePendingThreadPriority(r, m, t, p)), NEW n
    PROVE  \E s : QOK(s, X) /\ Moved(r, s, t, p, X, l, n)
<1>1. RQ(r, X) /\ m \in Obj /\ r.pri \in [Thread -> Int] /\ p \in Int /\ p # 0
  BY QTypes2, PriNat DEF QOK, Obj
<1> DEFINE h == HighestPriority(r, m)
<1>2. High(r, X, m, h) /\ h \in Int /\ (h # 0 => NonEmpty(r.waitQ[m])) /\ h >= 0
  <2>1. \A x \in Pri \cup {0} : x \in Int /\ x >= 0
    BY PriNat
  <2> HIDE DEF h
  <2>2. h = HighestPriority(r, m)
    BY DEF h
  <2> QED
    BY <1>1, <2>1, <2>2, HighestIs
<1>3. "EHoldMutexPending" \notin OnWaitQ
  BY DEF OnWaitQ
<1>4. CASE r.holder[m] = Null /\ ~Resetting(r, m) /\ p < r.pri[t] /\ p < h
  <2> DEFINE v == WakeUpNextThread(r, m)
             u == Head(r.waitQ[m])
             s == SetPri(v, t, p)
  <2>1. l = Done(s) /\ v = WakeUpNextThread(r, m) /\ s = SetPri(v, t, p)
    BY <1>4 DEF ChangePendingThreadPriority, SetPri
  <2> HIDE DEF v, s
  <2>2. NonEmpty(r.waitQ[m])
    <3>1. h # 0
      BY <1>1, <1>2, <1>4, PriNat
    <3> QED
      BY <1>2, <3>1
  <2>3. /\ QOK(v, X) /\ SameCtl(r, v) /\ SameData(r, v) /\ v.pri = r.pri /\ Woken(r, v, u, m, X)
    BY <2>1, <2>2, WakeUpKeeps
  <2>4. h = r.pri[u]
    BY <2>2 DEF HighestPriority, NonEmpty
  <2> HIDE DEF u, h
  <2>5. u # t /\ u \in Thread
    BY <2>3 DEF Woken, MWaits, Pends
  <2>6. v.mstate[t] \notin OnWaitQ
    BY <1>3, <2>3, <2>5 DEF Woken, ToPending, Lands, But, Pends
  <2>7. QOK(s, X) /\ OnlyOf(v, s, t, p, X) /\ OnlyPri(v, s)
    BY <2>1, <2>3, <2>6, SetPriOnly
  <2>8. OnlyOf(r, s, t, p, X)
    BY <2>3, <2>7 DEF OnlyOf, SameCtl, SameData
  <2>9. Woken(r, s, u, m, X)
    BY <2>3, <2>7 DEF Woken, OnlyPri, ToPending, Lands, Released, SameRun
  <2>10. r.phase[m] = "live"
    BY <1>1, <1>4, <2>2 DEF QOK, CtlT, Phases, Resetting, CountAt, NonEmpty
  <2>11. s.cvMutex = r.cvMutex
    BY <2>3, <2>7 DEF OnlyPri, SameData, SameCnt
  <2>12. Lowered(r, s, t, p, m, u, X)
    BY <1>4, <2>4, <2>9, <2>10, <2>11 DEF Lowered, Pends
  <2>13. Ends(l, s)
    BY <2>1, LinkFields
  <2> QED
    BY <2>5, <2>7, <2>8, <2>12, <2>13 DEF Moved, MovedOn
<1>5. CASE ~(r.holder[m] = Null /\ ~Resetting(r, m) /\ p < r.pri[t] /\ p < h)
  <2> DEFINE s == SetPri(r, t, p)
  <2>1. l = Done(s) /\ s = SetPri(r, t, p)
    BY <1>5 DEF ChangePendingThreadPriority, SetPri
  <2> HIDE DEF s
  <2>2. r.mstate[t] \notin OnWaitQ
    BY <1>3 DEF Pends
  <2>3. QOK(s, X) /\ OnlyOf(r, s, t, p, X) /\ Stays(r, s)
    BY <2>1, <2>2, SetPriOnly
  <2>4. Ends(l, s)
    BY <2>1, LinkFields
  <2>5. r.mstate[t] # "EWaitMutex"
    BY DEF Pends
  <2>6. KeepsOffer(r, t, p, X)
    <3> SUFFICES ASSUME Free(r, m), ~(p >= r.pri[t]), NEW w \in Thread \ X, MWaits(r, w, m)
                 PROVE  p >= r.pri[w]
      BY DEF KeepsOffer, Pends
    <3>1. ~(p < h)
      BY <1>1, <1>5 DEF Free, Resetting
    <3>2. h >= r.pri[w]
      BY <1>2 DEF High
    <3> QED
      BY <1>1, <1>2, <3>1, <3>2
  <2> QED
    BY <2>3, <2>4, <2>5, <2>6 DEF Moved, MovedOn
<1> QED
  BY <1>4, <1>5

\* A thread that waits for a condition variable is raised: it looks at its mutex.
LEMMA CondRaiseKeeps ==
    ASSUME NEW r, NEW X, QOK(r, X), NEW c \in Cond, NEW t \in Thread, t \in Range(r.waitQ[c]),
           r.mstate[t] = "EWaitCondVar", r.phase[r.cvMutex[c]] # "deleted",
           \A x \in X : Fixed(r, x), NEW p \in Pri, p > r.pri[t], ~Resetting(r, c), NEW n,
           NEW l, l = UnBlockThread(SetPri(WaitRemove(r, c, t), t, p), c, t)
    PROVE  \E s : QOK(s, X) /\ Moved(r, s, t, p, X, l, n)
<1> DEFINE v == WaitRemove(r, c, t)
           w == SetPri(v, t, p)
<1>1. v = WaitRemove(r, c, t) /\ w = SetPri(v, t, p) /\ l = UnBlockThread(w, c, t) /\ c \in Obj
  BY DEF Obj
<1> HIDE DEF v, w
<1>2. /\ FQ(v, X \cup {t}, c, 1) /\ SameRest(r, v) /\ SameWhere(r, v) /\ SameCnt(r, v)
      /\ v.pri = r.pri /\ t \notin X /\ r.waitObj[t] = c /\ r.phase[c] # "deleted"
  BY <1>1, TakeWait
<1>3. t \in X \cup {t}
  OBVIOUS
<1>4. /\ FQ(w, X \cup {t}, c, 1) /\ SameRest(v, w) /\ SameWhere(v, w) /\ SameCnt(v, w)
      /\ w.pri = [v.pri EXCEPT ![t] = p]
  BY <1>1, <1>2, <1>3, SetPriFlux
<1>5. SameRest(r, w) /\ SameWhere(r, w) /\ SameCnt(r, w) /\ w.pri = [r.pri EXCEPT ![t] = p]
  BY <1>2, <1>4, SameRestTrans DEF SameWhere, SameCnt
<1>6. /\ w.phase = r.phase /\ w.mstate = r.mstate /\ w.cvMutex = r.cvMutex
      /\ w.holder = r.holder /\ w.clnPri = r.clnPri /\ w.waitObj = r.waitObj /\ w.count = r.count
      /\ w.fault = r.fault /\ SameCtl(r, w) /\ SameRun(r, w)
  BY <1>5 DEF SameRest, SameCtl, SameWhere, SameCnt
<1>7. PICK s : QOK(s, X) /\ Unblocked(w, s, t, c, X, l)
  <2>1. /\ w.phase[c] # "deleted" /\ w.phase[w.cvMutex[c]] # "deleted"
        /\ w.mstate[t] \in {"EWaitCondVar", "EWaitCondVarSuspended"}
    BY <1>2, <1>6
  <2> QED
    BY <1>1, <1>2, <1>4, <2>1, UnblockKeeps
<1>8. w.pri[t] = p
  BY <1>5, QTypes2 DEF QOK
<1>9. r.phase[c] = "live"
  BY <1>1, <1>2 DEF QOK, CtlT, Phases, Resetting
<1>10. UnblockSame(w, s, t, X)
  BY <1>7 DEF Unblocked
<1>11. OnlyOf(r, s, t, p, X)
  BY <1>5, <1>6, <1>10 DEF OnlyOf, UnblockSame, SameCtl
<1>12. CvKept(r, s, {t})
  <2> SUFFICES ASSUME NEW u \in Thread \ {t}, r.mstate[u] \in CondWaits, r.waitObj[u] \in Cond
               PROVE  s.cvMutex[r.waitObj[u]] = r.cvMutex[r.waitObj[u]]
    BY DEF CvKept
  <2>1. u \notin X
    BY DEF Fixed, CondWaits
  <2> QED
    BY <1>6, <1>10, <2>1 DEF UnblockSame, CvKept
<1>13. ~UnblockResets(w, s, t, c, l)
  BY <1>6, <1>9 DEF UnblockResets
<1>14. PICK m \in Mutex : \/ UnblockSuspended(w, s, t, c, m, l)
                          \/ UnblockQueues(w, s, t, c, m, l)
                          \/ UnblockOffers(w, s, t, c, m, l)
  BY <1>7, <1>13 DEF Unblocked
<1>15. ~UnblockSuspended(w, s, t, c, m, l)
  BY <1>6 DEF UnblockSuspended
<1>16. CASE UnblockQueues(w, s, t, c, m, l)
  <2>1. Lands(w, s, t, "EWaitMutex", m) /\ SameRun(w, s) /\ m = r.cvMutex[c] /\ r.holder[m] # Null
    BY <1>6, <1>16 DEF UnblockQueues
  <2>2. Lands(r, s, t, "EWaitMutex", m) /\ SameRun(r, s)
    BY <1>5, <1>6, <2>1, LandsBack DEF SameRun
  <2>3. Signalled(r, s, t, p, c, m)
    BY <1>2, <1>9, <1>12, <2>1, <2>2 DEF Signalled
  <2>4. \/ Ends(l, s) /\ p =< r.clnPri[m]
        \/ p > r.clnPri[m] /\ LinkIs(l, s, m, p, 0)
    BY <1>6, <1>8, <1>16 DEF UnblockQueues
  <2> QED
    BY <1>7, <1>11, <2>1, <2>3, <2>4 DEF Moved, MovedOn
<1>17. CASE UnblockOffers(w, s, t, c, m, l)
  <2>1. ToPending(w, s, m, t) /\ Ends(l, s) /\ m = r.cvMutex[c] /\ r.holder[m] = Null
    BY <1>6, <1>17 DEF UnblockOffers
  <2>2. ToPending(r, s, m, t)
    BY <1>5, <1>6, <2>1, LandsBack, ReleasedBack DEF ToPending
  <2>3. Signalled(r, s, t, p, c, m)
    BY <1>2, <1>9, <1>12, <2>1, <2>2 DEF Signalled
  <2> QED
    BY <1>7, <1>11, <2>1, <2>3 DEF Moved, MovedOn
<1> QED
  BY <1>14, <1>15, <1>16, <1>17

\* A thread whose priority may change: what it waits for is known.
Known(r, X, t) ==
    \/ Fixed(r, t)
    \/ /\ t \notin X
       /\ r.mstate[t] = "EWaitSemaphore" => r.waitObj[t] \in Sem
       /\ r.mstate[t] \in MutexWaits => r.waitObj[t] \in Mutex
       /\ r.mstate[t] \in CondWaits => r.waitObj[t] \in Cond
       /\ r.mstate[t] = "EWaitCondVar" => /\ r.cvMutex[r.waitObj[t]] = r.obj[t]
                                          /\ r.phase[r.obj[t]] = "live"

\* The priority of a thread that waits for a semaphore or a condition variable.
LEMMA ChangeQueuedKeeps ==
    ASSUME NEW r, NEW X, QOK(r, X), NEW o \in Obj, NEW t \in Thread, t \in Range(r.waitQ[o]),
           r.mstate[t] \notin {"EWaitMutex", "EHoldMutexPending"},
           NEW p \in Pri, NEW l, l = Done(ChangePriority(r, o, t, p)), NEW n
    PROVE  \E s : QOK(s, X) /\ Moved(r, s, t, p, X, l, n)
<1> DEFINE s == ChangePriority(r, o, t, p)
<1>1. s = ChangePriority(r, o, t, p) /\ l = Done(s)
  OBVIOUS
<1> HIDE DEF s
<1>2. QOK(s, X) /\ OnlyPri(r, s) /\ s.fault = r.fault /\ s.pri = [r.pri EXCEPT ![t] = p]
  BY <1>1, ChangePriorityKeeps
<1>3. OnlyOf(r, s, t, p, X) /\ Stays(r, s)
  BY <1>2, OnlyPriIs
<1>4. Ends(l, s) /\ r.mstate[t] # "EWaitMutex" /\ KeepsOffer(r, t, p, X)
  BY <1>1, LinkFields DEF KeepsOffer, Pends
<1> QED
  BY <1>2, <1>3, <1>4 DEF Moved, MovedOn

\* DThread::SetActualPriority, in every M-state.
LEMMA SetActualKeeps ==
    ASSUME NEW r, NEW X, QOK(r, X), \A x \in X : Fixed(r, x), NEW t \in Thread, Known(r, X, t),
           NEW p \in Pri, NEW n, NEW l, l = SetActualPriority(r, t, p, n)
    PROVE  \E s : QOK(s, X) /\ Moved(r, s, t, p, X, l, n)
<1> DEFINE o == r.waitObj[t]
           ms == r.mstate[t]
<1>1. RQ(r, X) /\ Mutex \subseteq Obj /\ Sem \subseteq Obj /\ Cond \subseteq Obj
  BY DEF QOK, Obj
<1>2. CASE ms = "EWaitSemaphore"
  <2>1. l = Done(ChangePriority(r, o, t, p))
    BY <1>2 DEF SetActualPriority
  <2>2. o \in Sem /\ o \in Obj /\ t \notin X
    BY <1>1, <1>2 DEF Known, Fixed
  <2>3. WaitState[o] = "EWaitSemaphore"
    BY <2>2, WaitStates
  <2>4. t \in Range(r.waitQ[o])
    BY <1>1, <1>2, <2>2, <2>3, RWhere
  <2>5. ms \notin {"EWaitMutex", "EHoldMutexPending"}
    BY <1>2
  <2> QED
    BY <2>1, <2>2, <2>4, <2>5, ChangeQueuedKeeps
<1>3. CASE ms = "EWaitMutex"
  <2>1. l = ChangeWaitingThreadPriority(r, o, t, p, n)
    BY <1>3 DEF SetActualPriority
  <2>2. o \in Mutex
    BY <1>3 DEF Known, Fixed, MutexWaits
  <2>3. CASE t \in X
    <3>1. r.holder[o] # Null /\ MWaits(r, t, o)
      BY <1>3, <2>3 DEF Fixed, MWaits
    <3> QED
      BY <2>1, <2>2, <2>3, <3>1, OffQueueKeeps
  <2>4. CASE t \notin X
    <3>1. t \in Range(r.waitQ[o])
      BY <1>1, <1>3, <2>2, <2>4, MutexWaiter DEF MWaits
    <3> QED
      BY <2>1, <2>2, <3>1, ChangeWaitingKeeps
  <2> QED
    BY <2>3, <2>4
<1>4. CASE ms = "EHoldMutexPending"
  <2>1. l = Done(ChangePendingThreadPriority(r, o, t, p))
    BY <1>4 DEF SetActualPriority
  <2>2. o \in Mutex /\ t \notin X /\ Pends(r, t, o)
    BY <1>4 DEF Known, Fixed, MutexWaits, Pends
  <2> QED
    BY <2>1, <2>2, PendingKeeps
<1>5. CASE ms = "EWaitCondVar"
  <2>1. l = CondChangeWaitingPriority(r, o, t, p)
    BY <1>5 DEF SetActualPriority
  <2>2. o \in Cond /\ o \in Obj /\ t \notin X /\ r.phase[r.cvMutex[o]] # "deleted"
    BY <1>1, <1>5 DEF Known, Fixed, CondWaits
  <2>3. WaitState[o] = "EWaitCondVar"
    BY <2>2, WaitStates
  <2>4. t \in Range(r.waitQ[o])
    BY <1>1, <1>5, <2>2, <2>3, RWhere
  <2>5. ms \notin {"EWaitMutex", "EHoldMutexPending"}
    BY <1>5
  <2>6. CASE p > r.pri[t] /\ ~Resetting(r, o)
    <3>1. l = UnBlockThread(SetPri(WaitRemove(r, o, t), t, p), o, t)
      BY <2>1, <2>6 DEF CondChangeWaitingPriority, SetPri
    <3> HIDE DEF o
    <3> QED
      BY <1>5, <2>2, <2>4, <2>6, <3>1, CondRaiseKeeps
  <2>7. CASE ~(p > r.pri[t] /\ ~Resetting(r, o))
    <3>1. l = Done(ChangePriority(r, o, t, p))
      BY <2>1, <2>7 DEF CondChangeWaitingPriority
    <3> QED
      BY <2>2, <2>4, <2>5, <3>1, ChangeQueuedKeeps
  <2> QED
    BY <2>6, <2>7
<1>6. CASE ms \notin {"EWaitSemaphore", "EWaitMutex", "EHoldMutexPending", "EWaitCondVar"}
  <2> DEFINE s == SetPri(r, t, p)
  <2>1. s = SetPri(r, t, p) /\ l = Done(s)
    BY <1>6 DEF SetActualPriority, SetPri
  <2> HIDE DEF s
  <2>2. r.mstate[t] \notin OnWaitQ
    BY <1>6 DEF OnWaitQ
  <2>3. QOK(s, X) /\ OnlyOf(r, s, t, p, X) /\ Stays(r, s)
    BY <2>1, <2>2, SetPriOnly
  <2>4. Ends(l, s) /\ r.mstate[t] # "EWaitMutex" /\ KeepsOffer(r, t, p, X)
    BY <1>6, <2>1, LinkFields DEF KeepsOffer, Pends
  <2> QED
    BY <2>3, <2>4 DEF Moved, MovedOn
<1> QED
  BY <1>2, <1>3, <1>4, <1>5, <1>6

\* p is the highest of t's own priority and those of its cleanup items.
IsReq(r, t, p) ==
    /\ p >= r.defPri[t] /\ \A m \in r.cleanupQ[t] : p >= r.clnPri[m]
    /\ p = r.defPri[t] \/ \E m \in r.cleanupQ[t] : p = r.clnPri[m]

\* A set of priorities has a highest one.
LEMMA MostOf ==
    ASSUME NEW S, S # {}, S \subseteq 0..63
    PROVE  \E p \in S : \A q \in S : q =< p
<1> DEFINE R == {63 - q : q \in S}
<1>0. \A q \in S : 63 - q \in Nat
  OBVIOUS
<1>1. R \in SUBSET Nat /\ R # {}
  BY <1>0, Zenon
<1>2. PICK n \in R : \A x \in R : n =< x
  BY <1>1, LeastNat
<1>3. PICK p \in S : n = 63 - p
  BY <1>2
<1>4. \A q \in S : q =< p
  <2> SUFFICES ASSUME NEW q \in S PROVE q =< p
    OBVIOUS
  <2>1. 63 - q \in R
    OBVIOUS
  <2>2. n =< 63 - q
    BY <1>2, <2>1, Zenon
  <2>3. p \in 0..63 /\ q \in 0..63
    OBVIOUS
  <2> QED
    BY <1>3, <2>2, <2>3, SMT
<1> QED
  BY <1>4

\* iCleanupQ's highest priority.
LEMMA CleanupIs ==
    ASSUME NEW r, CtlT(r), RunT(r), NEW t \in Thread, NEW p, p = CleanupPriority(r, t)
    PROVE  /\ p \in Pri \cup {0} /\ \A m \in r.cleanupQ[t] : p >= r.clnPri[m]
           /\ r.cleanupQ[t] = {} => p = 0
           /\ r.cleanupQ[t] # {} => \E m \in r.cleanupQ[t] : p = r.clnPri[m]
<1>1. r.cleanupQ[t] \subseteq Mutex /\ r.clnPri \in [Mutex -> Pri \cup {0}]
  BY DEF CtlT, RunT
<1>2. CASE r.cleanupQ[t] = {}
  BY <1>2 DEF CleanupPriority
<1>3. CASE r.cleanupQ[t] # {}
  <2> DEFINE S == {r.clnPri[m] : m \in r.cleanupQ[t]}
  <2>1. S \subseteq Pri \cup {0} /\ S # {}
    BY <1>1, <1>3
  <2>2. S \subseteq 0..63
    <3>1. \A x \in Pri \cup {0} : x \in 0..63
      BY PriNat
    <3> HIDE DEF S
    <3> QED
      BY <2>1, <3>1
  <2>3. \E x \in S : \A y \in S : y =< x
    BY <2>1, <2>2, MostOf
  <2>4. p = CHOOSE x \in S : \A y \in S : y =< x
    BY <1>3 DEF CleanupPriority
  <2>5. p \in S /\ \A y \in S : y =< p
    BY <2>3, <2>4
  <2>6. \A m \in r.cleanupQ[t] : r.clnPri[m] \in S /\ r.clnPri[m] \in Int
    BY <2>2
  <2>7. p \in Int
    BY <2>2, <2>5
  <2>8. \A m \in r.cleanupQ[t] : p >= r.clnPri[m]
    BY <2>5, <2>6, <2>7
  <2>9. \E m \in r.cleanupQ[t] : p = r.clnPri[m]
    BY <2>5
  <2> QED
    BY <1>3, <2>1, <2>5, <2>8, <2>9
<1> QED
  BY <1>2, <1>3

\* The required priority is the higher of the default and iCleanupQ's.
LEMMA RequiredIs ==
    ASSUME NEW r, CtlT(r), RunT(r), NEW t \in Thread, NEW p, p = RequiredPriority(r, t)
    PROVE  p \in Pri /\ IsReq(r, t, p)
<1> DEFINE c == CleanupPriority(r, t)
           d == r.defPri[t]
<1>1. /\ c \in Pri \cup {0} /\ \A m \in r.cleanupQ[t] : c >= r.clnPri[m]
      /\ r.cleanupQ[t] = {} => c = 0
      /\ r.cleanupQ[t] # {} => \E m \in r.cleanupQ[t] : c = r.clnPri[m]
  <2> HIDE DEF c
  <2>1. c = CleanupPriority(r, t)
    BY DEF c
  <2> QED
    BY <2>1, CleanupIs
<1>2. p = IF d > c THEN d ELSE c
  BY DEF RequiredPriority, Max2
<1>3. d \in Pri /\ r.cleanupQ[t] \subseteq Mutex /\ r.clnPri \in [Mutex -> Pri \cup {0}]
  BY DEF CtlT, RunT
<1>4. Pri \subseteq Int /\ (\A x \in Pri : x >= 1) /\ \A m \in r.cleanupQ[t] : r.clnPri[m] \in Int
  <2>1. Pri \subseteq Int /\ \A x \in Pri : x >= 1
    BY PriNat
  <2> QED
    BY <1>3, <2>1
<1> HIDE DEF c, d
<1>5. c \in Int /\ d \in Int /\ d >= 1
  BY <1>1, <1>3, <1>4
<1>6. p >= d /\ p >= c /\ p \in Pri /\ (p = d \/ (p = c /\ c # 0))
  BY <1>1, <1>2, <1>3, <1>5
<1>7. \A m \in r.cleanupQ[t] : p >= r.clnPri[m]
  <2> SUFFICES ASSUME NEW m \in r.cleanupQ[t] PROVE p >= r.clnPri[m]
    OBVIOUS
  <2>1. c >= r.clnPri[m] /\ r.clnPri[m] \in Int /\ p \in Int
    BY <1>1, <1>4, <1>6
  <2> QED
    BY <1>5, <1>6, <2>1
<1>8. p = d \/ \E m \in r.cleanupQ[t] : p = r.clnPri[m]
  BY <1>1, <1>6
<1> QED
  BY <1>6, <1>7, <1>8 DEF IsReq, d

\* It is the only such priority.
LEMMA RequiredOnly ==
    ASSUME NEW r, CtlT(r), RunT(r), NEW t \in Thread, NEW p \in Int, IsReq(r, t, p)
    PROVE  p = RequiredPriority(r, t)
<1> DEFINE q == RequiredPriority(r, t)
<1>1. q \in Pri /\ IsReq(r, t, q)
  <2> HIDE DEF q
  <2>1. q = RequiredPriority(r, t)
    BY DEF q
  <2> QED
    BY <2>1, RequiredIs
<1>2. r.defPri[t] \in Int /\ q \in Int /\ \A m \in r.cleanupQ[t] : r.clnPri[m] \in Int
  <2>1. \A x \in Pri \cup {0} : x \in Int
    BY PriNat
  <2>2. r.defPri[t] \in Pri /\ r.cleanupQ[t] \subseteq Mutex /\ r.clnPri \in [Mutex -> Pri \cup {0}]
    BY DEF CtlT, RunT
  <2> QED
    BY <1>1, <2>1, <2>2
<1> HIDE DEF q
<1>3. p >= q
  BY <1>1, <1>2 DEF IsReq
<1>4. q >= p
  BY <1>1, <1>2 DEF IsReq
<1>5. p = q
  BY <1>2, <1>3, <1>4
<1> QED
  BY <1>5 DEF q

-----------------------------------------------------------------------------
\* A link of the chain.
SetCln(r, m, p) == [r EXCEPT !.clnPri[m] = p]
\* The priority of a mutex on its holder's iCleanupQ is set.
LEMMA SetClnKeeps ==
    ASSUME NEW r, NEW X, QOK(r, X), NEW m \in Mutex, NEW p \in Pri \cup {0},
           NEW s, s = SetCln(r, m, p)
    PROVE  /\ QOK(s, X) /\ SameCtl(r, s) /\ SameRun(r, s) /\ SameCnt(r, s) /\ SameWhere(r, s)
           /\ SameQ(r, s) /\ s.pri = r.pri /\ s.fault = r.fault
           /\ s.clnPri = [r.clnPri EXCEPT ![m] = p]
<1>1. s = [f \in DOMAIN s |-> s[f]]
  BY SMT DEF SetCln
<1>2. Rec(r)
  BY DEF QOK
<1>3. /\ Rec(s) /\ SameCtl(r, s) /\ SameRun(r, s) /\ SameCnt(r, s) /\ SameWhere(r, s)
      /\ SameQ(r, s) /\ s.pri = r.pri /\ s.fault = r.fault
      /\ s.clnPri = [r.clnPri EXCEPT ![m] = p]
  BY <1>1, <1>2, SMT DEF SetCln, Rec, Fields, SameCtl, SameRun, SameCnt, SameWhere, SameQ
<1>4. FQ(r, X, m, 0)
  BY FluxNone
<1>5. RunT(s)
  <2>1. RunT(r)
    BY DEF QOK
  <2>2. s.clnPri \in [Mutex -> Pri \cup {0}]
    BY <1>3, <2>1 DEF RunT
  <2> QED
    BY <1>3, <2>1, <2>2 DEF RunT, SameRun
<1>6. Kept(r, s)
  BY <1>3, <1>5 DEF Kept
<1>7. FQ(s, X, m, 0)
  BY <1>3, <1>4, <1>6, LandSame
<1>8. QOK(s, X)
  BY <1>7, FluxNone
<1> QED
  BY <1>3, <1>8

\* What a thread waits for.
WaitOK(r, t) ==
    /\ r.mstate[t] \in SemWaits => r.waitObj[t] \in Sem
    /\ r.mstate[t] \in MutexWaits => r.waitObj[t] \in Mutex
    /\ r.mstate[t] \in CondWaits =>
          /\ r.waitObj[t] \in Cond /\ r.waitObj[t] = r.cond[t]
          /\ r.cvMutex[r.waitObj[t]] = r.obj[t]
    /\ r.mstate[t] \in {"EReady", "EDead"} => r.waitObj[t] = Null
    /\ r.cond[t] # Null => r.obj[t] \in Mutex /\ r.phase[r.obj[t]] = "live"
    /\ r.blocked[t] => r.mstate[t] \in OnWaitQ \cup OnSuspQ
    /\ r.mstate[t] = "EDead" <=> r.pc[t] = "dead"

\* Critical sections and suspension.
SuspOK(r, t) ==
    /\ r.susp[t] > 0 => r.mstate[t] \notin OnWaitQ /\ ~r.cs[t]
    /\ r.mstate[t] \in OnSuspQ => r.susp[t] > 0 \/ r.pc[t] = "Exit"
    /\ r.csFunction[t] >= -1
    /\ ~r.cs[t] => r.csFunction[t] = 0
    /\ r.pc[t] \in {"SignalN", "Broadcast", "Reset", "Exit", "Cleanup"} => r.cs[t]
    /\ r.pc[t] \in {"Exit", "Cleanup"} => r.csFunction[t] < 0

\* Where a thread is in the code.
PcOK(r, t) ==
    /\ r.pc[t] \in {"run", "SignalN", "Reset"} => r.cond[t] = Null
    /\ r.pc[t] \in {"SignalN", "Broadcast", "Reset", "Cleanup"} => r.mstate[t] = "EReady"
    /\ r.pc[t] = "run" => r.mstate[t] \in SemWaits \cup {"EReady"}
    /\ r.pc[t] = "MutexWait" =>
          /\ r.obj[t] \in Mutex
          /\ r.mstate[t] \in MutexWaits \cup {"EReady"}
          /\ r.cond[t] # Null => r.cs[t] /\ ~r.timed[t] /\ r.mstate[t] # "EReady"
    /\ r.pc[t] \in {"CondWindow", "CondWait"} =>
          /\ r.cond[t] \in Cond
          /\ r.mstate[t] \in MutexWaits \cup CondWaits \cup {"EReady"}
    /\ r.pc[t] = "CondWindow" => ~r.blocked[t]
    /\ r.pc[t] \in {"MutexWait", "CondWindow", "CondWait", "Exit"} =>
          (r.mstate[t] \in MutexWaits => r.waitObj[t] = r.obj[t])
    /\ r.pc[t] \in {"run", "MutexWait", "CondWait"} =>
          (r.mstate[t] \in OnWaitQ \cup OnSuspQ => r.blocked[t])
    /\ r.pc[t] \in {"MutexWait", "CondWait"} =>
          (r.mstate[t] # "EReady" => r.ret[t] = "KErrNone")
    /\ r.pc[t] = "SignalN" => r.obj[t] \in Sem /\ r.phase[r.obj[t]] = "live"
    /\ r.pc[t] = "Broadcast" => r.cond[t] \in Cond /\ r.holder[r.obj[t]] = t
    /\ r.pc[t] = "Reset" => r.obj[t] \in Obj /\ r.phase[r.obj[t]] = "resetting"

ThreadOK(r, t) == WaitOK(r, t) /\ SuspOK(r, t) /\ PcOK(r, t)

\* What is about thread t in ThreadOK, other than its wait.
SamePlace(r, s, t) ==
    /\ s.pc[t] = r.pc[t] /\ s.obj[t] = r.obj[t] /\ s.cond[t] = r.cond[t] /\ s.cs[t] = r.cs[t]
    /\ s.susp[t] = r.susp[t] /\ s.csFunction[t] = r.csFunction[t]
    /\ r.cond[t] # Null \/ r.pc[t] \in {"SignalN", "Reset"} => s.phase[r.obj[t]] = r.phase[r.obj[t]]
    /\ r.pc[t] = "Broadcast" => s.holder[r.obj[t]] = r.holder[r.obj[t]]
SameWait(r, s, t) ==
    /\ s.mstate[t] = r.mstate[t] /\ s.waitObj[t] = r.waitObj[t]
    /\ s.blocked[t] = r.blocked[t] /\ s.timed[t] = r.timed[t] /\ s.ret[t] = r.ret[t]
SameCv(r, s, t) ==
    r.mstate[t] \in CondWaits => s.cvMutex[r.waitObj[t]] = r.cvMutex[r.waitObj[t]]
Agree(r, s, t) == SamePlace(r, s, t) /\ SameWait(r, s, t) /\ SameCv(r, s, t)

\* What holds of a thread holds after a step that agrees on it.
LEMMA ThreadAgrees ==
    ASSUME NEW r, NEW s, NEW t, ThreadOK(r, t), Agree(r, s, t)
    PROVE  ThreadOK(s, t)
<1>1. WaitOK(s, t)
  BY DEF ThreadOK, WaitOK, Agree, SamePlace, SameWait, SameCv
<1>2. SuspOK(s, t)
  BY DEF ThreadOK, SuspOK, Agree, SamePlace, SameWait
<1>3. PcOK(s, t)
  BY DEF ThreadOK, PcOK, Agree, SamePlace, SameWait
<1> QED
  BY <1>1, <1>2, <1>3 DEF ThreadOK

\* A thread that waits for a mutex, or for a condition variable with that mutex,
\* goes on to wait for, or to be offered, the mutex.
Shifts(r, s, t) ==
    /\ r.mstate[t] \in MutexWaits \cup CondWaits
    /\ s.mstate[t] \in MutexWaits
    /\ s.waitObj[t] \in Mutex
    /\ s.waitObj[t] = IF r.mstate[t] \in MutexWaits THEN r.waitObj[t] ELSE r.obj[t]
    /\ \/ /\ r.mstate[t] # "EHoldMutexPending" /\ s.mstate[t] # "EHoldMutexPending"
          /\ s.blocked[t] = r.blocked[t] /\ s.timed[t] = r.timed[t] /\ s.ret[t] = r.ret[t]
       \/ /\ s.mstate[t] = "EHoldMutexPending"
          /\ ~s.blocked[t] /\ ~s.timed[t] /\ s.ret[t] = "KErrNone"
    /\ s.mstate[t] = "EWaitMutex" => ~(r.susp[t] > 0)
    /\ s.mstate[t] = "EWaitMutexSuspended" => r.susp[t] > 0 \/ r.pc[t] = "Exit"

\* The same for a thread that was moved from one object to another.
LEMMA ThreadShifts ==
    ASSUME NEW r, NEW s, NEW t, ThreadOK(r, t), SamePlace(r, s, t), Shifts(r, s, t)
    PROVE  ThreadOK(s, t)
<1> DEFINE a == r.mstate[t]
           b == s.mstate[t]
<1>1. /\ a \in MutexWaits \cup CondWaits /\ b \in MutexWaits
      /\ a \notin SemWaits /\ a \notin {"EReady", "EDead"} /\ b \notin SemWaits
      /\ b \notin CondWaits
      /\ b \notin {"EReady", "EDead"}
  BY DEF Shifts, MutexWaits, CondWaits, SemWaits
<1>2. /\ (b # "EHoldMutexPending" <=> b \in OnWaitQ \cup OnSuspQ)
      /\ (a # "EHoldMutexPending" <=> a \in OnWaitQ \cup OnSuspQ)
      /\ (b \in OnWaitQ <=> b = "EWaitMutex") /\ (b \in OnSuspQ <=> b = "EWaitMutexSuspended")
  BY <1>1 DEF MutexWaits, CondWaits, OnWaitQ, OnSuspQ
<1>3. a \in MutexWaits <=> ~(a \in CondWaits)
  BY <1>1 DEF MutexWaits, CondWaits
<1>4. WaitOK(s, t)
  <2>1. s.waitObj[t] \in Mutex
    BY DEF Shifts
  <2>2. s.blocked[t] => b \in OnWaitQ \cup OnSuspQ
    BY <1>2 DEF Shifts
  <2>3. r.pc[t] # "dead"
    BY <1>1 DEF ThreadOK, WaitOK
  <2> HIDE DEF a, b
  <2>4. b = s.mstate[t]
    BY DEF b
  <2> QED
    BY <1>1, <2>1, <2>2, <2>3, <2>4 DEF ThreadOK, WaitOK, SamePlace
<1>5. SuspOK(s, t)
  <2>1. r.susp[t] > 0 => b \notin OnWaitQ
    BY <1>2 DEF Shifts
  <2>2. b \in OnSuspQ => r.susp[t] > 0 \/ r.pc[t] = "Exit"
    BY <1>2 DEF Shifts
  <2> HIDE DEF a, b
  <2>4. b = s.mstate[t]
    BY DEF b
  <2> QED
    BY <2>1, <2>2, <2>4 DEF ThreadOK, SuspOK, SamePlace
<1>6. PcOK(s, t)
  <2>1. r.pc[t] \notin {"run", "SignalN", "Broadcast", "Reset", "Cleanup"}
    BY <1>1 DEF ThreadOK, PcOK
  <2>2. r.pc[t] = "MutexWait" => /\ r.obj[t] \in Mutex /\ a \in MutexWaits
                                 /\ r.cond[t] # Null => r.cs[t] /\ ~s.timed[t]
    BY <1>1 DEF ThreadOK, PcOK, Shifts
  <2>3. r.pc[t] = "CondWindow" => ~s.blocked[t]
    BY DEF ThreadOK, PcOK, Shifts
  <2>4. r.pc[t] \in {"MutexWait", "CondWindow", "CondWait", "Exit"} => s.waitObj[t] = r.obj[t]
    BY DEF ThreadOK, PcOK, Shifts
  <2>5. r.pc[t] \in {"MutexWait", "CondWait"} => (b \in OnWaitQ \cup OnSuspQ => s.blocked[t])
    BY <1>2 DEF ThreadOK, PcOK, Shifts
  <2>6. r.pc[t] \in {"MutexWait", "CondWait"} => s.ret[t] = "KErrNone"
    BY <1>1 DEF ThreadOK, PcOK, Shifts
  <2>7. r.pc[t] \in {"CondWindow", "CondWait"} => r.cond[t] \in Cond
    BY DEF ThreadOK, PcOK
  <2> HIDE DEF a, b
  <2>8. b = s.mstate[t]
    BY DEF b
  <2> QED
    BY <1>1, <2>1, <2>2, <2>3, <2>4, <2>5, <2>6, <2>7, <2>8 DEF PcOK, SamePlace
<1> QED
  BY <1>4, <1>5, <1>6 DEF ThreadOK

CvWaiters(r) == {t \in Thread : r.mstate[t] = "EWaitCondVar"}

\* What a change of priority does to the threads, those in A untouched.
Motion(r, s, A) ==
    /\ SameCtl(r, s) /\ s.count = r.count
    /\ \A u \in A : SameWait(r, s, u)
    /\ \A u \in Thread \ A : ThreadOK(s, u)
    /\ \A u \in Thread : \/ s.waitObj[u] = r.waitObj[u]
                         \/ s.waitObj[u] \in Mutex /\ s.phase[s.waitObj[u]] = "live"
    /\ \A t, u \in Thread : WaitsFor(s, t, u) <=> WaitsFor(r, t, u)
    /\ CvWaiters(s) \subseteq CvWaiters(r)

\* The threads to which others may lead: those in A are fixed.
Ground(r, A) == A \subseteq Thread /\ (\A u \in A : Fixed(r, u)) /\ \A u \in Thread \ A : ThreadOK(r, u)

\* The same control leaves each thread at the same place.
LEMMA CtlPlace ==
    ASSUME NEW r, NEW s, SameCtl(r, s), NEW u
    PROVE  SamePlace(r, s, u)
BY DEF SameCtl, SamePlace

\* A thread in flux waits for no condition variable.
LEMMA FixedNoCond ==
    ASSUME NEW r, NEW u, Fixed(r, u)
    PROVE  r.mstate[u] \notin CondWaits /\ r.mstate[u] # "EWaitCondVar"
BY DEF Fixed, CondWaits

\* Who waits for whom is told by M-states, holders and the mutexes of condition
\* variables.
LEMMA EdgesSame ==
    ASSUME NEW r, NEW s, SameCtl(r, s), NEW t, SameWait(r, s, t), SameCv(r, s, t), NEW u
    PROVE  WaitsFor(s, t, u) <=> WaitsFor(r, t, u)
BY DEF WaitsFor, SameWait, SameCtl, SameCv, CondWaits

\* One thread at most moves.
LEMMA MotionOne ==
    ASSUME NEW r, NEW s, NEW A, Ground(r, A), SameCtl(r, s), s.count = r.count,
           NEW x \in Thread \ A, ThreadOK(s, x),
           s.waitObj[x] = r.waitObj[x] \/ (s.waitObj[x] \in Mutex /\ s.phase[s.waitObj[x]] = "live"),
           \A u \in Thread : WaitsFor(s, x, u) <=> WaitsFor(r, x, u),
           s.mstate[x] = "EWaitCondVar" => r.mstate[x] = "EWaitCondVar",
           \A u \in Thread : u # x => SameWait(r, s, u) /\ SameCv(r, s, u)
    PROVE  Motion(r, s, A)
<1>1. \A u \in A : SameWait(r, s, u)
  BY DEF Ground
<1>2. \A u \in Thread \ A : ThreadOK(s, u)
  <2> SUFFICES ASSUME NEW u \in Thread \ A PROVE ThreadOK(s, u)
    OBVIOUS
  <2>1. CASE u = x
    BY <2>1
  <2>2. CASE u # x
    BY <2>2, CtlPlace, ThreadAgrees DEF Ground, Agree
  <2> QED
    BY <2>1, <2>2
<1>3. \A u \in Thread : \/ s.waitObj[u] = r.waitObj[u]
                        \/ s.waitObj[u] \in Mutex /\ s.phase[s.waitObj[u]] = "live"
  BY DEF SameWait
<1>4. \A t, u \in Thread : WaitsFor(s, t, u) <=> WaitsFor(r, t, u)
  BY EdgesSame
<1>5. CvWaiters(s) \subseteq CvWaiters(r)
  BY DEF CvWaiters, SameWait
<1> QED
  BY <1>1, <1>2, <1>3, <1>4, <1>5 DEF Motion

\* A step in which no thread moves.
LEMMA MotionNone ==
    ASSUME NEW r, NEW s, NEW A, Ground(r, A), SameCtl(r, s), s.count = r.count,
           \A u \in Thread : SameWait(r, s, u) /\ SameCv(r, s, u)
    PROVE  Motion(r, s, A)
<1>1. \A u \in A : SameWait(r, s, u)
  BY DEF Ground
<1>2. \A u \in Thread \ A : ThreadOK(s, u)
  BY CtlPlace, ThreadAgrees DEF Ground, Agree
<1>3. \A u \in Thread : s.waitObj[u] = r.waitObj[u]
  BY DEF SameWait
<1>4. \A t, u \in Thread : WaitsFor(s, t, u) <=> WaitsFor(r, t, u)
  BY EdgesSame
<1>5. CvWaiters(s) \subseteq CvWaiters(r)
  BY DEF CvWaiters, SameWait
<1> QED
  BY <1>1, <1>2, <1>3, <1>4, <1>5 DEF Motion

\* A step in which no thread changes its M-state.
LEMMA StaysMotion ==
    ASSUME NEW r, NEW s, NEW A, Ground(r, A), SameCtl(r, s), s.count = r.count, Stays(r, s)
    PROVE  Motion(r, s, A)
<1>1. \A u \in Thread : SameWait(r, s, u) /\ SameCv(r, s, u)
  BY DEF Stays, SameWhere, SameRun, SameWait, SameCv
<1> QED
  BY <1>1, MotionNone

\* Others than the thread that moves.
LEMMA OthersWait ==
    ASSUME NEW r, RunT(r), NEW s, NEW t, NEW ms, NEW o, Lands(r, s, t, ms, o),
           SameRun(r, s) \/ \E c : Released(r, s, t, c), NEW u \in Thread, u # t
    PROVE  SameWait(r, s, u)
<1>1. s.mstate[u] = r.mstate[u] /\ s.waitObj[u] = r.waitObj[u]
  BY DEF Lands, But
<1>2. CASE SameRun(r, s)
  BY <1>1, <1>2 DEF SameRun, SameWait
<1>3. CASE \E c : Released(r, s, t, c)
  <2>1. PICK c : Released(r, s, t, c)
    BY <1>3
  <2>2. s.blocked[u] = r.blocked[u]
    BY <2>1 DEF Released, RunT
  <2>3. s.timed[u] = r.timed[u]
    BY <2>1 DEF Released, RunT
  <2>4. s.ret[u] = r.ret[u]
    BY <2>1 DEF Released, RunT
  <2> QED
    BY <1>1, <2>2, <2>3, <2>4 DEF SameWait
<1> QED
  BY <1>2, <1>3

\* A released thread is not blocked.
LEMMA ReleasedAt ==
    ASSUME NEW r, RunT(r), NEW s, NEW t \in Thread, NEW c, Released(r, s, t, c)
    PROVE  ~s.blocked[t] /\ ~s.timed[t] /\ s.ret[t] = c
BY DEF Released, RunT

\* A waiter of a free mutex becomes pending.
LEMMA OfferMotion ==
    ASSUME NEW r, RunT(r), NEW s, NEW A, Ground(r, A), SameCtl(r, s), s.count = r.count,
           s.cvMutex = r.cvMutex, NEW t \in Thread, NEW m \in Mutex, MWaits(r, t, m),
           r.holder[m] = Null, ToPending(r, s, m, t)
    PROVE  Motion(r, s, A)
<1>1. t \notin A
  BY DEF Ground, Fixed, MWaits
<1>2. Lands(r, s, t, "EHoldMutexPending", m) /\ Released(r, s, t, "KErrNone")
  BY DEF ToPending
<1>3. /\ s.mstate[t] = "EHoldMutexPending" /\ s.waitObj[t] = m /\ r.mstate[t] = "EWaitMutex"
      /\ r.waitObj[t] = m
  BY <1>2 DEF Lands, MWaits
<1>4. ~s.blocked[t] /\ ~s.timed[t] /\ s.ret[t] = "KErrNone"
  BY <1>2, ReleasedAt
<1>5. Shifts(r, s, t)
  BY <1>3, <1>4 DEF Shifts, MutexWaits
<1>6. ThreadOK(s, t)
  BY <1>1, <1>5, CtlPlace, ThreadShifts DEF Ground
<1>7. \A u \in Thread : u # t => SameWait(r, s, u) /\ SameCv(r, s, u)
  BY <1>2, OthersWait DEF SameCv
<1>8. \A u \in Thread : WaitsFor(s, t, u) <=> WaitsFor(r, t, u)
  BY <1>3, SyncAssumption DEF WaitsFor
<1>9. s.waitObj[t] = r.waitObj[t] \/ (s.waitObj[t] \in Mutex /\ s.phase[s.waitObj[t]] = "live")
  BY <1>3
<1>10. s.mstate[t] = "EWaitCondVar" => r.mstate[t] = "EWaitCondVar"
  BY <1>3
<1>11. t \in Thread \ A
  BY <1>1
<1> QED
  BY <1>6, <1>7, <1>8, <1>9, <1>10, <1>11, MotionOne

\* A thread that waits for a condition variable goes on to its mutex.
LEMMA SignalMotion ==
    ASSUME NEW r, RunT(r), NEW s, NEW A, Ground(r, A), SameCtl(r, s), s.count = r.count,
           NEW t \in Thread, NEW p, NEW c \in Cond, NEW m \in Mutex, Signalled(r, s, t, p, c, m)
    PROVE  Motion(r, s, A) /\ t \in CvWaiters(r) \ CvWaiters(s) /\ r.phase[m] = "live"
<1>1. r.mstate[t] = "EWaitCondVar" /\ r.waitObj[t] = c /\ m = r.cvMutex[c]
  BY DEF Signalled
<1>2. t \notin A /\ ThreadOK(r, t)
  BY <1>1, FixedNoCond DEF Ground
<1>3. r.obj[t] = m /\ r.phase[m] = "live" /\ ~(r.susp[t] > 0)
  <2>1. r.mstate[t] \in CondWaits /\ r.mstate[t] \in OnWaitQ
    BY <1>1 DEF CondWaits, OnWaitQ
  <2> QED
    BY <1>1, <1>2, <2>1, SyncAssumption DEF ThreadOK, WaitOK, SuspOK, Obj
<1>4. \A u \in Thread : u # t => SameWait(r, s, u)
  BY OthersWait DEF Signalled, ToPending
<1>5. \A u \in Thread : u # t => SameCv(r, s, u)
  <2> SUFFICES ASSUME NEW u \in Thread, u # t, r.mstate[u] \in CondWaits
               PROVE  s.cvMutex[r.waitObj[u]] = r.cvMutex[r.waitObj[u]]
    BY DEF SameCv
  <2>1. u \notin A
    BY FixedNoCond DEF Ground
  <2>2. r.waitObj[u] \in Cond
    BY <2>1 DEF Ground, ThreadOK, WaitOK
  <2> QED
    BY <2>2 DEF Signalled, CvKept
<1>6. s.waitObj[t] = m /\ s.mstate[t] \in {"EWaitMutex", "EHoldMutexPending"}
  BY DEF Signalled, ToPending, Lands
<1>7. Shifts(r, s, t)
  <2>1. CASE Lands(r, s, t, "EWaitMutex", m) /\ SameRun(r, s)
    <3>1. s.mstate[t] = "EWaitMutex"
      BY <2>1 DEF Lands
    <3> QED
      BY <1>1, <1>3, <1>6, <2>1, <3>1 DEF Shifts, MutexWaits, CondWaits, SameRun
  <2>2. CASE ToPending(r, s, m, t)
    <3>1. s.mstate[t] = "EHoldMutexPending"
      BY <2>2 DEF Lands, ToPending
    <3>2. ~s.blocked[t] /\ ~s.timed[t] /\ s.ret[t] = "KErrNone"
      BY <2>2, ReleasedAt DEF ToPending
    <3> QED
      BY <1>1, <1>3, <1>6, <3>1, <3>2 DEF Shifts, MutexWaits, CondWaits
  <2> QED
    BY <2>1, <2>2 DEF Signalled
<1>8. ThreadOK(s, t)
  BY <1>2, <1>7, CtlPlace, ThreadShifts
<1>9. \A u \in Thread : WaitsFor(s, t, u) <=> WaitsFor(r, t, u)
  <2> SUFFICES ASSUME NEW u \in Thread PROVE WaitsFor(s, t, u) <=> WaitsFor(r, t, u)
    OBVIOUS
  <2>1. WaitsFor(r, t, u) <=> r.holder[m] = u
    BY <1>1, SyncAssumption DEF WaitsFor, Obj
  <2>2. s.holder = r.holder /\ Null # u
    BY SyncAssumption DEF SameCtl
  <2>3. CASE r.holder[m] # Null /\ Lands(r, s, t, "EWaitMutex", m)
    BY <1>6, <2>1, <2>2, <2>3 DEF WaitsFor, Lands
  <2>4. CASE r.holder[m] = Null /\ ToPending(r, s, m, t)
    BY <1>6, <2>1, <2>2, <2>4 DEF WaitsFor, Lands, ToPending
  <2> QED
    BY <2>3, <2>4 DEF Signalled
<1>10. t \in CvWaiters(r) \ CvWaiters(s)
  BY <1>1, <1>6 DEF CvWaiters
<1>11. s.phase[s.waitObj[t]] = "live"
  BY <1>3, <1>6 DEF SameCtl
<1>12. Motion(r, s, A)
  BY <1>2, <1>4, <1>5, <1>6, <1>8, <1>9, <1>1, <1>11, MotionOne
<1> QED
  BY <1>3, <1>10, <1>12

\* SetActualPriority moves threads in the ways Motion says.
LEMMA MovedMotion ==
    ASSUME NEW r, NEW X, QOK(r, X), NEW s, NEW A, Ground(r, A), NEW t \in Thread, NEW p, NEW l,
           NEW n,
           Moved(r, s, t, p, X, l, n)
    PROVE  Motion(r, s, A)
<1>1. RunT(r) /\ SameCtl(r, s) /\ s.count = r.count
  BY DEF QOK, Moved, OnlyOf
<1>2. CASE Stays(r, s)
  BY <1>1, <1>2, StaysMotion
<1>3. CASE \E m \in Mutex : Raised(r, s, t, p, m)
  BY <1>1, <1>3, OfferMotion DEF Raised
<1>4. CASE \E m \in Mutex, u \in Thread : Lowered(r, s, t, p, m, u, X)
  BY <1>1, <1>4, OfferMotion DEF Lowered, Woken
<1>5. CASE \E c \in Cond, m \in Mutex : Signalled(r, s, t, p, c, m)
  BY <1>1, <1>5, SignalMotion
<1> QED
  BY <1>2, <1>3, <1>4, <1>5 DEF Moved, MovedOn

\* The M-state of a thread outside a call is known.
LEMMA GroundKnown ==
    ASSUME NEW r, NEW A, Ground(r, A), NEW X, X \subseteq A, NEW t \in Thread
    PROVE  Known(r, X, t)
<1>1. CASE t \in A
  BY <1>1 DEF Ground, Known
<1>2. CASE t \notin A
  <2>1. ThreadOK(r, t) /\ t \notin X
    BY <1>2 DEF Ground
  <2>2. r.mstate[t] = "EWaitSemaphore" => r.mstate[t] \in SemWaits
    BY DEF SemWaits
  <2>3. r.mstate[t] = "EWaitCondVar" => r.mstate[t] \in CondWaits
    BY DEF CondWaits
  <2>4. Null \notin Cond
    BY SyncAssumption DEF Obj
  <2> QED
    BY <2>1, <2>2, <2>3, <2>4 DEF ThreadOK, WaitOK, Known
<1> QED
  BY <1>1, <1>2

\* The effect of SetRequiredPriority(r, t, n).
Requires(r, s, t, X, l, n) ==
    \/ Ends(l, s) /\ s = r /\ IsReq(r, t, r.pri[t])
    \/ \E p \in Pri : IsReq(r, t, p) /\ Moved(r, s, t, p, X, l, n)

\* DThread::SetRequiredPriority keeps the invariant of the queues.
LEMMA SetRequiredKeeps ==
    ASSUME NEW r, NEW X, QOK(r, X), NEW A, Ground(r, A), X \subseteq A, NEW t \in Thread,
           NEW n, NEW l, l = SetRequiredPriority(r, t, n)
    PROVE  \E s : QOK(s, X) /\ Requires(r, s, t, X, l, n)
<1> DEFINE p == RequiredPriority(r, t)
<1>1. p \in Pri /\ IsReq(r, t, p)
  <2> HIDE DEF p
  <2>1. p = RequiredPriority(r, t)
    BY DEF p
  <2> QED
    BY <2>1, RequiredIs DEF QOK
<1>2. CASE p = r.pri[t]
  <2>1. Ends(l, r)
    BY <1>2, LinkFields DEF SetRequiredPriority
  <2> QED
    BY <1>1, <1>2, <2>1 DEF Requires
<1>3. CASE p # r.pri[t]
  <2>1. l = SetActualPriority(r, t, p, n)
    BY <1>3 DEF SetRequiredPriority
  <2>2. Known(r, X, t) /\ \A x \in X : Fixed(r, x)
    BY GroundKnown DEF Ground
  <2> HIDE DEF p
  <2>3. PICK s : QOK(s, X) /\ Moved(r, s, t, p, X, l, n)
    BY <1>1, <2>1, <2>2, SetActualKeeps
  <2> QED
    BY <1>1, <2>3 DEF Requires
<1> QED
  BY <1>2, <1>3

\* What is to be done is a link of the chain.
LinkOK(l) == l.m = Null \/ (l.m \in Mutex /\ l.p \in Pri \cup {0} /\ l.n \in 0..9)

\* The effect of a link: the cleanup item, then the holder.
Cut(l, v) ==
    l.p = l.k.clnPri[l.m] \/ v.holder[l.m] = Null \/ l.n = 9
Followed(l, l2, v, s, X) ==
    \/ Ends(l2, s) /\ s = v /\ Cut(l, v)
    \/ v.holder[l.m] \in Thread /\ l.n \in 0..8 /\ Requires(v, s, v.holder[l.m], X, l2, l.n + 1)

\* Nothing but the priority of a cleanup item changes.
LEMMA SetClnMotion ==
    ASSUME NEW r, NEW s, NEW A, Ground(r, A), SameCtl(r, s), SameRun(r, s), SameCnt(r, s),
           SameWhere(r, s)
    PROVE  Motion(r, s, A) /\ Ground(s, A)
<1>1. s.count = r.count /\ Stays(r, s)
  BY DEF Stays, SameCnt
<1>2. Motion(r, s, A)
  BY <1>1, StaysMotion
<1> QED
  BY <1>2 DEF Motion, Ground, Fixed, SameCtl, SameWhere

\* One link of the chain of holders keeps it.
LEMMA FollowKeeps ==
    ASSUME NEW l, NEW X, QOK(l.k, X), NEW A, Ground(l.k, A), X \subseteq A, l.m \in Mutex,
           LinkOK(l),
           NEW l2, l2 = Follow(l)
    PROVE  \E v, s : /\ v = SetCln(l.k, l.m, l.p) /\ QOK(v, X) /\ QOK(s, X)
                     /\ Followed(l, l2, v, s, X)
<1> DEFINE v == SetCln(l.k, l.m, l.p)
<1>1. v = SetCln(l.k, l.m, l.p)
  OBVIOUS
<1>2. l.m # Null /\ l.p \in Pri \cup {0} /\ l.n \in 0..9
  BY SyncAssumption DEF LinkOK, Obj
<1>3. l2 = IF l.p = l.k.clnPri[l.m] \/ l.k.holder[l.m] = Null \/ l.n + 1 >= 10
           THEN Done(v) ELSE SetRequiredPriority(v, l.k.holder[l.m], l.n + 1)
  BY <1>2 DEF Follow, ChangeCleanupPriority, SetCln, KMaxPriorityInheritanceNesting
<1> HIDE DEF v
<1>4. /\ QOK(v, X) /\ SameCtl(l.k, v) /\ SameRun(l.k, v) /\ SameCnt(l.k, v) /\ SameWhere(l.k, v)
  <2> DEFINE r == l.k
             m == l.m
             p == l.p
  <2>1. QOK(r, X) /\ m \in Mutex /\ p \in Pri \cup {0} /\ v = SetCln(r, m, p)
    BY <1>1, <1>2
  <2> HIDE DEF r, m, p
  <2>2. QOK(v, X) /\ SameCtl(r, v) /\ SameRun(r, v) /\ SameCnt(r, v) /\ SameWhere(r, v)
    BY <2>1, SetClnKeeps
  <2> QED
    BY <2>2 DEF r
<1>5. Ground(v, A) /\ v.holder = l.k.holder /\ v.holder \in [Mutex -> Thread \cup {Null}]
  BY <1>4, SetClnMotion DEF SameCtl, QOK, CtlT
<1>6. CASE l.p = l.k.clnPri[l.m] \/ l.k.holder[l.m] = Null \/ l.n + 1 >= 10
  <2>1. Ends(l2, v)
    BY <1>3, <1>6, LinkFields
  <2>2. Cut(l, v)
    BY <1>2, <1>5, <1>6 DEF Cut
  <2> QED
    BY <1>1, <1>4, <2>1, <2>2 DEF Followed
<1>7. CASE ~(l.p = l.k.clnPri[l.m] \/ l.k.holder[l.m] = Null \/ l.n + 1 >= 10)
  <2> DEFINE t == l.k.holder[l.m]
  <2>1. t \in Thread /\ l.n \in 0..8 /\ t = v.holder[l.m] /\ l2 = SetRequiredPriority(v, t, l.n + 1)
    BY <1>2, <1>3, <1>5, <1>7
  <2> HIDE DEF t
  <2>2. PICK s : QOK(s, X) /\ Requires(v, s, t, X, l2, l.n + 1)
    BY <1>4, <1>5, <2>1, SetRequiredKeeps
  <2> QED
    BY <1>1, <1>4, <2>1, <2>2 DEF Followed
<1> QED
  BY <1>6, <1>7

\* A mutex that is free ends the chain.
LEMMA FollowFree ==
    ASSUME NEW l, NEW X, QOK(l.k, X), l.m \in Mutex, LinkOK(l), l.k.holder[l.m] = Null,
           NEW l2, l2 = Follow(l)
    PROVE  Ends(l2, SetCln(l.k, l.m, l.p))
<1>1. l.m # Null
  BY SyncAssumption DEF Obj
<1>2. l2 = Done(SetCln(l.k, l.m, l.p))
  BY <1>1 DEF Follow, ChangeCleanupPriority, SetCln
<1> QED
  BY <1>2, LinkFields

\* Motions add up.
LEMMA MotionTrans ==
    ASSUME NEW r, NEW v, NEW s, NEW A, A \subseteq Thread, Motion(r, v, A), Motion(v, s, A)
    PROVE  Motion(r, s, A)
<1>1. SameCtl(r, s) /\ s.count = r.count
  BY DEF Motion, SameCtl
<1>2. \A u \in A : SameWait(r, s, u)
  BY DEF Motion, SameWait
<1>3. \A u \in Thread \ A : ThreadOK(s, u)
  BY DEF Motion
<1>4. \A u \in Thread : \/ s.waitObj[u] = r.waitObj[u]
                        \/ s.waitObj[u] \in Mutex /\ s.phase[s.waitObj[u]] = "live"
  <2> SUFFICES ASSUME NEW u \in Thread
               PROVE  \/ s.waitObj[u] = r.waitObj[u]
                      \/ s.waitObj[u] \in Mutex /\ s.phase[s.waitObj[u]] = "live"
    OBVIOUS
  <2>1. \/ v.waitObj[u] = r.waitObj[u]
        \/ v.waitObj[u] \in Mutex /\ v.phase[v.waitObj[u]] = "live"
    BY DEF Motion
  <2>2. \/ s.waitObj[u] = v.waitObj[u]
        \/ s.waitObj[u] \in Mutex /\ s.phase[s.waitObj[u]] = "live"
    BY DEF Motion
  <2>3. s.phase = v.phase
    BY DEF Motion, SameCtl
  <2> QED
    BY <2>1, <2>2, <2>3
<1>5. \A t, u \in Thread : WaitsFor(s, t, u) <=> WaitsFor(r, t, u)
  BY DEF Motion
<1>6. CvWaiters(s) \subseteq CvWaiters(r)
  BY DEF Motion
<1> QED
  BY <1>1, <1>2, <1>3, <1>4, <1>5, <1>6 DEF Motion

\* After a motion the threads are as well-placed as before.
LEMMA MotionGround ==
    ASSUME NEW r, NEW s, NEW A, Ground(r, A), Motion(r, s, A)
    PROVE  Ground(s, A)
<1>1. \A u \in A : Fixed(s, u)
  <2> SUFFICES ASSUME NEW u \in A PROVE Fixed(s, u)
    OBVIOUS
  <2>1. s.holder = r.holder /\ s.mstate[u] = r.mstate[u] /\ s.waitObj[u] = r.waitObj[u]
    BY DEF Motion, SameCtl, SameWait
  <2> QED
    BY <2>1 DEF Ground, Fixed
<1> QED
  BY <1>1 DEF Ground, Motion

\* No step is a motion.
LEMMA MotionSelf ==
    ASSUME NEW r, NEW A, Ground(r, A)
    PROVE  Motion(r, r, A)
BY DEF Motion, Ground, SameCtl, SameWait

\* SetRequiredPriority is a motion.
LEMMA RequiresMotion ==
    ASSUME NEW r, NEW X, QOK(r, X), NEW s, NEW A, Ground(r, A), NEW t \in Thread, NEW l, NEW n,
           Requires(r, s, t, X, l, n)
    PROVE  Motion(r, s, A)
<1>1. CASE s = r
  BY <1>1, MotionSelf
<1>2. CASE \E p \in Pri : IsReq(r, t, p) /\ Moved(r, s, t, p, X, l, n)
  BY <1>2, MovedMotion
<1> QED
  BY <1>1, <1>2 DEF Requires

\* A live mutex that is free and waited for has been offered to a thread that can take it.
NoIdle(r, X) ==
    \A m \in Mutex, w \in Thread \ X : Free(r, m) /\ MWaits(r, w, m) =>
        \E q \in Thread \ X : Pends(r, q, m) /\ ~(r.susp[q] > 0) /\ r.pri[q] >= r.pri[w]

\* The offers of m stand.
LEMMA OffersStand ==
    ASSUME NEW r, NEW s, NEW X, NEW m \in Mutex, SameCtl(r, s),
           NEW w \in Thread \ X, Free(r, m), MWaits(r, w, m), s.pri[w] =< r.pri[w],
           r.pri \in [Thread -> Int], s.pri \in [Thread -> Int],
           \A q \in Thread \ X : Pends(r, q, m) => Pends(s, q, m) /\ s.pri[q] = r.pri[q],
           NoIdle(r, X)
    PROVE  \E q \in Thread \ X : Pends(s, q, m) /\ ~(s.susp[q] > 0) /\ s.pri[q] >= s.pri[w]
<1>1. PICK q \in Thread \ X : Pends(r, q, m) /\ ~(r.susp[q] > 0) /\ r.pri[q] >= r.pri[w]
  BY DEF NoIdle
<1>2. Pends(s, q, m) /\ s.pri[q] = r.pri[q] /\ s.susp = r.susp
  BY <1>1 DEF SameCtl
<1>3. r.pri[q] \in Int /\ r.pri[w] \in Int /\ s.pri[w] \in Int
  OBVIOUS
<1> QED
  BY <1>1, <1>2, <1>3

\* A thread that waits for a free mutex is not suspended, and not in a call.
LEMMA WaiterRuns ==
    ASSUME NEW r, NEW A, Ground(r, A), NEW u \in Thread, NEW m \in Mutex, MWaits(r, u, m),
           r.holder[m] = Null
    PROVE  u \notin A /\ ~(r.susp[u] > 0)
<1>1. u \notin A
  BY DEF Ground, Fixed, MWaits
<1>2. r.mstate[u] \in OnWaitQ
  BY DEF MWaits, OnWaitQ
<1> QED
  BY <1>1, <1>2 DEF Ground, ThreadOK, SuspOK

\* SetActualPriority leaves no mutex idle that a thread waits for.
LEMMA MovedNoIdle ==
    ASSUME NEW r, NEW X, QOK(r, X), NEW s, QOK(s, X), NEW A, Ground(r, A), X \subseteq A,
           NoIdle(r, X), NEW t \in Thread, NEW p \in Pri, NEW l, NEW n, Moved(r, s, t, p, X, l, n)
    PROVE  NoIdle(s, X)
<1> SUFFICES ASSUME NEW m \in Mutex, NEW w \in Thread \ X, Free(s, m), MWaits(s, w, m)
             PROVE  \E q \in Thread \ X : /\ Pends(s, q, m) /\ ~(s.susp[q] > 0)
                                          /\ s.pri[q] >= s.pri[w]
  BY DEF NoIdle
<1>1. /\ SameCtl(r, s) /\ s.pri = [r.pri EXCEPT ![t] = p] /\ r.pri \in [Thread -> Int]
      /\ s.pri \in [Thread -> Int] /\ p \in Int
  BY QTypes2, PriNat DEF QOK, Moved, OnlyOf
<1>2. Free(r, m) /\ s.susp = r.susp
  BY <1>1 DEF SameCtl, Free
<1>3. s.pri[t] = p /\ \A u \in Thread : u # t => s.pri[u] = r.pri[u]
  BY <1>1
<1>4. ASSUME Stays(r, s) PROVE MWaits(r, w, m) /\ \A q : Pends(r, q, m) => Pends(s, q, m)
  BY <1>4 DEF Stays, SameWhere, MWaits, Pends
<1>5. CASE Stays(r, s) /\ r.mstate[t] # "EWaitMutex" /\ KeepsOffer(r, t, p, X)
  <2>1. MWaits(r, w, m) /\ w # t
    BY <1>4, <1>5 DEF MWaits
  <2>2. PICK q \in Thread \ X : Pends(r, q, m) /\ ~(r.susp[q] > 0) /\ r.pri[q] >= r.pri[w]
    BY <1>2, <2>1 DEF NoIdle
  <2>3. Pends(s, q, m) /\ ~(s.susp[q] > 0) /\ s.pri[w] = r.pri[w]
    BY <1>2, <1>3, <1>4, <1>5, <2>1, <2>2
  <2>4. s.pri[q] >= r.pri[w]
    <3>1. CASE q # t
      BY <1>3, <2>2, <3>1
    <3>2. CASE q = t
      <4>1. p >= r.pri[t] \/ p >= r.pri[w]
        BY <1>2, <1>5, <2>1, <2>2, <3>2 DEF KeepsOffer
      <4>2. r.pri[t] \in Int /\ r.pri[w] \in Int /\ r.pri[t] >= r.pri[w] /\ s.pri[q] = p
        BY <1>1, <1>3, <2>2, <3>2
      <4> QED
        BY <1>1, <4>1, <4>2
    <3> QED
      BY <3>1, <3>2
  <2> QED
    BY <2>3, <2>4
<1>6. CASE Stays(r, s) /\ \E x \in Mutex : MWaits(r, t, x) /\ (Free(r, x) => p =< r.pri[t])
  <2>1. PICK x \in Mutex : MWaits(r, t, x) /\ (Free(r, x) => p =< r.pri[t])
    BY <1>6
  <2>2. MWaits(r, w, m) /\ \A q : Pends(r, q, m) => Pends(s, q, m) /\ q # t
    BY <1>4, <1>6, <2>1 DEF MWaits, Pends
  <2>3. s.pri[w] =< r.pri[w]
    <3>1. CASE w = t
      <4>1. x = m
        BY <2>1, <2>2, <3>1 DEF MWaits
      <4> QED
        BY <1>2, <1>3, <2>1, <3>1, <4>1
    <3>2. CASE w # t
      <4>1. r.pri[w] \in Int
        BY <1>1
      <4> QED
        BY <1>3, <3>2, <4>1
    <3> QED
      BY <3>1, <3>2
  <2>4. \A q \in Thread \ X : Pends(r, q, m) => Pends(s, q, m) /\ s.pri[q] = r.pri[q]
    BY <1>3, <2>2
  <2> QED
    BY <1>1, <1>2, <2>2, <2>3, <2>4, OffersStand
\* The rest of the cases: w is another thread than t.
<1>7. ASSUME w # t, MWaits(r, w, m), \A q \in Thread : Pends(r, q, m) => Pends(s, q, m) /\ q # t
      PROVE  \E q \in Thread \ X : /\ Pends(s, q, m) /\ ~(s.susp[q] > 0)
                                   /\ s.pri[q] >= s.pri[w]
  <2>1. s.pri[w] =< r.pri[w]
    <3>1. r.pri[w] \in Int
      BY <1>1
    <3> QED
      BY <1>3, <1>7, <3>1
  <2>2. \A q \in Thread \ X : Pends(r, q, m) => Pends(s, q, m) /\ s.pri[q] = r.pri[q]
    BY <1>3, <1>7
  <2> QED
    BY <1>1, <1>2, <1>7, <2>1, <2>2, OffersStand
<1>8. CASE \E x \in Mutex : Raised(r, s, t, p, x)
  <2>1. PICK x \in Mutex : Raised(r, s, t, p, x)
    BY <1>8
  <2>2. /\ MWaits(r, t, x) /\ But(r.mstate, s.mstate, t) /\ But(r.waitObj, s.waitObj, t)
        /\ s.mstate[t] = "EHoldMutexPending"
    BY <2>1 DEF Raised, ToPending, Lands
  <2>3. w # t
    BY <2>2 DEF MWaits
  <2>4. MWaits(r, w, m)
    BY <2>2, <2>3 DEF MWaits, But
  <2>5. \A q \in Thread : Pends(r, q, m) => Pends(s, q, m) /\ q # t
    BY <2>2 DEF MWaits, Pends, But
  <2> QED
    BY <1>7, <2>3, <2>4, <2>5
<1>9. CASE \E x \in Mutex, u \in Thread : Lowered(r, s, t, p, x, u, X)
  <2>1. PICK x \in Mutex, u \in Thread : Lowered(r, s, t, p, x, u, X)
    BY <1>9
  <2>2. /\ Pends(r, t, x) /\ MWaits(r, u, x) /\ But(r.mstate, s.mstate, u)
        /\ But(r.waitObj, s.waitObj, u) /\ s.mstate[u] = "EHoldMutexPending" /\ s.waitObj[u] = x
        /\ r.holder[x] = Null /\ u \notin X
        /\ \A z \in Thread \ X : MWaits(r, z, x) => r.pri[u] >= r.pri[z]
    BY <2>1 DEF Lowered, Woken, ToPending, Lands, Pends
  <2>3. w # u /\ u # t
    BY <2>2 DEF MWaits, Pends
  <2>4. MWaits(r, w, m)
    BY <2>2, <2>3 DEF MWaits, But
  <2>5. w # t
    BY <2>2, <2>4 DEF MWaits, Pends
  <2>6. CASE m = x
    <3>1. Pends(s, u, m)
      BY <2>2, <2>6 DEF Pends
    <3>2. ~(s.susp[u] > 0)
      BY <1>2, <2>2, WaiterRuns
    <3>3. s.pri[u] >= s.pri[w]
      BY <1>3, <2>2, <2>3, <2>4, <2>5, <2>6
    <3> QED
      BY <2>2, <3>1, <3>2, <3>3
  <2>7. CASE m # x
    <3>1. \A q \in Thread : Pends(r, q, m) => Pends(s, q, m) /\ q # t
      BY <2>2, <2>7 DEF MWaits, Pends, But
    <3> QED
      BY <1>7, <2>4, <2>5, <3>1
  <2> QED
    BY <2>6, <2>7
<1>10. CASE \E c \in Cond, x \in Mutex : Signalled(r, s, t, p, c, x)
  <2>1. PICK c \in Cond, x \in Mutex : Signalled(r, s, t, p, c, x)
    BY <1>10
  <2>2. /\ r.mstate[t] = "EWaitCondVar" /\ But(r.mstate, s.mstate, t)
        /\ But(r.waitObj, s.waitObj, t)
    BY <2>1 DEF Signalled, ToPending, Lands
  <2>3. w # t
    <3> SUFFICES ASSUME w = t PROVE FALSE
      OBVIOUS
    <3>1. CASE r.holder[x] # Null /\ Lands(r, s, t, "EWaitMutex", x)
      <4>1. m = x
        BY <3>1 DEF Lands, MWaits
      <4> QED
        BY <1>2, <3>1, <4>1 DEF Free
    <3>2. CASE ToPending(r, s, x, t)
      BY <3>2 DEF ToPending, Lands, MWaits
    <3> QED
      BY <2>1, <3>1, <3>2 DEF Signalled
  <2>4. MWaits(r, w, m)
    BY <2>2, <2>3 DEF MWaits, But
  <2>5. \A q \in Thread : Pends(r, q, m) => Pends(s, q, m) /\ q # t
    BY <2>2 DEF Pends, But
  <2> QED
    BY <1>7, <2>3, <2>4, <2>5
<1> QED
  BY <1>5, <1>6, <1>8, <1>9, <1>10 DEF Moved, MovedOn

Held(r, m) == r.holder[m] # Null /\ r.phase[m] = "live"

\* The cleanup items of live mutexes other than m0 are exact, and p would be for m0.
HighBut(r, X, m0, p) ==
    \A m \in Mutex : Held(r, m) => High(r, X, m, IF m = m0 THEN p ELSE r.clnPri[m])
LinkHigh(l, X) == HighBut(l.k, X, l.m, l.p)

\* The highest priority of the same waiting threads is the same.
LEMMA HighSame ==
    ASSUME NEW r, NEW s, NEW X, NEW m, NEW h, High(r, X, m, h),
           \A w \in Thread \ X : MWaits(s, w, m) <=> MWaits(r, w, m),
           \A w \in Thread \ X : MWaits(r, w, m) => s.pri[w] = r.pri[w]
    PROVE  High(s, X, m, h)
BY DEF High

\* Who holds what is control.
LEMMA CtlHeld ==
    ASSUME NEW r, NEW s, SameCtl(r, s), NEW m
    PROVE  (Held(s, m) <=> Held(r, m)) /\ (Free(s, m) <=> Free(r, m))
BY DEF SameCtl, Held, Free

\* The waiters of m are as they were.
SameWaiters(r, s, m) ==
    \A w \in Thread : (MWaits(s, w, m) <=> MWaits(r, w, m)) /\ (MWaits(r, w, m) => s.pri[w] = r.pri[w])

\* The same, for a mutex whose waiting threads are the same.
LEMMA WaitersHigh ==
    ASSUME NEW r, NEW s, NEW X, NEW m, SameWaiters(r, s, m), NEW h, High(r, X, m, h)
    PROVE  High(s, X, m, h)
BY HighSame DEF SameWaiters

\* The new link is exact when all items were.
LEMMA MovedHigh ==
    ASSUME NEW r, NEW X, QOK(r, X), NEW s, QOK(s, X), NEW A, Ground(r, A), X \subseteq A,
           HighBut(r, X, Null, 0), NEW t \in Thread, NEW p \in Pri, NEW l, NEW n,
           Moved(r, s, t, p, X, l, n)
    PROVE  LinkHigh(l, X)
<1>1. /\ SameCtl(r, s) /\ s.pri = [r.pri EXCEPT ![t] = p] /\ r.pri \in [Thread -> Int]
      /\ s.clnPri = r.clnPri /\ r.clnPri \in [Mutex -> Pri \cup {0}] /\ RunT(r)
  BY QTypes2 DEF QOK, Moved, OnlyOf, RunT
<1>2. s.pri[t] = p /\ \A u \in Thread : u # t => s.pri[u] = r.pri[u]
  BY <1>1
<1>3. \A x \in Pri \cup {0} : x \in Int /\ (x \in Pri => x >= 1)
  BY PriNat
<1>4. l.k = s
  BY DEF Moved, MovedOn, Ends, LinkIs
<1>5. Null \notin Mutex
  BY SyncAssumption DEF Obj
<1> SUFFICES ASSUME NEW m \in Mutex, Held(s, m)
             PROVE  High(s, X, m, IF m = l.m THEN l.p ELSE s.clnPri[m])
  BY <1>4 DEF LinkHigh, HighBut
<1>6. Held(r, m)
  BY <1>1, CtlHeld
<1>7. High(r, X, m, r.clnPri[m])
  BY <1>5, <1>6 DEF HighBut
<1>8. ASSUME m # l.m, SameWaiters(r, s, m)
      PROVE  High(s, X, m, IF m = l.m THEN l.p ELSE s.clnPri[m])
  BY <1>1, <1>7, <1>8, WaitersHigh
<1>9. ASSUME ~MWaits(r, t, m), ~MWaits(s, t, m),
             \A u \in Thread : u # t => (MWaits(s, u, m) <=> MWaits(r, u, m))
      PROVE  SameWaiters(r, s, m)
  <2> SUFFICES ASSUME NEW u \in Thread
               PROVE  (MWaits(s, u, m) <=> MWaits(r, u, m)) /\ (MWaits(r, u, m) => s.pri[u] = r.pri[u])
    BY DEF SameWaiters
  <2>1. CASE u = t
    BY <1>9, <2>1
  <2>2. CASE u # t
    BY <1>2, <1>9, <2>2
  <2> QED
    BY <2>1, <2>2
<1>10. Ends(l, s) => l.m # m
  BY <1>5 DEF Ends, LinkIs
<1>11. CASE Ends(l, s) /\ Stays(r, s) /\ r.mstate[t] # "EWaitMutex"
  <2>1. SameWaiters(r, s, m)
    BY <1>9, <1>11 DEF Stays, SameWhere, MWaits
  <2> QED
    BY <1>8, <1>10, <1>11, <2>1
<1>12. CASE \E x \in Mutex : MWaits(r, t, x) /\ Stays(r, s) /\ LinkIs(l, s, x, HighestPriority(s, x), n)
  <2>1. PICK x \in Mutex : MWaits(r, t, x) /\ Stays(r, s) /\ LinkIs(l, s, x, HighestPriority(s, x), n)
    BY <1>12
  <2>2. CASE m = x
    <3>1. l.p = HighestPriority(s, m) /\ m = l.m /\ RQ(s, X)
      BY <2>1, <2>2 DEF LinkIs, QOK
    <3>2. High(s, X, m, l.p)
      BY <3>1, HighestIs
    <3> QED
      BY <3>1, <3>2
  <2>3. CASE m # x
    <3>1. m # l.m
      BY <2>1, <2>3 DEF LinkIs
    <3>2. SameWaiters(r, s, m)
      BY <1>9, <2>1, <2>3 DEF Stays, SameWhere, MWaits
    <3> QED
      BY <1>8, <3>1, <3>2
  <2> QED
    BY <2>2, <2>3
<1>13. CASE \E x \in Mutex : Ends(l, s) /\ Raised(r, s, t, p, x)
  <2>1. PICK x \in Mutex : Ends(l, s) /\ Raised(r, s, t, p, x)
    BY <1>13
  <2>2. /\ MWaits(r, t, x) /\ x # m /\ But(r.mstate, s.mstate, t) /\ But(r.waitObj, s.waitObj, t)
        /\ s.mstate[t] = "EHoldMutexPending"
    BY <1>6, <2>1 DEF Raised, ToPending, Lands, Held
  <2>3. SameWaiters(r, s, m)
    <3>1. ~MWaits(r, t, m) /\ ~MWaits(s, t, m)
      BY <2>2 DEF MWaits
    <3>2. \A u \in Thread : u # t => (MWaits(s, u, m) <=> MWaits(r, u, m))
      BY <2>2 DEF MWaits, But
    <3> QED
      BY <1>9, <3>1, <3>2
  <2> QED
    BY <1>8, <1>10, <2>1, <2>3
<1>14. CASE \E x \in Mutex, u \in Thread : Ends(l, s) /\ Lowered(r, s, t, p, x, u, X)
  <2>1. PICK x \in Mutex, u \in Thread : Ends(l, s) /\ Lowered(r, s, t, p, x, u, X)
    BY <1>14
  <2>2. /\ Pends(r, t, x) /\ MWaits(r, u, x) /\ But(r.mstate, s.mstate, u)
        /\ But(r.waitObj, s.waitObj, u) /\ s.mstate[u] = "EHoldMutexPending" /\ x # m
    BY <1>6, <2>1 DEF Lowered, Woken, ToPending, Lands, Pends, Held
  <2>3. SameWaiters(r, s, m)
    <3>1. u # t
      BY <2>2 DEF MWaits, Pends
    <3>2. ~MWaits(r, t, m) /\ ~MWaits(s, t, m)
      BY <2>2, <3>1 DEF MWaits, Pends, But
    <3>3. \A z \in Thread : z # t => (MWaits(s, z, m) <=> MWaits(r, z, m))
      BY <2>2 DEF MWaits, But
    <3> QED
      BY <1>9, <3>2, <3>3
  <2> QED
    BY <1>8, <1>10, <2>1, <2>3
<1>15. CASE \E c \in Cond, x \in Mutex :
               /\ Signalled(r, s, t, p, c, x)
               /\ \/ Ends(l, s) /\ (r.holder[x] # Null => p =< r.clnPri[x])
                  \/ r.holder[x] # Null /\ p > r.clnPri[x] /\ LinkIs(l, s, x, p, 0)
  <2>1. PICK c \in Cond, x \in Mutex :
               /\ Signalled(r, s, t, p, c, x)
               /\ \/ Ends(l, s) /\ (r.holder[x] # Null => p =< r.clnPri[x])
                  \/ r.holder[x] # Null /\ p > r.clnPri[x] /\ LinkIs(l, s, x, p, 0)
    BY <1>15
  <2>2. /\ r.mstate[t] = "EWaitCondVar" /\ But(r.mstate, s.mstate, t)
        /\ But(r.waitObj, s.waitObj, t)
        /\ s.waitObj[t] = x
    BY <2>1 DEF Signalled, ToPending, Lands
  <2>3. ~MWaits(r, t, m)
    BY <2>2 DEF MWaits
  <2>4. \A u \in Thread : u # t => (MWaits(s, u, m) <=> MWaits(r, u, m))
    BY <2>2 DEF MWaits, But
  <2>5. CASE m # x
    <3>1. ~MWaits(s, t, m) /\ m # l.m
      BY <1>10, <2>1, <2>2, <2>5 DEF MWaits, LinkIs
    <3> QED
      BY <1>8, <1>9, <2>3, <2>4, <3>1
  <2>6. CASE m = x
    <3>1. t \notin X
      BY <2>2, FixedNoCond DEF Ground
    <3>2. MWaits(s, t, m)
      BY <1>6, <2>1, <2>6 DEF Signalled, Lands, MWaits, Held
    <3> DEFINE c0 == r.clnPri[m]
               h == IF m = l.m THEN l.p ELSE s.clnPri[m]
    <3>3. c0 \in Int /\ c0 = s.clnPri[m] /\ p \in Int /\ p >= 1
      BY <1>1, <1>3
    <3>4. \/ p =< c0 /\ h = c0
          \/ p > c0 /\ h = p
      BY <1>1, <1>6, <1>10, <2>1, <2>6 DEF Held, LinkIs
    <3> HIDE DEF c0, h
    <3>5. h >= p /\ h >= c0 /\ h \in Int
      BY <3>3, <3>4
    <3>6. High(r, X, m, c0)
      BY <1>7 DEF c0
    <3>7. \A w \in Thread \ X : MWaits(s, w, m) => h >= s.pri[w]
      <4> SUFFICES ASSUME NEW w \in Thread \ X, MWaits(s, w, m) PROVE h >= s.pri[w]
        OBVIOUS
      <4>1. CASE w = t
        BY <1>2, <3>5, <4>1
      <4>2. CASE w # t
        <5>1. c0 >= r.pri[w] /\ s.pri[w] = r.pri[w] /\ r.pri[w] \in Int
          BY <1>1, <1>2, <2>4, <3>6, <4>2 DEF High
        <5> QED
          BY <3>3, <3>5, <5>1
      <4> QED
        BY <4>1, <4>2
    <3>8. \E w \in Thread \ X : MWaits(s, w, m) /\ h = s.pri[w]
      <4>1. CASE h = p
        BY <1>2, <3>1, <3>2, <4>1
      <4>2. CASE h = c0 /\ p =< c0
        <5>1. c0 # 0
          BY <3>3, <4>2
        <5>2. PICK w \in Thread \ X : MWaits(r, w, m) /\ c0 = r.pri[w]
          BY <3>6, <5>1 DEF High
        <5>3. w # t
          BY <2>3, <5>2
        <5> QED
          BY <1>2, <2>4, <4>2, <5>2, <5>3
      <4> QED
        BY <3>4, <4>1, <4>2
    <3> QED
      BY <3>7, <3>8 DEF High, h
  <2> QED
    BY <2>5, <2>6
<1> QED
  BY <1>11, <1>12, <1>13, <1>14, <1>15 DEF Moved, MovedOn

\* SetRequiredPriority: only the mutex of the next link may have a stale priority.
LEMMA RequiresHigh ==
    ASSUME NEW r, NEW X, QOK(r, X), NEW s, QOK(s, X), NEW A, Ground(r, A), X \subseteq A,
           HighBut(r, X, Null, 0), NEW t \in Thread, NEW l, NEW n, Requires(r, s, t, X, l, n)
    PROVE  LinkHigh(l, X)
<1>1. CASE Ends(l, s) /\ s = r
  BY <1>1 DEF Ends, LinkIs, LinkHigh
<1>2. CASE \E p \in Pri : IsReq(r, t, p) /\ Moved(r, s, t, p, X, l, n)
  BY <1>2, MovedHigh
<1> QED
  BY <1>1, <1>2 DEF Requires

\* The priority given to the cleanup item makes it exact.
LEMMA SetClnHigh ==
    ASSUME NEW l, NEW X, LinkHigh(l, X), l.m \in Mutex, NEW v,
           SameCtl(l.k, v), SameWhere(l.k, v), v.pri = l.k.pri,
           l.k.clnPri \in [Mutex -> Pri \cup {0}],
           v.clnPri = [l.k.clnPri EXCEPT ![l.m] = l.p]
    PROVE  HighBut(v, X, Null, 0)
<1> SUFFICES ASSUME NEW m \in Mutex, Held(v, m) PROVE High(v, X, m, v.clnPri[m])
  BY SyncAssumption DEF HighBut, Obj
<1>1. Held(l.k, m)
  BY CtlHeld
<1>2. High(l.k, X, m, IF m = l.m THEN l.p ELSE l.k.clnPri[m])
  BY <1>1 DEF LinkHigh, HighBut
<1>3. v.clnPri[m] = IF m = l.m THEN l.p ELSE l.k.clnPri[m]
  OBVIOUS
<1>4. SameWaiters(l.k, v, m)
  BY DEF SameWaiters, SameWhere, MWaits
<1> QED
  BY <1>2, <1>3, <1>4, WaitersHigh

\* How far the chain can still go.
Level(l) == IF l.m = Null THEN 0 ELSE 10 * Cardinality(CvWaiters(l.k)) + (10 - l.n)

\* The threads that wait for condition variables can be counted.
LEMMA CvFinite ==
    ASSUME NEW r
    PROVE  /\ IsFiniteSet(CvWaiters(r)) /\ Cardinality(CvWaiters(r)) \in Nat
           /\ Cardinality(CvWaiters(r)) =< Cardinality(Thread) /\ Cardinality(Thread) \in Nat
<1>1. CvWaiters(r) \subseteq Thread
  BY DEF CvWaiters
<1> QED
  BY <1>1, SyncAssumption, FS_Subset, FS_CardinalityType

\* There are fewer of them when one has left.
LEMMA CvFewer ==
    ASSUME NEW r, NEW s, CvWaiters(s) \subseteq CvWaiters(r)
    PROVE  /\ Cardinality(CvWaiters(s)) =< Cardinality(CvWaiters(r))
           /\ \A t : t \in CvWaiters(r) \ CvWaiters(s) =>
                 Cardinality(CvWaiters(s)) + 1 =< Cardinality(CvWaiters(r))
<1>1. Cardinality(CvWaiters(s)) =< Cardinality(CvWaiters(r))
  BY CvFinite, FS_Subset
<1>2. ASSUME NEW t, t \in CvWaiters(r) \ CvWaiters(s)
      PROVE  Cardinality(CvWaiters(s)) + 1 =< Cardinality(CvWaiters(r))
  <2>1. IsFiniteSet(CvWaiters(r)) /\ CvWaiters(s) # CvWaiters(r)
    BY <1>2, CvFinite
  <2>a. CvWaiters(s) \subseteq CvWaiters(r)
    OBVIOUS
  <2>b. Cardinality(CvWaiters(s)) # Cardinality(CvWaiters(r))
    BY <2>1, <2>a, FS_Subset
  <2>2. Cardinality(CvWaiters(s)) < Cardinality(CvWaiters(r))
    BY <2>b, <1>1, CvFinite
  <2> DEFINE a == Cardinality(CvWaiters(s))
             b == Cardinality(CvWaiters(r))
  <2>3. a \in Nat /\ b \in Nat /\ a < b
    BY <2>2, CvFinite
  <2> HIDE DEF a, b
  <2>4. a + 1 =< b
    BY <2>3
  <2> QED
    BY <2>4 DEF a, b
<1> QED
  BY <1>1, <1>2

\* The link a change of priority of t leaves.
NextLink(r, s, t, l, n) ==
    /\ l.k = s /\ LinkOK(l)
    /\ l.m # Null => /\ l.n = n \/ (l.n = 0 /\ t \in CvWaiters(r) \ CvWaiters(s))
                     /\ \A u \in Thread : s.holder[l.m] = u => WaitsFor(s, t, u)

\* SetActualPriority: the next link has a higher level of nesting, or a thread left a
\* condition variable.
LEMMA MovedLink ==
    ASSUME NEW r, NEW X, QOK(r, X), NEW s, QOK(s, X), NEW A, Ground(r, A), NEW t \in Thread,
           NEW p \in Pri, NEW l, NEW n \in 0..9, Moved(r, s, t, p, X, l, n)
    PROVE  NextLink(r, s, t, l, n)
<1>1. l.k = s /\ RunT(r) /\ SameCtl(r, s) /\ s.count = r.count
  BY DEF Moved, MovedOn, Ends, LinkIs, QOK, OnlyOf
<1>2. CASE Ends(l, s)
  BY <1>1, <1>2 DEF NextLink, LinkOK, Ends, LinkIs
<1>3. CASE \E x \in Mutex : MWaits(r, t, x) /\ Stays(r, s) /\ LinkIs(l, s, x, HighestPriority(s, x), n)
  <2>1. PICK x \in Mutex : MWaits(r, t, x) /\ Stays(r, s) /\ LinkIs(l, s, x, HighestPriority(s, x), n)
    BY <1>3
  <2>2. HighestPriority(s, x) \in Pri \cup {0}
    <3> DEFINE h == HighestPriority(s, x)
    <3>1. h = HighestPriority(s, x) /\ RQ(s, X)
      BY DEF QOK
    <3> HIDE DEF h
    <3>2. h \in Pri \cup {0}
      BY <3>1, HighestIs
    <3> QED
      BY <3>2 DEF h
  <2>3. LinkOK(l)
    BY <2>1, <2>2 DEF LinkOK, LinkIs
  <2>4. \A u \in Thread : s.holder[l.m] = u => WaitsFor(s, t, u)
    BY <2>1 DEF MWaits, Stays, SameWhere, WaitsFor, LinkIs
  <2> QED
    BY <1>1, <2>1, <2>3, <2>4 DEF NextLink, LinkIs
<1>4. CASE \E c \in Cond, x \in Mutex : Signalled(r, s, t, p, c, x) /\ r.holder[x] # Null /\ LinkIs(l, s, x, p, 0)
  <2>1. PICK c \in Cond, x \in Mutex : Signalled(r, s, t, p, c, x) /\ r.holder[x] # Null /\ LinkIs(l, s, x, p, 0)
    BY <1>4
  <2>2. t \in CvWaiters(r) \ CvWaiters(s)
    BY <1>1, <2>1, SignalMotion
  <2>3. s.mstate[t] = "EWaitMutex" /\ s.waitObj[t] = x
    BY <2>1 DEF Signalled, Lands
  <2>4. \A u \in Thread : s.holder[l.m] = u => WaitsFor(s, t, u)
    BY <2>1, <2>3 DEF WaitsFor, LinkIs
  <2> QED
    BY <1>1, <2>1, <2>2, <2>4 DEF NextLink, LinkIs, LinkOK
<1> QED
  BY <1>2, <1>3, <1>4 DEF Moved, MovedOn

\* The same for SetRequiredPriority.
LEMMA RequiresLink ==
    ASSUME NEW r, NEW X, QOK(r, X), NEW s, QOK(s, X), NEW A, Ground(r, A), NEW t \in Thread,
           NEW l, NEW n \in 0..9, Requires(r, s, t, X, l, n)
    PROVE  NextLink(r, s, t, l, n)
<1>1. CASE Ends(l, s)
  BY <1>1 DEF NextLink, LinkOK, Ends, LinkIs
<1>2. CASE \E p \in Pri : IsReq(r, t, p) /\ Moved(r, s, t, p, X, l, n)
  BY <1>2, MovedLink
<1> QED
  BY <1>1, <1>2 DEF Requires

-----------------------------------------------------------------------------
\* Every thread but t has the priority it is required to have.
ReqBut(r, T) == \A u \in Thread \ T : IsReq(r, u, r.pri[u])

\* SetActualPriority gives the thread the priority required.
LEMMA MovedReq ==
    ASSUME NEW r, NEW s, NEW t \in Thread, NEW p, NEW X, OnlyOf(r, s, t, p, X), ReqBut(r, {t}),
           IsReq(r, t, p), r.pri \in [Thread -> Int]
    PROVE  ReqBut(s, {})
<1> SUFFICES ASSUME NEW u \in Thread PROVE IsReq(s, u, s.pri[u])
  BY DEF ReqBut
<1>1. s.defPri = r.defPri /\ s.cleanupQ = r.cleanupQ /\ s.clnPri = r.clnPri
  BY DEF OnlyOf, SameCtl
<1>2. s.pri[u] = IF u = t THEN p ELSE r.pri[u]
  BY DEF OnlyOf
<1>3. IsReq(r, u, s.pri[u])
  BY <1>2 DEF ReqBut
<1> QED
  BY <1>1, <1>3 DEF IsReq

\* SetRequiredPriority gives the thread the priority required.
LEMMA RequiresReq ==
    ASSUME NEW r, NEW X, QOK(r, X), NEW s, NEW t \in Thread, ReqBut(r, {t}),
           NEW l, NEW n, Requires(r, s, t, X, l, n)
    PROVE  ReqBut(s, {})
<1>1. CASE s = r /\ IsReq(r, t, r.pri[t])
  BY <1>1 DEF ReqBut
<1>2. CASE \E p \in Pri : IsReq(r, t, p) /\ Moved(r, s, t, p, X, l, n)
  <2>1. r.pri \in [Thread -> Int]
    BY QTypes2 DEF QOK
  <2> QED
    BY <1>2, <2>1, MovedReq DEF Moved
<1> QED
  BY <1>1, <1>2 DEF Requires

\* Only the holder has the mutex on its cleanup queue.
Owned(r) == \A u \in Thread, m \in Mutex : m \in r.cleanupQ[u] => r.holder[m] = u

\* A mutex's priority on iCleanupQ: only its holder's priority may be stale then.
LEMMA SetClnReq ==
    ASSUME NEW r, CtlT(r), RunT(r), NEW m \in Mutex, NEW p, NEW v, SameCtl(r, v), v.pri = r.pri,
           v.clnPri = [r.clnPri EXCEPT ![m] = p], Owned(r), ReqBut(r, {})
    PROVE  /\ \A t \in Thread : r.holder[m] = t => ReqBut(v, {t})
           /\ r.holder[m] \notin Thread \/ p = r.clnPri[m] => ReqBut(v, {})
<1>1. ASSUME NEW u \in Thread, r.holder[m] # u \/ p = r.clnPri[m]
      PROVE  IsReq(v, u, v.pri[u])
  <2>1. v.defPri = r.defPri /\ v.cleanupQ = r.cleanupQ /\ r.cleanupQ[u] \subseteq Mutex
    BY DEF SameCtl, CtlT
  <2>2. \A x \in r.cleanupQ[u] : v.clnPri[x] = r.clnPri[x]
    BY <1>1, <2>1 DEF Owned, RunT
  <2>3. IsReq(r, u, v.pri[u])
    BY DEF ReqBut
  <2> QED
    BY <2>1, <2>2, <2>3 DEF IsReq
<1> QED
  BY <1>1 DEF ReqBut

\* f is the chain that starts with l, up to its nth link.
ChainOf(f, l, n) ==
    /\ f = [i \in 0..n |-> f[i]] /\ f[0] = l
    /\ \A i \in 1..n : f[i] = Follow(f[i - 1])

\* There is one next link.
LEMMA OneFollow ==
    ASSUME NEW z
    PROVE  (CHOOSE x \in {Follow(y) : y \in {z}} : TRUE) = Follow(z)
<1>1. {Follow(y) : y \in {z}} = {Follow(z)}
  OBVIOUS
<1> QED
  BY <1>1

\* The chain of n links exists.
LEMMA ChainExists ==
    ASSUME NEW l, NEW n \in Nat
    PROVE  \E f : ChainOf(f, l, n)
<1> DEFINE T == {i \in Nat : ~ \E f : ChainOf(f, l, i)}
<1> SUFFICES ASSUME T # {} PROVE FALSE
  OBVIOUS
<1>1. PICK i \in T : \A j \in T : i =< j
  BY LeastNat
<1>2. CASE i = 0
  <2> DEFINE f == [j \in 0..0 |-> l]
  <2>1. ChainOf(f, l, 0)
    BY DEF ChainOf
  <2> QED
    BY <1>1, <1>2, <2>1
<1>3. CASE i # 0
  <2>1. i - 1 \in Nat /\ i - 1 \notin T /\ i \in Nat
    BY <1>1, <1>3
  <2>2. PICK f : ChainOf(f, l, i - 1)
    BY <2>1
  <2> DEFINE g == [j \in 0..i |-> IF j = i THEN Follow(f[i - 1]) ELSE f[j]]
  <2>3. g = [j \in 0..i |-> g[j]] /\ g[0] = l
    BY <2>1, <2>2, <1>3 DEF ChainOf
  <2>4. ASSUME NEW j \in 1..i PROVE g[j] = Follow(g[j - 1])
    <3>1. CASE j = i
      BY <3>1, <2>1
    <3>2. CASE j # i
      <4>1. j \in 1..(i - 1) /\ j \in 0..i /\ j - 1 \in 0..i /\ j - 1 # i
        BY <3>2, <2>1
      <4>2. f[j] = Follow(f[j - 1])
        BY <4>1, <2>2 DEF ChainOf
      <4> QED
        BY <4>1, <4>2, <3>2
    <3> QED
      BY <3>1, <3>2
  <2>5. ChainOf(g, l, i)
    BY <2>3, <2>4 DEF ChainOf
  <2> QED
    BY <1>1, <2>5
<1> QED
  BY <1>2, <1>3

\* MaxLinks is a natural number.
LEMMA MaxLinksNat == MaxLinks \in Nat
<1>1. Cardinality(Thread) \in Nat
  BY CvFinite
<1> QED
  BY <1>1 DEF MaxLinks, KMaxPriorityInheritanceNesting

\* The function in Settle is the chain.
LEMMA SettleChain ==
    ASSUME NEW l
    PROVE  \E f : ChainOf(f, l, MaxLinks) /\ Settle(l) = f[MaxLinks].k
<1> DEFINE M == MaxLinks
           Eq(f) == f = [i \in 0..M |-> IF i = 0 THEN l
                            ELSE CHOOSE x \in {Follow(y) : y \in {f[i - 1]}} : TRUE]
           g == CHOOSE f : Eq(f)
<1>1. M \in Nat /\ M = MaxLinks
  BY MaxLinksNat
<1>2. Settle(l) = g[M].k
  BY DEF Settle
<1> HIDE DEF M
<1>3. PICK f : ChainOf(f, l, M)
  BY <1>1, ChainExists
<1>4. Eq(f)
  <2>1. \A i \in 0..M : f[i] = IF i = 0 THEN l
                            ELSE CHOOSE x \in {Follow(y) : y \in {f[i - 1]}} : TRUE
    <3> SUFFICES ASSUME NEW i \in 0..M, i # 0
                 PROVE f[i] = CHOOSE x \in {Follow(y) : y \in {f[i - 1]}} : TRUE
      BY <1>3 DEF ChainOf
    <3>1. i \in 1..M
      BY <1>1
    <3>2. f[i] = Follow(f[i - 1])
      BY <1>3, <3>1 DEF ChainOf
    <3> QED
      BY <3>2, OneFollow
  <2>2. f = [i \in 0..M |-> f[i]]
    BY <1>3 DEF ChainOf
  <2> QED
    BY <2>1, <2>2
<1>5. Eq(g)
  BY <1>4
<1> HIDE DEF g
<1>6. ChainOf(g, l, M)
  <2>1. g = [i \in 0..M |-> g[i]]
    BY <1>5
  <2>2. g[0] = l
    BY <1>5, <1>1
  <2>3. ASSUME NEW i \in 1..M PROVE g[i] = Follow(g[i - 1])
    <3>1. g[i] = CHOOSE x \in {Follow(y) : y \in {g[i - 1]}} : TRUE
      BY <1>5, <1>1
    <3> QED
      BY <3>1, OneFollow
  <2> QED
    BY <2>1, <2>2, <2>3 DEF ChainOf
<1> QED
  BY <1>1, <1>2, <1>6

\* v is r with priority p for the cleanup item of m.
ClnSet(r, v, m, p) ==
    /\ SameCtl(r, v) /\ SameRun(r, v) /\ SameCnt(r, v) /\ SameWhere(r, v)
    /\ v.pri = r.pri /\ v.fault = r.fault /\ v.clnPri = [r.clnPri EXCEPT ![m] = p]

\* One link, in its two parts.
LEMMA FollowParts ==
    ASSUME NEW l, NEW X, QOK(l.k, X), NEW A, Ground(l.k, A), X \subseteq A, l.m \in Mutex,
           LinkOK(l),
           NEW l2, l2 = Follow(l)
    PROVE  \E v, s : /\ QOK(v, X) /\ QOK(s, X) /\ Ground(v, A) /\ Motion(l.k, v, A)
                     /\ ClnSet(l.k, v, l.m, l.p) /\ Followed(l, l2, v, s, X)
<1>1. PICK v, s : /\ v = SetCln(l.k, l.m, l.p) /\ QOK(v, X) /\ QOK(s, X)
                  /\ Followed(l, l2, v, s, X)
  BY FollowKeeps
<1> DEFINE r == l.k
           m == l.m
           p == l.p
<1>2. QOK(r, X) /\ m \in Mutex /\ p \in Pri \cup {0} /\ v = SetCln(r, m, p) /\ Ground(r, A)
  BY <1>1, SyncAssumption DEF LinkOK, Obj
<1> HIDE DEF r, m, p
<1>3. ClnSet(r, v, m, p)
  BY <1>2, SetClnKeeps DEF ClnSet
<1>4. Motion(r, v, A) /\ Ground(v, A)
  BY <1>2, <1>3, SetClnMotion DEF ClnSet
<1> QED
  BY <1>1, <1>3, <1>4 DEF r, m, p

\* What holds of every link of a chain.
Chained(l, X, A) == QOK(l.k, X) /\ Ground(l.k, A) /\ X \subseteq A /\ LinkOK(l)
Exact(l, X) == NoIdle(l.k, X) /\ LinkHigh(l, X)

\* A mutex's priority on iCleanupQ does not say who waits.
LEMMA ClnNoIdle ==
    ASSUME NEW r, NEW v, NEW m, NEW p, ClnSet(r, v, m, p), NEW X, NoIdle(r, X)
    PROVE  NoIdle(v, X)
<1>1. /\ v.holder = r.holder /\ v.phase = r.phase /\ v.mstate = r.mstate /\ v.waitObj = r.waitObj
      /\ v.susp = r.susp /\ v.pri = r.pri
  BY DEF ClnSet, SameCtl, SameWhere
<1> QED
  BY <1>1 DEF NoIdle, Free, MWaits, Pends

\* SetRequiredPriority leaves no mutex idle that a thread waits for.
LEMMA RequiresNoIdle ==
    ASSUME NEW r, NEW X, QOK(r, X), NEW s, QOK(s, X), NEW A, Ground(r, A), X \subseteq A,
           NoIdle(r, X), NEW t \in Thread, NEW l, NEW n, Requires(r, s, t, X, l, n)
    PROVE  NoIdle(s, X)
<1>1. CASE s = r
  BY <1>1
<1>2. CASE \E p \in Pri : IsReq(r, t, p) /\ Moved(r, s, t, p, X, l, n)
  BY <1>2, MovedNoIdle
<1> QED
  BY <1>1, <1>2 DEF Requires

\* A link keeps the invariant of a chain, and goes down in level or is the last.
LEMMA ChainStep ==
    ASSUME NEW l, NEW X, NEW A, Chained(l, X, A), l.m \in Mutex, NEW l2, l2 = Follow(l)
    PROVE  /\ Chained(l2, X, A) /\ Motion(l.k, l2.k, A)
           /\ Exact(l, X) => Exact(l2, X)
           /\ l2.m = Null \/ Level(l2) < Level(l)
<1>1. PICK v, s : /\ QOK(v, X) /\ QOK(s, X) /\ Ground(v, A) /\ Motion(l.k, v, A)
                  /\ ClnSet(l.k, v, l.m, l.p) /\ Followed(l, l2, v, s, X)
  BY FollowParts DEF Chained
<1>2. X \subseteq A /\ A \subseteq Thread /\ LinkOK(l) /\ l.m # Null /\ QOK(l.k, X)
  BY SyncAssumption DEF Chained, Ground, Obj
<1>3. LinkHigh(l, X) => HighBut(v, X, Null, 0)
  <2>1. l.k.clnPri \in [Mutex -> Pri \cup {0}]
    BY <1>2 DEF QOK, RunT
  <2> QED
    BY <1>1, <2>1, SetClnHigh DEF ClnSet
<1>4. NoIdle(l.k, X) => NoIdle(v, X)
  BY <1>1, ClnNoIdle
<1>5. CASE Ends(l2, s) /\ s = v
  <2>1. l2.k = v /\ l2.m = Null
    BY <1>5 DEF Ends, LinkIs
  <2>2. Chained(l2, X, A) /\ Motion(l.k, l2.k, A)
    BY <1>1, <1>2, <2>1 DEF Chained, LinkOK
  <2>3. Exact(l, X) => Exact(l2, X)
    <3>1. HighBut(v, X, Null, 0) => LinkHigh(l2, X)
      <4>1. Null \notin Mutex
        BY SyncAssumption DEF Obj
      <4> QED
        BY <2>1, <4>1 DEF LinkHigh, HighBut
    <3> QED
      BY <1>3, <1>4, <2>1, <3>1 DEF Exact
  <2> QED
    BY <2>1, <2>2, <2>3
<1>6. CASE v.holder[l.m] \in Thread /\ l.n \in 0..8 /\ Requires(v, s, v.holder[l.m], X, l2, l.n + 1)
  <2> DEFINE t == v.holder[l.m]
             n == l.n + 1
  <2>1. t \in Thread /\ n \in 1..9 /\ n \in 0..9 /\ Requires(v, s, t, X, l2, n)
    BY <1>6
  <2> HIDE DEF t
  <2>2. l.n \in 0..8 /\ n = l.n + 1
    BY <1>6
  <2> HIDE DEF n
  <2>3. NextLink(v, s, t, l2, n)
    BY <1>1, <2>1, RequiresLink
  <2>4. l2.k = s /\ LinkOK(l2)
    BY <2>3 DEF NextLink
  <2>5. Motion(v, s, A)
    BY <1>1, <2>1, RequiresMotion
  <2>6. Ground(s, A) /\ Motion(l.k, s, A)
    BY <1>1, <1>2, <2>5, MotionGround, MotionTrans
  <2>7. Chained(l2, X, A) /\ Motion(l.k, l2.k, A)
    BY <1>1, <1>2, <2>4, <2>6 DEF Chained
  <2>8. Exact(l, X) => Exact(l2, X)
    <3>1. NoIdle(v, X) => NoIdle(s, X)
      BY <1>1, <1>2, <2>1, RequiresNoIdle
    <3>2. HighBut(v, X, Null, 0) => LinkHigh(l2, X)
      BY <1>1, <1>2, <2>1, RequiresHigh
    <3> QED
      BY <1>3, <1>4, <2>4, <3>1, <3>2 DEF Exact
  <2>9. l2.m = Null \/ Level(l2) < Level(l)
    <3> SUFFICES ASSUME l2.m # Null PROVE Level(l2) < Level(l)
      OBVIOUS
    <3>1. CvWaiters(v) \subseteq CvWaiters(l.k) /\ CvWaiters(s) \subseteq CvWaiters(v)
      BY <1>1, <2>5 DEF Motion
    <3> DEFINE a == Cardinality(CvWaiters(l.k))
               b == Cardinality(CvWaiters(s))
               c == Cardinality(CvWaiters(v))
    <3>2. a \in Nat /\ b \in Nat /\ c \in Nat /\ c =< a /\ b =< c
      BY <3>1, CvFinite, CvFewer
    <3>3. l2.n = n \/ (l2.n = 0 /\ b + 1 =< c)
      BY <2>3, <3>1, CvFewer DEF NextLink
    <3>4. Level(l) = 10 * a + (10 - l.n) /\ Level(l2) = 10 * b + (10 - l2.n)
      BY <1>2, <2>4 DEF Level
    <3> HIDE DEF a, b, c
    <3>5. 10 * b + (10 - l2.n) < 10 * a + (10 - l.n)
      BY <2>2, <3>2, <3>3
    <3> QED
      BY <3>4, <3>5
  <2> QED
    BY <2>7, <2>8, <2>9
<1> QED
  BY <1>1, <1>5, <1>6 DEF Followed

\* A motion keeps the ranks of threads that wait for each other.
LEMMA MotionRanked ==
    ASSUME NEW r, NEW s, NEW A, Motion(r, s, A), NEW d
    PROVE  RankedBy(s, d) <=> RankedBy(r, d)
BY DEF Motion, RankedBy

\* d ranks the threads, and the chain is below those in X.
Below(l, d, X) ==
    \/ X = {}
    \/ /\ RankedBy(l.k, d)
       /\ l.m # Null => \A u \in Thread : l.k.holder[l.m] = u => \A x \in X : d[u] < d[x]

\* In chains in the order of the ranks, no link meets a lower one.
LEMMA ChainFault ==
    ASSUME NEW l, NEW X, NEW A, Chained(l, X, A), l.m \in Mutex, NEW l2, l2 = Follow(l),
           NEW d \in [Thread -> Nat], Below(l, d, X)
    PROVE  Below(l2, d, X) /\ l2.k.fault = l.k.fault
<1>1. PICK v, s : /\ QOK(v, X) /\ QOK(s, X) /\ Ground(v, A) /\ Motion(l.k, v, A)
                  /\ ClnSet(l.k, v, l.m, l.p) /\ Followed(l, l2, v, s, X)
  BY FollowParts DEF Chained
<1>2. X \subseteq Thread /\ l.m # Null /\ v.holder = l.k.holder /\ v.fault = l.k.fault
  BY <1>1, SyncAssumption DEF Chained, Ground, Obj, ClnSet, SameCtl
<1>3. X = {} \/ RankedBy(v, d)
  BY <1>1, MotionRanked DEF Below
<1>4. CASE Ends(l2, s) /\ s = v
  BY <1>2, <1>3, <1>4 DEF Ends, LinkIs, Below
<1>5. CASE v.holder[l.m] \in Thread /\ l.n \in 0..8 /\ Requires(v, s, v.holder[l.m], X, l2, l.n + 1)
  <2> DEFINE t == v.holder[l.m]
             n == l.n + 1
  <2>1. t \in Thread /\ n \in 0..9 /\ Requires(v, s, t, X, l2, n)
    BY <1>5
  <2>2. \A x \in X : d[t] < d[x]
    BY <1>2, <2>1 DEF Below
  <2> HIDE DEF t, n
  <2>3. NextLink(v, s, t, l2, n)
    BY <1>1, <2>1, RequiresLink
  <2>4. l2.k = s /\ Motion(v, s, A)
    BY <1>1, <2>1, <2>3, RequiresMotion DEF NextLink
  <2>5. X = {} \/ RankedBy(s, d)
    BY <1>3, <2>4, MotionRanked
  <2>6. t \notin X
    BY <1>2, <2>2
  <2>7. s.fault = v.fault
    BY <2>1, <2>6 DEF Requires, Moved, OnlyOf
  <2>8. ASSUME l2.m # Null, NEW u \in Thread, s.holder[l2.m] = u, NEW x \in X
        PROVE  d[u] < d[x]
    <3>1. d[u] < d[t]
      BY <2>1, <2>3, <2>5, <2>8 DEF NextLink, RankedBy
    <3>2. d[t] < d[x] /\ d[u] \in Nat /\ d[t] \in Nat /\ d[x] \in Nat
      BY <1>2, <2>1, <2>2
    <3> QED
      BY <3>1, <3>2
  <2> QED
    BY <1>2, <2>4, <2>5, <2>7, <2>8 DEF Below
<1> QED
  BY <1>1, <1>4, <1>5 DEF Followed

\* The levels left are enough for the chain.
Nested(l, d) ==
    /\ RankedBy(l.k, d) /\ Owned(l.k) /\ ReqBut(l.k, {})
    /\ l.m # Null => \A u \in Thread : l.k.holder[l.m] = u => d[u] + l.n =< 8

\* Where chains are at most nine links long, each link is nested deeper than the
\* last.
LEMMA ChainReq ==
    ASSUME NEW l, NEW X, NEW A, Chained(l, X, A), l.m \in Mutex, NEW l2, l2 = Follow(l),
           NEW d \in [Thread -> 0..9], Nested(l, d)
    PROVE  Nested(l2, d)
<1>1. PICK v, s : /\ QOK(v, X) /\ QOK(s, X) /\ Ground(v, A) /\ Motion(l.k, v, A)
                  /\ ClnSet(l.k, v, l.m, l.p) /\ Followed(l, l2, v, s, X)
  BY FollowParts DEF Chained
<1> DEFINE r == l.k
           m == l.m
           p == l.p
<1>2. /\ m \in Mutex /\ m # Null /\ SameCtl(r, v) /\ v.pri = r.pri /\ CtlT(r) /\ RunT(r)
      /\ v.clnPri = [r.clnPri EXCEPT ![m] = p] /\ Owned(r) /\ ReqBut(r, {})
  BY <1>1, SyncAssumption DEF Chained, Obj, ClnSet, QOK, Nested
<1>a. v.holder = r.holder /\ v.cleanupQ = r.cleanupQ /\ v.holder \in [Mutex -> Thread \cup {Null}]
  BY <1>2 DEF SameCtl, CtlT
<1>b. RankedBy(v, d)
  BY <1>1, MotionRanked DEF Nested
<1>c. \A u \in Thread : r.holder[m] = u => d[u] + l.n =< 8
  BY <1>2 DEF Nested
<1>d. l.n \in 0..9 /\ (p = r.clnPri[m] \/ v.holder[m] = Null \/ l.n = 9 <=> Cut(l, v))
  BY <1>2 DEF Chained, LinkOK, Cut
<1> HIDE DEF r, m, p
<1>3. /\ \A t \in Thread : r.holder[m] = t => ReqBut(v, {t})
      /\ r.holder[m] \notin Thread \/ p = r.clnPri[m] => ReqBut(v, {})
  BY <1>2, SetClnReq
<1>4. Owned(v)
  BY <1>2, <1>a DEF Owned
<1>5. CASE Ends(l2, s) /\ s = v /\ Cut(l, v)
  <2>1. l2.k = v /\ l2.m = Null
    BY <1>5 DEF Ends, LinkIs
  <2>2. r.holder[m] \notin Thread \/ p = r.clnPri[m]
    <3>1. l.n = 9 => r.holder[m] \notin Thread
      <4> SUFFICES ASSUME l.n = 9, r.holder[m] \in Thread PROVE FALSE
        OBVIOUS
      <4>1. d[r.holder[m]] + 9 =< 8 /\ d[r.holder[m]] \in 0..9
        BY <1>c
      <4> QED
        BY <4>1
    <3>2. Null \notin Thread
      BY SyncAssumption
    <3> QED
      BY <1>5, <1>a, <1>d, <3>1, <3>2
  <2> QED
    BY <1>3, <1>4, <1>b, <2>1, <2>2 DEF Nested
<1>6. CASE v.holder[l.m] \in Thread /\ l.n \in 0..8 /\ Requires(v, s, v.holder[l.m], X, l2, l.n + 1)
  <2> DEFINE t == v.holder[m]
             n == l.n + 1
  <2>1. t \in Thread /\ n \in 0..9 /\ Requires(v, s, t, X, l2, n) /\ l.n \in 0..8
    BY <1>6 DEF m
  <2>2. d[t] + l.n =< 8 /\ r.holder[m] = t
    BY <1>a, <1>c, <2>1
  <2>a. n = l.n + 1
    OBVIOUS
  <2> HIDE DEF t, n
  <2>3. NextLink(v, s, t, l2, n)
    BY <1>1, <2>1, RequiresLink
  <2>4. l2.k = s /\ Motion(v, s, A) /\ LinkOK(l2)
    BY <1>1, <2>1, <2>3, RequiresMotion DEF NextLink
  <2>5. RankedBy(s, d)
    BY <1>b, <2>4, MotionRanked
  <2>6. ReqBut(s, {})
    BY <1>1, <1>3, <2>1, <2>2, RequiresReq
  <2>7. Owned(s)
    BY <1>4, <2>4 DEF Owned, Motion, SameCtl
  <2>8. ASSUME l2.m # Null, NEW u \in Thread, s.holder[l2.m] = u
        PROVE  d[u] + l2.n =< 8
    <3>1. d[u] < d[t]
      BY <2>1, <2>3, <2>5, <2>8 DEF NextLink, RankedBy
    <3>2. d[u] \in 0..9 /\ d[t] \in 0..9
      BY <2>1
    <3>3. l2.n = n \/ l2.n = 0
      BY <2>3, <2>8 DEF NextLink
    <3> QED
      BY <2>1, <2>2, <2>a, <3>1, <3>2, <3>3
  <2> QED
    BY <2>4, <2>5, <2>6, <2>7, <2>8 DEF Nested
<1> QED
  BY <1>1, <1>5, <1>6 DEF Followed

\* The level of a link is bounded.
LEMMA LevelIs ==
    ASSUME NEW l, LinkOK(l), l.m # Null
    PROVE  Level(l) \in 1..MaxLinks /\ MaxLinks \in Nat
<1> DEFINE a == Cardinality(CvWaiters(l.k))
           c == Cardinality(Thread)
<1>1. a \in Nat /\ c \in Nat /\ a =< c
  BY CvFinite
<1>2. l.n \in 0..9 /\ Level(l) = 10 * a + (10 - l.n) /\ MaxLinks = 10 * (c + 1)
  BY DEF LinkOK, Level, MaxLinks, KMaxPriorityInheritanceNesting
<1> HIDE DEF a, c
<1> QED
  BY <1>1, <1>2

\* f[i] is a link of the chain that starts with l.
Reached(f, i, l, X, A) ==
    /\ Chained(f[i], X, A) /\ Motion(l.k, f[i].k, A)
    /\ Exact(l, X) => Exact(f[i], X)
    /\ f[i].m = Null \/ Level(f[i]) + i =< MaxLinks

\* The links reached are chained, by one step.
LEMMA ReachedNext ==
    ASSUME NEW f, NEW i \in Nat, NEW l, NEW X, NEW A, Reached(f, i, l, X, A),
           f[i + 1] = Follow(f[i])
    PROVE  Reached(f, i + 1, l, X, A)
<1> DEFINE x == f[i]
           y == f[i + 1]
<1>1. y = Follow(x) /\ Chained(x, X, A)
  BY DEF Reached
<1>2. CASE x.m = Null
  <2>1. y = x
    BY <1>1, <1>2 DEF Follow
  <2> QED
    BY <1>2, <2>1 DEF Reached
<1>3. CASE x.m # Null
  <2>1. x.m \in Mutex /\ Level(x) + i =< MaxLinks /\ Level(x) \in Int /\ MaxLinks \in Nat
    BY <1>1, <1>3, LevelIs DEF Chained, LinkOK, Reached
  <2>2. Motion(l.k, x.k, A) /\ (Exact(l, X) => Exact(x, X)) /\ A \subseteq Thread
    BY <1>1 DEF Reached, Chained, Ground
  <2> HIDE DEF x, y
  <2>3. /\ Chained(y, X, A) /\ Motion(x.k, y.k, A)
        /\ Exact(x, X) => Exact(y, X)
        /\ y.m = Null \/ Level(y) < Level(x)
    BY <1>1, <2>1, ChainStep
  <2>4. Motion(l.k, y.k, A)
    BY <2>2, <2>3, MotionTrans
  <2>5. y.m = Null \/ Level(y) \in Int
    BY <2>3, LevelIs DEF Chained
  <2>6. y.m = Null \/ Level(y) + (i + 1) =< MaxLinks
    BY <2>1, <2>3, <2>5
  <2> QED
    BY <2>2, <2>3, <2>4, <2>6 DEF Reached, y
<1> QED
  BY <1>2, <1>3

\* The links reached are chained.
LEMMA ReachedAll ==
    ASSUME NEW f, NEW l, NEW X, NEW A, Chained(l, X, A), ChainOf(f, l, MaxLinks)
    PROVE  \A i \in 0..MaxLinks : Reached(f, i, l, X, A)
<1> DEFINE T == {i \in 0..MaxLinks : ~Reached(f, i, l, X, A)}
<1> SUFFICES ASSUME T # {} PROVE FALSE
  OBVIOUS
<1>1. MaxLinks \in Nat
  BY MaxLinksNat
<1>2. PICK i \in T : \A j \in T : i =< j
  <2>1. T \in SUBSET Nat /\ T # {}
    BY <1>1
  <2> HIDE DEF T
  <2> QED
    BY <2>1, LeastNat
<1>3. CASE i = 0
  <2>1. f[0] = l /\ Motion(l.k, l.k, A)
    BY MotionSelf DEF ChainOf, Chained
  <2>2. l.m = Null \/ Level(l) + 0 =< MaxLinks
    BY <1>1, LevelIs DEF Chained
  <2>3. Reached(f, 0, l, X, A)
    BY <2>1, <2>2 DEF Reached
  <2> QED
    BY <1>2, <1>3, <2>3
<1>4. CASE i # 0
  <2> DEFINE j == i - 1
  <2>1. j \in Nat /\ j \in 0..MaxLinks /\ j + 1 = i /\ i \in 1..MaxLinks /\ ~(i =< j)
    BY <1>1, <1>2, <1>4
  <2>2. f[i] = Follow(f[i - 1])
    BY <2>1 DEF ChainOf
  <2>3. f[j + 1] = Follow(f[j])
    BY <2>1, <2>2
  <2> HIDE DEF j
  <2>4. Reached(f, j, l, X, A)
    BY <1>2, <2>1
  <2>5. Reached(f, j + 1, l, X, A)
    BY <2>1, <2>3, <2>4, ReachedNext
  <2> QED
    BY <1>2, <2>1, <2>5
<1> QED
  BY <1>3, <1>4

\* What a chain of priority inheritance keeps.
LEMMA SettleKeeps ==
    ASSUME NEW l, NEW X, NEW A, Chained(l, X, A), NEW s, s = Settle(l)
    PROVE  /\ QOK(s, X) /\ Motion(l.k, s, A) /\ Ground(s, A)
           /\ Exact(l, X) => NoIdle(s, X) /\ HighBut(s, X, Null, 0)
<1>1. PICK f : ChainOf(f, l, MaxLinks) /\ s = f[MaxLinks].k
  BY SettleChain
<1>2. MaxLinks \in 0..MaxLinks /\ MaxLinks \in Nat
  BY MaxLinksNat
<1> DEFINE y == f[MaxLinks]
<1>3. Reached(f, MaxLinks, l, X, A)
  BY <1>1, <1>2, ReachedAll
<1>4. Chained(y, X, A) /\ Motion(l.k, s, A) /\ (Exact(l, X) => Exact(y, X)) /\ s = y.k
  BY <1>1, <1>3 DEF Reached
<1>5. y.m = Null
  <2>1. y.m = Null \/ Level(y) + MaxLinks =< MaxLinks
    BY <1>3 DEF Reached
  <2> HIDE DEF y
  <2>2. y.m = Null \/ Level(y) \in 1..MaxLinks
    BY <1>4, LevelIs DEF Chained
  <2> QED
    BY <1>2, <2>1, <2>2
<1> HIDE DEF y
<1>6. Exact(l, X) => NoIdle(s, X) /\ HighBut(s, X, Null, 0)
  <2>1. Null \notin Mutex
    BY SyncAssumption DEF Obj
  <2> QED
    BY <1>4, <1>5, <2>1 DEF Exact, LinkHigh, HighBut
<1> QED
  BY <1>4, <1>6 DEF Chained

\* A whole chain raises no assertion, if the ranks order it.
LEMMA SettleFault ==
    ASSUME NEW l, NEW X, NEW A, Chained(l, X, A), NEW d \in [Thread -> Nat], Below(l, d, X)
    PROVE  Settle(l).fault = l.k.fault
<1>1. PICK f : ChainOf(f, l, MaxLinks) /\ Settle(l) = f[MaxLinks].k
  BY SettleChain
<1> DEFINE P(i) == Below(f[i], d, X) /\ f[i].k.fault = l.k.fault
           T == {i \in 0..MaxLinks : ~P(i)}
<1>2. MaxLinks \in 0..MaxLinks /\ MaxLinks \in Nat
  BY MaxLinksNat
<1> SUFFICES ASSUME T # {} PROVE FALSE
  BY <1>1, <1>2
<1>3. PICK i \in T : \A j \in T : i =< j
  <2>1. T \in SUBSET Nat /\ T # {}
    BY <1>2
  <2> HIDE DEF T
  <2> QED
    BY <2>1, LeastNat
<1>4. CASE i = 0
  BY <1>1, <1>3, <1>4 DEF ChainOf
<1>5. CASE i # 0
  <2> DEFINE j == i - 1
             x == f[j]
             y == f[i]
  <2>1. j \in 0..MaxLinks /\ i \in 1..MaxLinks /\ ~(i =< j)
    BY <1>2, <1>3, <1>5
  <2>2. y = Follow(x)
    BY <1>1, <2>1 DEF ChainOf
  <2>3. Reached(f, j, l, X, A)
    BY <1>1, <2>1, ReachedAll
  <2>4. Chained(x, X, A) /\ P(j)
    BY <1>3, <2>1, <2>3 DEF Reached
  <2>5. Below(x, d, X) /\ x.k.fault = l.k.fault
    BY <2>4
  <2> HIDE DEF x, y
  <2>6. Below(y, d, X) /\ y.k.fault = l.k.fault
    <3>1. CASE x.m = Null
      BY <2>2, <2>5, <3>1 DEF Follow
    <3>2. CASE x.m # Null
      <4>1. x.m \in Mutex /\ Chained(x, X, A)
        BY <2>4, <3>2 DEF Chained, LinkOK
      <4>2. Below(y, d, X) /\ y.k.fault = x.k.fault
        BY <2>2, <2>5, <4>1, ChainFault
      <4> QED
        BY <2>5, <4>2
    <3> QED
      BY <3>1, <3>2
  <2> QED
    BY <1>3, <2>6 DEF y
<1> QED
  BY <1>4, <1>5

\* A whole chain leaves no priority stale, if it is short enough.
LEMMA SettleReq ==
    ASSUME NEW l, NEW X, NEW A, Chained(l, X, A), NEW d \in [Thread -> 0..9], Nested(l, d)
    PROVE  ReqBut(Settle(l), {})
<1>1. PICK f : ChainOf(f, l, MaxLinks) /\ Settle(l) = f[MaxLinks].k
  BY SettleChain
<1> DEFINE P(i) == Nested(f[i], d)
           T == {i \in 0..MaxLinks : ~P(i)}
<1>2. MaxLinks \in 0..MaxLinks /\ MaxLinks \in Nat
  BY MaxLinksNat
<1> SUFFICES ASSUME T # {} PROVE FALSE
  BY <1>1, <1>2 DEF Nested
<1>3. PICK i \in T : \A j \in T : i =< j
  <2>1. T \in SUBSET Nat /\ T # {}
    BY <1>2
  <2> HIDE DEF T
  <2> QED
    BY <2>1, LeastNat
<1>4. CASE i = 0
  BY <1>1, <1>3, <1>4 DEF ChainOf
<1>5. CASE i # 0
  <2> DEFINE j == i - 1
             x == f[j]
             y == f[i]
  <2>1. j \in 0..MaxLinks /\ i \in 1..MaxLinks /\ ~(i =< j)
    BY <1>2, <1>3, <1>5
  <2>2. y = Follow(x)
    BY <1>1, <2>1 DEF ChainOf
  <2>3. Reached(f, j, l, X, A)
    BY <1>1, <2>1, ReachedAll
  <2>4. Chained(x, X, A) /\ P(j)
    BY <1>3, <2>1, <2>3 DEF Reached
  <2>5. Nested(x, d)
    BY <2>4
  <2> HIDE DEF x, y
  <2>6. Nested(y, d)
    <3>1. CASE x.m = Null
      BY <2>2, <2>5, <3>1 DEF Follow
    <3>2. CASE x.m # Null
      BY <2>2, <2>4, <2>5, <3>2, ChainReq DEF Chained, LinkOK
    <3> QED
      BY <3>1, <3>2
  <2> QED
    BY <1>3, <2>6 DEF y
<1> QED
  BY <1>4, <1>5

\* A chain that ends at once, or with its first link.
LEMMA SettleEnds ==
    ASSUME NEW l, NEW s, Ends(l, s) \/ Ends(Follow(l), s)
    PROVE  Settle(l) = s
<1>1. PICK f : ChainOf(f, l, MaxLinks) /\ Settle(l) = f[MaxLinks].k
  BY SettleChain
<1>2. MaxLinks \in Nat /\ MaxLinks >= 1 /\ 1 \in 1..MaxLinks /\ MaxLinks \in 1..MaxLinks
  <2> DEFINE c == Cardinality(Thread)
  <2>1. c \in Nat /\ MaxLinks = 10 * (c + 1)
    BY CvFinite DEF MaxLinks, KMaxPriorityInheritanceNesting
  <2> HIDE DEF c
  <2> QED
    BY <2>1
<1>3. Ends(f[1], s)
  <2>1. f[1] = Follow(l)
    <3>1. f[1] = Follow(f[1 - 1])
      BY <1>1, <1>2 DEF ChainOf
    <3>2. f[0] = l /\ 1 - 1 = 0
      BY <1>1 DEF ChainOf
    <3> QED
      BY <3>1, <3>2
  <2>2. CASE Ends(l, s)
    BY <2>1, <2>2 DEF Follow, Ends, LinkIs
  <2> QED
    BY <2>1, <2>2
<1> DEFINE T == {i \in 1..MaxLinks : ~Ends(f[i], s)}
<1> SUFFICES ASSUME T # {} PROVE FALSE
  BY <1>1, <1>2 DEF Ends, LinkIs
<1>4. PICK i \in T : \A j \in T : i =< j
  <2>1. T \in SUBSET Nat /\ T # {}
    BY <1>2
  <2> HIDE DEF T
  <2> QED
    BY <2>1, LeastNat
<1>5. i # 1
  BY <1>3, <1>4
<1> DEFINE j == i - 1
<1>6. j \in 1..MaxLinks /\ i \in 1..MaxLinks /\ ~(i =< j)
  BY <1>2, <1>4, <1>5
<1>7. f[i] = Follow(f[j])
  BY <1>1, <1>6 DEF ChainOf
<1>8. Ends(f[j], s)
  BY <1>4, <1>6
<1>9. Ends(f[i], s)
  BY <1>7, <1>8 DEF Follow, Ends, LinkIs
<1> QED
  BY <1>4, <1>9

HoldOK(r) ==
    /\ \A m \in Mutex, t \in Thread : r.holder[m] = t <=> m \in r.cleanupQ[t]
    /\ \A m \in Mutex : r.holder[m] # Null => r.phase[m] # "deleted" /\ r.holdCount[m] >= 1
OneResets(r) ==
    \A t, u \in Thread : r.pc[t] = "Reset" /\ r.pc[u] = "Reset" /\ r.obj[t] = r.obj[u] => t = u

\* The invariant, as far as it is not about what the threads in T are doing.
World(r, T) ==
    /\ QOK(r, {}) /\ (\A u \in Thread \ T : ThreadOK(r, u)) /\ HoldOK(r) /\ OneResets(r)
    /\ NoIdle(r, {}) /\ HighBut(r, {}, Null, 0)

\* What NoIdle and HighBut say of the mutexes other than m0.
Offered(r, m, w) == \E q \in Thread : Pends(r, q, m) /\ ~(r.susp[q] > 0) /\ r.pri[q] >= r.pri[w]
IdleOff(r, m0) ==
    \A m \in Mutex, w \in Thread : m # m0 /\ Free(r, m) /\ MWaits(r, w, m) => Offered(r, m, w)
HighOff(r, m0) ==
    \A m \in Mutex : m # m0 /\ Held(r, m) => High(r, {}, m, r.clnPri[m])

\* No mutex is idle that a thread waits for: all of them.
LEMMA IdleAll ==
    ASSUME NEW r
    PROVE  NoIdle(r, {}) <=> IdleOff(r, Null)
<1>1. Null \notin Mutex /\ Thread \ {} = Thread
  BY SyncAssumption DEF Obj
<1> QED
  BY <1>1 DEF NoIdle, IdleOff, Offered

\* The same, if it holds of one mutex and of all others.
LEMMA IdleBack ==
    ASSUME NEW r, NEW m \in Mutex, IdleOff(r, m),
           \A w \in Thread : Free(r, m) /\ MWaits(r, w, m) => Offered(r, m, w)
    PROVE  NoIdle(r, {})
BY IdleAll DEF IdleOff

\* The priorities of held mutexes are those of their waiting threads: all of them.
LEMMA HighAll ==
    ASSUME NEW r
    PROVE  HighBut(r, {}, Null, 0) <=> HighOff(r, Null)
<1>1. Null \notin Mutex
  BY SyncAssumption DEF Obj
<1> QED
  BY <1>1 DEF HighBut, HighOff

\* The same, if it holds of one mutex and of all others.
LEMMA HighBack ==
    ASSUME NEW r, NEW m \in Mutex, HighOff(r, m), NEW p, Held(r, m) => High(r, {}, m, p)
    PROVE  HighBut(r, {}, m, p)
BY DEF HighBut, HighOff

\* What holds of all mutexes holds of all but one.
LEMMA OffMore ==
    ASSUME NEW r, NEW m
    PROVE  (NoIdle(r, {}) => IdleOff(r, m)) /\ (HighBut(r, {}, Null, 0) => HighOff(r, m))
<1>1. IdleOff(r, Null) => IdleOff(r, m)
  BY SyncAssumption DEF IdleOff, Obj
<1>2. HighOff(r, Null) => HighOff(r, m)
  BY SyncAssumption DEF HighOff, Obj
<1> QED
  BY <1>1, <1>2, IdleAll, HighAll

\* Only thread t and mutex m0 change.
LEMMA IdleFrame ==
    ASSUME NEW r, NEW s, NEW t \in Thread, NEW m0, IdleOff(r, m0),
           \A m \in Mutex : Free(s, m) => Free(r, m) \/ m = m0,
           But(r.mstate, s.mstate, t), But(r.waitObj, s.waitObj, t), But(r.pri, s.pri, t),
           \A q \in Thread : q # t => (s.susp[q] > 0 => r.susp[q] > 0),
           \A m \in Mutex : Pends(r, t, m) \/ MWaits(s, t, m) => m = m0 \/ ~Free(s, m)
    PROVE  IdleOff(s, m0)
<1> SUFFICES ASSUME NEW m \in Mutex, NEW w \in Thread, m # m0, Free(s, m), MWaits(s, w, m)
             PROVE  Offered(s, m, w)
  BY DEF IdleOff
<1>1. w # t /\ Free(r, m) /\ ~Pends(r, t, m)
  OBVIOUS
<1>2. MWaits(r, w, m)
  BY <1>1 DEF MWaits, But
<1>3. PICK q \in Thread : Pends(r, q, m) /\ ~(r.susp[q] > 0) /\ r.pri[q] >= r.pri[w]
  BY <1>1, <1>2 DEF IdleOff, Offered
<1>4. q # t
  BY <1>1, <1>3
<1>5. Pends(s, q, m) /\ s.pri[q] = r.pri[q] /\ s.pri[w] = r.pri[w] /\ ~(s.susp[q] > 0)
  BY <1>1, <1>3, <1>4 DEF Pends, But
<1> QED
  BY <1>3, <1>5 DEF Offered

\* The mutexes that a step of one thread leaves alone keep their priorities.
LEMMA HighFrame ==
    ASSUME NEW r, NEW s, NEW t \in Thread, NEW m0, HighOff(r, m0),
           \A m \in Mutex : Held(s, m) => Held(r, m) \/ m = m0,
           \A m \in Mutex : m # m0 => s.clnPri[m] = r.clnPri[m],
           But(r.mstate, s.mstate, t), But(r.waitObj, s.waitObj, t), But(r.pri, s.pri, t),
           \A m \in Mutex : MWaits(r, t, m) \/ MWaits(s, t, m) => m = m0 \/ ~Held(s, m)
    PROVE  HighOff(s, m0)
<1> SUFFICES ASSUME NEW m \in Mutex, m # m0, Held(s, m)
             PROVE  High(s, {}, m, s.clnPri[m])
  BY DEF HighOff
<1>1. High(r, {}, m, s.clnPri[m]) /\ ~MWaits(r, t, m) /\ ~MWaits(s, t, m)
  BY DEF HighOff
<1>2. SameWaiters(r, s, m)
  <2> SUFFICES ASSUME NEW w \in Thread
               PROVE  (MWaits(s, w, m) <=> MWaits(r, w, m)) /\ (MWaits(r, w, m) => s.pri[w] = r.pri[w])
    BY DEF SameWaiters
  <2>1. CASE w = t
    BY <1>1, <2>1
  <2>2. CASE w # t
    BY <2>2 DEF MWaits, But
  <2> QED
    BY <2>1, <2>2
<1> QED
  BY <1>1, <1>2, WaitersHigh
-----------------------------------------------------------------------------
\* A thread's own control changes, and nothing else.
SameK(r, s) ==
    /\ SameWhere(r, s) /\ SameQ(r, s) /\ SameCnt(r, s)
    /\ s.pri = r.pri /\ s.defPri = r.defPri /\ s.cleanupQ = r.cleanupQ /\ s.phase = r.phase
    /\ s.holder = r.holder /\ s.clnPri = r.clnPri /\ s.holdCount = r.holdCount
SameOwn(r, s, u) ==
    /\ s.pc[u] = r.pc[u] /\ s.obj[u] = r.obj[u] /\ s.cond[u] = r.cond[u] /\ s.cs[u] = r.cs[u]
    /\ s.susp[u] = r.susp[u] /\ s.csFunction[u] = r.csFunction[u]
    /\ s.blocked[u] = r.blocked[u] /\ s.timed[u] = r.timed[u] /\ s.ret[u] = r.ret[u]
OwnStep(r, s, t) ==
    /\ Rec(s) /\ CtlT(s) /\ RunT(s) /\ SameK(r, s)
    /\ \A u \in Thread : u # t => SameOwn(r, s, u)
\* An offer to t stands.
OfferKept(r, s, t) == s.susp[t] > 0 => r.susp[t] > 0 \/ r.mstate[t] # "EHoldMutexPending"
ResetKept(r, s, t) == s.pc[t] = "Reset" => r.pc[t] = "Reset" /\ s.obj[t] = r.obj[t]

\* A step on a thread's own fields leaves the other threads as they are.
LEMMA OwnAgrees ==
    ASSUME NEW r, NEW s, NEW t, OwnStep(r, s, t), NEW u \in Thread, u # t, ThreadOK(r, u)
    PROVE  ThreadOK(s, u)
<1>1. SameOwn(r, s, u) /\ SameK(r, s)
  BY DEF OwnStep
<1>2. Agree(r, s, u)
  BY <1>1 DEF SameOwn, SameK, SameWhere, SameCnt, Agree, SamePlace, SameWait, SameCv
<1> QED
  BY <1>2, ThreadAgrees

\* A step on a thread's own fields leaves the queues alone.
LEMMA OwnQOK ==
    ASSUME NEW r, NEW X, QOK(r, X), NEW s, NEW t, OwnStep(r, s, t)
    PROVE  QOK(s, X)
<1>1. SameK(r, s) /\ Rec(s) /\ CtlT(s) /\ RunT(s)
  BY DEF OwnStep
<1>2. CntT(s) /\ RQ(s, X)
  BY <1>1 DEF SameK, SameCnt, SameWhere, SameQ, QOK, CntT, RQ
<1>3. ASSUME NEW o \in Obj PROVE CountAt(s, o, 0)
  <2>1. SameAt(r, s, o) /\ CountAt(r, o, 0)
    BY <1>1 DEF SameK, SameCnt, SameQ, SameAt, QOK
  <2> QED
    BY <2>1, SameCounts
<1> QED
  BY <1>1, <1>2, <1>3 DEF QOK

\* A step on a thread's own fields keeps the invariant of the others.
LEMMA OwnWorld ==
    ASSUME NEW r, NEW t \in Thread, World(r, {t}), NEW s, OwnStep(r, s, t),
           OfferKept(r, s, t), ResetKept(r, s, t)
    PROVE  World(s, {t})
<1>1. SameK(r, s)
  BY DEF OwnStep
<1>2. QOK(s, {})
  BY OwnQOK DEF World
<1>3. \A u \in Thread \ {t} : ThreadOK(s, u)
  BY OwnAgrees DEF World
<1>4. HoldOK(s)
  BY <1>1 DEF World, HoldOK, SameK
<1>5. OneResets(s)
  BY DEF OwnStep, SameOwn, World, OneResets, ResetKept
<1>6. /\ s.mstate = r.mstate /\ s.waitObj = r.waitObj /\ s.pri = r.pri /\ s.holder = r.holder
      /\ s.phase = r.phase /\ s.clnPri = r.clnPri
  BY <1>1 DEF SameK, SameWhere
<1>7. NoIdle(s, {})
  <2>1. \A q \in Thread, m \in Mutex : Pends(r, q, m) => (s.susp[q] > 0 => r.susp[q] > 0)
    BY DEF OwnStep, SameOwn, OfferKept, Pends
  <2> QED
    BY <1>6, <2>1 DEF World, NoIdle, Free, MWaits, Pends
<1>8. HighBut(s, {}, Null, 0)
  BY <1>6 DEF World, HighBut, Held, High, MWaits
<1> QED
  BY <1>2, <1>3, <1>4, <1>5, <1>7, <1>8 DEF World

\* The invariant holds of all threads if it holds of the one that takes the step.
LEMMA WorldAll ==
    ASSUME NEW r, NEW t, World(r, {t}), ThreadOK(r, t)
    PROVE  World(r, {})
BY DEF World

\* It may be given up for a thread.
LEMMA WorldLess ==
    ASSUME NEW r, NEW T, World(r, {})
    PROVE  World(r, T)
BY DEF World

\* What a step does to the assertions and to the priorities threads have.
Steady(r, s) ==
    /\ Ranked(r, Cardinality(Thread)) => (s.fault => r.fault)
    /\ Ranked(r, 9) /\ Ranked(s, 9) /\ ReqBut(r, {}) => ReqBut(s, {})

\* A step on own fields leaves the edges and the priorities as they are.
LEMMA OwnEdges ==
    ASSUME NEW r, NEW s, SameK(r, s)
    PROVE  /\ \A D : Ranked(s, D) <=> Ranked(r, D)
           /\ ReqBut(s, {}) <=> ReqBut(r, {})
<1>1. /\ s.mstate = r.mstate /\ s.waitObj = r.waitObj /\ s.holder = r.holder
      /\ s.cvMutex = r.cvMutex
      /\ s.pri = r.pri /\ s.defPri = r.defPri /\ s.cleanupQ = r.cleanupQ /\ s.clnPri = r.clnPri
  BY DEF SameK, SameWhere, SameCnt
<1>2. \A t, u : WaitsFor(s, t, u) <=> WaitsFor(r, t, u)
  BY <1>1 DEF WaitsFor
<1>3. \A d : RankedBy(s, d) <=> RankedBy(r, d)
  BY <1>2 DEF RankedBy
<1> QED
  BY <1>1, <1>3 DEF Ranked, ReqBut, IsReq

\* Steps on own fields around a steady one.
LEMMA SteadyOwn ==
    ASSUME NEW r, NEW a, NEW b, NEW s, SameK(r, a), a.fault = r.fault, Steady(a, b),
           SameK(b, s), s.fault = b.fault
    PROVE  Steady(r, s)
<1>1. /\ Ranked(a, Cardinality(Thread)) <=> Ranked(r, Cardinality(Thread))
      /\ Ranked(a, 9) <=> Ranked(r, 9)
      /\ Ranked(s, 9) <=> Ranked(b, 9)
      /\ ReqBut(a, {}) <=> ReqBut(r, {})
      /\ ReqBut(s, {}) <=> ReqBut(b, {})
  BY OwnEdges
<1> QED
  BY <1>1 DEF Steady

SameReq(r, s) ==
    /\ s.pri = r.pri /\ s.defPri = r.defPri /\ s.cleanupQ = r.cleanupQ /\ s.clnPri = r.clnPri
    /\ s.fault = r.fault

\* A step that changes no edge is steady.
LEMMA SteadySame ==
    ASSUME NEW r, NEW s, SameReq(r, s)
    PROVE  Steady(r, s)
BY DEF SameReq, Steady, ReqBut, IsReq

\* No step changes nothing.
LEMMA SameSelf ==
    ASSUME NEW r
    PROVE  SameK(r, r)
BY DEF SameK, SameWhere, SameQ, SameCnt

\* The queues are as they were.
QSame(r, s) == SameWhere(r, s) /\ SameQ(r, s) /\ SameCnt(r, s) /\ s.pri = r.pri /\ s.phase = r.phase

\* The invariant of the queues is one of the queues' fields.
LEMMA QSameQOK ==
    ASSUME NEW r, NEW X, QOK(r, X), NEW s, QSame(r, s), Rec(s), CtlT(s), RunT(s)
    PROVE  QOK(s, X)
<1>2. CntT(s) /\ RQ(s, X)
  BY DEF QSame, SameCnt, SameWhere, SameQ, QOK, CntT, RQ
<1>3. ASSUME NEW o \in Obj PROVE CountAt(s, o, 0)
  <2>1. SameAt(r, s, o) /\ CountAt(r, o, 0)
    BY DEF QSame, SameCnt, SameQ, SameAt, QOK
  <2> QED
    BY <2>1, SameCounts
<1> QED
  BY <1>2, <1>3 DEF QOK

\* The invariant with a hole at mutex m.
WorldOff(r, T, m) ==
    /\ QOK(r, {}) /\ (\A u \in Thread \ T : ThreadOK(r, u)) /\ HoldOK(r) /\ OneResets(r)
    /\ IdleOff(r, m) /\ HighOff(r, m)

\* What holds of all mutexes holds of all but one.
LEMMA WorldHole ==
    ASSUME NEW r, NEW T, World(r, T), NEW m
    PROVE  WorldOff(r, T, m)
BY OffMore DEF World, WorldOff

\* What a thread has of its own is as it was.
SameOwnAll(r, s) ==
    /\ s.pc = r.pc /\ s.obj = r.obj /\ s.cond = r.cond /\ s.cs = r.cs /\ s.susp = r.susp
    /\ s.csFunction = r.csFunction /\ s.todo = r.todo

\* A whole chain re-establishes the invariant.
LEMMA SettleWorld ==
    ASSUME NEW l, NEW A, Chained(l, {}, A), Exact(l, {}), HoldOK(l.k), OneResets(l.k),
           NEW v, v = Settle(l)
    PROVE  /\ World(v, A) /\ Motion(l.k, v, A) /\ v.fault = l.k.fault
           /\ \A d \in [Thread -> 0..9] : Nested(l, d) => ReqBut(v, {})
<1>1. QOK(v, {}) /\ Motion(l.k, v, A) /\ NoIdle(v, {}) /\ HighBut(v, {}, Null, 0)
  BY SettleKeeps
<1>2. v.fault = l.k.fault
  <2> DEFINE d == [t \in Thread |-> 0]
  <2>1. d \in [Thread -> Nat] /\ Below(l, d, {})
    BY DEF Below
  <2> HIDE DEF d
  <2> QED
    BY <2>1, SettleFault
<1>3. HoldOK(v) /\ OneResets(v)
  BY <1>1 DEF Motion, SameCtl, HoldOK, OneResets
<1>4. \A u \in Thread \ A : ThreadOK(v, u)
  BY <1>1 DEF Motion
<1>5. \A d \in [Thread -> 0..9] : Nested(l, d) => ReqBut(v, {})
  BY SettleReq
<1> QED
  BY <1>1, <1>2, <1>3, <1>4, <1>5 DEF World

\* t starts to wait for m, which is held.
Queued(r, s, t, m) ==
    /\ s.mstate[t] = "EWaitMutex" /\ s.waitObj[t] = m
    /\ s.blocked[t] = r.blocked[t] /\ s.timed[t] = r.timed[t] /\ s.ret[t] = r.ret[t]

\* A thread that waits for no mutex yet, or was pending for m only.
NewWaiter(r, t, m) ==
    r.mstate[t] # "EWaitMutex" /\ \A x \in Mutex : Pends(r, t, x) => x = m

\* The first link of the chain that a new waiter of m starts.
LEMMA FirstLink ==
    ASSUME NEW r, NEW t \in Thread, NEW m \in Mutex, QOK(r, {t}),
           \A u \in Thread \ {t} : ThreadOK(r, u),
           IdleOff(r, m), HighBut(r, {}, Null, 0), Held(r, m), NewWaiter(r, t, m),
           NEW l, l = WaitForMutex(r, t, m, 0)
    PROVE  /\ Chained(l, {}, {t}) /\ Exact(l, {}) /\ SameRest(r, l.k) /\ l.k.count = r.count
           /\ l.k.pri = r.pri /\ l.k.cvMutex = r.cvMutex /\ Lands(r, l.k, t, "EWaitMutex", m)
           /\ l.m = Null \/ (l.m = m /\ l.n = 0)
<1>0. r.phase[m] # "deleted" /\ r.holder[m] # Null /\ {} \cup {t} = {t}
  BY DEF Held
<1>1. PICK s : /\ QOK(s, {}) /\ SameRest(r, s) /\ s.count = r.count /\ s.cvMutex = r.cvMutex
               /\ s.pri = r.pri /\ Lands(r, s, t, "EWaitMutex", m)
               /\ \/ Ends(l, s) /\ r.pri[t] =< r.clnPri[m]
                  \/ r.pri[t] > r.clnPri[m] /\ LinkIs(l, s, m, r.pri[t], 0)
  <2>1. QOK(r, {} \cup {t}) /\ t \notin {}
    BY <1>0
  <2> QED
    BY <1>0, <2>1, WaitForMutexKeeps
<1>2. /\ r.pri \in [Thread -> Pri] /\ r.clnPri \in [Mutex -> Pri \cup {0}] /\ Pri \subseteq Int
      /\ r.pri \in [Thread -> Int] /\ SameCtl(r, s) /\ SameRun(r, s) /\ s.clnPri = r.clnPri
  BY <1>1, QTypes2, PriNat DEF QOK, RunT, SameRest
<1>a. r.pri[t] \in Pri /\ r.pri[t] \in Int /\ r.clnPri[m] \in Int /\ m # Null
  <2>1. r.clnPri[m] \in Pri \cup {0}
    BY <1>2
  <2>2. Pri \cup {0} \subseteq Int
    BY <1>2
  <2>3. m # Null
    BY SyncAssumption DEF Obj
  <2>4. r.pri[t] \in Pri
    BY <1>2
  <2>5. r.pri[t] \in Int
    BY <1>2, <2>4
  <2> QED
    BY <2>1, <2>2, <2>3, <2>4, <2>5
<1>3. l.k = s /\ LinkOK(l) /\ (l.m = Null \/ (l.m = m /\ l.n = 0))
  BY <1>1, <1>a DEF Ends, LinkIs, LinkOK
<1>4. s.holder = r.holder /\ s.phase = r.phase /\ s.susp = r.susp
  BY <1>2 DEF SameCtl
<1>5. /\ s.mstate[t] = "EWaitMutex" /\ s.waitObj[t] = m /\ But(r.mstate, s.mstate, t)
      /\ But(r.waitObj, s.waitObj, t)
  BY <1>1 DEF Lands
<1>6. Ground(s, {t})
  <2>1. Fixed(s, t)
    BY <1>0, <1>4, <1>5 DEF Fixed
  <2>2. ASSUME NEW u \in Thread \ {t} PROVE ThreadOK(s, u)
    <3>1. Agree(r, s, u)
      BY <1>1, <1>2, <1>5 DEF Agree, SamePlace, SameWait, SameCv, SameCtl, SameRun, But
    <3> QED
      BY <3>1, ThreadAgrees
  <2> QED
    BY <2>1, <2>2 DEF Ground
<1>7. Chained(l, {}, {t})
  BY <1>1, <1>3, <1>6 DEF Chained
<1>b. But(r.pri, s.pri, t) /\ \A x : (Free(s, x) <=> Free(r, x)) /\ (Held(s, x) <=> Held(r, x))
  BY <1>1, <1>4 DEF But, Free, Held
<1>8. NoIdle(s, {})
  <2>1. \A x \in Mutex : Pends(r, t, x) \/ MWaits(s, t, x) => x = m \/ ~Free(s, x)
    BY <1>5 DEF NewWaiter, MWaits
  <2>2. IdleOff(s, m)
    BY <1>4, <1>5, <1>b, <2>1, IdleFrame
  <2>3. ~Free(s, m)
    BY <1>0, <1>4 DEF Free
  <2> QED
    BY <2>2, <2>3, IdleBack
<1>9. LinkHigh(l, {})
  <2>1. \A x \in Mutex : MWaits(r, t, x) \/ MWaits(s, t, x) => x = m \/ ~Held(s, x)
    BY <1>5 DEF NewWaiter, MWaits
  <2>2. HighOff(r, m)
    BY OffMore
  <2>3. HighOff(s, m)
    BY <1>2, <1>5, <1>b, <2>1, <2>2, HighFrame
  <2>4. High(r, {}, m, r.clnPri[m])
    <3>1. m # Null /\ Held(r, m)
      BY <1>a
    <3> QED
      BY <3>1 DEF HighBut
  <2>5. /\ \A w \in Thread : MWaits(r, w, m) => r.clnPri[m] >= r.pri[w]
        /\ r.clnPri[m] = 0 \/ \E w \in Thread : MWaits(r, w, m) /\ r.clnPri[m] = r.pri[w]
    BY <2>4 DEF High
  <2>6. \A w \in Thread : MWaits(s, w, m) <=> MWaits(r, w, m) \/ w = t
    BY <1>5 DEF MWaits, But
  <2>7. \A w \in Thread : r.pri[w] \in Int
    BY <1>2
  <2>8. CASE Ends(l, s) /\ r.pri[t] =< r.clnPri[m]
    <3>1. \A w \in Thread : MWaits(s, w, m) => r.clnPri[m] >= r.pri[w]
      BY <1>a, <2>5, <2>6, <2>8
    <3>2. r.clnPri[m] = 0 \/ \E w \in Thread : MWaits(s, w, m) /\ r.clnPri[m] = r.pri[w]
      BY <2>5, <2>6
    <3>3. High(s, {}, m, s.clnPri[m])
      BY <1>1, <1>2, <3>1, <3>2 DEF High
    <3>4. HighOff(s, Null)
      BY <2>3, <3>3 DEF HighOff
    <3>5. l.m = Null /\ l.k = s /\ l.p = 0
      BY <2>8 DEF Ends, LinkIs
    <3> QED
      BY <3>4, <3>5, HighAll DEF LinkHigh
  <2>9. CASE r.pri[t] > r.clnPri[m] /\ LinkIs(l, s, m, r.pri[t], 0)
    <3>1. \A w \in Thread : MWaits(s, w, m) => r.pri[t] >= r.pri[w]
      <4> SUFFICES ASSUME NEW w \in Thread, MWaits(r, w, m) PROVE r.pri[t] >= r.pri[w]
        BY <1>a, <2>6
      <4>1. r.clnPri[m] >= r.pri[w] /\ r.pri[w] \in Int
        BY <2>5, <2>7
      <4> QED
        BY <1>a, <2>9, <4>1
    <3>2. MWaits(s, t, m)
      BY <2>6
    <3>3. High(s, {}, m, r.pri[t])
      BY <1>1, <3>1, <3>2 DEF High
    <3>4. HighBut(s, {}, m, r.pri[t])
      BY <2>3, <3>3, HighBack
    <3> QED
      BY <2>9, <3>4 DEF LinkHigh, LinkIs
  <2> QED
    BY <1>1, <2>8, <2>9
<1> QED
  BY <1>1, <1>3, <1>7, <1>8, <1>9 DEF Exact

\* DMutex::WaitFor: a thread goes to the wait queue of a mutex that another holds.
LEMMA QueueUp ==
    ASSUME NEW r, NEW t \in Thread, NEW m \in Mutex, QOK(r, {t}),
           \A u \in Thread \ {t} : ThreadOK(r, u), HoldOK(r), OneResets(r),
           IdleOff(r, m), HighBut(r, {}, Null, 0), Held(r, m), NewWaiter(r, t, m),
           NEW v, v = Settle(WaitForMutex(r, t, m, 0))
    PROVE  /\ World(v, {t}) /\ SameCtl(r, v) /\ v.count = r.count /\ v.fault = r.fault
           /\ Queued(r, v, t, m)
           /\ Ranked(v, 9) /\ ReqBut(r, {}) => ReqBut(v, {})
<1> DEFINE l == WaitForMutex(r, t, m, 0)
<1>1. l = WaitForMutex(r, t, m, 0) /\ v = Settle(l)
  OBVIOUS
<1> HIDE DEF l
<1>2. /\ Chained(l, {}, {t}) /\ Exact(l, {}) /\ SameRest(r, l.k) /\ l.k.count = r.count
      /\ l.k.pri = r.pri /\ Lands(r, l.k, t, "EWaitMutex", m)
      /\ l.m = Null \/ (l.m = m /\ l.n = 0)
  BY <1>1, FirstLink
<1> DEFINE s == l.k
<1>3. /\ SameCtl(r, s) /\ SameRun(r, s) /\ s.fault = r.fault /\ s.clnPri = r.clnPri
      /\ s.mstate[t] = "EWaitMutex" /\ s.waitObj[t] = m
  BY <1>2 DEF SameRest, Lands
<1>4. HoldOK(s) /\ OneResets(s)
  BY <1>3 DEF SameCtl, HoldOK, OneResets
<1>5. /\ World(v, {t}) /\ Motion(s, v, {t}) /\ v.fault = s.fault
      /\ \A d \in [Thread -> 0..9] : Nested(l, d) => ReqBut(v, {})
  BY <1>1, <1>2, <1>4, SettleWorld
<1>6. SameCtl(r, v) /\ v.count = r.count /\ v.fault = r.fault
  BY <1>2, <1>3, <1>5 DEF Motion, SameCtl
<1>7. Queued(r, v, t, m)
  <2>1. SameWait(s, v, t)
    BY <1>5 DEF Motion
  <2> QED
    BY <1>3, <2>1 DEF Queued, SameWait, SameRun
<1>8. ASSUME Ranked(v, 9), ReqBut(r, {}) PROVE ReqBut(v, {})
  <2>1. PICK d \in [Thread -> 0..9] : RankedBy(v, d)
    BY <1>8 DEF Ranked
  <2>2. RankedBy(s, d)
    BY <1>5, <2>1, MotionRanked
  <2>3. Owned(s)
    BY <1>4 DEF HoldOK, Owned
  <2>4. s.pri = r.pri /\ s.defPri = r.defPri /\ s.cleanupQ = r.cleanupQ
    BY <1>2, <1>3 DEF SameCtl
  <2>5. ReqBut(s, {})
    BY <1>3, <1>8, <2>4 DEF ReqBut, IsReq
  <2>6. ASSUME l.m # Null, NEW u \in Thread, s.holder[l.m] = u
        PROVE  d[u] + l.n =< 8
    <3>1. l.m = m /\ l.n = 0
      BY <1>2, <2>6
    <3>2. WaitsFor(s, t, u)
      BY <1>3, <2>6, <3>1 DEF WaitsFor
    <3>3. d[u] < d[t] /\ d[u] \in 0..9 /\ d[t] \in 0..9
      BY <2>2, <3>2 DEF RankedBy
    <3> QED
      BY <3>1, <3>3
  <2>7. Nested(l, d)
    BY <2>2, <2>3, <2>5, <2>6 DEF Nested
  <2> QED
    BY <1>5, <2>7
<1> QED
  BY <1>5, <1>6, <1>7, <1>8

\* The priority of a thread that waits for nothing changes.
LEMMA PriWorld ==
    ASSUME NEW r, NEW t \in Thread, World(r, {t}), r.mstate[t] \in Idle, NEW p \in Pri,
           NEW s, s = SetPri(r, t, p)
    PROVE  /\ World(s, {t}) /\ SameCtl(r, s) /\ SameRun(r, s) /\ SameWhere(r, s) /\ SameCnt(r, s)
           /\ s.fault = r.fault /\ s.clnPri = r.clnPri
           /\ ReqBut(r, {t}) /\ IsReq(r, t, p) => ReqBut(s, {})
<1>1. QOK(r, {}) /\ (t \in {} \/ r.mstate[t] \notin OnWaitQ)
  BY DEF World, Idle, OnWaitQ
<1>2. QOK(s, {}) /\ OnlyPri(r, s) /\ s.fault = r.fault /\ s.pri = [r.pri EXCEPT ![t] = p]
  <2>1. QOK(r, {})
    BY DEF World
  <2> QED
    BY <1>1, <2>1, SetPriKeeps
<1>3. /\ SameCtl(r, s) /\ SameRun(r, s) /\ SameCnt(r, s) /\ SameWhere(r, s) /\ s.clnPri = r.clnPri
  BY <1>2 DEF OnlyPri, SameWhere
<1>4. \A u \in Thread \ {t} : ThreadOK(s, u)
  <2> SUFFICES ASSUME NEW u \in Thread \ {t} PROVE ThreadOK(s, u)
    OBVIOUS
  <2>1. Agree(r, s, u)
    BY <1>3 DEF Agree, SamePlace, SameWait, SameCv, SameCtl, SameRun, SameWhere, SameCnt
  <2>2. ThreadOK(r, u)
    BY DEF World
  <2> QED
    BY <2>1, <2>2, ThreadAgrees
<1>5. HoldOK(s) /\ OneResets(s)
  BY <1>3 DEF World, HoldOK, OneResets, SameCtl
<1>6. r.pri \in [Thread -> Int] /\ p \in Int
  <2>1. r.pri \in [Thread -> Int]
    BY QTypes2 DEF World, QOK
  <2> QED
    BY <2>1, PriNat
<1>7. /\ But(r.mstate, s.mstate, t) /\ But(r.waitObj, s.waitObj, t) /\ But(r.pri, s.pri, t)
      /\ s.susp = r.susp /\ \A x : (Free(s, x) <=> Free(r, x)) /\ (Held(s, x) <=> Held(r, x))
      /\ \A x : ~Pends(r, t, x) /\ ~MWaits(r, t, x) /\ ~MWaits(s, t, x)
  BY <1>2, <1>3, <1>6 DEF But, SameWhere, SameCtl, Free, Held, Pends, MWaits, Idle
<1>8. NoIdle(s, {})
  <2>1. IdleOff(r, Null)
    BY IdleAll DEF World
  <2>2. IdleOff(s, Null)
    BY <1>7, <2>1, IdleFrame
  <2> QED
    BY <2>2, IdleAll
<1>9. HighBut(s, {}, Null, 0)
  <2>1. HighOff(r, Null)
    BY HighAll DEF World
  <2>2. HighOff(s, Null)
    BY <1>3, <1>7, <2>1, HighFrame
  <2> QED
    BY <2>2, HighAll
<1>10. ASSUME ReqBut(r, {t}), IsReq(r, t, p) PROVE ReqBut(s, {})
  <2>1. OnlyOf(r, s, t, p, {})
    BY <1>2, <1>3 DEF OnlyOf, SameCnt
  <2> QED
    BY <1>6, <1>10, <2>1, MovedReq
<1> QED
  BY <1>2, <1>3, <1>4, <1>5, <1>8, <1>9, <1>10 DEF World
-----------------------------------------------------------------------------
\* t takes m, whose waiters have priority h at most; it then has mutexes c.
Take(r, t, m, h, c) == [r EXCEPT !.holder[m] = t, !.holdCount[m] = 1, !.clnPri[m] = h, !.cleanupQ[t] = c]
Taken(r, s, t, m, h, c) ==
    /\ QSame(r, s) /\ SameRun(r, s) /\ SameOwnAll(r, s)
    /\ s.fault = r.fault /\ s.defPri = r.defPri
    /\ s.holder = [r.holder EXCEPT ![m] = t] /\ s.holdCount = [r.holdCount EXCEPT ![m] = 1]
    /\ s.clnPri = [r.clnPri EXCEPT ![m] = h] /\ s.cleanupQ = [r.cleanupQ EXCEPT ![t] = c]
\* Take changes the fields it names.
LEMMA TakeFields ==
    ASSUME NEW r, Rec(r), NEW t, NEW m, NEW h, NEW c, NEW s, s = Take(r, t, m, h, c)
    PROVE  Rec(s) /\ Taken(r, s, t, m, h, c)
<1>1. QSame(r, s) /\ SameRun(r, s) /\ SameOwnAll(r, s) /\ s.fault = r.fault /\ s.defPri = r.defPri
  BY SMT DEF Rec, Fields, Take, QSame, SameWhere, SameQ, SameCnt, SameRun, SameOwnAll
<1>2. /\ s.holder = [r.holder EXCEPT ![m] = t] /\ s.holdCount = [r.holdCount EXCEPT ![m] = 1]
      /\ s.clnPri = [r.clnPri EXCEPT ![m] = h] /\ s.cleanupQ = [r.cleanupQ EXCEPT ![t] = c]
  BY SMT DEF Rec, Fields, Take
<1>3. DOMAIN s = Fields
  BY SMT DEF Rec, Fields, Take
<1>4. s = [f \in DOMAIN s |-> s[f]]
  <2> DEFINE q == [r EXCEPT !.holder[m] = t, !.holdCount[m] = 1, !.clnPri[m] = h]
             x == [r.cleanupQ EXCEPT ![t] = c]
  <2>1. s = [q EXCEPT !.cleanupQ = x]
    BY SMT DEF Take, Rec, Fields
  <2> HIDE DEF q, x
  <2> QED
    BY <2>1, SMT
<1> QED
  BY <1>1, <1>2, <1>3, <1>4 DEF Rec, Taken

\* Claim takes the mutex, and raises the thread if one of higher priority waits.
LEMMA ClaimIs ==
    ASSUME NEW r, Rec(r), NEW t, NEW m \in Mutex, r.mstate[t] = "EReady",
           r.holder \in [Mutex -> Thread \cup {Null}], r.clnPri \in [Mutex -> Pri \cup {0}],
           NEW h, h = HighestPriority(r, m), NEW c, c = r.cleanupQ[t] \cup {m},
           NEW s, s = Take(r, t, m, h, c)
    PROVE  Claim(r, t, m) = IF h > r.pri[t] THEN SetPri(s, t, h) ELSE s
<1>0. Taken(r, s, t, m, h, c)
  BY TakeFields
<1>1. /\ s.clnPri[m] = h /\ s.pri = r.pri /\ s.mstate[t] = "EReady"
  BY <1>0 DEF Taken, QSame, SameWhere
<1>2. Claim(r, t, m) = IF s.clnPri[m] > s.pri[t] THEN Settle(SetActualPriority(s, t, s.clnPri[m], 0))
                       ELSE s
  BY DEF Claim, Take
<1>3. SetActualPriority(s, t, s.clnPri[m], 0) = Done(SetPri(s, t, s.clnPri[m]))
  BY <1>1 DEF SetActualPriority, SetPri
<1>4. Settle(Done(SetPri(s, t, s.clnPri[m]))) = SetPri(s, t, s.clnPri[m])
  BY LinkFields, SettleEnds
<1> QED
  BY <1>1, <1>2, <1>3, <1>4

\* A thread takes a free mutex.
LEMMA ClaimWorld ==
    ASSUME NEW r, NEW t \in Thread, NEW m \in Mutex, WorldOff(r, {t}, m), r.mstate[t] = "EReady",
           Free(r, m), NEW v, v = Claim(r, t, m)
    PROVE  /\ World(v, {t}) /\ v.fault = r.fault /\ SameOwnAll(r, v) /\ SameRun(r, v)
           /\ SameWhere(r, v)
           /\ v.phase = r.phase /\ v.holder[m] = t /\ (ReqBut(r, {}) => ReqBut(v, {}))
<1> DEFINE h == HighestPriority(r, m)
           c == r.cleanupQ[t] \cup {m}
           s == Take(r, t, m, h, c)
<1>1. s = Take(r, t, m, h, c) /\ h = HighestPriority(r, m) /\ c = r.cleanupQ[t] \cup {m}
  OBVIOUS
<1> HIDE DEF s, h, c
<1>2. Rec(r) /\ CtlT(r) /\ RunT(r) /\ RQ(r, {}) /\ QOK(r, {}) /\ HoldOK(r) /\ OneResets(r)
  BY DEF WorldOff, QOK
<1>3. High(r, {}, m, h) /\ h \in Pri \cup {0}
  BY <1>1, <1>2, HighestIs
<1>4. /\ Rec(s) /\ QSame(r, s) /\ SameRun(r, s) /\ SameOwnAll(r, s)
      /\ s.fault = r.fault /\ s.defPri = r.defPri
      /\ s.holder = [r.holder EXCEPT ![m] = t] /\ s.holdCount = [r.holdCount EXCEPT ![m] = 1]
      /\ s.clnPri = [r.clnPri EXCEPT ![m] = h]
      /\ s.cleanupQ = [r.cleanupQ EXCEPT ![t] = r.cleanupQ[t] \cup {m}]
  <2>1. Rec(s) /\ Taken(r, s, t, m, h, c)
    BY <1>1, <1>2, TakeFields
  <2> QED
    BY <1>1, <2>1 DEF Taken
<1>5. CtlT(s) /\ RunT(s)
  BY <1>2, <1>3, <1>4 DEF CtlT, RunT, SameRun, SameOwnAll, QSame
<1>6. QOK(s, {})
  BY <1>2, <1>4, <1>5, QSameQOK
<1>7. /\ s.holder[m] = t /\ \A x \in Mutex : x # m => s.holder[x] = r.holder[x] /\ s.clnPri[x] = r.clnPri[x]
      /\ s.clnPri[m] = h /\ r.holder[m] = Null /\ r.phase[m] = "live" /\ t # Null
      /\ s.phase = r.phase
  BY <1>2, <1>4, SyncAssumption DEF CtlT, RunT, Free, QSame
<1>8. \A u \in Thread \ {t} : ThreadOK(s, u)
  <2> SUFFICES ASSUME NEW u \in Thread \ {t} PROVE ThreadOK(s, u)
    OBVIOUS
  <2>1. ThreadOK(r, u)
    BY DEF WorldOff
  <2>2. r.pc[u] = "Broadcast" => s.holder[r.obj[u]] = r.holder[r.obj[u]]
    <3> SUFFICES ASSUME r.pc[u] = "Broadcast" PROVE s.holder[r.obj[u]] = r.holder[r.obj[u]]
      OBVIOUS
    <3>1. r.holder[r.obj[u]] = u /\ r.cond[u] # Null /\ r.obj[u] \in Mutex
      BY <2>1, SyncAssumption DEF ThreadOK, WaitOK, PcOK, Obj
    <3>2. r.obj[u] # m
      BY <1>7, <3>1, SyncAssumption
    <3> QED
      BY <1>7, <3>1, <3>2
  <2>3. Agree(r, s, u)
    BY <1>4, <1>7, <2>2
       DEF Agree, SamePlace, SameWait, SameCv, SameOwnAll, SameRun, QSame, SameWhere, SameCnt
  <2> QED
    BY <2>1, <2>3, ThreadAgrees
<1>9. HoldOK(s)
  <2>1. \A x \in Mutex, u \in Thread : s.holder[x] = u <=> x \in s.cleanupQ[u]
    <3> SUFFICES ASSUME NEW x \in Mutex, NEW u \in Thread
                 PROVE  s.holder[x] = u <=> x \in s.cleanupQ[u]
      OBVIOUS
    <3>1. r.holder[x] = u <=> x \in r.cleanupQ[u]
      BY <1>2 DEF HoldOK
    <3>2. s.cleanupQ[u] = IF u = t THEN r.cleanupQ[t] \cup {m} ELSE r.cleanupQ[u]
      BY <1>2, <1>4 DEF CtlT
    <3>3. r.holder[m] # u
      BY <1>7, SyncAssumption
    <3> QED
      BY <1>7, <3>1, <3>2, <3>3
  <2>2. \A x \in Mutex : s.holder[x] # Null => s.phase[x] # "deleted" /\ s.holdCount[x] >= 1
    <3> SUFFICES ASSUME NEW x \in Mutex, s.holder[x] # Null
                 PROVE  s.phase[x] # "deleted" /\ s.holdCount[x] >= 1
      OBVIOUS
    <3>1. s.holdCount[x] = IF x = m THEN 1 ELSE r.holdCount[x]
      BY <1>2, <1>4 DEF CtlT
    <3> QED
      BY <1>2, <1>7, <3>1 DEF HoldOK
  <2> QED
    BY <2>1, <2>2 DEF HoldOK
<1>10. OneResets(s)
  BY <1>2, <1>4 DEF OneResets, SameOwnAll
<1>11. /\ But(r.mstate, s.mstate, t) /\ But(r.waitObj, s.waitObj, t) /\ But(r.pri, s.pri, t)
       /\ s.susp = r.susp /\ s.mstate = r.mstate /\ s.waitObj = r.waitObj
       /\ \A x \in Mutex : (Free(s, x) => Free(r, x)) /\ (Held(s, x) => Held(r, x) \/ x = m)
       /\ \A x : ~Pends(r, t, x) /\ ~MWaits(r, t, x) /\ ~MWaits(s, t, x)
       /\ ~Free(s, m)
  BY <1>4, <1>7 DEF But, QSame, SameWhere, SameOwnAll, Free, Held, Pends, MWaits
<1>12. NoIdle(s, {})
  <2>1. IdleOff(s, m)
    BY <1>11, IdleFrame DEF WorldOff
  <2> QED
    BY <1>11, <2>1, IdleBack
<1>13. HighBut(s, {}, Null, 0)
  <2>1. HighOff(s, m)
    BY <1>7, <1>11, HighFrame DEF WorldOff
  <2>2. High(s, {}, m, s.clnPri[m])
    BY <1>3, <1>4, <1>7 DEF High, MWaits, QSame, SameWhere
  <2>3. HighOff(s, Null)
    BY <2>1, <2>2 DEF HighOff
  <2> QED
    BY <2>3, HighAll
<1>14. World(s, {t})
  BY <1>6, <1>8, <1>9, <1>10, <1>12, <1>13 DEF World
<1>15. v = IF h > r.pri[t] THEN SetPri(s, t, h) ELSE s
  <2>1. r.holder \in [Mutex -> Thread \cup {Null}] /\ r.clnPri \in [Mutex -> Pri \cup {0}]
    BY <1>2 DEF CtlT, RunT
  <2> QED
    BY <1>1, <1>2, <2>1, ClaimIs
<1>16. r.pri \in [Thread -> Int] /\ h \in Int
  <2>1. Pri \cup {0} \subseteq Int
    BY PriNat
  <2> QED
    BY <1>2, <1>3, <2>1, QTypes2
\* What the other threads are required to have is as it was.
<1>17. ASSUME ReqBut(r, {}) PROVE ReqBut(s, {t}) /\ IsReq(s, t, IF h > r.pri[t] THEN h ELSE r.pri[t])
  <2>1. ASSUME NEW u \in Thread, u # t PROVE IsReq(s, u, s.pri[u])
    <3>1. /\ s.cleanupQ[u] = r.cleanupQ[u] /\ s.defPri = r.defPri /\ s.pri = r.pri
          /\ r.cleanupQ[u] \subseteq Mutex
      BY <1>2, <1>4, <2>1 DEF CtlT, QSame
    <3>2. \A x \in r.cleanupQ[u] : s.clnPri[x] = r.clnPri[x]
      <4>1. m \notin r.cleanupQ[u]
        BY <1>2, <1>7, SyncAssumption DEF HoldOK
      <4> QED
        BY <1>7, <3>1, <4>1
    <3>3. IsReq(r, u, r.pri[u])
      BY <1>17 DEF ReqBut
    <3> QED
      BY <3>1, <3>2, <3>3 DEF IsReq
  <2>2. IsReq(r, t, r.pri[t]) /\ r.pri[t] \in Int /\ r.defPri[t] \in Int
    <3>1. r.defPri[t] \in Pri
      BY <1>2 DEF CtlT
    <3> QED
      BY <1>16, <1>17, <3>1, PriNat DEF ReqBut
  <2>3. /\ s.cleanupQ[t] = r.cleanupQ[t] \cup {m} /\ s.defPri = r.defPri
        /\ r.cleanupQ[t] \subseteq Mutex
    BY <1>2, <1>4 DEF CtlT
  <2>4. \A x \in r.cleanupQ[t] : s.clnPri[x] = r.clnPri[x] /\ r.clnPri[x] \in Int
    <3>1. m \notin r.cleanupQ[t]
      BY <1>2, <1>7, SyncAssumption DEF HoldOK
    <3>2. \A x \in Mutex : r.clnPri[x] \in Int
      <4>1. \A x \in Mutex : r.clnPri[x] \in Pri \cup {0}
        BY <1>2 DEF RunT
      <4>2. Pri \cup {0} \subseteq Int
        BY PriNat
      <4> QED
        BY <4>1, <4>2
    <3> QED
      BY <1>7, <2>3, <3>1, <3>2
  <2>5. CASE h > r.pri[t]
    <3>1. h >= r.defPri[t] /\ \A x \in r.cleanupQ[t] : h >= r.clnPri[x]
      BY <1>16, <2>2, <2>4, <2>5 DEF IsReq
    <3>2. IsReq(s, t, h)
      BY <1>7, <1>16, <2>3, <2>4, <3>1 DEF IsReq
    <3> QED
      BY <2>1, <2>5, <3>2 DEF ReqBut
  <2>6. CASE ~(h > r.pri[t])
    <3>1. IsReq(s, t, r.pri[t])
      BY <1>7, <1>16, <2>2, <2>3, <2>4, <2>6 DEF IsReq
    <3> QED
      BY <2>1, <2>6, <3>1 DEF ReqBut
  <2> QED
    BY <2>5, <2>6
<1>18. CASE h > r.pri[t]
  <2>1. h \in Pri
    <3>1. r.pri[t] >= 1
      <4>1. r.pri[t] \in Pri
        BY <1>2, QTypes2
      <4> QED
        BY <4>1, PriNat
    <3> QED
      BY <1>3, <1>16, <1>18, <3>1
  <2>2. v = SetPri(s, t, h) /\ s.mstate[t] \in Idle
    BY <1>11, <1>15, <1>18 DEF Idle
  <2>3. /\ World(v, {t}) /\ SameCtl(s, v) /\ SameRun(s, v) /\ SameWhere(s, v) /\ v.fault = s.fault
        /\ ReqBut(s, {t}) /\ IsReq(s, t, h) => ReqBut(v, {})
    BY <1>14, <2>1, <2>2, PriWorld
  <2>4. ReqBut(r, {}) => ReqBut(v, {})
    BY <1>17, <1>18, <2>3
  <2> QED
    BY <1>4, <1>7, <1>11, <2>3, <2>4 DEF SameCtl, SameRun, SameWhere, SameOwnAll
<1>19. CASE ~(h > r.pri[t])
  <2>1. v = s
    BY <1>15, <1>19
  <2>2. ReqBut(r, {}) => ReqBut(v, {})
    <3> SUFFICES ASSUME ReqBut(r, {}) PROVE ReqBut(s, {})
      BY <2>1
    <3>1. ReqBut(s, {t}) /\ IsReq(s, t, s.pri[t])
      BY <1>4, <1>17, <1>19 DEF QSame
    <3> QED
      BY <3>1 DEF ReqBut
  <2> QED
    BY <1>4, <1>7, <1>14, <2>1, <2>2 DEF QSame, SameWhere
<1> QED
  BY <1>18, <1>19

\* An assertion that holds.
LEMMA AssertedTrue ==
    ASSUME NEW r, Rec(r), RunT(r), NEW c, c
    PROVE  Asserted(r, c) = r
<1>1. r.fault \in BOOLEAN /\ DOMAIN r = Fields
  BY DEF RunT, Rec
<1> DEFINE b == r.fault \/ ~c
<1>2. b = r.fault
  BY <1>1
<1>3. Asserted(r, c) = [r EXCEPT !.fault = b]
  BY DEF Asserted
<1> HIDE DEF b
<1>4. Asserted(r, c) = [r EXCEPT !.fault = r.fault]
  BY <1>2, <1>3
<1> DEFINE s == SetFault(r, r.fault)
<1>5. Rec(s) /\ \A f \in Fields : s[f] = r[f]
  BY SetFaultFields, SMT DEF SetFault, Rec, Fields
<1>6. s = [r EXCEPT !.fault = r.fault]
  BY DEF SetFault
<1> HIDE DEF s
<1>7. s = r
  BY <1>5 DEF Rec
<1> QED
  BY <1>4, <1>6, <1>7

\* t lets go of m; it then has mutexes c.
LetGo(r, t, m, c) == [r EXCEPT !.holder[m] = Null, !.cleanupQ[t] = c]
GoneFrom(r, s, t, m, c) ==
    /\ QSame(r, s) /\ SameRun(r, s) /\ SameOwnAll(r, s)
    /\ s.fault = r.fault /\ s.defPri = r.defPri /\ s.holdCount = r.holdCount /\ s.clnPri = r.clnPri
    /\ s.holder = [r.holder EXCEPT ![m] = Null] /\ s.cleanupQ = [r.cleanupQ EXCEPT ![t] = c]
\* LetGo changes the fields it names.
LEMMA LetGoFields ==
    ASSUME NEW r, Rec(r), NEW t, NEW m, NEW c, NEW s, s = LetGo(r, t, m, c)
    PROVE  Rec(s) /\ GoneFrom(r, s, t, m, c)
<1>1. /\ QSame(r, s) /\ SameRun(r, s) /\ SameOwnAll(r, s) /\ s.fault = r.fault
      /\ s.defPri = r.defPri
      /\ s.holdCount = r.holdCount /\ s.clnPri = r.clnPri
  BY SMT DEF Rec, Fields, LetGo, QSame, SameWhere, SameQ, SameCnt, SameRun, SameOwnAll
<1>2. s.holder = [r.holder EXCEPT ![m] = Null] /\ s.cleanupQ = [r.cleanupQ EXCEPT ![t] = c]
  BY SMT DEF Rec, Fields, LetGo
<1>3. DOMAIN s = Fields
  BY SMT DEF Rec, Fields, LetGo
<1>4. s = [f \in DOMAIN s |-> s[f]]
  <2> DEFINE q == [r EXCEPT !.holder[m] = Null]
             x == [r.cleanupQ EXCEPT ![t] = c]
  <2>1. s = [q EXCEPT !.cleanupQ = x]
    BY SMT DEF LetGo, Rec, Fields
  <2> HIDE DEF q, x
  <2> QED
    BY <2>1, SMT
<1> QED
  BY <1>1, <1>2, <1>3, <1>4 DEF Rec, GoneFrom

\* The holders, of mutexes other than m also their counts.
HoldOff(r, m) ==
    /\ \A x \in Mutex, u \in Thread : r.holder[x] = u <=> x \in r.cleanupQ[u]
    /\ \A x \in Mutex : x # m /\ r.holder[x] # Null => r.phase[x] # "deleted" /\ r.holdCount[x] >= 1

\* The first half of giving up a mutex: its first waiter is woken.
FirstWoken(r, w, t, m) ==
    /\ QOK(w, {}) /\ SameCtl(r, w) /\ SameData(r, w) /\ w.pri = r.pri
    /\ \/ w = r /\ \A u \in Thread : ~MWaits(r, u, m)
       \/ \E u \in Thread : u # t /\ Woken(r, w, u, m, {})

\* GiveUp offers the mutex to the first waiting thread, and then lets it go.
LEMMA GiveUpWakes ==
    ASSUME NEW r, NEW t \in Thread, NEW m \in Mutex, QOK(r, {}), HighBut(r, {}, Null, 0),
           Held(r, m),
           r.mstate[t] # "EWaitMutex", NEW v, v = GiveUp(r, t, m)
    PROVE  \E w : FirstWoken(r, w, t, m) /\ v = LetGo(w, t, m, r.cleanupQ[t] \ {m})
<1>1. Rec(r) /\ RunT(r) /\ RQ(r, {}) /\ r.waitQ \in [Obj -> Seq(Thread)] /\ m \in Obj /\ m # Null
  BY QTypes2, SyncAssumption DEF QOK, Obj
<1>2. CASE r.waitQ[m] # <<>>
  <2> DEFINE w == WakeUpNextThread(r, m)
             u == Head(r.waitQ[m])
  <2>1. v = [w EXCEPT !.holder[m] = Null, !.cleanupQ[t] = @ \ {m}]
    BY <1>2 DEF GiveUp
  <2>2. w = WakeUpNextThread(r, m)
    OBVIOUS
  <2> HIDE DEF w
  <2>3. QOK(w, {}) /\ SameCtl(r, w) /\ SameData(r, w) /\ w.pri = r.pri /\ Woken(r, w, u, m, {})
    BY <1>2, <2>2, WakeUpKeeps DEF NonEmpty
  <2>4. u \in Thread /\ u # t
    BY <2>3 DEF Woken, MWaits
  <2>5. FirstWoken(r, w, t, m)
    BY <2>3, <2>4 DEF FirstWoken
  <2>6. w.cleanupQ = r.cleanupQ
    BY <2>3 DEF SameCtl
  <2>7. v = LetGo(w, t, m, r.cleanupQ[t] \ {m})
    BY <2>1, <2>6 DEF LetGo
  <2> QED
    BY <2>5, <2>7
<1>3. CASE r.waitQ[m] = <<>>
  <2>1. \A u \in Thread : ~MWaits(r, u, m)
    <3> SUFFICES ASSUME NEW u \in Thread, MWaits(r, u, m) PROVE FALSE
      OBVIOUS
    <3>1. u \in Range(r.waitQ[m])
      BY <1>1, MutexWaiter
    <3> QED
      BY <1>3, <3>1 DEF Range
  <2>2. r.clnPri[m] = 0
    <3>1. High(r, {}, m, r.clnPri[m])
      BY <1>1 DEF HighBut
    <3> QED
      BY <2>1, <3>1 DEF High
  <2>3. Asserted(r, r.clnPri[m] = 0) = r
    BY <1>1, <2>2, AssertedTrue
  <2>4. v = LetGo(r, t, m, r.cleanupQ[t] \ {m})
    BY <1>3, <2>3 DEF GiveUp, LetGo
  <2>5. FirstWoken(r, r, t, m)
    BY <2>1 DEF FirstWoken, SameCtl, SameData
  <2> QED
    BY <2>4, <2>5
<1> QED
  BY <1>2, <1>3

\* Thread u is all that moves, not to or from a mutex other than m0 that is free, or held.
LEMMA MoveOff ==
    ASSUME NEW r, NEW T, NEW m0, WorldOff(r, T, m0), NEW s, QOK(s, {}), SameCtl(r, s),
           s.clnPri = r.clnPri, s.pri = r.pri, NEW u \in Thread,
           \A x \in Thread : x # u => SameWait(r, s, x) /\ SameCv(r, s, x),
           \A m \in Mutex : Pends(r, u, m) \/ MWaits(s, u, m) => m = m0 \/ ~Free(r, m),
           \A m \in Mutex : MWaits(r, u, m) \/ MWaits(s, u, m) => m = m0 \/ ~Held(r, m)
    PROVE  WorldOff(s, T \cup {u}, m0)
<1>1. /\ But(r.mstate, s.mstate, u) /\ But(r.waitObj, s.waitObj, u) /\ But(r.pri, s.pri, u)
      /\ s.susp = r.susp
  BY DEF But, SameWait, SameCtl
<1>2. \A m : (Free(s, m) <=> Free(r, m)) /\ (Held(s, m) <=> Held(r, m))
  BY CtlHeld
<1>3. IdleOff(s, m0)
  BY <1>1, <1>2, IdleFrame DEF WorldOff
<1>4. HighOff(s, m0)
  BY <1>1, <1>2, HighFrame DEF WorldOff
<1>5. \A x \in Thread \ (T \cup {u}) : ThreadOK(s, x)
  <2> SUFFICES ASSUME NEW x \in Thread \ (T \cup {u}) PROVE ThreadOK(s, x)
    OBVIOUS
  <2>1. ThreadOK(r, x) /\ x # u
    BY DEF WorldOff
  <2>2. Agree(r, s, x)
    BY <2>1, CtlPlace DEF Agree
  <2> QED
    BY <2>1, <2>2, ThreadAgrees
<1>6. HoldOK(s) /\ OneResets(s)
  BY DEF WorldOff, HoldOK, OneResets, SameCtl
<1> QED
  BY <1>3, <1>4, <1>5, <1>6 DEF WorldOff

\* No mutex left out.
LEMMA WorldNoHole ==
    ASSUME NEW r, NEW T
    PROVE  WorldOff(r, T, Null) <=> World(r, T)
BY IdleAll, HighAll DEF World, WorldOff

-----------------------------------------------------------------------------
\* What the threads other than t see of giving up m.
LEMMA GoneThread ==
    ASSUME NEW r, NEW w, NEW v, NEW t \in Thread, NEW m \in Mutex, NEW c, FirstWoken(r, w, t, m),
           GoneFrom(w, v, t, m, c), RunT(r), CtlT(r), r.holder[m] = t, NEW u \in Thread, u # t, ThreadOK(r, u)
    PROVE  ThreadOK(v, u)
<1>1. ThreadOK(w, u)
  <2>1. CASE w = r
    BY <2>1
  <2>2. ASSUME NEW x \in Thread, x # t, Woken(r, w, x, m, {}) PROVE ThreadOK(w, u)
    <3>0. SameCtl(r, w) /\ SamePlace(r, w, u) /\ SameData(r, w)
      BY CtlPlace DEF FirstWoken
    <3>1. Lands(r, w, x, "EHoldMutexPending", m) /\ Released(r, w, x, "KErrNone") /\ MWaits(r, x, m)
      BY <2>2 DEF Woken, ToPending
    <3>2. CASE u = x
      <4>1. ~w.blocked[x] /\ ~w.timed[x] /\ w.ret[x] = "KErrNone"
        BY <3>1, ReleasedAt
      <4>2. Shifts(r, w, x)
        BY <3>1, <4>1 DEF Shifts, MutexWaits, Lands, MWaits
      <4> QED
        BY <3>0, <3>2, <4>2, ThreadShifts
    <3>3. CASE u # x
      <4>1. SameWait(r, w, u)
        BY <3>1, <3>3, OthersWait
      <4>2. Agree(r, w, u)
        BY <3>0, <4>1 DEF Agree, SameCv, SameData
      <4> QED
        BY <4>2, ThreadAgrees
    <3> QED
      BY <3>2, <3>3
  <2> QED
    BY <2>1, <2>2 DEF FirstWoken
<1>2. w.holder = r.holder /\ w.holder \in [Mutex -> Thread \cup {Null}]
  BY DEF FirstWoken, SameCtl, CtlT
<1>3. w.pc[u] = "Broadcast" => v.holder[w.obj[u]] = w.holder[w.obj[u]]
  <2> SUFFICES ASSUME w.pc[u] = "Broadcast" PROVE v.holder[w.obj[u]] = w.holder[w.obj[u]]
    OBVIOUS
  <2>1. w.holder[w.obj[u]] = u /\ w.cond[u] # Null /\ w.obj[u] \in Mutex
    BY <1>1, SyncAssumption DEF ThreadOK, WaitOK, PcOK, Obj
  <2>2. w.obj[u] # m
    BY <1>2, <2>1
  <2> QED
    BY <1>2, <2>1, <2>2 DEF GoneFrom
<1>4. Agree(w, v, u)
  BY <1>3 DEF GoneFrom, Agree, SamePlace, SameWait, SameCv, SameOwnAll, SameRun, QSame, SameWhere,
     SameCnt
<1> QED
  BY <1>1, <1>4, ThreadAgrees

\* The mutexes that are free, and the priorities of cleanup items, after t gives up m.
LEMMA GoneExact ==
    ASSUME NEW r, NEW w, NEW v, NEW t \in Thread, NEW m \in Mutex, NEW c, FirstWoken(r, w, t, m),
           GoneFrom(w, v, t, m, c), CtlT(r), r.holder[m] = t,
           \A x \in Thread \ {t} : ThreadOK(r, x), NoIdle(r, {}), HighBut(r, {}, Null, 0),
           r.mstate[t] # "EWaitMutex"
    PROVE  NoIdle(v, {}) /\ HighBut(v, {}, Null, 0)
<1>1. /\ v.mstate = w.mstate /\ v.waitObj = w.waitObj /\ v.pri = r.pri /\ v.susp = r.susp
      /\ v.clnPri = r.clnPri /\ v.phase = r.phase /\ v.holder = [r.holder EXCEPT ![m] = Null]
  BY DEF FirstWoken, GoneFrom, SameCtl, SameData, QSame, SameWhere, SameOwnAll
<1>2. v.holder[m] = Null /\ \A x \in Mutex : x # m => v.holder[x] = r.holder[x]
  BY <1>1 DEF CtlT
<1>3. \A x \in Mutex : /\ Free(v, x) => Free(r, x) \/ x = m
                       /\ Held(v, x) => Held(r, x) /\ x # m
  BY <1>1, <1>2 DEF Free, Held
<1>4. IdleOff(r, m) /\ HighOff(r, m)
  BY OffMore
<1>5. CASE w = r /\ \A y \in Thread : ~MWaits(r, y, m)
  <2>1. /\ \A x, y : (MWaits(v, y, x) <=> MWaits(r, y, x)) /\ (Pends(v, y, x) <=> Pends(r, y, x))
        /\ \A y \in Thread : ~MWaits(v, y, m)
    BY <1>1, <1>5 DEF MWaits, Pends
  <2>2. IdleOff(v, m)
    <3> SUFFICES ASSUME NEW x \in Mutex, NEW y \in Thread, x # m, Free(v, x), MWaits(v, y, x)
                 PROVE  Offered(v, x, y)
      BY DEF IdleOff
    <3>1. Offered(r, x, y)
      BY <1>3, <1>4, <2>1 DEF IdleOff
    <3> QED
      BY <1>1, <2>1, <3>1 DEF Offered
  <2>3. HighOff(v, Null)
    BY <1>1, <1>3, <1>4, <2>1 DEF HighOff, High
  <2> QED
    BY <2>1, <2>2, <2>3, IdleBack, HighAll
<1>6. ASSUME NEW u \in Thread, Woken(r, w, u, m, {}) PROVE NoIdle(v, {}) /\ HighBut(v, {}, Null, 0)
  <2>1. /\ Lands(r, w, u, "EHoldMutexPending", m) /\ MWaits(r, u, m)
        /\ \A y \in Thread : MWaits(r, y, m) => r.pri[u] >= r.pri[y]
    BY <1>6 DEF Woken, ToPending
  <2>2. /\ But(r.mstate, v.mstate, u) /\ But(r.waitObj, v.waitObj, u) /\ But(r.pri, v.pri, u)
        /\ Pends(v, u, m)
        /\ \A x \in Mutex : Pends(r, u, x) \/ MWaits(r, u, x) \/ MWaits(v, u, x) => x = m
    BY <1>1, <2>1 DEF Lands, But, Pends, MWaits
  <2>3. IdleOff(v, m)
    <3>1. \A q \in Thread : q # u => (v.susp[q] > 0 => r.susp[q] > 0)
      BY <1>1
    <3>2. \A x \in Mutex : Free(v, x) => Free(r, x) \/ x = m
      BY <1>3
    <3>3. \A x \in Mutex : Pends(r, u, x) \/ MWaits(v, u, x) => x = m \/ ~Free(v, x)
      BY <2>2
    <3> QED
      BY <1>4, <2>2, <3>1, <3>2, <3>3, IdleFrame
  <2>4. HighOff(v, m)
    BY <1>1, <1>3, <1>4, <2>2, HighFrame
  <2>5. HighOff(v, Null)
    BY <1>3, <2>4 DEF HighOff
  <2>6. ~(v.susp[u] > 0)
    <3>1. u # t => ThreadOK(r, u)
      OBVIOUS
    <3> QED
      BY <1>1, <1>6, <2>1, <3>1 DEF ThreadOK, SuspOK, MWaits, OnWaitQ
  <2>7. \A y \in Thread : MWaits(v, y, m) => MWaits(r, y, m)
    BY <1>1, <2>1, <2>2 DEF MWaits, But
  <2>8. \A y \in Thread : MWaits(v, y, m) => Offered(v, m, y)
    BY <1>1, <2>1, <2>2, <2>6, <2>7 DEF Offered
  <2> QED
    BY <2>3, <2>5, <2>8, IdleBack, HighAll
<1> QED
  BY <1>5, <1>6 DEF FirstWoken

\* What t has after it gave up m.
GaveUp(r, v, t, m) ==
    /\ SameOwnAll(r, v) /\ SameWait(r, v, t)
    /\ v.fault = r.fault /\ v.pri = r.pri /\ v.clnPri = r.clnPri /\ v.defPri = r.defPri
    /\ v.count = r.count /\ v.cvMutex = r.cvMutex /\ v.phase = r.phase
    /\ v.holder = [r.holder EXCEPT ![m] = Null]
    /\ v.cleanupQ = [r.cleanupQ EXCEPT ![t] = r.cleanupQ[t] \ {m}]

\* A thread gives up a mutex it holds.
LEMMA GiveUpWorld ==
    ASSUME NEW r, NEW t \in Thread, NEW m \in Mutex, QOK(r, {}),
           \A u \in Thread \ {t} : ThreadOK(r, u), HoldOff(r, m), OneResets(r), NoIdle(r, {}),
           HighBut(r, {}, Null, 0), r.holder[m] = t, r.phase[m] = "live",
           r.mstate[t] # "EWaitMutex", NEW v, v = GiveUp(r, t, m)
    PROVE  World(v, {t}) /\ GaveUp(r, v, t, m)
<1> DEFINE c == r.cleanupQ[t] \ {m}
<1>1. t # Null /\ c = r.cleanupQ[t] \ {m} /\ RunT(r) /\ CtlT(r)
  BY SyncAssumption DEF QOK
<1> HIDE DEF c
<1>2. Held(r, m)
  BY <1>1 DEF Held
<1>3. PICK w : FirstWoken(r, w, t, m) /\ v = LetGo(w, t, m, c)
  BY <1>1, <1>2, GiveUpWakes
<1>4. QOK(w, {}) /\ Rec(w) /\ CtlT(w) /\ RunT(w) /\ SameCtl(r, w) /\ SameData(r, w) /\ w.pri = r.pri
  BY <1>3 DEF FirstWoken, QOK
<1>5. Rec(v) /\ GoneFrom(w, v, t, m, c)
  BY <1>3, <1>4, LetGoFields
<1>6. CtlT(v) /\ RunT(v)
  <2>1. v.cleanupQ \in [Thread -> SUBSET Mutex] /\ v.holder \in [Mutex -> Thread \cup {Null}]
    <3>1. w.cleanupQ = r.cleanupQ /\ c \in SUBSET Mutex
      BY <1>1, <1>4 DEF SameCtl, CtlT
    <3> QED
      BY <1>4, <1>5, <3>1 DEF GoneFrom, CtlT
  <2> QED
    BY <1>4, <1>5, <2>1 DEF GoneFrom, CtlT, RunT, SameOwnAll, SameRun, QSame
<1>7. QOK(v, {})
  BY <1>4, <1>5, <1>6, QSameQOK DEF GoneFrom
<1>8. \A u \in Thread \ {t} : ThreadOK(v, u)
  BY <1>1, <1>3, <1>5, GoneThread
<1>9. NoIdle(v, {}) /\ HighBut(v, {}, Null, 0)
  BY <1>1, <1>3, <1>5, GoneExact
<1>10. SameWait(r, v, t)
  <2>1. SameWait(r, w, t)
    <3>1. ASSUME NEW u \in Thread, u # t, Woken(r, w, u, m, {}) PROVE SameWait(r, w, t)
      <4>1. Lands(r, w, u, "EHoldMutexPending", m) /\ Released(r, w, u, "KErrNone")
        BY <3>1 DEF Woken, ToPending
      <4> QED
        BY <1>1, <3>1, <4>1, OthersWait
    <3>2. SameWait(r, r, t)
      BY DEF SameWait
    <3> QED
      BY <1>3, <3>1, <3>2 DEF FirstWoken
  <2> QED
    BY <1>5, <2>1 DEF GoneFrom, SameWait, QSame, SameWhere, SameRun
<1>11. GaveUp(r, v, t, m)
  BY <1>1, <1>4, <1>5, <1>10 DEF GaveUp, GoneFrom, QSame, SameCnt, SameOwnAll, SameCtl, SameData
<1>12. HoldOK(v)
  <2>1. ASSUME NEW x \in Mutex, NEW u \in Thread PROVE v.holder[x] = u <=> x \in v.cleanupQ[u]
    <3>1. r.holder[x] = u <=> x \in r.cleanupQ[u]
      BY DEF HoldOff
    <3>2. v.cleanupQ[u] = IF u = t THEN r.cleanupQ[t] \ {m} ELSE r.cleanupQ[u]
      BY <1>1, <1>11 DEF GaveUp, CtlT
    <3>3. v.holder[x] = IF x = m THEN Null ELSE r.holder[x]
      BY <1>1, <1>11 DEF GaveUp, CtlT
    <3>4. u # Null
      BY SyncAssumption
    <3> QED
      BY <3>1, <3>2, <3>3, <3>4
  <2>2. ASSUME NEW x \in Mutex, v.holder[x] # Null PROVE v.phase[x] # "deleted" /\ v.holdCount[x] >= 1
    <3>1. x # m /\ v.holder[x] = r.holder[x]
      BY <1>1, <1>11, <2>2 DEF GaveUp, CtlT
    <3>2. v.holdCount = r.holdCount /\ v.phase = r.phase
      BY <1>4, <1>5 DEF GoneFrom, SameCtl, QSame
    <3> QED
      BY <2>2, <3>1, <3>2 DEF HoldOff
  <2> QED
    BY <2>1, <2>2 DEF HoldOK
<1>13. OneResets(v)
  BY <1>11 DEF OneResets, GaveUp, SameOwnAll
<1> QED
  BY <1>7, <1>8, <1>9, <1>11, <1>12, <1>13 DEF World

\* What the threads are then required to have.
LEMMA GaveUpReq ==
    ASSUME NEW r, NEW v, NEW t \in Thread, NEW m \in Mutex, CtlT(r), RunT(r), GaveUp(r, v, t, m),
           r.pri \in [Thread -> Pri], ReqBut(r, {})
    PROVE  /\ ReqBut(v, {t})
           /\ r.clnPri[m] = 0 => ReqBut(v, {})
<1>1. /\ v.pri = r.pri /\ v.clnPri = r.clnPri /\ v.defPri = r.defPri
      /\ \A u \in Thread : u # t => v.cleanupQ[u] = r.cleanupQ[u]
      /\ v.cleanupQ[t] = r.cleanupQ[t] \ {m}
  BY DEF GaveUp, CtlT
<1>2. ReqBut(v, {t})
  BY <1>1 DEF ReqBut, IsReq
<1>3. ASSUME r.clnPri[m] = 0 PROVE IsReq(v, t, v.pri[t])
  <2>1. IsReq(r, t, r.pri[t])
    BY DEF ReqBut
  <2>2. r.pri[t] # 0
    BY PriNat
  <2> QED
    BY <1>1, <1>3, <2>1, <2>2 DEF IsReq
<1> QED
  BY <1>2, <1>3 DEF ReqBut

-----------------------------------------------------------------------------
\* The count of holds.
SetHold(r, m, n) == [r EXCEPT !.holdCount[m] = n]
HoldSet(r, s, m, n) ==
    /\ QSame(r, s) /\ SameRun(r, s) /\ SameOwnAll(r, s) /\ SameReq(r, s)
    /\ s.holder = r.holder /\ s.phase = r.phase /\ s.holdCount = [r.holdCount EXCEPT ![m] = n]
\* SetHold changes iHoldCount.
LEMMA SetHoldFields ==
    ASSUME NEW r, Rec(r), NEW m, NEW n, NEW s, s = SetHold(r, m, n)
    PROVE  Rec(s) /\ HoldSet(r, s, m, n)
<1>1. HoldSet(r, s, m, n)
  BY SMT DEF Rec, Fields, SetHold, HoldSet, QSame, SameWhere, SameQ, SameCnt, SameRun, SameOwnAll,
     SameReq
<1>2. DOMAIN s = Fields
  BY SMT DEF Rec, Fields, SetHold
<1>3. s = [f \in DOMAIN s |-> s[f]]
  BY SMT DEF Rec, Fields, SetHold
<1> QED
  BY <1>1, <1>2, <1>3 DEF Rec

\* A change of iHoldCount alone.
LEMMA HoldWorld ==
    ASSUME NEW r, NEW T, World(r, T), NEW m \in Mutex, NEW n \in Nat, NEW s, s = SetHold(r, m, n)
    PROVE  /\ HoldSet(r, s, m, n)
           /\ QOK(s, {}) /\ (\A u \in Thread \ T : ThreadOK(s, u)) /\ OneResets(s)
           /\ NoIdle(s, {}) /\ HighBut(s, {}, Null, 0)
           /\ HoldOff(s, m) /\ (n >= 1 => World(s, T))
<1>1. Rec(r) /\ CtlT(r) /\ RunT(r) /\ QOK(r, {}) /\ HoldOK(r) /\ OneResets(r)
      /\ NoIdle(r, {}) /\ HighBut(r, {}, Null, 0)
  BY DEF World, QOK
<1>2. Rec(s) /\ HoldSet(r, s, m, n)
  BY <1>1, SetHoldFields
<1>3. CtlT(s) /\ RunT(s)
  BY <1>1, <1>2 DEF CtlT, RunT, HoldSet, SameRun, SameOwnAll, SameReq
<1>4. QOK(s, {})
  BY <1>1, <1>2, <1>3, QSameQOK DEF HoldSet
<1>5. ASSUME NEW u \in Thread \ T PROVE ThreadOK(s, u)
  <2>1. Agree(r, s, u)
    BY <1>2 DEF HoldSet, Agree, SamePlace, SameWait, SameCv, SameOwnAll, SameRun, QSame, SameWhere,
       SameCnt
  <2> QED
    BY <2>1, ThreadAgrees DEF World
<1>6. OneResets(s)
  BY <1>1, <1>2 DEF OneResets, HoldSet, SameOwnAll
<1>7. s.mstate = r.mstate /\ s.waitObj = r.waitObj /\ s.pri = r.pri /\ s.susp = r.susp /\ s.holder = r.holder
      /\ s.phase = r.phase /\ s.clnPri = r.clnPri /\ s.cleanupQ = r.cleanupQ
  BY <1>2 DEF HoldSet, QSame, SameWhere, SameOwnAll, SameReq
<1>8. NoIdle(s, {})
  BY <1>1, <1>7 DEF NoIdle, Free, MWaits, Pends
<1>9. HighBut(s, {}, Null, 0)
  BY <1>1, <1>7 DEF HighBut, Held, High, MWaits
<1>10. HoldOff(s, m)
  BY <1>1, <1>2, <1>7 DEF HoldOff, HoldOK, HoldSet, CtlT
<1>11. ASSUME n >= 1 PROVE HoldOK(s)
  <2>1. \A x \in Mutex : s.holdCount[x] = IF x = m THEN n ELSE r.holdCount[x]
    BY <1>1, <1>2 DEF HoldSet, CtlT
  <2> QED
    BY <1>1, <1>7, <1>11, <2>1 DEF HoldOK
<1> QED
  BY <1>2, <1>4, <1>5, <1>6, <1>8, <1>9, <1>10, <1>11 DEF World

\* What a thread that acts on mutexes sees of it.
Acted(r, v, t) ==
    /\ SameOwnAll(r, v) /\ SameWait(r, v, t) /\ v.fault = r.fault /\ v.phase = r.phase
    /\ (ReqBut(r, {}) => ReqBut(v, {}))

\* DMutex::Signal, by the holder.
LEMMA SignalWorld ==
    ASSUME NEW r, NEW t \in Thread, NEW m \in Mutex, World(r, {t}), r.holder[m] = t,
           r.mstate[t] = "EReady", NEW v, v = MutexSignal(r, t, m)
    PROVE  World(v, {t}) /\ Acted(r, v, t)
<1>1. /\ CtlT(r) /\ RunT(r) /\ RQ(r, {}) /\ QOK(r, {}) /\ t # Null
      /\ r.phase[m] \in {"live", "resetting"} /\ r.holdCount[m] \in Nat /\ r.holdCount[m] >= 1
  BY SyncAssumption DEF World, QOK, HoldOK, CtlT, Phases, Obj
<1>2. CASE Resetting(r, m)
  <2>1. v = r
    BY <1>2 DEF MutexSignal
  <2> QED
    BY <2>1 DEF Acted, SameOwnAll, SameWait
<1>3. CASE ~Resetting(r, m)
  <2> DEFINE n == r.holdCount[m] - 1
             r1 == SetHold(r, m, n)
             r2 == GiveUp(r1, t, m)
  <2>1. /\ n \in Nat /\ n = r.holdCount[m] - 1 /\ r1 = SetHold(r, m, n) /\ r2 = GiveUp(r1, t, m)
        /\ r.phase[m] = "live"
    BY <1>1, <1>3 DEF Resetting
  <2>2. v = IF r1.holdCount[m] > 0 THEN r1
            ELSE IF r2.clnPri[m] = 0 THEN r2
            ELSE SetPri(r2, t, RequiredPriority(r2, t))
    BY <1>3 DEF MutexSignal, SetHold, SetPri
  <2> HIDE DEF n, r1, r2
  <2>3. /\ HoldSet(r, r1, m, n)
        /\ QOK(r1, {}) /\ (\A u \in Thread \ {t} : ThreadOK(r1, u)) /\ OneResets(r1)
        /\ NoIdle(r1, {}) /\ HighBut(r1, {}, Null, 0)
        /\ HoldOff(r1, m) /\ (n >= 1 => World(r1, {t}))
    BY <2>1, HoldWorld
  <2>4. Acted(r, r1, t)
    BY <2>3 DEF Acted, HoldSet, SameWait, QSame, SameWhere, SameRun, SameReq, ReqBut, IsReq
  <2>5. r1.holdCount[m] = n
    BY <1>1, <2>3 DEF HoldSet, CtlT
  <2>6. CASE n >= 1
    <3>1. v = r1
      BY <2>1, <2>2, <2>5, <2>6
    <3> QED
      BY <2>3, <2>4, <2>6, <3>1
  <2>7. CASE ~(n >= 1)
    <3>1. /\ r1.holder[m] = t /\ r1.phase[m] = "live" /\ r1.mstate[t] # "EWaitMutex"
          /\ r1.mstate[t] = "EReady"
      BY <2>1, <2>3 DEF HoldSet, QSame, SameWhere
    <3>2. World(r2, {t}) /\ GaveUp(r1, r2, t, m)
      BY <2>1, <2>3, <3>1, GiveUpWorld
    <3>3. CtlT(r1) /\ RunT(r1) /\ r1.pri \in [Thread -> Pri] /\ CtlT(r2) /\ RunT(r2)
      <4>1. CtlT(r1) /\ RunT(r1) /\ RQ(r1, {}) /\ CtlT(r2) /\ RunT(r2)
        BY <2>3, <3>2 DEF QOK, World
      <4> QED
        BY <4>1, QTypes2
    <3>4. r2.mstate[t] \in Idle
      BY <3>1, <3>2 DEF Idle, GaveUp, SameWait
    <3>5. /\ SameOwnAll(r, r2) /\ SameWait(r, r2, t) /\ r2.fault = r.fault /\ r2.phase = r.phase
          /\ r2.clnPri = r1.clnPri
      BY <2>4, <3>2 DEF Acted, GaveUp, SameOwnAll, SameWait
    <3>6. v = IF r2.clnPri[m] = 0 THEN r2 ELSE SetPri(r2, t, RequiredPriority(r2, t))
      <4>1. ~(r1.holdCount[m] > 0)
        BY <2>1, <2>5, <2>7
      <4> QED
        BY <2>2, <4>1
    <3>7. ReqBut(r, {}) => ReqBut(r2, {t}) /\ (r2.clnPri[m] = 0 => ReqBut(r2, {}))
      BY <2>4, <3>2, <3>3, <3>5, GaveUpReq DEF Acted
    <3>8. CASE r2.clnPri[m] = 0
      BY <3>2, <3>5, <3>6, <3>7, <3>8 DEF Acted
    <3>9. CASE r2.clnPri[m] # 0
      <4> DEFINE p == RequiredPriority(r2, t)
      <4>1. p \in Pri /\ IsReq(r2, t, p)
        BY <3>3, RequiredIs
      <4>2. v = SetPri(r2, t, p)
        BY <3>6, <3>9
      <4> HIDE DEF p
      <4>3. /\ World(v, {t}) /\ SameCtl(r2, v) /\ SameRun(r2, v) /\ SameWhere(r2, v)
            /\ v.fault = r2.fault /\ (ReqBut(r2, {t}) /\ IsReq(r2, t, p) => ReqBut(v, {}))
        BY <3>2, <3>4, <4>1, <4>2, PriWorld
      <4>4. SameOwnAll(r, v) /\ SameWait(r, v, t) /\ v.fault = r.fault /\ v.phase = r.phase
        BY <3>5, <4>3 DEF SameCtl, SameRun, SameWhere, SameOwnAll, SameWait
      <4> QED
        BY <3>7, <4>1, <4>3, <4>4 DEF Acted
    <3> QED
      BY <3>8, <3>9
  <2> QED
    BY <2>6, <2>7
<1> QED
  BY <1>2, <1>3

\* What t goes on with.
SetPc(r, t, a) == [r EXCEPT !.pc[t] = a]
SetPcTo(r, s, t, a) ==
    /\ s.pc[t] = a /\ s.obj = r.obj /\ s.cond = r.cond /\ s.cs = r.cs /\ s.susp = r.susp
    /\ s.csFunction = r.csFunction /\ s.blocked = r.blocked /\ s.timed = r.timed
    /\ s.ret = r.ret /\ s.todo = r.todo /\ s.fault = r.fault
\* SetPc changes the thread's own fields.
LEMMA SetPcOwn ==
    ASSUME NEW r, Rec(r), CtlT(r), RunT(r), NEW t \in Thread, NEW a \in Cont, NEW s,
           s = SetPc(r, t, a)
    PROVE  OwnStep(r, s, t) /\ SetPcTo(r, s, t, a)
<1>1. /\ SameK(r, s) /\ s.obj = r.obj /\ s.cond = r.cond /\ s.cs = r.cs /\ s.susp = r.susp
      /\ s.csFunction = r.csFunction /\ s.blocked = r.blocked /\ s.timed = r.timed
      /\ s.ret = r.ret /\ s.todo = r.todo /\ s.fault = r.fault
  BY SMT DEF Rec, Fields, SetPc, SameK, SameWhere, SameQ, SameCnt
<1>2. s.pc = [r.pc EXCEPT ![t] = a]
  BY SMT DEF Rec, Fields, SetPc
<1>3. Rec(s)
  <2> DEFINE x == [r.pc EXCEPT ![t] = a]
  <2>1. s = [r EXCEPT !.pc = x] /\ DOMAIN s = Fields
    BY SMT DEF Rec, Fields, SetPc
  <2> HIDE DEF x
  <2>2. s = [f \in DOMAIN s |-> s[f]]
    BY <2>1, SMT
  <2> QED
    BY <2>1, <2>2 DEF Rec
<1>4. CtlT(s) /\ RunT(s)
  BY <1>1, <1>2 DEF CtlT, RunT, SameK, Rets
<1>5. \A u \in Thread : u # t => SameOwn(r, s, u)
  BY <1>1, <1>2 DEF SameOwn, CtlT, RunT
<1>6. SetPcTo(r, s, t, a)
  BY <1>1, <1>2 DEF SetPcTo, CtlT, RunT
<1> QED
  BY <1>1, <1>3, <1>4, <1>5, <1>6 DEF OwnStep

SetPcObj(r, t, a, o) == [r EXCEPT !.pc[t] = a, !.obj[t] = o]
SetPcObjTo(r, s, t, a, o) ==
    /\ s.pc[t] = a /\ s.obj[t] = o /\ s.cond = r.cond /\ s.cs = r.cs /\ s.susp = r.susp
    /\ s.csFunction = r.csFunction /\ s.blocked = r.blocked /\ s.timed = r.timed
    /\ s.ret = r.ret /\ s.todo = r.todo /\ s.fault = r.fault
\* SetPcObj changes the thread's own fields.
LEMMA SetPcObjOwn ==
    ASSUME NEW r, Rec(r), CtlT(r), RunT(r), NEW t \in Thread, NEW a \in Cont,
           NEW o \in Obj \cup {Null}, NEW s, s = SetPcObj(r, t, a, o)
    PROVE  OwnStep(r, s, t) /\ SetPcObjTo(r, s, t, a, o)
<1>1. /\ SameK(r, s) /\ s.cond = r.cond /\ s.cs = r.cs /\ s.susp = r.susp
      /\ s.csFunction = r.csFunction /\ s.blocked = r.blocked /\ s.timed = r.timed
      /\ s.ret = r.ret /\ s.todo = r.todo /\ s.fault = r.fault
  BY SMT DEF Rec, Fields, SetPcObj, SameK, SameWhere, SameQ, SameCnt
<1>2. s.pc = [r.pc EXCEPT ![t] = a] /\ s.obj = [r.obj EXCEPT ![t] = o]
  BY SMT DEF Rec, Fields, SetPcObj
<1>3. Rec(s)
  <2> DEFINE q == [r EXCEPT !.pc[t] = a]
             x == [r.obj EXCEPT ![t] = o]
  <2>1. s = [q EXCEPT !.obj = x] /\ DOMAIN s = Fields
    BY SMT DEF Rec, Fields, SetPcObj
  <2> HIDE DEF q, x
  <2>2. s = [f \in DOMAIN s |-> s[f]]
    BY <2>1, SMT
  <2> QED
    BY <2>1, <2>2 DEF Rec
<1>4. CtlT(s) /\ RunT(s)
  BY <1>1, <1>2 DEF CtlT, RunT, SameK, Rets
<1>5. \A u \in Thread : u # t => SameOwn(r, s, u)
  BY <1>1, <1>2 DEF SameOwn, CtlT, RunT
<1>6. SetPcObjTo(r, s, t, a, o)
  BY <1>1, <1>2 DEF SetPcObjTo, CtlT, RunT
<1> QED
  BY <1>1, <1>3, <1>4, <1>5, <1>6 DEF OwnStep

SetCall(r, t, a, o, c) == [r EXCEPT !.pc[t] = a, !.obj[t] = o, !.cond[t] = c]
SetCallTo(r, s, t, a, o, c) ==
    /\ s.pc[t] = a /\ s.obj[t] = o /\ s.cond[t] = c /\ s.cs = r.cs /\ s.susp = r.susp
    /\ s.csFunction = r.csFunction /\ s.blocked = r.blocked /\ s.timed = r.timed
    /\ s.ret = r.ret /\ s.todo = r.todo /\ s.fault = r.fault
\* SetCall changes the thread's own fields.
LEMMA SetCallOwn ==
    ASSUME NEW r, Rec(r), CtlT(r), RunT(r), NEW t \in Thread, NEW a \in Cont,
           NEW o \in Obj \cup {Null}, NEW c \in Cond \cup {Null}, NEW s, s = SetCall(r, t, a, o, c)
    PROVE  OwnStep(r, s, t) /\ SetCallTo(r, s, t, a, o, c)
<1>1. /\ SameK(r, s) /\ s.cs = r.cs /\ s.susp = r.susp /\ s.csFunction = r.csFunction
      /\ s.blocked = r.blocked /\ s.timed = r.timed /\ s.ret = r.ret /\ s.todo = r.todo
      /\ s.fault = r.fault
  BY SMT DEF Rec, Fields, SetCall, SameK, SameWhere, SameQ, SameCnt
<1>2. /\ s.pc = [r.pc EXCEPT ![t] = a] /\ s.obj = [r.obj EXCEPT ![t] = o]
      /\ s.cond = [r.cond EXCEPT ![t] = c]
  BY SMT DEF Rec, Fields, SetCall
<1>3. Rec(s)
  <2> DEFINE q == [r EXCEPT !.pc[t] = a, !.obj[t] = o]
             x == [r.cond EXCEPT ![t] = c]
  <2>1. s = [q EXCEPT !.cond = x] /\ DOMAIN s = Fields
    BY SMT DEF Rec, Fields, SetCall
  <2> HIDE DEF q, x
  <2>2. s = [f \in DOMAIN s |-> s[f]]
    BY <2>1, SMT
  <2> QED
    BY <2>1, <2>2 DEF Rec
<1>4. CtlT(s) /\ RunT(s)
  BY <1>1, <1>2 DEF CtlT, RunT, SameK, Rets
<1>5. \A u \in Thread : u # t => SameOwn(r, s, u)
  BY <1>1, <1>2 DEF SameOwn, CtlT, RunT
<1>6. SetCallTo(r, s, t, a, o, c)
  BY <1>1, <1>2 DEF SetCallTo, CtlT, RunT
<1> QED
  BY <1>1, <1>3, <1>4, <1>5, <1>6 DEF OwnStep

SetSignal(r, t, a, o, n) == [r EXCEPT !.pc[t] = a, !.obj[t] = o, !.todo[t] = n]
SetSignalTo(r, s, t, a, o, n) ==
    /\ s.pc[t] = a /\ s.obj[t] = o /\ s.cond = r.cond /\ s.cs = r.cs /\ s.susp = r.susp
    /\ s.csFunction = r.csFunction /\ s.blocked = r.blocked /\ s.timed = r.timed
    /\ s.ret = r.ret /\ s.todo[t] = n /\ s.fault = r.fault
\* SetSignal changes the thread's own fields.
LEMMA SetSignalOwn ==
    ASSUME NEW r, Rec(r), CtlT(r), RunT(r), NEW t \in Thread, NEW a \in Cont,
           NEW o \in Obj \cup {Null}, NEW n \in Nat, NEW s, s = SetSignal(r, t, a, o, n)
    PROVE  OwnStep(r, s, t) /\ SetSignalTo(r, s, t, a, o, n)
<1>1. /\ SameK(r, s) /\ s.cond = r.cond /\ s.cs = r.cs /\ s.susp = r.susp
      /\ s.csFunction = r.csFunction /\ s.blocked = r.blocked /\ s.timed = r.timed
      /\ s.ret = r.ret /\ s.fault = r.fault
  BY SMT DEF Rec, Fields, SetSignal, SameK, SameWhere, SameQ, SameCnt
<1>2. /\ s.pc = [r.pc EXCEPT ![t] = a] /\ s.obj = [r.obj EXCEPT ![t] = o]
      /\ s.todo = [r.todo EXCEPT ![t] = n]
  BY SMT DEF Rec, Fields, SetSignal
<1>3. Rec(s)
  <2> DEFINE q == [r EXCEPT !.pc[t] = a, !.obj[t] = o]
             x == [r.todo EXCEPT ![t] = n]
  <2>1. s = [q EXCEPT !.todo = x] /\ DOMAIN s = Fields
    BY SMT DEF Rec, Fields, SetSignal
  <2> HIDE DEF q, x
  <2>2. s = [f \in DOMAIN s |-> s[f]]
    BY <2>1, SMT
  <2> QED
    BY <2>1, <2>2 DEF Rec
<1>4. CtlT(s) /\ RunT(s)
  BY <1>1, <1>2 DEF CtlT, RunT, SameK, Rets
<1>5. \A u \in Thread : u # t => SameOwn(r, s, u)
  BY <1>1, <1>2 DEF SameOwn, CtlT, RunT
<1>6. SetSignalTo(r, s, t, a, o, n)
  BY <1>1, <1>2 DEF SetSignalTo, CtlT, RunT
<1> QED
  BY <1>1, <1>3, <1>4, <1>5, <1>6 DEF OwnStep

SetBroad(r, t, c, o, n) == [r EXCEPT !.cond[t] = c, !.obj[t] = o, !.todo[t] = n]
SetBroadTo(r, s, t, c, o, n) ==
    /\ s.pc = r.pc /\ s.obj[t] = o /\ s.cond[t] = c /\ s.cs = r.cs /\ s.susp = r.susp
    /\ s.csFunction = r.csFunction /\ s.blocked = r.blocked /\ s.timed = r.timed
    /\ s.ret = r.ret /\ s.todo[t] = n /\ s.fault = r.fault
\* SetBroad changes the thread's own fields.
LEMMA SetBroadOwn ==
    ASSUME NEW r, Rec(r), CtlT(r), RunT(r), NEW t \in Thread, NEW c \in Cond \cup {Null},
           NEW o \in Obj \cup {Null}, NEW n \in Nat, NEW s, s = SetBroad(r, t, c, o, n)
    PROVE  OwnStep(r, s, t) /\ SetBroadTo(r, s, t, c, o, n)
<1>1. /\ SameK(r, s) /\ s.pc = r.pc /\ s.cs = r.cs /\ s.susp = r.susp
      /\ s.csFunction = r.csFunction /\ s.blocked = r.blocked /\ s.timed = r.timed
      /\ s.ret = r.ret /\ s.fault = r.fault
  BY SMT DEF Rec, Fields, SetBroad, SameK, SameWhere, SameQ, SameCnt
<1>2. /\ s.cond = [r.cond EXCEPT ![t] = c] /\ s.obj = [r.obj EXCEPT ![t] = o]
      /\ s.todo = [r.todo EXCEPT ![t] = n]
  BY SMT DEF Rec, Fields, SetBroad
<1>3. Rec(s)
  <2> DEFINE q == [r EXCEPT !.cond[t] = c, !.obj[t] = o]
             x == [r.todo EXCEPT ![t] = n]
  <2>1. s = [q EXCEPT !.todo = x] /\ DOMAIN s = Fields
    BY SMT DEF Rec, Fields, SetBroad
  <2> HIDE DEF q, x
  <2>2. s = [f \in DOMAIN s |-> s[f]]
    BY <2>1, SMT
  <2> QED
    BY <2>1, <2>2 DEF Rec
<1>4. CtlT(s) /\ RunT(s)
  BY <1>1, <1>2 DEF CtlT, RunT, SameK, Rets
<1>5. \A u \in Thread : u # t => SameOwn(r, s, u)
  BY <1>1, <1>2 DEF SameOwn, CtlT, RunT
<1>6. SetBroadTo(r, s, t, c, o, n)
  BY <1>1, <1>2 DEF SetBroadTo, CtlT, RunT
<1> QED
  BY <1>1, <1>3, <1>4, <1>5, <1>6 DEF OwnStep

SetTodo(r, t, n) == [r EXCEPT !.todo[t] = n]
SetTodoTo(r, s, t, n) ==
    /\ s.pc = r.pc /\ s.obj = r.obj /\ s.cond = r.cond /\ s.cs = r.cs /\ s.susp = r.susp
    /\ s.csFunction = r.csFunction /\ s.blocked = r.blocked /\ s.timed = r.timed
    /\ s.ret = r.ret /\ s.todo[t] = n /\ s.fault = r.fault
\* SetTodo changes the thread's own fields.
LEMMA SetTodoOwn ==
    ASSUME NEW r, Rec(r), CtlT(r), RunT(r), NEW t \in Thread, NEW n \in Nat, NEW s,
           s = SetTodo(r, t, n)
    PROVE  OwnStep(r, s, t) /\ SetTodoTo(r, s, t, n)
<1>1. /\ SameK(r, s) /\ s.pc = r.pc /\ s.obj = r.obj /\ s.cond = r.cond /\ s.cs = r.cs
      /\ s.susp = r.susp /\ s.csFunction = r.csFunction /\ s.blocked = r.blocked
      /\ s.timed = r.timed /\ s.ret = r.ret /\ s.fault = r.fault
  BY SMT DEF Rec, Fields, SetTodo, SameK, SameWhere, SameQ, SameCnt
<1>2. s.todo = [r.todo EXCEPT ![t] = n]
  BY SMT DEF Rec, Fields, SetTodo
<1>3. Rec(s)
  <2> DEFINE x == [r.todo EXCEPT ![t] = n]
  <2>1. s = [r EXCEPT !.todo = x] /\ DOMAIN s = Fields
    BY SMT DEF Rec, Fields, SetTodo
  <2> HIDE DEF x
  <2>2. s = [f \in DOMAIN s |-> s[f]]
    BY <2>1, SMT
  <2> QED
    BY <2>1, <2>2 DEF Rec
<1>4. CtlT(s) /\ RunT(s)
  BY <1>1, <1>2 DEF CtlT, RunT, SameK, Rets
<1>5. \A u \in Thread : u # t => SameOwn(r, s, u)
  BY <1>1, <1>2 DEF SameOwn, CtlT, RunT
<1>6. SetTodoTo(r, s, t, n)
  BY <1>1, <1>2 DEF SetTodoTo, CtlT, RunT
<1> QED
  BY <1>1, <1>3, <1>4, <1>5, <1>6 DEF OwnStep

SetExit(r, t) == [r EXCEPT !.csFunction[t] = -1, !.pc[t] = "Exit"]
SetExitTo(r, s, t) ==
    /\ s.pc[t] = "Exit" /\ s.obj = r.obj /\ s.cond = r.cond /\ s.cs = r.cs /\ s.susp = r.susp
    /\ s.csFunction[t] = -1 /\ s.blocked = r.blocked /\ s.timed = r.timed /\ s.ret = r.ret
    /\ s.todo = r.todo /\ s.fault = r.fault
\* SetExit changes the thread's own fields.
LEMMA SetExitOwn ==
    ASSUME NEW r, Rec(r), CtlT(r), RunT(r), NEW t \in Thread, NEW s, s = SetExit(r, t)
    PROVE  OwnStep(r, s, t) /\ SetExitTo(r, s, t)
<1>1. /\ SameK(r, s) /\ s.obj = r.obj /\ s.cond = r.cond /\ s.cs = r.cs /\ s.susp = r.susp
      /\ s.blocked = r.blocked /\ s.timed = r.timed /\ s.ret = r.ret /\ s.todo = r.todo
      /\ s.fault = r.fault
  BY SMT DEF Rec, Fields, SetExit, SameK, SameWhere, SameQ, SameCnt
<1>2. s.csFunction = [r.csFunction EXCEPT ![t] = -1] /\ s.pc = [r.pc EXCEPT ![t] = "Exit"]
  BY SMT DEF Rec, Fields, SetExit
<1>3. Rec(s)
  <2> DEFINE q == [r EXCEPT !.csFunction[t] = -1]
             x == [r.pc EXCEPT ![t] = "Exit"]
  <2>1. s = [q EXCEPT !.pc = x] /\ DOMAIN s = Fields
    BY SMT DEF Rec, Fields, SetExit
  <2> HIDE DEF q, x
  <2>2. s = [f \in DOMAIN s |-> s[f]]
    BY <2>1, SMT
  <2> QED
    BY <2>1, <2>2 DEF Rec
<1>4. CtlT(s) /\ RunT(s)
  BY <1>1, <1>2 DEF CtlT, RunT, SameK, Cont, Rets
<1>5. \A u \in Thread : u # t => SameOwn(r, s, u)
  BY <1>1, <1>2 DEF SameOwn, CtlT, RunT
<1>6. SetExitTo(r, s, t)
  BY <1>1, <1>2 DEF SetExitTo, CtlT, RunT
<1> QED
  BY <1>1, <1>3, <1>4, <1>5, <1>6 DEF OwnStep

SetLeft(r, t, n) == [r EXCEPT !.cs[t] = FALSE, !.susp[t] = n, !.csFunction[t] = 0]
SetLeftTo(r, s, t, n) ==
    /\ s.pc = r.pc /\ s.obj = r.obj /\ s.cond = r.cond /\ ~s.cs[t] /\ s.susp[t] = n
    /\ s.csFunction[t] = 0 /\ s.blocked = r.blocked /\ s.timed = r.timed /\ s.ret = r.ret
    /\ s.todo = r.todo /\ s.fault = r.fault
\* SetLeft changes the thread's own fields.
LEMMA SetLeftOwn ==
    ASSUME NEW r, Rec(r), CtlT(r), RunT(r), NEW t \in Thread, NEW n \in Nat, NEW s,
           s = SetLeft(r, t, n)
    PROVE  OwnStep(r, s, t) /\ SetLeftTo(r, s, t, n)
<1>1. /\ SameK(r, s) /\ s.pc = r.pc /\ s.obj = r.obj /\ s.cond = r.cond /\ s.blocked = r.blocked
      /\ s.timed = r.timed /\ s.ret = r.ret /\ s.todo = r.todo /\ s.fault = r.fault
  BY SMT DEF Rec, Fields, SetLeft, SameK, SameWhere, SameQ, SameCnt
<1>2. /\ s.cs = [r.cs EXCEPT ![t] = FALSE] /\ s.susp = [r.susp EXCEPT ![t] = n]
      /\ s.csFunction = [r.csFunction EXCEPT ![t] = 0]
  BY SMT DEF Rec, Fields, SetLeft
<1>3. Rec(s)
  <2> DEFINE q == [r EXCEPT !.cs[t] = FALSE, !.susp[t] = n]
             x == [r.csFunction EXCEPT ![t] = 0]
  <2>1. s = [q EXCEPT !.csFunction = x] /\ DOMAIN s = Fields
    BY SMT DEF Rec, Fields, SetLeft
  <2> HIDE DEF q, x
  <2>2. s = [f \in DOMAIN s |-> s[f]]
    BY <2>1, SMT
  <2> QED
    BY <2>1, <2>2 DEF Rec
<1>4. CtlT(s) /\ RunT(s)
  BY <1>1, <1>2 DEF CtlT, RunT, SameK, Rets
<1>5. \A u \in Thread : u # t => SameOwn(r, s, u)
  BY <1>1, <1>2 DEF SameOwn, CtlT, RunT
<1>6. SetLeftTo(r, s, t, n)
  BY <1>1, <1>2 DEF SetLeftTo, CtlT, RunT
<1> QED
  BY <1>1, <1>3, <1>4, <1>5, <1>6 DEF OwnStep

SetDying(r, t) == [r EXCEPT !.susp[t] = 0, !.cs[t] = TRUE, !.csFunction[t] = -1, !.pc[t] = "Exit"]
SetDyingTo(r, s, t) ==
    /\ s.pc[t] = "Exit" /\ s.obj = r.obj /\ s.cond = r.cond /\ s.cs[t] /\ s.susp[t] = 0
    /\ s.csFunction[t] = -1 /\ s.blocked = r.blocked /\ s.timed = r.timed /\ s.ret = r.ret
    /\ s.todo = r.todo /\ s.fault = r.fault
\* SetDying changes the thread's own fields.
LEMMA SetDyingOwn ==
    ASSUME NEW r, Rec(r), CtlT(r), RunT(r), NEW t \in Thread, NEW s, s = SetDying(r, t)
    PROVE  OwnStep(r, s, t) /\ SetDyingTo(r, s, t)
<1>1. /\ SameK(r, s) /\ s.obj = r.obj /\ s.cond = r.cond /\ s.blocked = r.blocked
      /\ s.timed = r.timed /\ s.ret = r.ret /\ s.todo = r.todo /\ s.fault = r.fault
  BY SMT DEF Rec, Fields, SetDying, SameK, SameWhere, SameQ, SameCnt
<1>2. /\ s.susp = [r.susp EXCEPT ![t] = 0] /\ s.cs = [r.cs EXCEPT ![t] = TRUE]
      /\ s.csFunction = [r.csFunction EXCEPT ![t] = -1] /\ s.pc = [r.pc EXCEPT ![t] = "Exit"]
  BY SMT DEF Rec, Fields, SetDying
<1>3. Rec(s)
  <2> DEFINE q == [r EXCEPT !.susp[t] = 0, !.cs[t] = TRUE, !.csFunction[t] = -1]
             x == [r.pc EXCEPT ![t] = "Exit"]
  <2>1. s = [q EXCEPT !.pc = x] /\ DOMAIN s = Fields
    BY SMT DEF Rec, Fields, SetDying
  <2> HIDE DEF q, x
  <2>2. s = [f \in DOMAIN s |-> s[f]]
    BY <2>1, SMT
  <2> QED
    BY <2>1, <2>2 DEF Rec
<1>4. CtlT(s) /\ RunT(s)
  BY <1>1, <1>2 DEF CtlT, RunT, SameK, Cont, Rets
<1>5. \A u \in Thread : u # t => SameOwn(r, s, u)
  BY <1>1, <1>2 DEF SameOwn, CtlT, RunT
<1>6. SetDyingTo(r, s, t)
  BY <1>1, <1>2 DEF SetDyingTo, CtlT, RunT
<1> QED
  BY <1>1, <1>3, <1>4, <1>5, <1>6 DEF OwnStep

SetCsf(r, t, n) == [r EXCEPT !.csFunction[t] = n]
SetCsfTo(r, s, t, n) ==
    /\ s.pc = r.pc /\ s.obj = r.obj /\ s.cond = r.cond /\ s.cs = r.cs /\ s.susp = r.susp
    /\ s.csFunction[t] = n /\ s.blocked = r.blocked /\ s.timed = r.timed /\ s.ret = r.ret
    /\ s.todo = r.todo /\ s.fault = r.fault
\* SetCsf changes the thread's own fields.
LEMMA SetCsfOwn ==
    ASSUME NEW r, Rec(r), CtlT(r), RunT(r), NEW t \in Thread, NEW n \in Int, NEW s,
           s = SetCsf(r, t, n)
    PROVE  OwnStep(r, s, t) /\ SetCsfTo(r, s, t, n)
<1>1. /\ SameK(r, s) /\ s.pc = r.pc /\ s.obj = r.obj /\ s.cond = r.cond /\ s.cs = r.cs
      /\ s.susp = r.susp /\ s.blocked = r.blocked /\ s.timed = r.timed /\ s.ret = r.ret
      /\ s.todo = r.todo /\ s.fault = r.fault
  BY SMT DEF Rec, Fields, SetCsf, SameK, SameWhere, SameQ, SameCnt
<1>2. s.csFunction = [r.csFunction EXCEPT ![t] = n]
  BY SMT DEF Rec, Fields, SetCsf
<1>3. Rec(s)
  <2> DEFINE x == [r.csFunction EXCEPT ![t] = n]
  <2>1. s = [r EXCEPT !.csFunction = x] /\ DOMAIN s = Fields
    BY SMT DEF Rec, Fields, SetCsf
  <2> HIDE DEF x
  <2>2. s = [f \in DOMAIN s |-> s[f]]
    BY <2>1, SMT
  <2> QED
    BY <2>1, <2>2 DEF Rec
<1>4. CtlT(s) /\ RunT(s)
  BY <1>1, <1>2 DEF CtlT, RunT, SameK, Rets
<1>5. \A u \in Thread : u # t => SameOwn(r, s, u)
  BY <1>1, <1>2 DEF SameOwn, CtlT, RunT
<1>6. SetCsfTo(r, s, t, n)
  BY <1>1, <1>2 DEF SetCsfTo, CtlT, RunT
<1> QED
  BY <1>1, <1>3, <1>4, <1>5, <1>6 DEF OwnStep

SetSusp(r, t, n) == [r EXCEPT !.susp[t] = n]
SetSuspTo(r, s, t, n) ==
    /\ s.pc = r.pc /\ s.obj = r.obj /\ s.cond = r.cond /\ s.cs = r.cs /\ s.susp[t] = n
    /\ s.csFunction = r.csFunction /\ s.blocked = r.blocked /\ s.timed = r.timed
    /\ s.ret = r.ret /\ s.todo = r.todo /\ s.fault = r.fault
\* SetSusp changes the thread's own fields.
LEMMA SetSuspOwn ==
    ASSUME NEW r, Rec(r), CtlT(r), RunT(r), NEW t \in Thread, NEW n \in Nat, NEW s,
           s = SetSusp(r, t, n)
    PROVE  OwnStep(r, s, t) /\ SetSuspTo(r, s, t, n)
<1>1. /\ SameK(r, s) /\ s.pc = r.pc /\ s.obj = r.obj /\ s.cond = r.cond /\ s.cs = r.cs
      /\ s.csFunction = r.csFunction /\ s.blocked = r.blocked /\ s.timed = r.timed
      /\ s.ret = r.ret /\ s.todo = r.todo /\ s.fault = r.fault
  BY SMT DEF Rec, Fields, SetSusp, SameK, SameWhere, SameQ, SameCnt
<1>2. s.susp = [r.susp EXCEPT ![t] = n]
  BY SMT DEF Rec, Fields, SetSusp
<1>3. Rec(s)
  <2> DEFINE x == [r.susp EXCEPT ![t] = n]
  <2>1. s = [r EXCEPT !.susp = x] /\ DOMAIN s = Fields
    BY SMT DEF Rec, Fields, SetSusp
  <2> HIDE DEF x
  <2>2. s = [f \in DOMAIN s |-> s[f]]
    BY <2>1, SMT
  <2> QED
    BY <2>1, <2>2 DEF Rec
<1>4. CtlT(s) /\ RunT(s)
  BY <1>1, <1>2 DEF CtlT, RunT, SameK, Rets
<1>5. \A u \in Thread : u # t => SameOwn(r, s, u)
  BY <1>1, <1>2 DEF SameOwn, CtlT, RunT
<1>6. SetSuspTo(r, s, t, n)
  BY <1>1, <1>2 DEF SetSuspTo, CtlT, RunT
<1> QED
  BY <1>1, <1>3, <1>4, <1>5, <1>6 DEF OwnStep

BackTo(r, s, t) ==
    /\ s.pc[t] = "run" /\ s.obj[t] = Null /\ s.cond[t] = Null /\ s.cs = r.cs /\ s.susp = r.susp
    /\ s.csFunction = r.csFunction /\ s.blocked = r.blocked /\ s.timed = r.timed
    /\ s.ret[t] = "KErrNone" /\ s.todo = r.todo /\ s.fault = r.fault
\* Back changes the thread's own fields.
LEMMA BackOwn ==
    ASSUME NEW r, Rec(r), CtlT(r), RunT(r), NEW t \in Thread, NEW s, s = Back(r, t)
    PROVE  OwnStep(r, s, t) /\ BackTo(r, s, t)
<1>1. /\ SameK(r, s) /\ s.cs = r.cs /\ s.susp = r.susp /\ s.csFunction = r.csFunction
      /\ s.blocked = r.blocked /\ s.timed = r.timed /\ s.todo = r.todo /\ s.fault = r.fault
  BY SMT DEF Rec, Fields, Back, SameK, SameWhere, SameQ, SameCnt
<1>2. /\ s.pc = [r.pc EXCEPT ![t] = "run"] /\ s.obj = [r.obj EXCEPT ![t] = Null]
      /\ s.cond = [r.cond EXCEPT ![t] = Null] /\ s.ret = [r.ret EXCEPT ![t] = "KErrNone"]
  BY SMT DEF Rec, Fields, Back
<1>3. Rec(s)
  <2> DEFINE q == [r EXCEPT !.pc[t] = "run", !.obj[t] = Null, !.cond[t] = Null]
             x == [r.ret EXCEPT ![t] = "KErrNone"]
  <2>1. s = [q EXCEPT !.ret = x] /\ DOMAIN s = Fields
    BY SMT DEF Rec, Fields, Back
  <2> HIDE DEF q, x
  <2>2. s = [f \in DOMAIN s |-> s[f]]
    BY <2>1, SMT
  <2> QED
    BY <2>1, <2>2 DEF Rec
<1>4. CtlT(s) /\ RunT(s)
  BY <1>1, <1>2 DEF CtlT, RunT, SameK, Cont, Rets
<1>5. \A u \in Thread : u # t => SameOwn(r, s, u)
  BY <1>1, <1>2 DEF SameOwn, CtlT, RunT
<1>6. BackTo(r, s, t)
  BY <1>1, <1>2 DEF BackTo, CtlT, RunT
<1> QED
  BY <1>1, <1>3, <1>4, <1>5, <1>6 DEF OwnStep

EnterCSTo(r, s, t) ==
    /\ s.pc = r.pc /\ s.obj = r.obj /\ s.cond = r.cond /\ s.cs[t] /\ s.susp = r.susp
    /\ s.csFunction = r.csFunction /\ s.blocked = r.blocked /\ s.timed = r.timed
    /\ s.ret = r.ret /\ s.todo = r.todo /\ s.fault = r.fault
\* EnterCS changes the thread's own fields.
LEMMA EnterCSOwn ==
    ASSUME NEW r, Rec(r), CtlT(r), RunT(r), NEW t \in Thread, NEW s, s = EnterCS(r, t)
    PROVE  OwnStep(r, s, t) /\ EnterCSTo(r, s, t)
<1>1. /\ SameK(r, s) /\ s.pc = r.pc /\ s.obj = r.obj /\ s.cond = r.cond /\ s.susp = r.susp
      /\ s.csFunction = r.csFunction /\ s.blocked = r.blocked /\ s.timed = r.timed
      /\ s.ret = r.ret /\ s.todo = r.todo /\ s.fault = r.fault
  BY SMT DEF Rec, Fields, EnterCS, SameK, SameWhere, SameQ, SameCnt
<1>2. s.cs = [r.cs EXCEPT ![t] = TRUE]
  BY SMT DEF Rec, Fields, EnterCS
<1>3. Rec(s)
  <2> DEFINE x == [r.cs EXCEPT ![t] = TRUE]
  <2>1. s = [r EXCEPT !.cs = x] /\ DOMAIN s = Fields
    BY SMT DEF Rec, Fields, EnterCS
  <2> HIDE DEF x
  <2>2. s = [f \in DOMAIN s |-> s[f]]
    BY <2>1, SMT
  <2> QED
    BY <2>1, <2>2 DEF Rec
<1>4. CtlT(s) /\ RunT(s)
  BY <1>1, <1>2 DEF CtlT, RunT, SameK, Rets
<1>5. \A u \in Thread : u # t => SameOwn(r, s, u)
  BY <1>1, <1>2 DEF SameOwn, CtlT, RunT
<1>6. EnterCSTo(r, s, t)
  BY <1>1, <1>2 DEF EnterCSTo, CtlT, RunT
<1> QED
  BY <1>1, <1>3, <1>4, <1>5, <1>6 DEF OwnStep

BlockTo(r, s, t, b) ==
    /\ s.pc = r.pc /\ s.obj = r.obj /\ s.cond = r.cond /\ s.cs = r.cs /\ s.susp = r.susp
    /\ s.csFunction = r.csFunction /\ s.blocked[t] /\ (s.timed[t] <=> b)
    /\ s.ret[t] = "KErrNone" /\ s.todo = r.todo /\ s.fault = r.fault
\* Block changes the thread's own fields.
LEMMA BlockOwn ==
    ASSUME NEW r, Rec(r), CtlT(r), RunT(r), NEW t \in Thread, NEW b \in BOOLEAN, NEW s,
           s = Block(r, t, b)
    PROVE  OwnStep(r, s, t) /\ BlockTo(r, s, t, b)
<1>1. /\ SameK(r, s) /\ s.pc = r.pc /\ s.obj = r.obj /\ s.cond = r.cond /\ s.cs = r.cs
      /\ s.susp = r.susp /\ s.csFunction = r.csFunction /\ s.todo = r.todo /\ s.fault = r.fault
  BY SMT DEF Rec, Fields, Block, SameK, SameWhere, SameQ, SameCnt
<1>2. /\ s.blocked = [r.blocked EXCEPT ![t] = TRUE] /\ s.timed = [r.timed EXCEPT ![t] = b]
      /\ s.ret = [r.ret EXCEPT ![t] = "KErrNone"]
  BY SMT DEF Rec, Fields, Block
<1>3. Rec(s)
  <2> DEFINE q == [r EXCEPT !.blocked[t] = TRUE, !.timed[t] = b]
             x == [r.ret EXCEPT ![t] = "KErrNone"]
  <2>1. s = [q EXCEPT !.ret = x] /\ DOMAIN s = Fields
    BY SMT DEF Rec, Fields, Block
  <2> HIDE DEF q, x
  <2>2. s = [f \in DOMAIN s |-> s[f]]
    BY <2>1, SMT
  <2> QED
    BY <2>1, <2>2 DEF Rec
<1>4. CtlT(s) /\ RunT(s)
  BY <1>1, <1>2 DEF CtlT, RunT, SameK, Rets
<1>5. \A u \in Thread : u # t => SameOwn(r, s, u)
  BY <1>1, <1>2 DEF SameOwn, CtlT, RunT
<1>6. BlockTo(r, s, t, b)
  BY <1>1, <1>2 DEF BlockTo, CtlT, RunT
<1> QED
  BY <1>1, <1>3, <1>4, <1>5, <1>6 DEF OwnStep

ThreadReleaseTo(r, s, t, c) ==
    /\ s.pc = r.pc /\ s.obj = r.obj /\ s.cond = r.cond /\ s.cs = r.cs /\ s.susp = r.susp
    /\ s.csFunction = r.csFunction /\ ~s.blocked[t] /\ ~s.timed[t] /\ s.ret[t] = c
    /\ s.todo = r.todo /\ s.fault = r.fault
\* ThreadRelease changes the thread's own fields.
LEMMA ThreadReleaseOwn ==
    ASSUME NEW r, Rec(r), CtlT(r), RunT(r), NEW t \in Thread, NEW c \in Rets, NEW s,
           s = ThreadRelease(r, t, c)
    PROVE  OwnStep(r, s, t) /\ ThreadReleaseTo(r, s, t, c)
<1>1. /\ SameK(r, s) /\ s.pc = r.pc /\ s.obj = r.obj /\ s.cond = r.cond /\ s.cs = r.cs
      /\ s.susp = r.susp /\ s.csFunction = r.csFunction /\ s.todo = r.todo /\ s.fault = r.fault
  BY SMT DEF Rec, Fields, ThreadRelease, SameK, SameWhere, SameQ, SameCnt
<1>2. /\ s.blocked = [r.blocked EXCEPT ![t] = FALSE] /\ s.timed = [r.timed EXCEPT ![t] = FALSE]
      /\ s.ret = [r.ret EXCEPT ![t] = c]
  BY SMT DEF Rec, Fields, ThreadRelease
<1>3. Rec(s)
  <2> DEFINE q == [r EXCEPT !.blocked[t] = FALSE, !.timed[t] = FALSE]
             x == [r.ret EXCEPT ![t] = c]
  <2>1. s = [q EXCEPT !.ret = x] /\ DOMAIN s = Fields
    BY SMT DEF Rec, Fields, ThreadRelease
  <2> HIDE DEF q, x
  <2>2. s = [f \in DOMAIN s |-> s[f]]
    BY <2>1, SMT
  <2> QED
    BY <2>1, <2>2 DEF Rec
<1>4. CtlT(s) /\ RunT(s)
  BY <1>1, <1>2 DEF CtlT, RunT, SameK, Rets
<1>5. \A u \in Thread : u # t => SameOwn(r, s, u)
  BY <1>1, <1>2 DEF SameOwn, CtlT, RunT
<1>6. ThreadReleaseTo(r, s, t, c)
  BY <1>1, <1>2 DEF ThreadReleaseTo, CtlT, RunT
<1> QED
  BY <1>1, <1>3, <1>4, <1>5, <1>6 DEF OwnStep

\* Two steps on own fields.
LEMMA OwnTrans ==
    ASSUME NEW r, NEW v, NEW s, NEW t, OwnStep(r, v, t), OwnStep(v, s, t)
    PROVE  OwnStep(r, s, t)
BY DEF OwnStep, SameK, SameOwn, SameWhere, SameQ, SameCnt

\* Thread t, with the processor, waits for nothing.
Mine(r, t) ==
    /\ r.mstate[t] = "EReady" /\ r.waitObj[t] = Null /\ ~r.blocked[t]
    /\ ~(r.susp[t] > 0) /\ r.csFunction[t] >= -1 /\ (~r.cs[t] => r.csFunction[t] = 0)

\* The thread is still where it was.
LEMMA ActedMine ==
    ASSUME NEW r, NEW v, NEW t, SameOwnAll(r, v), SameWait(r, v, t), Mine(r, t)
    PROVE  Mine(v, t)
BY DEF SameOwnAll, SameWait, Mine

\* What the invariant says of types.
LEMMA WorldTypes ==
    ASSUME NEW r, NEW T, World(r, T)
    PROVE  /\ Rec(r) /\ CtlT(r) /\ RunT(r) /\ CntT(r) /\ RQ(r, {}) /\ QOK(r, {})
           /\ HoldOK(r) /\ OneResets(r)
BY DEF World, QOK

\* t, on its way, ends its step by a change of its own control.
LEMMA OwnEnd ==
    ASSUME NEW r, NEW t \in Thread, World(r, {t}), NEW s, OwnStep(r, s, t),
           r.mstate[t] # "EHoldMutexPending" \/ ~(s.susp[t] > 0), s.pc[t] # "Reset", ThreadOK(s, t)
    PROVE  World(s, {})
BY OwnWorld, WorldAll DEF OfferKept, ResetKept

\* A thread that waits for nothing and runs its own code.
LEMMA ReadyOK ==
    ASSUME NEW s, NEW t, s.mstate[t] = "EReady", s.waitObj[t] = Null, ~s.blocked[t],
           s.pc[t] = "run", s.cond[t] = Null, s.csFunction[t] >= -1, ~s.cs[t] => s.csFunction[t] = 0,
           s.susp[t] > 0 => ~s.cs[t]
    PROVE  ThreadOK(s, t)
BY DEF ThreadOK, WaitOK, SuspOK, PcOK, SemWaits, MutexWaits, CondWaits, OnWaitQ, OnSuspQ

\* The call returns.
LEMMA BackWorld ==
    ASSUME NEW r, NEW t \in Thread, World(r, {t}), Mine(r, t), NEW s, s = Back(r, t)
    PROVE  World(s, {}) /\ Mine(s, t) /\ BackTo(r, s, t) /\ SameK(r, s)
<1>1. OwnStep(r, s, t) /\ BackTo(r, s, t)
  BY WorldTypes, BackOwn
<1>2. s.mstate = r.mstate /\ s.waitObj = r.waitObj /\ SameK(r, s)
  BY <1>1 DEF OwnStep, SameK, SameWhere
<1>3. Mine(s, t)
  BY <1>1, <1>2 DEF Mine, BackTo
<1>4. ThreadOK(s, t)
  BY <1>1, <1>3, ReadyOK DEF Mine, BackTo
<1>5. ~(s.susp[t] > 0) /\ s.pc[t] # "Reset"
  BY <1>1, <1>3 DEF Mine, BackTo
<1> QED
  BY <1>1, <1>2, <1>3, <1>4, <1>5, OwnEnd

\* NKern::ThreadLeaveCS.
LEMMA LeaveWorld ==
    ASSUME NEW r, NEW t \in Thread, World(r, {t}), Mine(r, t), r.pc[t] = "run", r.cond[t] = Null,
           NEW s, s = LeaveCS(r, t)
    PROVE  World(s, {}) /\ SameK(r, s) /\ s.fault = r.fault
<1>1. r.csFunction[t] \in Int /\ r.susp[t] \in Nat /\ r.susp[t] = 0
  BY WorldTypes DEF CtlT, Mine
<1>2. CASE r.csFunction[t] < 0
  <2>1. s = SetPc(r, t, "Exit")
    BY <1>2 DEF LeaveCS, SetPc
  <2>2. OwnStep(r, s, t) /\ SetPcTo(r, s, t, "Exit")
    BY <2>1, WorldTypes, SetPcOwn DEF Cont
  <2>3. s.mstate = r.mstate /\ s.waitObj = r.waitObj /\ SameK(r, s)
    BY <2>2 DEF OwnStep, SameK, SameWhere
  <2>4. s.cs[t] /\ ~(s.susp[t] > 0) /\ s.pc[t] = "Exit"
    BY <1>2, <2>2 DEF Mine, SetPcTo
  <2>5. ThreadOK(s, t)
    BY <1>2, <2>2, <2>3, <2>4 DEF SetPcTo, Mine, ThreadOK, WaitOK, SuspOK, PcOK, SemWaits,
       MutexWaits, CondWaits,
         OnWaitQ, OnSuspQ
  <2> QED
    BY <2>2, <2>3, <2>4, <2>5, OwnEnd DEF SetPcTo
<1>3. CASE ~(r.csFunction[t] < 0)
  <2> DEFINE n == r.susp[t] + r.csFunction[t]
  <2>1. n \in Nat
    BY <1>1, <1>3
  <2>2. s = SetLeft(r, t, n)
    BY <1>3 DEF LeaveCS, SetLeft
  <2> HIDE DEF n
  <2>3. OwnStep(r, s, t) /\ SetLeftTo(r, s, t, n)
    BY <2>1, <2>2, WorldTypes, SetLeftOwn
  <2>4. s.mstate = r.mstate /\ s.waitObj = r.waitObj /\ SameK(r, s)
    BY <2>3 DEF OwnStep, SameK, SameWhere
  <2>5. ThreadOK(s, t)
    BY <2>3, <2>4, ReadyOK DEF SetLeftTo, Mine
  <2>6. r.mstate[t] # "EHoldMutexPending" /\ s.pc[t] # "Reset"
    BY <2>3 DEF SetLeftTo, Mine
  <2> QED
    BY <2>3, <2>4, <2>5, <2>6, OwnEnd DEF SetLeftTo
<1> QED
  BY <1>2, <1>3

\* Two steps on own fields.
LEMMA SameKTrans ==
    ASSUME NEW r, NEW v, NEW s, SameK(r, v), SameK(v, s)
    PROVE  SameK(r, s)
BY DEF SameK, SameWhere, SameQ, SameCnt

\* The call returns and leaves the critical section.
LEMMA BackLeaveWorld ==
    ASSUME NEW r, NEW t \in Thread, World(r, {t}), Mine(r, t), NEW s, s = BackLeaveCS(r, t)
    PROVE  World(s, {}) /\ SameK(r, s) /\ s.fault = r.fault
<1> DEFINE b == Back(r, t)
<1>1. b = Back(r, t) /\ s = LeaveCS(b, t)
  BY DEF BackLeaveCS
<1> HIDE DEF b
<1>2. World(b, {}) /\ Mine(b, t) /\ BackTo(r, b, t) /\ SameK(r, b)
  BY <1>1, BackWorld
<1>3. World(b, {t}) /\ b.pc[t] = "run" /\ b.cond[t] = Null /\ b.fault = r.fault
  BY <1>2, WorldLess DEF BackTo
<1>4. World(s, {}) /\ SameK(b, s) /\ s.fault = b.fault
  BY <1>1, <1>2, <1>3, LeaveWorld
<1> QED
  BY <1>2, <1>3, <1>4, SameKTrans

\* What follows DMutex::Wait.
LEMMA AfterWorld ==
    ASSUME NEW r, NEW t \in Thread, World(r, {t}), Mine(r, t),
           r.cond[t] # Null => /\ r.obj[t] \in Mutex /\ r.phase[r.obj[t]] = "live" /\ r.cs[t]
                               /\ r.holder[r.obj[t]] = t,
           NEW s, s = AfterMutexWait(r, t)
    PROVE  World(s, {}) /\ SameK(r, s) /\ s.fault = r.fault
<1>1. CASE r.cond[t] = Null
  <2>1. s = Back(r, t)
    BY <1>1 DEF AfterMutexWait
  <2> QED
    BY <2>1, BackWorld DEF BackTo
<1>2. CASE r.cond[t] # Null
  <2>1. s = SetPc(r, t, "Broadcast")
    BY <1>2 DEF AfterMutexWait, SetPc
  <2>2. OwnStep(r, s, t) /\ SetPcTo(r, s, t, "Broadcast")
    BY <2>1, WorldTypes, SetPcOwn DEF Cont
  <2>3. /\ s.mstate = r.mstate /\ s.waitObj = r.waitObj /\ SameK(r, s)
        /\ s.phase = r.phase /\ s.holder = r.holder
    BY <2>2 DEF OwnStep, SameK, SameWhere
  <2>4. s.cs[t] /\ ~(s.susp[t] > 0) /\ s.pc[t] = "Broadcast" /\ s.cond[t] \in Cond
    BY <1>2, <2>2, WorldTypes DEF Mine, SetPcTo, CtlT
  <2>5. ThreadOK(s, t)
    BY <1>2, <2>2, <2>3, <2>4 DEF SetPcTo, Mine, ThreadOK, WaitOK, SuspOK, PcOK, SemWaits,
       MutexWaits, CondWaits,
         OnWaitQ, OnSuspQ
  <2> QED
    BY <2>2, <2>3, <2>4, <2>5, OwnEnd DEF SetPcTo
<1> QED
  BY <1>1, <1>2

\* A step of a call is steady.
LEMMA ActedSteady ==
    ASSUME NEW r, NEW v, NEW t, Acted(r, v, t)
    PROVE  Steady(r, v)
BY DEF Acted, Steady

\* A step on own fields is steady.
LEMMA SteadyK ==
    ASSUME NEW r, NEW s, SameK(r, s), s.fault = r.fault
    PROVE  Steady(r, s)
BY SteadySame DEF SameK, SameReq

\* A change of a thread's own control after the step.
LEMMA SteadyThen ==
    ASSUME NEW r, NEW v, NEW s, Steady(r, v), SameK(v, s), s.fault = v.fault
    PROVE  Steady(r, s)
BY SteadyOwn, SameSelf

\* A mutex that is not free cannot be idle.
LEMMA WorldIn ==
    ASSUME NEW r, NEW T, NEW m \in Mutex, WorldOff(r, T, m), HighBut(r, {}, Null, 0), ~Free(r, m)
    PROVE  World(r, T)
BY IdleBack DEF World, WorldOff

\* A thread on no queue may be said to be in flux.
LEMMA ReadyFlux ==
    ASSUME NEW r, QOK(r, {}), NEW t \in Thread, r.mstate[t] \in Idle
    PROVE  QOK(r, {t})
<1>1. RQ(r, {} \cup {t})
  BY RNone DEF QOK
<1>2. {} \cup {t} = {t}
  OBVIOUS
<1> QED
  BY <1>1, <1>2 DEF QOK

\* t queues for m, and blocks.
LEMMA LoopBlocks ==
    ASSUME NEW r, NEW t \in Thread, NEW m \in Mutex, WorldOff(r, {t}, m), HighBut(r, {}, Null, 0),
           Mine(r, t),
           Held(r, m), r.pc[t] # "dead",
           r.cond[t] # Null => r.obj[t] = m /\ r.cs[t],
           NEW w, w = Settle(WaitForMutex(r, t, m, 0)), NEW b \in BOOLEAN, b => ~r.cs[t],
           NEW v, v = Block([w EXCEPT !.pc[t] = "MutexWait", !.obj[t] = m], t, b)
    PROVE  World(v, {}) /\ Steady(r, v)
<1>1. QOK(r, {t}) /\ NewWaiter(r, t, m)
  BY ReadyFlux DEF WorldOff, Mine, Idle, NewWaiter, Pends
<1>2. /\ World(w, {t}) /\ SameCtl(r, w) /\ w.fault = r.fault /\ Queued(r, w, t, m)
      /\ Ranked(w, 9) /\ ReqBut(r, {}) => ReqBut(w, {})
  BY <1>1, QueueUp DEF WorldOff
<1> DEFINE q == SetPcObj(w, t, "MutexWait", m)
<1>3. q = SetPcObj(w, t, "MutexWait", m) /\ v = Block(q, t, b)
  BY DEF SetPcObj
<1> HIDE DEF q
<1>4. OwnStep(w, q, t) /\ SetPcObjTo(w, q, t, "MutexWait", m)
  <2>1. "MutexWait" \in Cont /\ m \in Obj \cup {Null}
    BY DEF Cont, Obj
  <2> QED
    BY <1>2, <1>3, <2>1, WorldTypes, SetPcObjOwn
<1>5. OwnStep(q, v, t) /\ BlockTo(q, v, t, b)
  BY <1>3, <1>4, BlockOwn DEF OwnStep
<1>6. OwnStep(w, v, t)
  BY <1>4, <1>5, OwnTrans
<1>7. /\ v.mstate[t] = "EWaitMutex" /\ v.waitObj[t] = m /\ v.phase = r.phase
      /\ v.pc[t] = "MutexWait" /\ v.obj[t] = m /\ v.cond[t] = r.cond[t] /\ v.cs[t] = r.cs[t]
      /\ v.susp[t] = r.susp[t] /\ v.csFunction[t] = r.csFunction[t] /\ v.blocked[t]
      /\ (v.timed[t] => ~r.cs[t]) /\ v.ret[t] = "KErrNone" /\ v.fault = r.fault
  BY <1>2, <1>4, <1>5, <1>6 DEF OwnStep, SameK, SameWhere, SameCtl, Queued, SetPcObjTo, BlockTo
<1>8. r.cond[t] \in Cond \cup {Null} /\ r.phase[m] = "live"
  BY DEF WorldOff, QOK, CtlT, Held
<1>9. ThreadOK(v, t)
  BY <1>7, <1>8 DEF Mine, ThreadOK, WaitOK, SuspOK, PcOK, SemWaits, MutexWaits, CondWaits, OnWaitQ,
     OnSuspQ
<1>10. w.mstate[t] # "EHoldMutexPending" /\ v.pc[t] # "Reset"
  BY <1>2, <1>7 DEF Queued
<1>11. World(v, {})
  BY <1>2, <1>6, <1>9, <1>10, OwnEnd
<1>12. Steady(r, w)
  BY <1>2 DEF Steady
<1> QED
  BY <1>2, <1>6, <1>7, <1>11, <1>12, SteadyThen DEF OwnStep

\* The loop of DMutex::Wait.
LEMMA LoopWorld ==
    ASSUME NEW r, NEW t \in Thread, NEW m \in Mutex, WorldOff(r, {t}, m), HighBut(r, {}, Null, 0),
           Mine(r, t),
           r.pc[t] # "dead", r.phase[m] # "deleted",
           r.cond[t] # Null => r.obj[t] = m /\ r.cs[t] /\ r.phase[m] = "live",
           NEW v, v = MutexWaitLoop(r, t, m)
    PROVE  World(v, {}) /\ Steady(r, v)
<1>1. CtlT(r) /\ RunT(r) /\ r.phase[m] \in {"live", "resetting"} /\ t # Null
  BY SyncAssumption DEF WorldOff, QOK, CtlT, Phases, Obj
<1>2. CASE Resetting(r, m)
  <2>1. World(r, {t})
    BY <1>2, WorldIn DEF Free, Resetting
  <2>2. v = AfterMutexWait(r, t) /\ r.cond[t] = Null
    BY <1>2 DEF MutexWaitLoop, Resetting
  <2> QED
    BY <2>1, <2>2, AfterWorld, SteadyK
<1>3. CASE ~Resetting(r, m) /\ r.holder[m] = Null
  <2> DEFINE w == Claim(r, t, m)
  <2>1. w = Claim(r, t, m) /\ v = AfterMutexWait(w, t) /\ Free(r, m)
    BY <1>1, <1>3 DEF MutexWaitLoop, Resetting, Free
  <2> HIDE DEF w
  <2>2. /\ World(w, {t}) /\ w.fault = r.fault /\ SameOwnAll(r, w) /\ SameRun(r, w)
        /\ SameWhere(r, w)
        /\ w.phase = r.phase /\ w.holder[m] = t /\ (ReqBut(r, {}) => ReqBut(w, {}))
    BY <2>1, ClaimWorld DEF Mine
  <2>3. Acted(r, w, t) /\ Mine(w, t)
    BY <2>2, ActedMine DEF Acted, SameWait, SameRun, SameWhere
  <2>4. World(v, {}) /\ SameK(w, v) /\ v.fault = w.fault
    BY <2>1, <2>2, <2>3, AfterWorld DEF SameOwnAll
  <2> QED
    BY <2>3, <2>4, ActedSteady, SteadyThen
<1>4. CASE ~Resetting(r, m) /\ r.holder[m] = t
  <2>1. World(r, {t})
    BY <1>1, <1>4, WorldIn DEF Free
  <2> DEFINE n == r.holdCount[m] + 1
             w == SetHold(r, m, n)
  <2>2. n \in Nat /\ n >= 1
    BY <1>1, <1>4 DEF CtlT
  <2>3. w = SetHold(r, m, n) /\ v = AfterMutexWait(w, t)
    BY <1>1, <1>4 DEF MutexWaitLoop, SetHold
  <2> HIDE DEF n, w
  <2>4. World(w, {t}) /\ HoldSet(r, w, m, n)
    BY <2>1, <2>2, <2>3, HoldWorld
  <2>5. Acted(r, w, t) /\ Mine(w, t) /\ w.holder = r.holder
    BY <2>4, ActedMine
       DEF Acted, SameWait, SameRun, SameWhere, HoldSet, QSame, SameReq, ReqBut, IsReq
  <2>6. World(v, {}) /\ SameK(w, v) /\ v.fault = w.fault
    BY <1>4, <2>3, <2>4, <2>5, AfterWorld DEF Acted, SameOwnAll
  <2> QED
    BY <2>5, <2>6, ActedSteady, SteadyThen
<1>5. CASE ~Resetting(r, m) /\ r.holder[m] # Null /\ r.holder[m] # t
  <2> DEFINE w == Settle(WaitForMutex(r, t, m, 0))
             b == t \in Timed /\ ~r.cs[t]
  <2>1. /\ v = Block([w EXCEPT !.pc[t] = "MutexWait", !.obj[t] = m], t, b)
        /\ w = Settle(WaitForMutex(r, t, m, 0)) /\ b \in BOOLEAN /\ (b => ~r.cs[t]) /\ Held(r, m)
    BY <1>1, <1>5 DEF MutexWaitLoop, Resetting, Held
  <2> HIDE DEF w, b
  <2> QED
    BY <2>1, LoopBlocks
<1> QED
  BY <1>2, <1>3, <1>4, <1>5

\* A thread in its own code with the processor.
LEMMA RunsMine ==
    ASSUME NEW r, World(r, {}), NEW t \in Thread, ~r.blocked[t], ~(r.susp[t] > 0), r.pc[t] = "run"
    PROVE  Mine(r, t) /\ r.cond[t] = Null /\ World(r, {t})
<1>1. ThreadOK(r, t)
  BY DEF World
<1> QED
  BY <1>1, WorldLess DEF Mine, ThreadOK, WaitOK, SuspOK, PcOK, SemWaits, OnWaitQ, OnSuspQ

\* A thread that makes no call is ready for one.
LEMMA AtRun ==
    ASSUME World(k, {}), NEW t \in Thread, At(t, "run")
    PROVE  Mine(k, t) /\ k.cond[t] = Null /\ World(k, {t}) /\ k.pc[t] = "run"
<1>1. ~k.blocked[t] /\ ~(k.susp[t] > 0) /\ k.pc[t] = "run"
  BY DEF At, CanRun
<1> QED
  BY <1>1, RunsMine

\* DMutex::Wait.
LEMMA MutexWaitFine ==
    ASSUME World(k, {}), NEW t \in Thread, NEW m \in Mutex, MutexWait(t, m)
    PROVE  World(k', {}) /\ Steady(k, k')
<1>1. At(t, "run") /\ k.phase[m] = "live" /\ k' = MutexWaitLoop(k, t, m)
  BY DEF MutexWait, Usable
<1>2. Mine(k, t) /\ k.cond[t] = Null /\ World(k, {t}) /\ k.pc[t] = "run"
  BY <1>1, AtRun
<1>3. WorldOff(k, {t}, m) /\ HighBut(k, {}, Null, 0)
  BY <1>2, WorldHole DEF World
<1> QED
  BY <1>1, <1>2, <1>3, LoopWorld

\* DMutex::Wait(-1).
LEMMA MutexPollFine ==
    ASSUME World(k, {}), NEW t \in Thread, NEW m \in Mutex, MutexPoll(t, m)
    PROVE  World(k', {}) /\ Steady(k, k')
<1>1. At(t, "run") /\ Free(k, m) /\ k' = Claim(k, t, m)
  BY DEF MutexPoll, Usable, Free
<1>2. Mine(k, t) /\ k.cond[t] = Null /\ World(k, {t}) /\ k.pc[t] = "run"
  BY <1>1, AtRun
<1>3. WorldOff(k, {t}, m)
  BY <1>2, WorldHole
<1>4. /\ World(k', {t}) /\ k'.fault = k.fault /\ SameOwnAll(k, k') /\ SameRun(k, k')
      /\ SameWhere(k, k')
      /\ k'.phase = k.phase /\ (ReqBut(k, {}) => ReqBut(k', {}))
  BY <1>1, <1>2, <1>3, ClaimWorld DEF Mine
<1>5. Acted(k, k', t) /\ Mine(k', t)
  BY <1>2, <1>4, ActedMine DEF Acted, SameWait, SameRun, SameWhere
<1>6. ThreadOK(k', t)
  BY <1>2, <1>4, <1>5, ReadyOK DEF Mine, SameOwnAll
<1> QED
  BY <1>4, <1>5, <1>6, WorldAll, ActedSteady

\* DMutex::Signal.
LEMMA MutexSignalsFine ==
    ASSUME World(k, {}), NEW t \in Thread, NEW m \in Mutex, MutexSignals(t, m)
    PROVE  World(k', {}) /\ Steady(k, k')
<1>1. At(t, "run") /\ k.holder[m] = t /\ k' = MutexSignal(k, t, m)
  BY DEF MutexSignals
<1>2. Mine(k, t) /\ k.cond[t] = Null /\ World(k, {t}) /\ k.pc[t] = "run"
  BY <1>1, AtRun
<1>3. World(k', {t}) /\ Acted(k, k', t)
  BY <1>1, <1>2, SignalWorld DEF Mine
<1>4. Mine(k', t)
  BY <1>2, <1>3, ActedMine DEF Acted
<1>5. ThreadOK(k', t)
  BY <1>2, <1>3, <1>4, ReadyOK DEF Mine, Acted, SameOwnAll
<1> QED
  BY <1>3, <1>5, WorldAll, ActedSteady

-----------------------------------------------------------------------------
\* t, pending for m, is made ready.
Unpend(r, t, m) == [Ready(r, t) EXCEPT !.pendQ[m] = Without(@, t)]
Unpends(r, s, t, m) ==
    /\ SameCtl(r, s) /\ SameRun(r, s) /\ SameData(r, s) /\ SameCnt(r, s) /\ s.pri = r.pri
    /\ s.mstate = [r.mstate EXCEPT ![t] = "EReady"] /\ s.waitObj = [r.waitObj EXCEPT ![t] = Null]
\* Unpend changes the fields it names.
LEMMA UnpendFields ==
    ASSUME NEW r, Rec(r), NEW t, NEW m, NEW v, v = PendRemove(r, m, t), NEW s, s = Unpend(r, t, m)
    PROVE  /\ Rec(v) /\ Rec(s) /\ Unpends(r, s, t, m)
           /\ SameQ(v, s) /\ v.mstate = r.mstate /\ v.waitObj = r.waitObj /\ v.pri = r.pri
           /\ SameRest(v, s) /\ SameCnt(v, s)
<1>1. Unpends(r, s, t, m)
  BY SMT DEF Rec, Fields, Unpend, Ready, Unpends, SameCtl, SameRun, SameData, SameCnt
<1>2. /\ SameQ(v, s) /\ v.mstate = r.mstate /\ v.waitObj = r.waitObj /\ v.pri = r.pri
      /\ SameRest(v, s) /\ SameCnt(v, s)
  BY SMT DEF Rec, Fields, Unpend, Ready, PendRemove, SameQ, SameRest, SameCtl, SameRun, SameCnt
<1>3. DOMAIN s = Fields /\ DOMAIN v = Fields
  BY SMT DEF Rec, Fields, Unpend, Ready, PendRemove
<1> DEFINE x == [r.pendQ EXCEPT ![m] = Without(r.pendQ[m], t)]
           q == Ready(r, t)
<1>4. v = [r EXCEPT !.pendQ = x] /\ s = [q EXCEPT !.pendQ = x]
  <2>1. v = [r EXCEPT !.pendQ = x]
    BY SMT DEF Rec, Fields, PendRemove
  <2>2. s = [q EXCEPT !.pendQ = x]
    BY SMT DEF Rec, Fields, Unpend, Ready
  <2> QED
    BY <2>1, <2>2
<1> HIDE DEF x, q
<1>5. v = [f \in DOMAIN v |-> v[f]] /\ s = [f \in DOMAIN s |-> s[f]]
  BY <1>4, SMT
<1> QED
  BY <1>1, <1>2, <1>3, <1>5 DEF Rec

\* A thread takes itself off the pending queue of a mutex.
LEMMA UnpendKeeps ==
    ASSUME NEW r, NEW t \in Thread, NEW m \in Mutex, QOK(r, {}), Pends(r, t, m),
           NEW s, s = Unpend(r, t, m)
    PROVE  /\ QOK(s, {}) /\ Unpends(r, s, t, m) /\ Lands(r, s, t, "EReady", Null)
           /\ r.phase[m] # "deleted" /\ s.mstate[t] = "EReady" /\ s.waitObj[t] = Null
           /\ \A x \in Thread : x # t => SameWait(r, s, x) /\ SameCv(r, s, x)
<1>1. QOK(r, {}) /\ Rec(r) /\ RQ(r, {}) /\ CtlT(r) /\ RunT(r) /\ m \in Obj
  BY DEF QOK, Obj
<1> DEFINE v == PendRemove(r, m, t)
<1>2. v = PendRemove(r, m, t)
  OBVIOUS
<1> HIDE DEF v
<1>3. t \in Range(r.pendQ[m])
  BY <1>1, RWhere DEF Pends
<1>4. QOK(v, {} \cup {t}) /\ r.phase[m] # "deleted"
  BY <1>1, <1>2, <1>3, TakePend
<1>5. /\ Rec(s) /\ Unpends(r, s, t, m)
      /\ SameQ(v, s) /\ v.mstate = r.mstate /\ v.waitObj = r.waitObj /\ v.pri = r.pri
      /\ SameRest(v, s) /\ SameCnt(v, s)
  BY <1>1, <1>2, UnpendFields
<1>6. FQ(v, {} \cup {t}, m, 0)
  BY <1>4, FluxNone
<1>7. Kept(v, s)
  BY <1>5, <1>6, SameRestKept
<1>8. Lands(v, s, t, "EReady", Null)
  <2>1. /\ v.mstate \in [Thread -> MState] /\ v.waitObj \in [Thread -> Obj \cup {Null}]
        /\ "EReady" \in MState
    BY <1>6, FQTypes DEF MState
  <2> QED
    BY <1>5, <2>1, LandsIs DEF Unpends
<1>9. QOK(s, {})
  <2>1. "EReady" \in Idle /\ t \notin {} /\ s.pri = v.pri
    BY <1>5 DEF Idle, Unpends
  <2>2. FQ(s, {}, m, 0)
    BY <1>5, <1>6, <1>7, <1>8, <2>1, LandIdle
  <2> QED
    BY <2>2, FluxNone
<1>10. /\ Lands(r, s, t, "EReady", Null) /\ s.mstate[t] = "EReady" /\ s.waitObj[t] = Null
  BY <1>5, <1>8 DEF Lands, But
<1>11. \A x \in Thread : x # t => SameWait(r, s, x) /\ SameCv(r, s, x)
  BY <1>1, <1>5, <1>10, OthersWait DEF Unpends, SameCv, SameCnt
<1> QED
  BY <1>4, <1>5, <1>9, <1>10, <1>11

\* The mutex may be idle from then until the thread has taken or refused it.
LEMMA UnpendWorld ==
    ASSUME NEW r, NEW t \in Thread, NEW m \in Mutex, World(r, {}), Pends(r, t, m),
           NEW s, s = Unpend(r, t, m)
    PROVE  /\ WorldOff(s, {t}, m) /\ HighBut(s, {}, Null, 0) /\ Unpends(r, s, t, m)
           /\ r.phase[m] # "deleted" /\ s.mstate[t] = "EReady" /\ s.waitObj[t] = Null
<1>5. /\ QOK(s, {}) /\ Unpends(r, s, t, m) /\ Lands(r, s, t, "EReady", Null)
      /\ r.phase[m] # "deleted" /\ s.mstate[t] = "EReady" /\ s.waitObj[t] = Null
      /\ \A x \in Thread : x # t => SameWait(r, s, x) /\ SameCv(r, s, x)
  BY UnpendKeeps DEF World
<1>9. QOK(s, {})
  BY <1>5
<1>10. /\ Lands(r, s, t, "EReady", Null) /\ s.mstate[t] = "EReady" /\ s.waitObj[t] = Null
  BY <1>5
<1>11. WorldOff(s, {} \cup {t}, m)
  <2>1. WorldOff(r, {}, m)
    BY WorldHole
  <2>2. \A x \in Thread : x # t => SameWait(r, s, x) /\ SameCv(r, s, x)
    BY <1>5
  <2>3. \A x \in Mutex : Pends(r, t, x) \/ MWaits(s, t, x) => x = m \/ ~Free(r, x)
    BY <1>10 DEF Pends, MWaits
  <2>4. \A x \in Mutex : MWaits(r, t, x) \/ MWaits(s, t, x) => x = m \/ ~Held(r, x)
    BY <1>10 DEF Pends, MWaits
  <2> QED
    BY <1>5, <1>9, <2>1, <2>2, <2>3, <2>4, MoveOff DEF Unpends, SameData
<1>12. HighBut(s, {}, Null, 0)
  <2>1. \A x \in Mutex : MWaits(r, t, x) \/ MWaits(s, t, x) => x = Null \/ ~Held(r, x)
    BY <1>10 DEF Pends, MWaits
  <2>2. HighOff(r, Null)
    BY HighAll DEF World
  <2>3. /\ But(r.mstate, s.mstate, t) /\ But(r.waitObj, s.waitObj, t) /\ But(r.pri, s.pri, t)
        /\ \A x : Held(s, x) <=> Held(r, x)
        /\ s.clnPri = r.clnPri
    BY <1>5, <1>10, CtlHeld DEF Lands, But, Unpends, SameData
  <2>4. HighOff(s, Null)
    BY <2>1, <2>2, <2>3, HighFrame
  <2> QED
    BY <2>4, HighAll
<1> QED
  BY <1>5, <1>11, <1>12

\* A step after which fewer threads wait for others.
LEMMA SteadyVia ==
    ASSUME NEW r, NEW a, NEW s, SameReq(r, a),
           \A x, u \in Thread : WaitsFor(a, x, u) => WaitsFor(r, x, u), Steady(a, s)
    PROVE  Steady(r, s)
<1>1. \A D : Ranked(r, D) => Ranked(a, D)
  BY DEF Ranked, RankedBy
<1>2. ReqBut(r, {}) => ReqBut(a, {})
  BY DEF SameReq, ReqBut, IsReq
<1> QED
  BY <1>1, <1>2 DEF Steady, SameReq

\* A thread that goes on waits for nobody.
LEMMA FewerEdges ==
    ASSUME NEW r, NEW a, SameCtl(r, a), NEW t,
           \A x \in Thread : x # t => SameWait(r, a, x) /\ SameCv(r, a, x),
           a.mstate[t] # "EWaitMutex", a.mstate[t] # "EWaitCondVar"
    PROVE  \A x, u \in Thread : WaitsFor(a, x, u) => WaitsFor(r, x, u)
<1> SUFFICES ASSUME NEW x \in Thread, NEW u \in Thread, WaitsFor(a, x, u) PROVE WaitsFor(r, x, u)
  OBVIOUS
<1>1. x # t
  BY DEF WaitsFor
<1> QED
  BY <1>1, EdgesSame

\* A thread that comes back from NKern::Block in DMutex::Wait.
LEMMA MutexWaitReturnsFine ==
    ASSUME World(k, {}), NEW t \in Thread, MutexWaitReturns(t)
    PROVE  World(k', {}) /\ Steady(k, k')
<1> DEFINE m == k.obj[t]
           r == Unpend(k, t, m)
<1>1. /\ ~k.blocked[t] /\ ~(k.susp[t] > 0) /\ k.pc[t] = "MutexWait"
      /\ k' = IF k.ret[t] # "KErrNone" \/ k.mstate[t] = "EReady"
              THEN AfterMutexWait(Asserted(k, k.mstate[t] = "EReady"), t)
              ELSE MutexWaitLoop(r, t, m)
  BY DEF MutexWaitReturns, At, CanRun, Unpend
<1>2. r = Unpend(k, t, m) /\ m = k.obj[t]
  OBVIOUS
<1> HIDE DEF r, m
<1>3. ThreadOK(k, t) /\ Rec(k) /\ RunT(k) /\ CtlT(k) /\ World(k, {t})
  BY WorldTypes, WorldLess DEF World
<1>4. CASE k.mstate[t] = "EReady"
  <2>1. k' = AfterMutexWait(k, t)
    BY <1>1, <1>3, <1>4, AssertedTrue
  <2>2. Mine(k, t) /\ k.cond[t] = Null
    BY <1>1, <1>3, <1>4 DEF ThreadOK, WaitOK, SuspOK, PcOK, Mine
  <2> QED
    BY <1>3, <2>1, <2>2, AfterWorld, SteadyK
<1>5. CASE k.mstate[t] # "EReady"
  <2>1. Pends(k, t, m) /\ m \in Mutex
    BY <1>1, <1>2, <1>3, <1>5 DEF ThreadOK, PcOK, Pends, MutexWaits, OnWaitQ, OnSuspQ
  <2>2. k' = MutexWaitLoop(r, t, m)
    BY <1>1, <1>3, <1>5 DEF ThreadOK, PcOK
  <2>3. /\ WorldOff(r, {t}, m) /\ HighBut(r, {}, Null, 0) /\ Unpends(k, r, t, m)
        /\ k.phase[m] # "deleted" /\ r.mstate[t] = "EReady" /\ r.waitObj[t] = Null
    BY <1>2, <2>1, UnpendWorld
  <2>4. Mine(r, t) /\ r.pc[t] = "MutexWait" /\ r.phase = k.phase
    BY <1>1, <1>3, <2>3 DEF Unpends, SameCtl, SameRun, Mine, ThreadOK, SuspOK
  <2>5. r.cond[t] # Null => r.obj[t] = m /\ r.cs[t] /\ r.phase[m] = "live"
    BY <1>1, <1>2, <1>3, <2>3 DEF Unpends, SameCtl, ThreadOK, WaitOK, PcOK
  <2>6. World(k', {}) /\ Steady(r, k')
    BY <2>1, <2>2, <2>3, <2>4, <2>5, LoopWorld
  <2>7. SameReq(k, r) /\ SameCtl(k, r)
    BY <2>3 DEF Unpends, SameReq, SameCtl, SameData
  <2>8. \A x \in Thread : x # t => SameWait(k, r, x) /\ SameCv(k, r, x)
    BY <2>3 DEF Unpends, SameWait, SameRun, SameCv, SameCnt
  <2>9. \A x, u \in Thread : WaitsFor(r, x, u) => WaitsFor(k, x, u)
    BY <2>3, <2>7, <2>8, FewerEdges
  <2> QED
    BY <2>6, <2>7, <2>9, SteadyVia
<1> QED
  BY <1>4, <1>5

SameAll(r, s) ==
    /\ SameCtl(r, s) /\ SameRun(r, s) /\ SameCnt(r, s) /\ SameWhere(r, s) /\ SameQ(r, s)
    /\ s.pri = r.pri /\ s.clnPri = r.clnPri /\ s.fault = r.fault
\* A record is told by its fields.
LEMMA RecEq ==
    ASSUME NEW r, NEW s, Rec(r), Rec(s), SameAll(r, s)
    PROVE  s = r
<1>1. \A f \in Fields : s[f] = r[f]
  BY DEF Fields, SameAll, SameCtl, SameRun, SameCnt, SameWhere, SameQ
<1> QED
  BY <1>1 DEF Rec

\* A thread that waits for nothing is ready as it is.
LEMMA ReadySame ==
    ASSUME NEW r, Rec(r), RQ(r, {}), NEW t \in Thread, r.mstate[t] = "EReady", r.waitObj[t] = Null
    PROVE  Ready(r, t) = r
<1> DEFINE s == Ready(r, t)
           x == [r.mstate EXCEPT ![t] = "EReady"]
           y == [r.waitObj EXCEPT ![t] = Null]
           q == [r EXCEPT !.mstate = x]
<1>1. s = [q EXCEPT !.waitObj = y] /\ DOMAIN s = Fields
  BY SMT DEF Ready, Rec, Fields
<1>2. x = r.mstate /\ y = r.waitObj
  BY QTypes2
<1>3. /\ SameCtl(r, s) /\ SameRun(r, s) /\ SameCnt(r, s) /\ SameQ(r, s)
      /\ s.pri = r.pri /\ s.clnPri = r.clnPri /\ s.fault = r.fault
  BY SMT DEF Ready, Rec, Fields, SameCtl, SameRun, SameCnt, SameQ
<1>4. s.mstate = x /\ s.waitObj = y
  BY SMT DEF Ready, Rec, Fields
<1> HIDE DEF x, y, q
<1>5. s = [f \in DOMAIN s |-> s[f]]
  <2> HIDE DEF s
  <2> QED
    BY <1>1, SMT
<1>6. SameAll(r, s)
  BY <1>2, <1>3, <1>4 DEF SameAll, SameWhere
<1> HIDE DEF s
<1>7. s = r
  BY <1>1, <1>5, <1>6, RecEq DEF Rec
<1> QED
  BY <1>7 DEF s

\* It does not matter in which order a pending thread is taken off and made ready.
LEMMA UnpendSwap ==
    ASSUME NEW r, Rec(r), NEW t, NEW m
    PROVE  Ready(PendRemove(r, m, t), t) = Unpend(r, t, m)
<1> DEFINE a == Ready(PendRemove(r, m, t), t)
           b == Unpend(r, t, m)
           v == PendRemove(r, m, t)
           y == [r.waitObj EXCEPT ![t] = Null]
           q == [v EXCEPT !.mstate[t] = "EReady"]
<1>1. SameAll(b, a)
  BY SMT DEF Rec, Fields, Ready, PendRemove, Unpend, SameAll, SameCtl, SameRun, SameCnt, SameWhere,
     SameQ
<1>2. Rec(b)
  BY UnpendFields
<1>3. a = [q EXCEPT !.waitObj = y] /\ DOMAIN a = Fields
  BY SMT DEF Rec, Fields, Ready, PendRemove
<1>4. a = [f \in DOMAIN a |-> a[f]]
  <2> HIDE DEF a, q, y
  <2> QED
    BY <1>3, SMT
<1> HIDE DEF a, b
<1>5. a = b
  BY <1>1, <1>2, <1>3, <1>4, RecEq DEF Rec
<1> QED
  BY <1>5 DEF a, b

-----------------------------------------------------------------------------
\* A thread in DCondVar::Wait that is not blocked.
CondRuns(r, t, m) ==
    /\ ~r.blocked[t] /\ ~(r.susp[t] > 0) /\ r.pc[t] \in {"CondWindow", "CondWait"} /\ m = r.obj[t]

\* Where the thread is when DCondVar::Wait goes on to its mutex.
LEMMA CondRunsWhat ==
    ASSUME NEW r, World(r, {}), NEW t \in Thread, NEW m, CondRuns(r, t, m)
    PROVE  /\ ThreadOK(r, t) /\ Rec(r) /\ RunT(r) /\ CtlT(r) /\ World(r, {t}) /\ RQ(r, {})
           /\ m \in Mutex /\ r.phase[m] = "live" /\ r.cond[t] \in Cond /\ r.cond[t] # Null
           /\ r.mstate[t] \in {"EReady", "EWaitMutex", "EWaitCondVar", "EHoldMutexPending"}
           /\ r.mstate[t] = "EReady" => Mine(r, t)
           /\ r.mstate[t] = "EHoldMutexPending" => Pends(r, t, m)
<1>1. ThreadOK(r, t) /\ Rec(r) /\ RunT(r) /\ CtlT(r) /\ World(r, {t}) /\ RQ(r, {})
  BY WorldTypes, WorldLess DEF World
<1>2. r.cond[t] \in Cond /\ r.cond[t] # Null
  BY <1>1, SyncAssumption DEF ThreadOK, PcOK, CondRuns, Obj
<1>3. m \in Mutex /\ r.phase[m] = "live"
  BY <1>1, <1>2 DEF ThreadOK, WaitOK, CondRuns
<1>4. r.mstate[t] \in {"EReady", "EWaitMutex", "EWaitCondVar", "EHoldMutexPending"}
  BY <1>1 DEF ThreadOK, PcOK, SuspOK, CondRuns, MutexWaits, CondWaits, OnSuspQ
<1>5. r.mstate[t] = "EReady" => Mine(r, t)
  BY <1>1 DEF ThreadOK, WaitOK, SuspOK, Mine, CondRuns
<1>6. r.mstate[t] = "EHoldMutexPending" => Pends(r, t, m)
  BY <1>1 DEF ThreadOK, PcOK, CondRuns, Pends, MutexWaits
<1> QED
  BY <1>1, <1>2, <1>3, <1>4, <1>5, <1>6

\* It blocks, or blocks again.
LEMMA CondBlocks ==
    ASSUME NEW r, NEW t \in Thread, NEW m \in Mutex, World(r, {t}), NEW b \in BOOLEAN,
           r.mstate[t] \in {"EWaitMutex", "EWaitCondVar"}, r.mstate[t] = "EWaitMutex" => r.waitObj[t] = m,
           r.mstate[t] = "EWaitCondVar" => /\ r.waitObj[t] = r.cond[t] /\ r.cvMutex[r.cond[t]] = m,
           m = r.obj[t], r.phase[m] = "live", r.cond[t] \in Cond, r.pc[t] # "dead",
           SuspOK(r, t), r.pc[t] \in {"CondWindow", "CondWait"}, NEW v,
           v = Block([r EXCEPT !.pc[t] = "CondWait"], t, b)
    PROVE  World(v, {}) /\ SameK(r, v) /\ v.fault = r.fault
<1> DEFINE p == SetPc(r, t, "CondWait")
<1>1. p = SetPc(r, t, "CondWait") /\ v = Block(p, t, b)
  BY DEF SetPc
<1> HIDE DEF p
<1>2. OwnStep(r, p, t) /\ SetPcTo(r, p, t, "CondWait")
  BY <1>1, WorldTypes, SetPcOwn DEF Cont
<1>3. OwnStep(p, v, t) /\ BlockTo(p, v, t, b)
  BY <1>1, <1>2, BlockOwn DEF OwnStep
<1>4. OwnStep(r, v, t)
  BY <1>2, <1>3, OwnTrans
<1>5. /\ v.mstate = r.mstate /\ v.waitObj = r.waitObj /\ v.phase = r.phase /\ v.cvMutex = r.cvMutex
      /\ v.pc[t] = "CondWait" /\ v.obj = r.obj /\ v.cond = r.cond /\ v.cs = r.cs
      /\ v.susp = r.susp /\ v.csFunction = r.csFunction /\ v.blocked[t]
      /\ v.ret[t] = "KErrNone" /\ v.fault = r.fault
  BY <1>2, <1>3, <1>4 DEF OwnStep, SameK, SameWhere, SameCnt, SetPcTo, BlockTo
<1>6. WaitOK(v, t)
  BY <1>5, SyncAssumption DEF WaitOK, SemWaits, MutexWaits, CondWaits, OnWaitQ
<1>7. SuspOK(v, t)
  BY <1>5 DEF SuspOK, OnWaitQ, OnSuspQ
<1>8. PcOK(v, t)
  BY <1>5 DEF PcOK, MutexWaits, CondWaits, OnWaitQ
<1>9. World(v, {})
  BY <1>4, <1>5, <1>6, <1>7, <1>8, OwnEnd DEF ThreadOK
<1> QED
  BY <1>4, <1>5, <1>9 DEF OwnStep

\* The invariant of a state in which t has left the queue of pending threads.
LEMMA OffPendParts ==
    ASSUME NEW r, NEW t \in Thread, NEW m \in Mutex, World(r, {}), Pends(r, t, m),
           NEW s, s = PendRemove(r, m, t)
    PROVE  /\ QOK(s, {t}) /\ (\A u \in Thread \ {t} : ThreadOK(s, u)) /\ HoldOK(s) /\ OneResets(s)
           /\ NoIdle(s, {}) /\ HighBut(s, {}, Null, 0)
           /\ SameRest(r, s) /\ SameWhere(r, s) /\ SameCnt(r, s) /\ s.pri = r.pri
<1>1. t \in Range(r.pendQ[m]) /\ QOK(r, {})
  BY WorldTypes, RWhere DEF Pends, Obj
<1>2. /\ QOK(s, {} \cup {t}) /\ SameRest(r, s) /\ SameWhere(r, s)
      /\ SameCnt(r, s) /\ s.pri = r.pri
  BY <1>1, TakePend
<1>3. {} \cup {t} = {t}
  OBVIOUS
<1>4. \A u \in Thread \ {t} : ThreadOK(s, u)
  <2> SUFFICES ASSUME NEW u \in Thread \ {t} PROVE ThreadOK(s, u)
    OBVIOUS
  <2>1. SamePlace(r, s, u)
    BY <1>2, CtlPlace DEF SameRest
  <2>2. Agree(r, s, u)
    BY <1>2, <2>1 DEF SameRest, SameRun, SameWhere, SameCnt, Agree, SameWait, SameCv
  <2> QED
    BY <2>2, ThreadAgrees DEF World
<1>5. HoldOK(s) /\ OneResets(s)
  BY <1>2 DEF World, HoldOK, OneResets, SameRest, SameCtl
<1>6. /\ s.mstate = r.mstate /\ s.waitObj = r.waitObj /\ s.pri = r.pri /\ s.susp = r.susp
      /\ s.holder = r.holder /\ s.phase = r.phase /\ s.clnPri = r.clnPri
  BY <1>2 DEF SameRest, SameCtl, SameWhere
<1>7. NoIdle(s, {})
  BY <1>6 DEF World, NoIdle, Free, MWaits, Pends
<1>8. HighBut(s, {}, Null, 0)
  BY <1>6 DEF World, HighBut, Held, High, MWaits
<1> QED
  BY <1>2, <1>3, <1>4, <1>5, <1>7, <1>8

\* DCondVar::Wait blocks.
LEMMA CondBlocksFor ==
    ASSUME NEW r, NEW t \in Thread, NEW m \in Mutex, World(r, {t}),
           r.mstate[t] \in {"EWaitMutex", "EWaitCondVar"}, r.mstate[t] = "EWaitMutex" => r.waitObj[t] = m,
           r.mstate[t] = "EWaitCondVar" => /\ r.waitObj[t] = r.cond[t] /\ r.cvMutex[r.cond[t]] = m,
           m = r.obj[t], r.phase[m] = "live", r.cond[t] \in Cond, r.pc[t] # "dead",
           SuspOK(r, t), r.pc[t] \in {"CondWindow", "CondWait"}, NEW v,
           v = Block([r EXCEPT !.pc[t] = "CondWait"], t, FALSE)
    PROVE  World(v, {}) /\ SameK(r, v) /\ v.fault = r.fault
<1> DEFINE b == FALSE
<1>1. b \in BOOLEAN
  OBVIOUS
<1>2. v = Block([r EXCEPT !.pc[t] = "CondWait"], t, b)
  OBVIOUS
<1> HIDE DEF b
<1> QED
  BY <1>1, <1>2, CondBlocks

\* It queues for the mutex and blocks.
LEMMA CondQueues ==
    ASSUME NEW r, NEW t \in Thread, NEW m \in Mutex, World(r, {}), CondRuns(r, t, m), Held(r, m),
           r.mstate[t] \in {"EReady", "EHoldMutexPending"},
           NEW q, q = IF r.mstate[t] = "EHoldMutexPending" THEN PendRemove(r, m, t) ELSE r, NEW v,
           v = Block([Settle(WaitForMutex(q, t, m, 0)) EXCEPT !.pc[t] = "CondWait"], t, FALSE)
    PROVE  World(v, {}) /\ Steady(r, v)
<1>1. /\ ThreadOK(r, t) /\ World(r, {t}) /\ r.phase[m] = "live" /\ r.cond[t] \in Cond
      /\ r.mstate[t] = "EReady" => Mine(r, t)
      /\ r.mstate[t] = "EHoldMutexPending" => Pends(r, t, m)
  BY CondRunsWhat
<1>2. /\ QOK(q, {t}) /\ (\A u \in Thread \ {t} : ThreadOK(q, u)) /\ HoldOK(q) /\ OneResets(q)
      /\ NoIdle(q, {}) /\ HighBut(q, {}, Null, 0)
      /\ SameRest(r, q) /\ SameWhere(r, q) /\ SameCnt(r, q) /\ q.pri = r.pri
  <2>1. CASE r.mstate[t] = "EHoldMutexPending"
    BY <1>1, <2>1, OffPendParts
  <2>2. CASE r.mstate[t] = "EReady"
    <3>1. q = r /\ QOK(r, {t})
      BY <2>2, ReadyFlux, WorldTypes DEF Idle
    <3> QED
      BY <3>1 DEF World, SameRest, SameCtl, SameRun, SameWhere, SameCnt
  <2> QED
    BY <2>1, <2>2
<1> DEFINE w == Settle(WaitForMutex(q, t, m, 0))
<1>3. w = Settle(WaitForMutex(q, t, m, 0))
  OBVIOUS
<1>12. v = Block([w EXCEPT !.pc[t] = "CondWait"], t, FALSE)
  OBVIOUS
<1> HIDE DEF w
<1>4. Held(q, m) /\ IdleOff(q, m)
  BY <1>2, OffMore, CtlHeld DEF SameRest
<1>5. NewWaiter(q, t, m)
  BY <1>1, <1>2 DEF NewWaiter, SameWhere, Pends
<1>6. /\ World(w, {t}) /\ SameCtl(q, w) /\ w.fault = q.fault /\ Queued(q, w, t, m)
      /\ Ranked(w, 9) /\ ReqBut(q, {}) => ReqBut(w, {})
  BY <1>2, <1>3, <1>4, <1>5, QueueUp
<1>7. /\ w.mstate[t] = "EWaitMutex" /\ w.waitObj[t] = m /\ w.phase = r.phase /\ w.obj = r.obj
      /\ w.cond = r.cond /\ w.pc = r.pc /\ w.susp = r.susp /\ w.cs = r.cs
      /\ w.csFunction = r.csFunction
  BY <1>2, <1>6 DEF Queued, SameRest, SameCtl
<1>8. SuspOK(w, t)
  BY <1>1, <1>7 DEF ThreadOK, SuspOK, CondRuns, OnSuspQ
<1>9. World(v, {}) /\ SameK(w, v) /\ v.fault = w.fault
  <2>1. /\ m = w.obj[t] /\ w.pc[t] \in {"CondWindow", "CondWait"} /\ w.cond[t] \in Cond
        /\ w.phase[m] = "live"
    BY <1>1, <1>7 DEF CondRuns
  <2>2. /\ w.mstate[t] \in {"EWaitMutex", "EWaitCondVar"} /\ w.pc[t] # "dead"
        /\ w.mstate[t] = "EWaitMutex" => w.waitObj[t] = m
        /\ w.mstate[t] = "EWaitCondVar" => /\ w.waitObj[t] = w.cond[t] /\ w.cvMutex[w.cond[t]] = m
    BY <1>7, <2>1
  <2>3. World(w, {t})
    BY <1>6
  <2> QED
    BY <1>8, <1>12, <2>1, <2>2, <2>3, CondBlocksFor
<1>10. Steady(q, v)
  <2>1. Steady(q, w)
    BY <1>6 DEF Steady
  <2> QED
    BY <1>9, <2>1, SteadyThen
<1>11. SameReq(r, q) /\ \A x, u \in Thread : WaitsFor(q, x, u) => WaitsFor(r, x, u)
  BY <1>2 DEF SameReq, SameRest, SameCtl, WaitsFor, SameWhere, SameCnt
<1> QED
  BY <1>9, <1>10, <1>11, SteadyVia

\* It takes the mutex.
LEMMA CondTakes ==
    ASSUME NEW r, NEW t \in Thread, NEW m \in Mutex, World(r, {}), CondRuns(r, t, m), Free(r, m),
           r.mstate[t] \in {"EReady", "EHoldMutexPending"},
           NEW q, q = IF r.mstate[t] = "EHoldMutexPending" THEN PendRemove(r, m, t) ELSE r, NEW v,
           v = Back(Claim(Ready(q, t), t, m), t)
    PROVE  World(v, {}) /\ Steady(r, v) /\ Rec(Ready(q, t)) /\ RunT(Ready(q, t))
<1>1. /\ ThreadOK(r, t) /\ World(r, {t}) /\ r.phase[m] = "live" /\ Rec(r) /\ RQ(r, {})
      /\ r.mstate[t] = "EReady" => Mine(r, t)
      /\ r.mstate[t] = "EHoldMutexPending" => Pends(r, t, m)
  BY CondRunsWhat
<1> DEFINE a == Ready(q, t)
<1>2. a = Ready(q, t)
  OBVIOUS
<1> HIDE DEF a
<1>3. /\ WorldOff(a, {t}, m) /\ Mine(a, t) /\ Free(a, m) /\ SameReq(r, a)
      /\ \A x, u \in Thread : WaitsFor(a, x, u) => WaitsFor(r, x, u)
  <2>1. CASE r.mstate[t] = "EHoldMutexPending"
    <3>1. a = Unpend(r, t, m)
      BY <1>1, <1>2, <2>1, UnpendSwap
    <3>2. /\ WorldOff(a, {t}, m) /\ Unpends(r, a, t, m)
          /\ a.mstate[t] = "EReady" /\ a.waitObj[t] = Null
      BY <1>1, <2>1, <3>1, UnpendWorld
    <3>3. Mine(a, t)
      BY <1>1, <3>2 DEF Unpends, SameCtl, SameRun, Mine, ThreadOK, SuspOK, CondRuns
    <3>4. SameReq(r, a) /\ SameCtl(r, a) /\ Free(a, m)
      BY <3>2 DEF Unpends, SameReq, SameCtl, SameData, Free
    <3>5. \A x \in Thread : x # t => SameWait(r, a, x) /\ SameCv(r, a, x)
      BY <3>2 DEF Unpends, SameWait, SameRun, SameCv, SameCnt
    <3>6. \A x, u \in Thread : WaitsFor(a, x, u) => WaitsFor(r, x, u)
      BY <3>2, <3>4, <3>5, FewerEdges
    <3> QED
      BY <3>2, <3>3, <3>4, <3>6
  <2>2. CASE r.mstate[t] = "EReady"
    <3>1. a = r
      BY <1>1, <1>2, <2>2, ReadySame DEF Mine
    <3> QED
      BY <1>1, <2>2, <3>1, WorldHole DEF SameReq
  <2> QED
    BY <2>1, <2>2
<1> DEFINE w == Claim(a, t, m)
<1>4. w = Claim(a, t, m) /\ v = Back(w, t)
  BY <1>2
<1> HIDE DEF w
<1>5. /\ World(w, {t}) /\ w.fault = a.fault /\ SameOwnAll(a, w) /\ SameRun(a, w) /\ SameWhere(a, w)
      /\ w.phase = a.phase /\ (ReqBut(a, {}) => ReqBut(w, {}))
  BY <1>3, <1>4, ClaimWorld DEF Mine
<1>6. Acted(a, w, t) /\ Mine(w, t)
  BY <1>3, <1>5, ActedMine DEF Acted, SameWait, SameRun, SameWhere
<1>7. World(v, {}) /\ SameK(w, v) /\ v.fault = w.fault
  BY <1>4, <1>5, <1>6, BackWorld DEF BackTo
<1>8. Steady(a, v)
  BY <1>6, <1>7, ActedSteady, SteadyThen
<1>9. Rec(a) /\ RunT(a)
  BY <1>3 DEF WorldOff, QOK
<1> QED
  BY <1>2, <1>3, <1>7, <1>8, <1>9, SteadyVia

\* The loop of DCondVar::Wait.
LEMMA CondLoopWorld ==
    ASSUME NEW r, NEW t \in Thread, NEW m, World(r, {}), CondRuns(r, t, m),
           NEW v, v = CondWaitLoop(r, t, m)
    PROVE  World(v, {}) /\ Steady(r, v)
<1>1. /\ ThreadOK(r, t) /\ World(r, {t}) /\ m \in Mutex /\ r.phase[m] = "live" /\ r.cond[t] \in Cond
      /\ r.mstate[t] \in {"EReady", "EWaitMutex", "EWaitCondVar", "EHoldMutexPending"}
      /\ r.cond[t] # Null
  BY CondRunsWhat
<1> DEFINE q == IF r.mstate[t] = "EHoldMutexPending" THEN PendRemove(r, m, t) ELSE r
<1>2. CASE r.mstate[t] \in {"EWaitMutex", "EWaitCondVar"}
  <2> DEFINE b == t \in Timed /\ r.mstate[t] = "EWaitCondVar"
  <2>1. v = Block([r EXCEPT !.pc[t] = "CondWait"], t, b) /\ b \in BOOLEAN
    BY <1>2 DEF CondWaitLoop
  <2> HIDE DEF b
  <2>2. /\ r.mstate[t] = "EWaitMutex" => r.waitObj[t] = m
        /\ r.mstate[t] = "EWaitCondVar" => r.waitObj[t] = r.cond[t] /\ r.cvMutex[r.cond[t]] = m
    BY <1>1 DEF ThreadOK, WaitOK, PcOK, CondRuns, MutexWaits, CondWaits
  <2>3. SuspOK(r, t) /\ r.pc[t] # "dead" /\ m = r.obj[t] /\ r.pc[t] \in {"CondWindow", "CondWait"}
    BY <1>1 DEF ThreadOK, CondRuns
  <2>4. World(v, {}) /\ SameK(r, v) /\ v.fault = r.fault
    BY <1>1, <1>2, <2>1, <2>2, <2>3, CondBlocks
  <2> QED
    BY <2>4, SteadyK
<1>3. CASE r.mstate[t] \in {"EReady", "EHoldMutexPending"} /\ r.holder[m] # Null
  <2>1. v = Block([Settle(WaitForMutex(q, t, m, 0)) EXCEPT !.pc[t] = "CondWait"], t, FALSE)
    BY <1>3 DEF CondWaitLoop, PendRemove
  <2>2. Held(r, m)
    BY <1>1, <1>3 DEF Held
  <2> HIDE DEF q
  <2>3. q = IF r.mstate[t] = "EHoldMutexPending" THEN PendRemove(r, m, t) ELSE r
    BY DEF q
  <2> QED
    BY <1>1, <1>3, <2>1, <2>2, <2>3, CondQueues
<1>4. CASE r.mstate[t] \in {"EReady", "EHoldMutexPending"} /\ r.holder[m] = Null
  <2>1. v = Back(Claim(Asserted(Ready(q, t), r.mstate[t] \in {"EReady", "EHoldMutexPending"}), t, m), t)
    BY <1>4 DEF CondWaitLoop, PendRemove
  <2>2. Free(r, m)
    BY <1>1, <1>4 DEF Free
  <2> HIDE DEF q
  <2>3. q = IF r.mstate[t] = "EHoldMutexPending" THEN PendRemove(r, m, t) ELSE r
    BY DEF q
  <2>4. Rec(Ready(q, t)) /\ RunT(Ready(q, t))
    BY <1>1, <1>4, <2>2, <2>3, CondTakes
  <2>5. v = Back(Claim(Ready(q, t), t, m), t)
    BY <1>4, <2>1, <2>4, AssertedTrue
  <2> QED
    BY <1>1, <1>4, <2>2, <2>3, <2>5, CondTakes
<1> QED
  BY <1>1, <1>2, <1>3, <1>4

\* A thread that returns from a call when it waits for nothing.
LEMMA BackFine ==
    ASSUME NEW r, NEW t \in Thread, World(r, {t}), Mine(r, t), NEW s, s = Back(r, t)
    PROVE  World(s, {}) /\ Steady(r, s)
<1>1. World(s, {}) /\ BackTo(r, s, t) /\ SameK(r, s)
  BY BackWorld
<1> QED
  BY <1>1, SteadyK DEF BackTo

\* DCondVar::Wait after its mutex was let go and the kernel lock given up.
LEMMA CondWindowFine ==
    ASSUME World(k, {}), NEW t \in Thread, CondWindow(t)
    PROVE  World(k', {}) /\ Steady(k, k')
<1> DEFINE m == k.obj[t]
<1>1. CondRuns(k, t, m)
  <2>1. k.susp \in [Thread -> Nat]
    BY WorldTypes DEF CtlT
  <2> QED
    BY <2>1 DEF CondWindow, At, CanRun, CondRuns
<1>2. /\ Rec(k) /\ RunT(k) /\ World(k, {t})
      /\ k.mstate[t] \in {"EReady", "EWaitMutex", "EWaitCondVar", "EHoldMutexPending"}
      /\ k.mstate[t] = "EReady" => Mine(k, t)
  BY <1>1, CondRunsWhat
<1>3. CASE k.mstate[t] = "EReady"
  <2>1. k' = Back(k, t)
    BY <1>3 DEF CondWindow
  <2> QED
    BY <1>2, <1>3, <2>1, BackFine
<1>4. CASE k.mstate[t] # "EReady"
  <2>1. k' = CondWaitLoop(Asserted(k, k.mstate[t] \in {"EWaitCondVar", "EWaitMutex", "EHoldMutexPending"}), t, m)
    BY <1>4 DEF CondWindow
  <2>2. Asserted(k, k.mstate[t] \in {"EWaitCondVar", "EWaitMutex", "EHoldMutexPending"}) = k
    BY <1>2, <1>4, AssertedTrue
  <2>3. k' = CondWaitLoop(k, t, m)
    BY <2>1, <2>2
  <2> QED
    BY <1>1, <2>3, CondLoopWorld
<1> QED
  BY <1>3, <1>4

\* DCondVar::Wait when the thread runs again.
LEMMA CondWaitReturnsFine ==
    ASSUME World(k, {}), NEW t \in Thread, CondWaitReturns(t)
    PROVE  World(k', {}) /\ Steady(k, k')
<1> DEFINE m == k.obj[t]
           failed == \/ k.ret[t] \notin {"KErrNone", "KErrTimedOut"}
                     \/ k.ret[t] = "KErrNone" /\ k.mstate[t] = "EReady"
<1>0. k.pc[t] = "CondWait"
  BY DEF CondWaitReturns, At
<1>1. CondRuns(k, t, m)
  <2>1. k.susp \in [Thread -> Nat]
    BY WorldTypes DEF CtlT
  <2> QED
    BY <2>1 DEF CondWaitReturns, At, CanRun, CondRuns
<1>2. /\ Rec(k) /\ RunT(k) /\ World(k, {t}) /\ ThreadOK(k, t)
      /\ k.mstate[t] \in {"EReady", "EWaitMutex", "EWaitCondVar", "EHoldMutexPending"}
      /\ k.mstate[t] = "EReady" => Mine(k, t)
  BY <1>1, CondRunsWhat
<1>3. CASE failed
  <2>1. k.mstate[t] = "EReady"
    BY <1>0, <1>2, <1>3 DEF ThreadOK, PcOK
  <2>2. k' = Back(Asserted(k, k.mstate[t] = "EReady"), t)
    BY <1>3 DEF CondWaitReturns
  <2>3. k' = Back(k, t)
    BY <1>2, <2>1, <2>2, AssertedTrue
  <2> QED
    BY <1>2, <2>1, <2>3, BackFine
<1>4. CASE ~failed
  <2>1. k' = CondWaitLoop(k, t, m)
    BY <1>4 DEF CondWaitReturns
  <2> QED
    BY <1>1, <2>1, CondLoopWorld
<1> QED
  BY <1>3, <1>4

\* The count of a semaphore.
CountTo(r, s, n) == [r EXCEPT !.count[s] = n]
CountSet(r, v, s, n) ==
    /\ OnlyCounts(r, v) /\ v.count = [r.count EXCEPT ![s] = n]
    /\ v.waitCount = r.waitCount /\ v.cvMutex = r.cvMutex
\* CountTo changes the counter of one semaphore.
LEMMA CountToFields ==
    ASSUME NEW r, Rec(r), NEW s, NEW n, NEW v, v = CountTo(r, s, n)
    PROVE  Rec(v) /\ CountSet(r, v, s, n)
<1>1. /\ SameCtl(r, v) /\ SameRun(r, v) /\ v.clnPri = r.clnPri /\ v.fault = r.fault
      /\ SameWhere(r, v) /\ SameQ(r, v) /\ v.pri = r.pri
      /\ v.waitCount = r.waitCount /\ v.cvMutex = r.cvMutex
  BY SMT DEF Rec, Fields, CountTo, SameCtl, SameRun, SameWhere, SameQ
<1>2. v.count = [r.count EXCEPT ![s] = n] /\ DOMAIN v = Fields
  BY SMT DEF Rec, Fields, CountTo
<1>3. v = [f \in DOMAIN v |-> v[f]]
  BY SMT DEF CountTo
<1> QED
  BY <1>1, <1>2, <1>3 DEF Rec, CountSet, OnlyCounts

\* The count of a semaphore, changed together with what it differs by.
LEMMA CountTake ==
    ASSUME NEW r, NEW X, NEW s \in Sem, NEW d, FQ(r, X, s, d), r.phase[s] # "deleted",
           NEW n \in Int,
           NEW e, SemTally(n, Len(r.waitQ[s]), e), NEW v, v = CountTo(r, s, n)
    PROVE  FQ(v, X, s, e) /\ CountSet(r, v, s, n)
<1>1. /\ Rec(r) /\ r.phase[s] # "deleted" /\ s \in Obj /\ s \notin Mutex \cup Cond
      /\ CntT(r)
  BY SyncAssumption, FQTypes DEF Obj
<1>2. Rec(v) /\ CountSet(r, v, s, n)
  BY <1>1, CountToFields
<1>3. CntT(v)
  BY <1>1, <1>2 DEF CountSet, CntT
<1>4. \A x \in Obj : x # s => SameCountAt(r, v, x)
  BY <1>2 DEF CountSet, SameCountAt
<1>5. v.count[s] = n
  BY <1>1, <1>2 DEF CntT, CountSet
<1>6. CountAt(v, s, e)
  BY <1>1, <1>2, <1>5 DEF CountAt, CountSet, OnlyCounts, SameCtl, SameQ
<1>7. OnlyCounts(r, v)
  BY <1>2 DEF CountSet
<1> QED
  BY <1>1, <1>2, <1>3, <1>4, <1>6, <1>7, CountChange

\* A change of counters keeps the invariant.
LEMMA CountWorld ==
    ASSUME NEW r, NEW T, World(r, T), NEW v, QOK(v, {}), OnlyCounts(r, v), v.cvMutex = r.cvMutex
    PROVE  World(v, T) /\ SameReq(r, v)
<1>1. \A u \in Thread \ T : ThreadOK(v, u)
  <2> SUFFICES ASSUME NEW u \in Thread \ T PROVE ThreadOK(v, u)
    OBVIOUS
  <2>1. SamePlace(r, v, u)
    BY CtlPlace DEF OnlyCounts
  <2>2. Agree(r, v, u)
    BY <2>1 DEF OnlyCounts, SameRun, SameWhere, Agree, SameWait, SameCv
  <2> QED
    BY <2>2, ThreadAgrees DEF World
<1>2. HoldOK(v) /\ OneResets(v)
  BY DEF World, HoldOK, OneResets, OnlyCounts, SameCtl
<1>3. /\ v.mstate = r.mstate /\ v.waitObj = r.waitObj /\ v.pri = r.pri /\ v.susp = r.susp
      /\ v.holder = r.holder /\ v.phase = r.phase /\ v.clnPri = r.clnPri
  BY DEF OnlyCounts, SameCtl, SameWhere
<1>4. NoIdle(v, {})
  BY <1>3 DEF World, NoIdle, Free, MWaits, Pends
<1>5. HighBut(v, {}, Null, 0)
  BY <1>3 DEF World, HighBut, Held, High, MWaits
<1> QED
  BY <1>1, <1>2, <1>4, <1>5 DEF World, SameReq, OnlyCounts, SameCtl

\* Nobody waits, and the count stays at zero or above.
LEMMA FreeCount ==
    ASSUME NEW r, NEW T, World(r, T), NEW s \in Sem, r.phase[s] # "deleted", r.count[s] >= 0,
           NEW n \in Nat, NEW v, v = CountTo(r, s, n)
    PROVE  World(v, T) /\ SameReq(r, v) /\ OnlyCounts(r, v)
<1>1. /\ FQ(r, {}, s, 0) /\ s \in Obj /\ CntT(r) /\ RQ(r, {}) /\ r.phase[s] # "deleted"
      /\ CountAt(r, s, 0)
  BY WorldTypes, FluxNone DEF Obj, QOK
<1>2. Len(r.waitQ[s]) \in Nat /\ r.count[s] \in Int
  BY <1>1, CountTypes
<1>3. SemTally(n, Len(r.waitQ[s]), 0)
  <2>1. SemTally(r.count[s], Len(r.waitQ[s]), 0)
    BY <1>1 DEF CountAt
  <2> QED
    BY <1>2, <2>1 DEF SemTally
<1>4. FQ(v, {}, s, 0) /\ CountSet(r, v, s, n)
  BY <1>1, <1>3, CountTake
<1> QED
  BY <1>4, FluxNone, CountWorld DEF CountSet

-----------------------------------------------------------------------------
\* A thread that waited is made ready.
LEMMA IdleThread ==
    ASSUME NEW r, NEW h, ThreadOK(r, h), NEW v, SamePlace(r, v, h), v.mstate[h] = "EReady",
           v.waitObj[h] = Null, ~v.blocked[h], r.mstate[h] # "EDead",
           r.pc[h] = "MutexWait" => r.cond[h] = Null
    PROVE  ThreadOK(v, h)
<1>1. WaitOK(v, h)
  BY DEF ThreadOK, WaitOK, SamePlace, SemWaits, MutexWaits, CondWaits, OnWaitQ, OnSuspQ
<1>2. SuspOK(v, h)
  BY DEF ThreadOK, SuspOK, SamePlace, OnWaitQ, OnSuspQ
<1>3. PcOK(v, h)
  BY DEF ThreadOK, PcOK, SamePlace, SemWaits, MutexWaits, CondWaits, OnWaitQ, OnSuspQ
<1> QED
  BY <1>1, <1>2, <1>3 DEF ThreadOK

\* A ready thread may do anything to its own mutex wait.
LEMMA IdleMoves ==
    ASSUME NEW r, NEW T, NEW m0, WorldOff(r, T, m0), NEW h \in Thread, h \notin T,
           r.mstate[h] # "EDead", r.pc[h] = "MutexWait" => r.cond[h] = Null,
           NEW v, QOK(v, {}), SameCtl(r, v), v.clnPri = r.clnPri, v.pri = r.pri,
           Lands(r, v, h, "EReady", Null), NEW c, Released(r, v, h, c),
           \A x \in Thread : x # h => SameCv(r, v, x),
           \A m \in Mutex : Pends(r, h, m) => m = m0 \/ ~Free(r, m),
           \A m \in Mutex : MWaits(r, h, m) => m = m0 \/ ~Held(r, m)
    PROVE  WorldOff(v, T, m0)
<1>1. RunT(r) /\ ThreadOK(r, h)
  BY DEF WorldOff, QOK
<1>2. v.mstate[h] = "EReady" /\ v.waitObj[h] = Null
  BY DEF Lands
<1>3. ~v.blocked[h]
  BY <1>1, ReleasedAt
<1>4. ThreadOK(v, h)
  BY <1>1, <1>2, <1>3, CtlPlace, IdleThread
<1>5. \A x \in Thread : x # h => SameWait(r, v, x) /\ SameCv(r, v, x)
  BY <1>1, OthersWait
<1>6. \A m \in Mutex : ~MWaits(v, h, m)
  BY <1>2 DEF MWaits
<1>7. \A m \in Mutex : Pends(r, h, m) \/ MWaits(v, h, m) => m = m0 \/ ~Free(r, m)
  BY <1>6
<1>8. \A m \in Mutex : MWaits(r, h, m) \/ MWaits(v, h, m) => m = m0 \/ ~Held(r, m)
  BY <1>6
<1>9. WorldOff(v, T \cup {h}, m0)
  BY <1>5, <1>7, <1>8, MoveOff
<1> QED
  BY <1>4, <1>9 DEF WorldOff

\* A thread leaves the queue and is counted off: in either order.
LEMMA CountSwap ==
    ASSUME NEW r, Rec(r), NEW s, NEW n, NEW h
    PROVE  WaitRemove(CountTo(r, s, n), s, h) = CountTo(WaitRemove(r, s, h), s, n)
<1> DEFINE a == CountTo(r, s, n)
           b == WaitRemove(a, s, h)
           w == WaitRemove(r, s, h)
           v == CountTo(w, s, n)
<1>1. /\ a = CountTo(r, s, n) /\ b = WaitRemove(a, s, h) /\ w = WaitRemove(r, s, h)
      /\ v = CountTo(w, s, n)
  OBVIOUS
<1> HIDE DEF a, b, w, v
<1>2. Rec(a) /\ CountSet(r, a, s, n)
  BY <1>1, CountToFields
<1>3. /\ Rec(b) /\ SameRest(a, b) /\ SameWhere(a, b) /\ SameCnt(a, b) /\ b.pri = a.pri
      /\ b.waitQ = [a.waitQ EXCEPT ![s] = Without(a.waitQ[s], h)] /\ b.suspQ = a.suspQ
      /\ b.pendQ = a.pendQ
  <2>1. /\ SameRest(a, b) /\ SameWhere(a, b) /\ SameCnt(a, b) /\ b.pri = a.pri
        /\ b.suspQ = a.suspQ /\ b.pendQ = a.pendQ
    BY <1>1, <1>2, SMT DEF Rec, Fields, WaitRemove, SameRest, SameCtl, SameRun, SameWhere, SameCnt
  <2>2. b.waitQ = [a.waitQ EXCEPT ![s] = Without(a.waitQ[s], h)] /\ DOMAIN b = Fields
    BY <1>1, <1>2, SMT DEF Rec, Fields, WaitRemove
  <2>3. b = [f \in DOMAIN b |-> b[f]]
    BY <1>1, SMT DEF WaitRemove
  <2> QED
    BY <2>1, <2>2, <2>3 DEF Rec
<1>4. /\ Rec(w) /\ SameRest(r, w) /\ SameWhere(r, w) /\ SameCnt(r, w) /\ w.pri = r.pri
      /\ w.waitQ = [r.waitQ EXCEPT ![s] = Without(r.waitQ[s], h)] /\ w.suspQ = r.suspQ
      /\ w.pendQ = r.pendQ
  <2>1. /\ SameRest(r, w) /\ SameWhere(r, w) /\ SameCnt(r, w) /\ w.pri = r.pri
        /\ w.suspQ = r.suspQ /\ w.pendQ = r.pendQ
    BY <1>1, SMT DEF Rec, Fields, WaitRemove, SameRest, SameCtl, SameRun, SameWhere, SameCnt
  <2>2. w.waitQ = [r.waitQ EXCEPT ![s] = Without(r.waitQ[s], h)] /\ DOMAIN w = Fields
    BY <1>1, SMT DEF Rec, Fields, WaitRemove
  <2>3. w = [f \in DOMAIN w |-> w[f]]
    BY <1>1, SMT DEF WaitRemove
  <2> QED
    BY <2>1, <2>2, <2>3 DEF Rec
<1>5. Rec(v) /\ CountSet(w, v, s, n)
  BY <1>1, <1>4, CountToFields
<1>6. SameCtl(v, b) /\ SameRun(v, b)
  BY <1>2, <1>3, <1>4, <1>5 DEF CountSet, OnlyCounts, SameRest, SameCtl, SameRun
<1>7. /\ SameCnt(v, b) /\ SameWhere(v, b) /\ SameQ(v, b) /\ b.pri = v.pri /\ b.clnPri = v.clnPri
      /\ b.fault = v.fault
  BY <1>2, <1>3, <1>4, <1>5 DEF CountSet, OnlyCounts, SameRest, SameCnt, SameWhere, SameQ
<1> QED
  BY <1>1, <1>3, <1>5, <1>6, <1>7, RecEq DEF SameAll

\* A thread off its wait queue, counted no more, is made ready.
LEMMA IdleAfter ==
    ASSUME NEW r, NEW T, World(r, T), NEW o \in Obj, o \notin Mutex, NEW h \in Thread, h \notin T,
           r.waitObj[h] = o, r.mstate[h] \notin Idle, r.mstate[h] # "EHoldMutexPending",
           r.pc[h] = "MutexWait" => r.cond[h] = Null,
           NEW b, QOK(b, {h}), SameRest(r, b), SameWhere(r, b), b.pri = r.pri,
           \A x \in Thread : x # h => SameCv(r, b, x),
           NEW c \in Rets, NEW v, v = GoIdle(b, h, c)
    PROVE  World(v, T) /\ SameCtl(r, v) /\ SameReq(r, v) /\ \A x \in Thread : x # h => SameWait(r, v, x)
<1>1. FQ(b, {} \cup {h}, o, 0)
  <2>1. {} \cup {h} = {h}
    OBVIOUS
  <2> QED
    BY <2>1, FluxNone
<1>2. /\ FQ(v, {}, o, 0) /\ SameNumbers(b, v) /\ SameCnt(b, v) /\ Released(b, v, h, c)
      /\ Lands(b, v, h, "EReady", Null)
  BY <1>1, GoIdleKeeps
<1>3. QOK(v, {}) /\ SameCtl(r, v) /\ v.clnPri = r.clnPri /\ v.pri = r.pri /\ v.fault = r.fault
  BY <1>2, FluxNone DEF SameNumbers, SameData, SameRest, SameCtl
<1>4. Lands(r, v, h, "EReady", Null) /\ Released(r, v, h, c)
  BY <1>2, LandsBack, ReleasedBack DEF SameRest
<1>5. \A x \in Thread : x # h => SameCv(r, v, x)
  BY <1>2 DEF SameCnt, SameCv
<1>6. \A m \in Mutex : ~Pends(r, h, m) /\ ~MWaits(r, h, m)
  BY DEF Pends, MWaits
<1>7. WorldOff(r, T, Null) /\ RunT(r)
  BY WorldNoHole, WorldTypes
<1>8. WorldOff(v, T, Null)
  BY <1>3, <1>4, <1>5, <1>6, <1>7, IdleMoves DEF Idle
<1>9. World(v, T)
  BY <1>8, WorldNoHole
<1>10. \A x \in Thread : x # h => SameWait(r, v, x)
  BY <1>4, <1>7, OthersWait
<1> QED
  BY <1>3, <1>9, <1>10 DEF SameReq, SameCtl

\* The first waiter of semaphore s goes on.
LEMMA SemReleases ==
    ASSUME NEW r, NEW t \in Thread, World(r, {t}), Mine(r, t), NEW s \in Sem,
           r.phase[s] # "deleted",
           r.count[s] + 1 =< 0, NEW c \in Rets,
           NEW v, v = ReleaseFirst(CountTo(r, s, r.count[s] + 1), s, c)
    PROVE  World(v, {t}) /\ Acted(r, v, t)
<1> DEFINE n == r.count[s] + 1
           h == Head(r.waitQ[s])
           w == WaitRemove(r, s, h)
           b == CountTo(w, s, n)
<1>1. /\ Rec(r) /\ RQ(r, {}) /\ QOK(r, {}) /\ CntT(r) /\ s \in Obj /\ s \notin Mutex
      /\ WaitState[s] = "EWaitSemaphore" /\ CountAt(r, s, 0) /\ r.count[s] \in Int
  <2>1. Rec(r) /\ RQ(r, {}) /\ QOK(r, {}) /\ CntT(r)
    BY WorldTypes
  <2>2. s \in Obj /\ s \notin Mutex
    BY SyncAssumption DEF Obj
  <2>3. WaitState[s] = "EWaitSemaphore"
    BY WaitStates
  <2>4. CountAt(r, s, 0)
    BY <2>1, <2>2 DEF QOK
  <2>5. r.count[s] \in Int
    BY <2>1 DEF CntT
  <2> QED
    BY <2>1, <2>2, <2>3, <2>4, <2>5
<1>2. r.waitQ[s] # <<>>
  <2>1. SemTally(r.count[s], Len(r.waitQ[s]), 0)
    BY <1>1 DEF CountAt
  <2>2. Len(r.waitQ[s]) \in Nat
    BY <1>1, RHead
  <2>3. Len(r.waitQ[s]) # 0
    BY <1>1, <2>1, <2>2 DEF SemTally
  <2> QED
    BY <2>3
<1>3. h \in Thread /\ h \in Range(r.waitQ[s])
  BY <1>1, <1>2, RHead
<1>4. CountTo(r, s, n).waitQ = r.waitQ
  <2> DEFINE a == CountTo(r, s, n)
  <2>1. a = CountTo(r, s, n)
    OBVIOUS
  <2> HIDE DEF a, n
  <2>2. CountSet(r, a, s, n)
    BY <1>1, <2>1, CountToFields
  <2> QED
    BY <2>1, <2>2 DEF CountSet, OnlyCounts, SameQ
<1>5. v = GoIdle(b, h, c)
  <2>1. v = GoIdle(WaitRemove(CountTo(r, s, n), s, h), h, c)
    BY <1>4 DEF ReleaseFirst, GoIdle
  <2> QED
    BY <1>1, <2>1, CountSwap
<1>6. w = WaitRemove(r, s, h) /\ b = CountTo(w, s, n) /\ n = r.count[s] + 1
  OBVIOUS
<1> HIDE DEF n, h, w, b
<1>7. /\ FQ(w, {} \cup {h}, s, 1) /\ SameRest(r, w) /\ SameWhere(r, w) /\ SameCnt(r, w)
      /\ w.pri = r.pri /\ r.waitObj[h] = s /\ r.mstate[h] = "EWaitSemaphore"
  BY <1>1, <1>3, <1>6, TakeWait
<1>8. w.phase[s] # "deleted" /\ w.count[s] = r.count[s] /\ n \in Int
  BY <1>1, <1>6, <1>7 DEF SameRest, SameCtl, SameCnt
<1>9. SemTally(n, Len(w.waitQ[s]), 0)
  <2>1. CountAt(w, s, 1) /\ CntT(w) /\ RQ(w, {} \cup {h})
    BY <1>1, <1>7 DEF FQ
  <2>2. Len(w.waitQ[s]) \in Nat
    BY <1>1, <2>1, RHead
  <2>3. SemTally(w.count[s], Len(w.waitQ[s]), 1)
    BY <1>8, <2>1 DEF CountAt
  <2> QED
    <3>1. w.count[s] = r.count[s] /\ n = r.count[s] + 1 /\ r.count[s] \in Int /\ n =< 0
      BY <1>1, <1>6, <1>8
    <3> QED
      BY <2>2, <2>3, <3>1 DEF SemTally
<1>10. FQ(b, {} \cup {h}, s, 0) /\ CountSet(w, b, s, n)
  <2>1. FQ(w, {} \cup {h}, s, 1) /\ w.phase[s] # "deleted" /\ n \in Int /\ b = CountTo(w, s, n)
    BY <1>6, <1>7, <1>8
  <2> QED
    BY <1>9, <2>1, CountTake
<1>11. QOK(b, {h})
  <2>1. {} \cup {h} = {h}
    OBVIOUS
  <2> QED
    BY <1>10, <2>1, FluxNone
<1>12. SameRest(w, b) /\ SameWhere(w, b) /\ b.pri = w.pri /\ b.cvMutex = w.cvMutex
  BY <1>10 DEF CountSet, OnlyCounts, SameRest
<1>13. SameRest(r, b) /\ SameWhere(r, b) /\ b.pri = r.pri /\ b.cvMutex = r.cvMutex
  BY <1>7, <1>12, SameRestTrans DEF SameWhere, SameCnt
<1>14. h \notin {t} /\ ThreadOK(r, h)
  BY <1>3, <1>7 DEF Mine, World
<1>15. /\ r.mstate[h] \notin Idle /\ r.mstate[h] # "EHoldMutexPending"
       /\ r.pc[h] = "MutexWait" => r.cond[h] = Null
  BY <1>7, <1>14 DEF Idle, ThreadOK, PcOK, MutexWaits
<1>16. \A x \in Thread : x # h => SameCv(r, b, x)
  BY <1>13 DEF SameCv
<1>17. World(v, {t}) /\ SameCtl(r, v) /\ SameReq(r, v) /\ \A x \in Thread : x # h => SameWait(r, v, x)
  BY <1>1, <1>3, <1>5, <1>7, <1>11, <1>13, <1>14, <1>15, <1>16, IdleAfter
<1>18. SameWait(r, v, t)
  BY <1>14, <1>17
<1>19. ReqBut(r, {}) => ReqBut(v, {})
  BY <1>17 DEF SameReq, ReqBut, IsReq
<1> QED
  BY <1>17, <1>18, <1>19 DEF Acted, SameCtl, SameReq, SameOwnAll

\* A change of counters is a step of a call.
LEMMA CountsActed ==
    ASSUME NEW r, NEW v, NEW t, OnlyCounts(r, v), SameReq(r, v)
    PROVE  Acted(r, v, t)
<1>1. ReqBut(r, {}) => ReqBut(v, {})
  BY DEF SameReq, ReqBut, IsReq
<1> QED
  BY <1>1 DEF OnlyCounts, Acted, SameCtl, SameRun, SameWhere, SameOwnAll, SameWait

\* DSemaphore::Signal.
LEMMA SemSignalWorld ==
    ASSUME NEW r, NEW t \in Thread, World(r, {t}), Mine(r, t), NEW s \in Sem,
           r.phase[s] # "deleted",
           NEW v, v = SemSignal(r, s)
    PROVE  World(v, {t}) /\ Acted(r, v, t) /\ Mine(v, t)
<1>0. r.count[s] \in Int /\ Rec(r)
  BY WorldTypes DEF CntT
<1> DEFINE k1 == [r EXCEPT !.count[s] = @ + 1]
           n == r.count[s] + 1
<1>1. k1 = CountTo(r, s, n)
  BY DEF CountTo
<1>2. k1.count[s] = n
  <2>1. CountSet(r, k1, s, n)
    BY <1>0, <1>1, CountToFields
  <2>2. r.count \in [Sem -> Int]
    BY WorldTypes DEF CntT
  <2> QED
    BY <2>1, <2>2 DEF CountSet
<1>3. World(v, {t}) /\ Acted(r, v, t)
  <2>1. CASE Resetting(r, s)
    <3>1. v = r
      BY <2>1 DEF SemSignal
    <3> QED
      BY <3>1 DEF Acted, SameOwnAll, SameWait
  <2>2. CASE ~Resetting(r, s) /\ n =< 0
    <3>1. v = ReleaseFirst(CountTo(r, s, n), s, "KErrNone")
      BY <1>1, <1>2, <2>2 DEF SemSignal
    <3>2. "KErrNone" \in Rets
      BY DEF Rets
    <3> QED
      BY <2>2, <3>1, <3>2, SemReleases
  <2>3. CASE ~Resetting(r, s) /\ ~(n =< 0)
    <3>1. v = CountTo(r, s, n)
      BY <1>1, <1>2, <2>3 DEF SemSignal
    <3>2. r.count[s] >= 0 /\ n \in Nat
      BY <1>0, <2>3
    <3>3. World(v, {t}) /\ SameReq(r, v) /\ OnlyCounts(r, v)
      BY <3>1, <3>2, FreeCount
    <3> QED
      BY <3>3, CountsActed
  <2> QED
    BY <2>1, <2>2, <2>3
<1>4. Mine(v, t)
  BY <1>3, ActedMine DEF Acted
<1> QED
  BY <1>3, <1>4

\* A thread in its own code that waits for nothing.
LEMMA RunsOn ==
    ASSUME NEW r, NEW t \in Thread, World(r, {t}), Mine(r, t), r.pc[t] = "run", r.cond[t] = Null
    PROVE  World(r, {})
<1>1. ThreadOK(r, t)
  BY ReadyOK DEF Mine
<1> QED
  BY <1>1, WorldAll

\* A thread on no queue joins the wait queue of o, where it is counted.
LEMMA WaitLands ==
    ASSUME NEW a, NEW t \in Thread, NEW o \in Obj, FQ(a, {t}, o, 1), a.phase[o] # "deleted",
           NEW ms, ms = WaitState[o], NEW w, w = Wait(a, o, t, ms)
    PROVE  /\ QOK(w, {}) /\ SameRest(a, w) /\ SameCnt(a, w) /\ w.pri = a.pri
           /\ Lands(a, w, t, ms, o)
<1>1. /\ Rec(a) /\ a.mstate \in [Thread -> MState] /\ a.waitObj \in [Thread -> Obj \cup {Null}]
  BY FQTypes
<1>2. /\ Rec(w) /\ SameRest(a, w) /\ SameCnt(a, w) /\ GetW(a, w, o, t)
      /\ w.mstate = [a.mstate EXCEPT ![t] = ms] /\ w.waitObj = [a.waitObj EXCEPT ![t] = o]
  BY <1>1, WaitFields
<1>3. ms \in MState
  BY WaitStates DEF OnWaitQ, MState
<1>4. Lands(a, w, t, ms, o)
  BY <1>1, <1>2, <1>3, LandsIs
<1>5. Kept(a, w)
  BY <1>2, SameRestKept
<1>6. FQ(a, {} \cup {t}, o, 1)
  <2>1. {} \cup {t} = {t}
    OBVIOUS
  <2> QED
    BY <2>1
<1>7. QOK(w, {})
  <2>1. Lands(a, w, t, WaitState[o], o)
    BY <1>4
  <2> QED
    BY <1>2, <1>5, <1>6, <2>1, LandWait
<1> QED
  BY <1>2, <1>4, <1>7 DEF GetW

\* A thread that waits for no mutex goes to wait for something else.
LEMMA OtherWait ==
    ASSUME NEW r, NEW t \in Thread, World(r, {t}), NEW w, QOK(w, {}), SameRest(r, w), w.pri = r.pri,
           NEW ms, NEW o, Lands(r, w, t, ms, o), ms # "EWaitMutex",
           r.mstate[t] \notin {"EWaitMutex", "EHoldMutexPending"},
           \A x \in Thread : x # t => SameCv(r, w, x)
    PROVE  World(w, {t}) /\ SameReq(r, w)
<1>1. WorldOff(r, {t}, Null) /\ RunT(r)
  BY WorldNoHole, WorldTypes
<1>2. \A m \in Mutex : ~Pends(r, t, m) /\ ~MWaits(r, t, m) /\ ~MWaits(w, t, m)
  BY DEF Pends, MWaits, Lands
<1>3. \A x \in Thread : x # t => SameWait(r, w, x) /\ SameCv(r, w, x)
  BY <1>1, OthersWait DEF SameRest
<1>4. WorldOff(w, {t} \cup {t}, Null)
  BY <1>1, <1>2, <1>3, MoveOff DEF SameRest
<1>5. {t} \cup {t} = {t}
  OBVIOUS
<1>6. World(w, {t})
  BY <1>4, <1>5, WorldNoHole
<1> QED
  BY <1>6 DEF SameReq, SameRest, SameCtl

\* DSemaphore::Wait blocks.
LEMMA SemWaitBlocks ==
    ASSUME NEW r, NEW t \in Thread, World(r, {t}), Mine(r, t), NEW s \in Sem,
           r.phase[s] # "deleted",
           r.pc[t] = "run", r.cond[t] = Null, NEW n, n = r.count[s] - 1, n < 0,
           NEW b \in BOOLEAN, NEW v, v = Block(Wait(CountTo(r, s, n), s, t, "EWaitSemaphore"), t, b)
    PROVE  World(v, {}) /\ Steady(r, v)
<1> DEFINE a == CountTo(r, s, n)
           w == Wait(a, s, t, "EWaitSemaphore")
<1>1. a = CountTo(r, s, n) /\ w = Wait(a, s, t, "EWaitSemaphore") /\ v = Block(w, t, b)
  OBVIOUS
<1> HIDE DEF a, w
<1>2. Rec(r) /\ RQ(r, {}) /\ CntT(r) /\ QOK(r, {t})
  BY WorldTypes, ReadyFlux DEF Mine, Idle
<1>3. s \in Obj /\ s \notin Mutex
  BY SyncAssumption DEF Obj
<1>4. WaitState[s] = "EWaitSemaphore"
  BY WaitStates
<1>5. FQ(a, {t}, s, 1) /\ CountSet(r, a, s, n)
  <2>1. FQ(r, {t}, s, 0) /\ r.count[s] \in Int /\ Len(r.waitQ[s]) \in Nat
    BY <1>2, <1>3, FluxNone, CountTypes
  <2>2. SemTally(r.count[s], Len(r.waitQ[s]), 0)
    BY <1>2, <1>3 DEF QOK, CountAt
  <2>3. SemTally(n, Len(r.waitQ[s]), 1)
    BY <2>1, <2>2 DEF SemTally
  <2> QED
    BY <1>1, <2>1, <2>3, CountTake
<1>6. /\ QOK(w, {}) /\ SameRest(a, w) /\ SameCnt(a, w) /\ w.pri = a.pri
      /\ Lands(a, w, t, "EWaitSemaphore", s)
  <2>1. a.phase[s] # "deleted"
    BY <1>5 DEF CountSet, OnlyCounts, SameCtl
  <2> QED
    BY <1>1, <1>3, <1>4, <1>5, <2>1, WaitLands
<1>7. SameRest(r, a) /\ SameWhere(r, a) /\ a.pri = r.pri /\ a.cvMutex = r.cvMutex
  BY <1>5 DEF CountSet, OnlyCounts, SameRest
<1>8. /\ SameRest(r, w) /\ w.pri = r.pri /\ w.cvMutex = r.cvMutex
      /\ Lands(r, w, t, "EWaitSemaphore", s)
  BY <1>6, <1>7, SameRestTrans, LandsBack DEF SameCnt
<1>9. World(w, {t}) /\ SameReq(r, w)
  <2>1. \A x \in Thread : x # t => SameCv(r, w, x)
    BY <1>8 DEF SameCv
  <2>2. r.mstate[t] \notin {"EWaitMutex", "EHoldMutexPending"}
    BY DEF Mine
  <2> QED
    BY <1>6, <1>8, <2>1, <2>2, OtherWait
<1>10. OwnStep(w, v, t) /\ BlockTo(w, v, t, b)
  BY <1>1, <1>9, WorldTypes, BlockOwn
<1>11. /\ v.mstate[t] = "EWaitSemaphore" /\ v.waitObj[t] = s /\ v.pc[t] = "run" /\ v.cond[t] = Null
       /\ v.blocked[t] /\ ~(v.susp[t] > 0) /\ v.csFunction[t] >= -1 /\ (~v.cs[t] => v.csFunction[t] = 0)
  BY <1>8, <1>10 DEF OwnStep, BlockTo, SameK, SameWhere, Lands, SameRest, SameCtl, Mine
<1>12. ThreadOK(v, t)
  BY <1>11 DEF ThreadOK, WaitOK, SuspOK, PcOK, SemWaits, MutexWaits, CondWaits, OnWaitQ, OnSuspQ
<1>13. World(v, {})
  <2>1. w.mstate[t] # "EHoldMutexPending" \/ ~(v.susp[t] > 0)
    BY <1>11
  <2>2. v.pc[t] # "Reset"
    BY <1>11
  <2> QED
    BY <1>9, <1>10, <1>12, <2>1, <2>2, OwnEnd
<1>14. Steady(r, v)
  <2>1. Steady(r, w)
    BY <1>9, SteadySame
  <2> QED
    BY <1>10, <2>1, SteadyThen DEF OwnStep, BlockTo
<1> QED
  BY <1>13, <1>14

\* A call of DSemaphore::Signal.
LEMMA SemSignalsFine ==
    ASSUME World(k, {}), NEW t \in Thread, NEW s \in Sem, SemSignals(t, s)
    PROVE  World(k', {}) /\ Steady(k, k')
<1>1. At(t, "run") /\ k.phase[s] # "deleted" /\ k' = SemSignal(k, s)
  BY DEF SemSignals, Usable
<1>2. Mine(k, t) /\ k.cond[t] = Null /\ World(k, {t}) /\ k.pc[t] = "run"
  BY <1>1, AtRun
<1>3. World(k', {t}) /\ Acted(k, k', t) /\ Mine(k', t)
  BY <1>1, <1>2, SemSignalWorld
<1>4. k'.pc[t] = "run" /\ k'.cond[t] = Null
  BY <1>2, <1>3 DEF Acted, SameOwnAll
<1> QED
  BY <1>3, <1>4, RunsOn, ActedSteady

\* DSemaphore::Wait(-1).
LEMMA SemPollFine ==
    ASSUME World(k, {}), NEW t \in Thread, NEW s \in Sem, SemPoll(t, s)
    PROVE  World(k', {}) /\ Steady(k, k')
<1> DEFINE n == k.count[s] - 1
<1>1. k.phase[s] # "deleted" /\ k.count[s] > 0 /\ k' = CountTo(k, s, n)
  BY DEF SemPoll, Usable, CountTo
<1>2. k.count[s] \in Int
  BY WorldTypes DEF CntT
<1>3. k.count[s] >= 0 /\ n \in Nat
  BY <1>1, <1>2
<1> HIDE DEF n
<1> QED
  BY <1>1, <1>3, FreeCount, SteadySame

\* DSemaphore::Wait.
LEMMA SemWaitFine ==
    ASSUME World(k, {}), NEW t \in Thread, NEW s \in Sem, SemWait(t, s)
    PROVE  World(k', {}) /\ Steady(k, k')
<1> DEFINE n == k.count[s] - 1
           a == [k EXCEPT !.count[s] = @ - 1]
           b == t \in Timed
<1>1. At(t, "run") /\ k.phase[s] # "deleted"
      /\ k' = IF a.count[s] >= 0 THEN a ELSE Block(Wait(a, s, t, "EWaitSemaphore"), t, b)
  BY DEF SemWait, Usable
<1>2. k.count[s] \in Int /\ k.count \in [Sem -> Int] /\ Rec(k)
  BY WorldTypes DEF CntT
<1>3. a = CountTo(k, s, n)
  BY DEF CountTo
<1>4. n \in Int /\ b \in BOOLEAN /\ n = k.count[s] - 1
  BY <1>2
<1> HIDE DEF a, n, b
<1>5. a.count[s] = n
  <2>1. CountSet(k, a, s, n)
    BY <1>2, <1>3, CountToFields
  <2> QED
    BY <1>2, <2>1 DEF CountSet
<1>6. CASE n >= 0
  <2>1. k' = CountTo(k, s, n)
    BY <1>1, <1>3, <1>5, <1>6
  <2>2. k.count[s] >= 0 /\ n \in Nat
    BY <1>2, <1>4, <1>6
  <2> QED
    BY <1>1, <2>1, <2>2, FreeCount, SteadySame
<1>7. CASE ~(n >= 0)
  <2>1. k' = Block(Wait(CountTo(k, s, n), s, t, "EWaitSemaphore"), t, b)
    BY <1>1, <1>3, <1>5, <1>7
  <2>2. n < 0
    BY <1>4, <1>7
  <2>3. Mine(k, t) /\ k.cond[t] = Null /\ World(k, {t}) /\ k.pc[t] = "run"
    BY <1>1, AtRun
  <2> QED
    BY <1>1, <1>4, <2>1, <2>2, <2>3, SemWaitBlocks
<1> QED
  BY <1>6, <1>7

\* A thread with the processor that waits for nothing.
LEMMA StepMine ==
    ASSUME World(k, {}), NEW t \in Thread, NEW a, At(t, a)
    PROVE  /\ ThreadOK(k, t) /\ World(k, {t}) /\ k.pc[t] = a /\ a # "dead"
           /\ ~k.blocked[t] /\ ~(k.susp[t] > 0)
           /\ k.mstate[t] = "EReady" => Mine(k, t)
<1>1. ThreadOK(k, t) /\ World(k, {t})
  BY WorldLess DEF World
<1>2. ~k.blocked[t] /\ k.susp[t] = 0 /\ k.pc[t] # "dead" /\ k.pc[t] = a
  BY DEF At, CanRun
<1>3. k.mstate[t] = "EReady" => Mine(k, t)
  BY <1>1, <1>2 DEF ThreadOK, WaitOK, SuspOK, Mine
<1> QED
  BY <1>1, <1>2, <1>3

\* A step on own fields leaves the thread where it is.
LEMMA OwnMine ==
    ASSUME NEW r, NEW s, NEW t \in Thread, World(r, {t}), Mine(r, t), OwnStep(r, s, t),
           s.cs = r.cs \/ s.cs[t], s.susp = r.susp, s.csFunction = r.csFunction, s.blocked = r.blocked,
           s.pc[t] = "Reset" => r.pc[t] = "Reset" /\ s.obj[t] = r.obj[t]
    PROVE  World(s, {t}) /\ Mine(s, t) /\ SameK(r, s)
<1>1. OfferKept(r, s, t) /\ ResetKept(r, s, t)
  BY DEF OfferKept, ResetKept, Mine
<1>2. World(s, {t}) /\ SameK(r, s)
  BY <1>1, OwnWorld DEF OwnStep
<1>3. Mine(s, t)
  BY <1>2 DEF Mine, SameK, SameWhere
<1> QED
  BY <1>2, <1>3

\* DSemaphore::SignalN returns.
LEMMA BackLeaveTodo ==
    ASSUME NEW r, NEW t \in Thread, World(r, {t}), Mine(r, t), NEW v,
           v = BackLeaveCS(SetTodo(r, t, 0), t)
    PROVE  World(v, {}) /\ SameK(r, v) /\ v.fault = r.fault
<1> DEFINE a == SetTodo(r, t, 0)
<1>1. a = SetTodo(r, t, 0) /\ v = BackLeaveCS(a, t) /\ 0 \in Nat
  OBVIOUS
<1> HIDE DEF a
<1>2. OwnStep(r, a, t) /\ SetTodoTo(r, a, t, 0)
  BY <1>1, WorldTypes, SetTodoOwn
<1>3. World(a, {t}) /\ Mine(a, t) /\ SameK(r, a)
  BY <1>2, OwnMine DEF SetTodoTo
<1>4. World(v, {}) /\ SameK(a, v) /\ v.fault = a.fault
  BY <1>1, <1>3, BackLeaveWorld
<1> QED
  BY <1>2, <1>3, <1>4, SameKTrans DEF SetTodoTo

\* DSemaphore::SignalN, a part.
LEMMA SignalNLoopWorld ==
    ASSUME NEW r, NEW t \in Thread, World(r, {t}), Mine(r, t), r.cs[t], NEW s \in Sem,
           r.phase[s] = "live", NEW n \in Nat, r.cond[t] = Null, NEW v, v = SignalNLoop(r, t, s, n)
    PROVE  World(v, {}) /\ Steady(r, v)
<1>1. ~Resetting(r, s) /\ r.phase[s] # "deleted" /\ r.count[s] \in Int
  BY WorldTypes DEF Resetting, CntT
<1>2. CASE n = 0
  <2>1. v = BackLeaveCS(SetTodo(r, t, 0), t)
    BY <1>1, <1>2 DEF SignalNLoop, SetTodo
  <2> QED
    BY <2>1, BackLeaveTodo, SteadyK
<1>3. CASE n # 0 /\ r.count[s] < 0
  <2> DEFINE a == SemSignal(r, s)
  <2>1. a = SemSignal(r, s) /\ v = SetSignal(a, t, "SignalN", s, n - 1)
    BY <1>1, <1>3 DEF SignalNLoop, SetSignal
  <2> HIDE DEF a
  <2>2. World(a, {t}) /\ Acted(r, a, t) /\ Mine(a, t)
    BY <1>1, <2>1, SemSignalWorld
  <2>3. OwnStep(a, v, t) /\ SetSignalTo(a, v, t, "SignalN", s, n - 1)
    <3>1. n - 1 \in Nat
      BY <1>3
    <3>2. "SignalN" \in Cont /\ s \in Obj \cup {Null}
      BY DEF Cont, Obj
    <3>3. Rec(a) /\ CtlT(a) /\ RunT(a)
      BY <2>2, WorldTypes
    <3> QED
      BY <2>1, <3>1, <3>2, <3>3, SetSignalOwn
  <2>4. /\ v.mstate[t] = "EReady" /\ v.waitObj[t] = Null /\ v.pc[t] = "SignalN" /\ v.cond[t] = Null
        /\ v.obj[t] = s /\ v.phase[s] = "live" /\ v.cs[t] /\ ~v.blocked[t]
        /\ ~(v.susp[t] > 0) /\ v.csFunction[t] >= -1
    BY <2>2, <2>3 DEF OwnStep, SetSignalTo, SameK, SameWhere, Mine, Acted, SameOwnAll
  <2>5. ThreadOK(v, t)
    BY <2>4 DEF ThreadOK, WaitOK, SuspOK, PcOK, SemWaits, MutexWaits, CondWaits, OnWaitQ, OnSuspQ
  <2>6. World(v, {})
    <3>1. a.mstate[t] # "EHoldMutexPending" \/ ~(v.susp[t] > 0)
      BY <2>4
    <3> QED
      BY <2>2, <2>3, <2>4, <2>5, <3>1, OwnEnd
  <2>7. Steady(r, a)
    BY <2>2, ActedSteady
  <2> QED
    BY <2>3, <2>6, <2>7, SteadyThen DEF OwnStep, SetSignalTo
<1>4. CASE n # 0 /\ ~(r.count[s] < 0)
  <2> DEFINE j == r.count[s] + n
             a == CountTo(r, s, j)
  <2>1. a = CountTo(r, s, j) /\ v = BackLeaveCS(SetTodo(a, t, 0), t)
    BY <1>1, <1>4 DEF SignalNLoop, SetTodo, CountTo
  <2>2. j \in Nat /\ r.count[s] >= 0
    BY <1>1, <1>4
  <2> HIDE DEF a, j
  <2>3. World(a, {t}) /\ SameReq(r, a) /\ OnlyCounts(r, a)
    BY <1>1, <2>1, <2>2, FreeCount
  <2>4. Acted(r, a, t)
    BY <2>3, CountsActed
  <2>5. Mine(a, t)
    BY <2>4, ActedMine DEF Acted
  <2>6. World(v, {}) /\ SameK(a, v) /\ v.fault = a.fault
    BY <2>1, <2>3, <2>5, BackLeaveTodo
  <2> QED
    BY <2>4, <2>6, ActedSteady, SteadyThen
<1> QED
  BY <1>2, <1>3, <1>4

\* A call in a critical section of its own.
LEMMA EnterMine ==
    ASSUME World(k, {}), NEW t \in Thread, At(t, "run"), NEW a, a = EnterCS(k, t)
    PROVE  /\ World(a, {t}) /\ Mine(a, t) /\ SameK(k, a) /\ a.fault = k.fault /\ a.cs[t]
           /\ a.cond = k.cond /\ a.pc = k.pc /\ a.obj = k.obj /\ a.todo = k.todo
           /\ k.cond[t] = Null /\ OwnStep(k, a, t) /\ a.pc[t] = "run"
<1>1. Mine(k, t) /\ k.cond[t] = Null /\ World(k, {t}) /\ k.pc[t] = "run"
  BY AtRun
<1>2. OwnStep(k, a, t) /\ EnterCSTo(k, a, t)
  BY <1>1, WorldTypes, EnterCSOwn
<1>3. World(a, {t}) /\ Mine(a, t) /\ SameK(k, a)
  BY <1>1, <1>2, OwnMine DEF EnterCSTo
<1> QED
  BY <1>1, <1>2, <1>3 DEF EnterCSTo

\* DSemaphore::SignalN, up to where it gives up the system lock.
LEMMA SemSignalNFine ==
    ASSUME World(k, {}), NEW t \in Thread, NEW s \in Sem, NEW n \in Nat, SemSignalN(t, s, n)
    PROVE  World(k', {}) /\ Steady(k, k')
<1> DEFINE a == EnterCS(k, t)
<1>1. At(t, "run") /\ k.phase[s] = "live" /\ a = EnterCS(k, t) /\ k' = SignalNLoop(a, t, s, n)
  BY DEF SemSignalN, Usable
<1> HIDE DEF a
<1>2. /\ World(a, {t}) /\ Mine(a, t) /\ SameK(k, a) /\ a.fault = k.fault /\ a.cs[t]
      /\ a.cond[t] = Null /\ a.phase[s] = "live"
  BY <1>1, EnterMine DEF SameK
<1>3. World(k', {}) /\ Steady(a, k')
  BY <1>1, <1>2, SignalNLoopWorld
<1> QED
  BY <1>2, <1>3, SteadyOwn, SameSelf

\* DSemaphore::SignalN goes on.
LEMMA SemSignalNGoesOnFine ==
    ASSUME World(k, {}), NEW t \in Thread, SemSignalNGoesOn(t)
    PROVE  World(k', {}) /\ Steady(k, k')
<1>1. At(t, "SignalN") /\ k' = SignalNLoop(k, t, k.obj[t], k.todo[t])
  BY DEF SemSignalNGoesOn
<1>2. /\ ThreadOK(k, t) /\ World(k, {t}) /\ k.pc[t] = "SignalN" /\ (k.mstate[t] = "EReady" => Mine(k, t))
  BY <1>1, StepMine
<1>3. /\ k.obj[t] \in Sem /\ k.phase[k.obj[t]] = "live" /\ k.mstate[t] = "EReady" /\ k.cs[t]
      /\ k.cond[t] = Null
  BY <1>2 DEF ThreadOK, PcOK, SuspOK
<1>4. k.todo[t] \in Nat
  BY WorldTypes DEF CtlT
<1> QED
  BY <1>1, <1>2, <1>3, <1>4, SignalNLoopWorld

\* h, off the queues, is signalled by t.
Signals(a, t, h, c) ==
    /\ FQ(a, {h}, c, 1) /\ a.phase[c] # "deleted" /\ h # t /\ a.mstate[t] = "EReady"
    /\ a.mstate[h] \in {"EWaitCondVar", "EWaitCondVarSuspended"} /\ a.waitObj[h] = c
    /\ (\A u \in Thread \ {t} : ThreadOK(a, u)) /\ HoldOK(a) /\ OneResets(a)
    /\ IdleOff(a, Null) /\ HighOff(a, Null)

\* DCondVar::UnBlockThread, for a signal.
LEMMA UnblockParts ==
    ASSUME NEW a, NEW t \in Thread, NEW h \in Thread, NEW c \in Cond, Signals(a, t, h, c),
           NEW l, l = UnBlockThread(a, c, h)
    PROVE  \E s : QOK(s, {}) /\ Unblocked(a, s, h, c, {}, l)
<1>1. ThreadOK(a, h) /\ a.mstate[h] \in {"EWaitCondVar", "EWaitCondVarSuspended"}
  BY DEF Signals
<1>2. a.phase[a.cvMutex[c]] # "deleted"
  <2>1. a.cvMutex[c] = a.obj[h] /\ a.waitObj[h] = a.cond[h] /\ a.waitObj[h] \in Cond
    BY <1>1 DEF Signals, ThreadOK, WaitOK, CondWaits
  <2>2. a.cond[h] # Null
    BY <2>1, SyncAssumption DEF Obj
  <2> QED
    BY <1>1, <2>1, <2>2 DEF ThreadOK, WaitOK
<1>3. FQ(a, {} \cup {h}, c, 1)
  <2>1. {} \cup {h} = {h}
    OBVIOUS
  <2> QED
    BY <2>1 DEF Signals
<1>4. a.phase[c] # "deleted" /\ h \notin {}
  BY DEF Signals
<1> QED
  BY <1>1, <1>2, <1>3, <1>4, UnblockKeeps

\* Its place in the code is right.
LEMMA UnblockedThread ==
    ASSUME NEW a, NEW t \in Thread, NEW h \in Thread, NEW c \in Cond, Signals(a, t, h, c),
           NEW l, NEW s, Unblocked(a, s, h, c, {}, l)
    PROVE  ThreadOK(s, h)
<1>1. /\ ThreadOK(a, h) /\ a.mstate[h] \in {"EWaitCondVar", "EWaitCondVarSuspended"}
      /\ a.waitObj[h] = c
      /\ RunT(a) /\ SameCtl(a, s)
  BY FQTypes DEF Signals, Unblocked, UnblockSame
<1>2. /\ a.waitObj[h] = a.cond[h] /\ a.cvMutex[c] = a.obj[h] /\ a.cond[h] # Null
      /\ a.obj[h] \in Mutex /\ SamePlace(a, s, h) /\ a.mstate[h] \in MutexWaits \cup CondWaits
  <2>1. a.waitObj[h] = a.cond[h] /\ a.cvMutex[c] = a.obj[h] /\ a.cond[h] \in Cond
    BY <1>1 DEF ThreadOK, WaitOK, CondWaits
  <2>2. a.cond[h] # Null
    BY <2>1, SyncAssumption DEF Obj
  <2>3. a.obj[h] \in Mutex
    BY <1>1, <2>2 DEF ThreadOK, WaitOK
  <2> QED
    BY <1>1, <2>1, <2>2, <2>3, CtlPlace DEF CondWaits
<1>3. CASE UnblockResets(a, s, h, c, l)
  <2>1. s.mstate[h] = "EReady" /\ s.waitObj[h] = Null
    BY <1>3 DEF UnblockResets, Lands
  <2>2. ~s.blocked[h]
    BY <1>1, <1>3, ReleasedAt DEF UnblockResets
  <2>3. a.mstate[h] # "EDead" /\ (a.pc[h] = "MutexWait" => a.cond[h] = Null)
    BY <1>1 DEF ThreadOK, PcOK, MutexWaits
  <2> QED
    BY <1>1, <1>2, <2>1, <2>2, <2>3, IdleThread
<1>4. CASE \E m \in Mutex : UnblockSuspended(a, s, h, c, m, l)
  <2>1. PICK m \in Mutex : UnblockSuspended(a, s, h, c, m, l)
    BY <1>4
  <2>2. s.mstate[h] = "EWaitMutexSuspended" /\ s.waitObj[h] = m /\ m = a.obj[h] /\ SameRun(a, s)
        /\ a.mstate[h] = "EWaitCondVarSuspended"
    BY <1>2, <2>1 DEF UnblockSuspended, Lands
  <2>3. Shifts(a, s, h)
    BY <1>1, <1>2, <2>2 DEF Shifts, SameRun, MutexWaits, CondWaits, ThreadOK, SuspOK, OnSuspQ
  <2> QED
    BY <1>1, <1>2, <2>3, ThreadShifts
<1>5. CASE \E m \in Mutex : UnblockQueues(a, s, h, c, m, l)
  <2>1. PICK m \in Mutex : UnblockQueues(a, s, h, c, m, l)
    BY <1>5
  <2>2. s.mstate[h] = "EWaitMutex" /\ s.waitObj[h] = m /\ m = a.obj[h] /\ SameRun(a, s)
        /\ a.mstate[h] = "EWaitCondVar"
    BY <1>2, <2>1 DEF UnblockQueues, Lands
  <2>3. Shifts(a, s, h)
    BY <1>1, <1>2, <2>2 DEF Shifts, SameRun, MutexWaits, CondWaits, ThreadOK, SuspOK, OnWaitQ
  <2> QED
    BY <1>1, <1>2, <2>3, ThreadShifts
<1>6. CASE \E m \in Mutex : UnblockOffers(a, s, h, c, m, l)
  <2>1. PICK m \in Mutex : UnblockOffers(a, s, h, c, m, l)
    BY <1>6
  <2>2. /\ s.mstate[h] = "EHoldMutexPending" /\ s.waitObj[h] = m /\ m = a.obj[h]
        /\ Released(a, s, h, "KErrNone") /\ a.mstate[h] = "EWaitCondVar"
    BY <1>2, <2>1 DEF UnblockOffers, ToPending, Lands
  <2>3. ~s.blocked[h] /\ ~s.timed[h] /\ s.ret[h] = "KErrNone"
    BY <1>1, <2>2, ReleasedAt
  <2>4. Shifts(a, s, h)
    BY <1>1, <1>2, <2>2, <2>3 DEF Shifts, MutexWaits, CondWaits
  <2> QED
    BY <1>1, <1>2, <2>4, ThreadShifts
<1> QED
  BY <1>3, <1>4, <1>5, <1>6 DEF Unblocked

\* The others are as they were.
LEMMA UnblockedOthers ==
    ASSUME NEW a, NEW t \in Thread, NEW h \in Thread, NEW c \in Cond, Signals(a, t, h, c),
           NEW l, NEW s, Unblocked(a, s, h, c, {}, l)
    PROVE  /\ \A u \in Thread : u # h => SameWait(a, s, u)
           /\ \A u \in Thread : u # h => SameCv(a, s, u) \/ u = t
           /\ \A u \in Thread \ {t} : ThreadOK(s, u)
           /\ But(a.mstate, s.mstate, h) /\ But(a.waitObj, s.waitObj, h)
<1>1. RunT(a) /\ SameCtl(a, s) /\ CvKept(a, s, {} \cup {h})
  BY FQTypes DEF Signals, Unblocked, UnblockSame
<1>2. \E ms, o : Lands(a, s, h, ms, o) /\ (SameRun(a, s) \/ \E x : Released(a, s, h, x))
  BY DEF Unblocked, UnblockResets, UnblockSuspended, UnblockQueues, UnblockOffers, ToPending
<1>3. PICK ms, o : Lands(a, s, h, ms, o) /\ (SameRun(a, s) \/ \E x : Released(a, s, h, x))
  BY <1>2
<1>4. \A u \in Thread : u # h => SameWait(a, s, u)
  BY <1>1, <1>3, OthersWait
<1>5. \A u \in Thread \ {t} : u # h => SameCv(a, s, u)
  <2> SUFFICES ASSUME NEW u \in Thread \ {t}, u # h, a.mstate[u] \in CondWaits
               PROVE  s.cvMutex[a.waitObj[u]] = a.cvMutex[a.waitObj[u]]
    BY DEF SameCv
  <2>1. a.waitObj[u] \in Cond
    BY DEF Signals, ThreadOK, WaitOK
  <2> QED
    BY <1>1, <2>1 DEF CvKept
<1>6. \A u \in Thread \ {t} : ThreadOK(s, u)
  <2> SUFFICES ASSUME NEW u \in Thread \ {t}, u # h PROVE ThreadOK(s, u)
    BY UnblockedThread
  <2>1. Agree(a, s, u)
    BY <1>1, <1>4, <1>5, CtlPlace DEF Agree
  <2> QED
    BY <2>1, ThreadAgrees DEF Signals
<1> QED
  BY <1>3, <1>4, <1>5, <1>6 DEF Lands

\* What there is of a thread that waits for a mutex after it was signalled.
UnblockLink(a, s, h, l) ==
    \/ l.m = Null /\ l.p = 0 /\ \A m \in Mutex : ~MWaits(s, h, m)
    \/ /\ l.m = Null /\ l.p = 0
       /\ \E m \in Mutex : /\ MWaits(s, h, m) /\ a.holder[m] # Null /\ a.pri[h] =< a.clnPri[m]
    \/ \E m \in Mutex : /\ MWaits(s, h, m) /\ a.holder[m] # Null /\ a.pri[h] > a.clnPri[m]
                        /\ l.m = m /\ l.p = a.pri[h] /\ l.n = 0

\* The chain of holders that starts from it.
LEMMA UnblockLinkIs ==
    ASSUME NEW a, NEW t \in Thread, NEW h \in Thread, NEW c \in Cond, Signals(a, t, h, c),
           NEW l, NEW s, Unblocked(a, s, h, c, {}, l)
    PROVE  l.k = s /\ LinkOK(l) /\ UnblockLink(a, s, h, l)
<1>1. a.pri[h] \in Pri
  BY FQTypes DEF Signals
<1>2. CASE UnblockResets(a, s, h, c, l)
  BY <1>2 DEF UnblockResets, Ends, LinkIs, LinkOK, UnblockLink, Lands, MWaits
<1>3. ASSUME NEW m \in Mutex, UnblockSuspended(a, s, h, c, m, l)
      PROVE  l.k = s /\ LinkOK(l) /\ UnblockLink(a, s, h, l)
  BY <1>3 DEF UnblockSuspended, Ends, LinkIs, LinkOK, UnblockLink, Lands, MWaits
<1>4. ASSUME NEW m \in Mutex, UnblockOffers(a, s, h, c, m, l)
      PROVE  l.k = s /\ LinkOK(l) /\ UnblockLink(a, s, h, l)
  BY <1>4 DEF UnblockOffers, Ends, LinkIs, LinkOK, UnblockLink, ToPending, Lands, MWaits
<1>5. ASSUME NEW m \in Mutex, UnblockQueues(a, s, h, c, m, l)
      PROVE  l.k = s /\ LinkOK(l) /\ UnblockLink(a, s, h, l)
  <2>1. MWaits(s, h, m) /\ a.holder[m] # Null
    BY <1>5 DEF UnblockQueues, Lands, MWaits
  <2>2. CASE Ends(l, s) /\ a.pri[h] =< a.clnPri[m]
    BY <2>1, <2>2 DEF Ends, LinkIs, LinkOK, UnblockLink
  <2>3. CASE a.pri[h] > a.clnPri[m] /\ LinkIs(l, s, m, a.pri[h], 0)
    BY <1>1, <2>1, <2>3 DEF LinkIs, LinkOK, UnblockLink
  <2> QED
    BY <1>5, <2>2, <2>3 DEF UnblockQueues
<1> QED
  BY <1>2, <1>3, <1>4, <1>5 DEF Unblocked

\* A new waiter of m, and what the cleanup item of m is to have.
LEMMA NewWaiterHigh ==
    ASSUME NEW a, NEW s, NEW h \in Thread, NEW m \in Mutex, a.pri \in [Thread -> Int],
           s.pri = a.pri,
           \A w \in Thread : MWaits(s, w, m) <=> MWaits(a, w, m) \/ w = h,
           NEW p \in Int, High(a, {}, m, p)
    PROVE  /\ a.pri[h] =< p => High(s, {}, m, p)
           /\ a.pri[h] > p => High(s, {}, m, a.pri[h])
<1>1. /\ \A w \in Thread : MWaits(a, w, m) => p >= a.pri[w]
      /\ p = 0 \/ \E w \in Thread : MWaits(a, w, m) /\ p = a.pri[w]
  BY DEF High
<1>2. ASSUME a.pri[h] =< p PROVE High(s, {}, m, p)
  <2>1. \A w \in Thread : MWaits(s, w, m) => p >= s.pri[w]
    BY <1>1, <1>2
  <2>2. p = 0 \/ \E w \in Thread : MWaits(s, w, m) /\ p = s.pri[w]
    BY <1>1
  <2> QED
    BY <2>1, <2>2 DEF High
<1>3. ASSUME a.pri[h] > p PROVE High(s, {}, m, a.pri[h])
  <2>1. \A w \in Thread : MWaits(s, w, m) => a.pri[h] >= s.pri[w]
    <3> SUFFICES ASSUME NEW w \in Thread, MWaits(a, w, m) PROVE a.pri[h] >= a.pri[w]
      OBVIOUS
    <3>1. p >= a.pri[w] /\ a.pri[w] \in Int /\ a.pri[h] \in Int
      BY <1>1
    <3> QED
      BY <1>3, <3>1
  <2>2. \E w \in Thread : MWaits(s, w, m) /\ a.pri[h] = s.pri[w]
    OBVIOUS
  <2> QED
    BY <2>1, <2>2 DEF High
<1> QED
  BY <1>2, <1>3

\* It starts as a chain must.
LEMMA UnblockExact ==
    ASSUME NEW a, NEW t \in Thread, NEW h \in Thread, NEW c \in Cond, Signals(a, t, h, c),
           NEW l, NEW s, QOK(s, {}), Unblocked(a, s, h, c, {}, l)
    PROVE  Chained(l, {}, {t}) /\ Exact(l, {})
<1>1. /\ l.k = s /\ LinkOK(l) /\ UnblockLink(a, s, h, l)
      /\ (\A u \in Thread : u # h => SameWait(a, s, u))
      /\ (\A u \in Thread \ {t} : ThreadOK(s, u))
      /\ But(a.mstate, s.mstate, h) /\ But(a.waitObj, s.waitObj, h)
      /\ SameCtl(a, s) /\ s.pri = a.pri /\ s.clnPri = a.clnPri
  <2>1. l.k = s /\ LinkOK(l) /\ UnblockLink(a, s, h, l)
    BY UnblockLinkIs
  <2>2. /\ (\A u \in Thread : u # h => SameWait(a, s, u))
        /\ (\A u \in Thread \ {t} : ThreadOK(s, u))
        /\ But(a.mstate, s.mstate, h) /\ But(a.waitObj, s.waitObj, h)
    BY UnblockedOthers
  <2>3. SameCtl(a, s) /\ s.pri = a.pri /\ s.clnPri = a.clnPri
    BY DEF Unblocked, UnblockSame
  <2> QED
    BY <2>1, <2>2, <2>3
<1>2. Fixed(s, t)
  BY <1>1 DEF Signals, SameWait, Fixed
<1>3. Chained(l, {}, {t})
  BY <1>1, <1>2 DEF Chained, Ground
<1>4. /\ a.pri \in [Thread -> Int] /\ a.clnPri \in [Mutex -> Pri \cup {0}]
      /\ IdleOff(a, Null) /\ HighOff(a, Null) /\ ThreadOK(s, h) /\ ThreadOK(a, h)
  BY <1>1, FQTypes DEF Signals, RunT
<1>5. \A m \in Mutex : ~Pends(a, h, m) /\ ~MWaits(a, h, m)
  BY DEF Signals, Pends, MWaits
<1>6. \A m \in Mutex : (Free(s, m) <=> Free(a, m)) /\ (Held(s, m) <=> Held(a, m))
  BY <1>1, CtlHeld
<1>7. But(a.pri, s.pri, h) /\ s.susp = a.susp
  BY <1>1 DEF But, SameCtl
<1>8. \A m \in Mutex : MWaits(s, h, m) => a.holder[m] # Null
  <2>1. \A m, n \in Mutex : MWaits(s, h, m) /\ MWaits(s, h, n) => m = n
    BY DEF MWaits
  <2> QED
    BY <1>1, <2>1 DEF UnblockLink
<1>9. NoIdle(s, {})
  <2>1. \A m \in Mutex : Pends(a, h, m) \/ MWaits(s, h, m) => m = Null \/ ~Free(s, m)
    BY <1>5, <1>6, <1>8 DEF Free
  <2>2. IdleOff(s, Null)
    BY <1>1, <1>4, <1>6, <1>7, <2>1, IdleFrame
  <2> QED
    BY <2>2, IdleAll
<1>10. LinkHigh(l, {})
  <2>1. CASE l.m = Null /\ l.p = 0 /\ \A m \in Mutex : ~MWaits(s, h, m)
    <3>1. \A m \in Mutex : MWaits(a, h, m) \/ MWaits(s, h, m) => m = Null \/ ~Held(s, m)
      BY <1>5, <2>1
    <3>2. HighOff(s, Null)
      BY <1>1, <1>4, <1>6, <1>7, <3>1, HighFrame
    <3> QED
      BY <1>1, <2>1, <3>2, HighAll DEF LinkHigh
  <2>2. ASSUME NEW m \in Mutex, MWaits(s, h, m), a.holder[m] # Null
        PROVE  /\ HighOff(s, m) /\ m # Null /\ a.clnPri[m] \in Int
               /\ a.pri[h] =< a.clnPri[m] => High(s, {}, m, s.clnPri[m])
               /\ a.pri[h] > a.clnPri[m] => High(s, {}, m, a.pri[h])
    <3>1. m # Null
      BY SyncAssumption DEF Obj
    <3>2. a.phase[m] = "live"
      <4>1. s.waitObj[h] = m /\ s.mstate[h] = "EWaitMutex" /\ s.cond = a.cond /\ s.obj = a.obj
        BY <1>1, <2>2 DEF MWaits, SameCtl
      <4>2. a.cond[h] # Null /\ a.pc[h] # "MutexWait" /\ s.pc = a.pc
        <5>1. a.cond[h] \in Cond
          BY <1>4 DEF Signals, ThreadOK, WaitOK, CondWaits
        <5>2. a.cond[h] # Null
          BY <5>1, SyncAssumption DEF Obj
        <5> QED
          BY <1>1, <1>4, <5>2 DEF Signals, ThreadOK, PcOK, MutexWaits, SameCtl
      <4>3. m = a.obj[h]
        BY <1>1, <2>2 DEF Unblocked, UnblockResets, UnblockSuspended, UnblockQueues, UnblockOffers,
                          ToPending, Lands, MWaits, Signals, ThreadOK, WaitOK, CondWaits
      <4> QED
        BY <1>4, <4>2, <4>3 DEF ThreadOK, WaitOK
    <3>3. Held(a, m)
      BY <2>2, <3>2 DEF Held
    <3>4. HighOff(a, m)
      BY <1>4, HighAll, OffMore
    <3>5. \A x \in Mutex : MWaits(a, h, x) \/ MWaits(s, h, x) => x = m \/ ~Held(s, x)
      BY <1>5, <2>2 DEF MWaits
    <3>6. HighOff(s, m)
      BY <1>1, <1>4, <1>6, <1>7, <3>4, <3>5, HighFrame
    <3>7. High(a, {}, m, a.clnPri[m])
      BY <1>4, <3>1, <3>3 DEF HighOff
    <3>8. a.clnPri[m] \in Int
      <4>1. Pri \cup {0} \subseteq Int
        BY PriNat
      <4>2. a.clnPri[m] \in Pri \cup {0}
        BY <1>4
      <4> QED
        BY <4>1, <4>2
    <3>9. \A w \in Thread : MWaits(s, w, m) <=> MWaits(a, w, m) \/ w = h
      BY <1>1, <2>2 DEF MWaits, But
    <3>10. /\ a.pri[h] =< a.clnPri[m] => High(s, {}, m, a.clnPri[m])
           /\ a.pri[h] > a.clnPri[m] => High(s, {}, m, a.pri[h])
      BY <1>1, <1>4, <3>7, <3>8, <3>9, NewWaiterHigh
    <3> QED
      BY <1>1, <3>1, <3>6, <3>8, <3>10
  <2>3. ASSUME NEW m \in Mutex, MWaits(s, h, m), a.holder[m] # Null, a.pri[h] =< a.clnPri[m],
               l.m = Null, l.p = 0
        PROVE  LinkHigh(l, {})
    <3>1. HighOff(s, m) /\ High(s, {}, m, s.clnPri[m])
      BY <2>2, <2>3
    <3>2. HighOff(s, Null)
      BY <3>1 DEF HighOff
    <3> QED
      BY <1>1, <2>3, <3>2, HighAll DEF LinkHigh
  <2>4. ASSUME NEW m \in Mutex, MWaits(s, h, m), a.holder[m] # Null, a.pri[h] > a.clnPri[m],
               l.m = m, l.p = a.pri[h]
        PROVE  LinkHigh(l, {})
    <3>1. HighOff(s, m) /\ High(s, {}, m, a.pri[h])
      BY <2>2, <2>4
    <3>2. HighBut(s, {}, m, a.pri[h])
      BY <3>1, HighBack
    <3> QED
      BY <1>1, <2>4, <3>2 DEF LinkHigh
  <2> QED
    BY <1>1, <2>1, <2>3, <2>4 DEF UnblockLink
<1> QED
  BY <1>1, <1>3, <1>9, <1>10 DEF Exact
===============================================================================
