-------------------------------- MODULE KSync --------------------------------
(***************************************************************************)
(* The Symbian OS kernel's semaphores, mutexes and condition variables     *)
(* (src/kernel/eka/kernel/skernel.cpp) and what DThread does with a thread *)
(* that waits for one (src/kernel/eka/kernel/sthread.cpp).                 *)
(*                                                                         *)
(* The code between taking and releasing the system lock is an operator    *)
(* from a state (a record k) to the state it leaves; module KThread makes  *)
(* steps of them.  Fields of k keep the name of the member they stand for, *)
(* without its leading i.                                                  *)
(*                                                                         *)
(* DATA abstracted: names, owners and handles, return codes other than the *)
(* one NKern::Block hands back, the debug build's mutex order, and which   *)
(* thread has the processor: any thread that is not blocked or suspended   *)
(* may take the system lock next.  pri is both i_NThread_BasePri and       *)
(* iWaitLink.iPriority, which change together.                             *)
(***************************************************************************)
EXTENDS Queues, FiniteSets, TLC

CONSTANTS Thread, Mutex, Sem, Cond, Null,
    Pri,        \* thread priorities in use
    InitPri,    \* the default priority of each thread
    ExitPri,    \* KDefaultExitPriority
    Order       \* iOrder of each mutex

KMaxPriorityInheritanceNesting == 10
KNumPriorities == 64
KMutexOrdUser == 254

Obj == Mutex \cup Sem \cup Cond

ASSUME SyncAssumption ==
    /\ IsFiniteSet(Thread)
    /\ Null \notin Thread \cup Obj
    /\ Mutex \cap Sem = {} /\ Mutex \cap Cond = {} /\ Sem \cap Cond = {}
    /\ Pri \subseteq 1..(KNumPriorities - 1)
    /\ InitPri \in [Thread -> Pri]
    /\ ExitPri \in Pri
    /\ Order \in [Mutex -> 0..255]

\* DThread::TThreadState; nobody can wait before it has been resumed once.
MState == {"EReady", "EDead", "EWaitSemaphore", "EWaitSemaphoreSuspended",
           "EWaitMutex", "EWaitMutexSuspended", "EHoldMutexPending",
           "EWaitCondVar", "EWaitCondVarSuspended"}

\* Where a thread goes on when it next has the system lock.
Cont == {"run",                     \* its own code
         "MutexWait",               \* DMutex::Wait, in or after NKern::Block
         "CondWindow", "CondWait",  \* DCondVar::Wait, before and after Block
         "SignalN", "Broadcast",    \* between two of the threads it wakes
         "Reset",                   \* between two of the threads it releases
         "Exit", "Cleanup", "dead"} \* DThread::Exit

KState ==
    [mstate    : [Thread -> MState],
     waitObj   : [Thread -> Obj \cup {Null}],
     pri       : [Thread -> Pri],
     defPri    : [Thread -> Pri],
     cleanupQ  : [Thread -> SUBSET Mutex],
     blocked   : [Thread -> BOOLEAN],        \* in NKern::Block
     timed     : [Thread -> BOOLEAN],        \* a timeout of that is running
     susp      : [Thread -> Nat],            \* -iSuspendCount
     cs        : [Thread -> BOOLEAN],        \* in a critical section
     csFunction: [Thread -> Int],            \* deferred suspensions, -1 to exit
     ret       : [Thread -> {"KErrNone", "KErrTimedOut", "KErrGeneral", "KErrDied"}],
     pc        : [Thread -> Cont],
     obj       : [Thread -> Obj \cup {Null}],   \* the object it goes on with
     cond      : [Thread -> Cond \cup {Null}],  \* of DCondVar::Wait, Broadcast
     todo      : [Thread -> Nat],               \* signals SignalN still owes
     waitQ     : [Obj -> Seq(Thread)],
     suspQ     : [Obj -> Seq(Thread)],
     pendQ     : [Mutex -> Seq(Thread)],
     phase     : [Obj -> {"live", "resetting", "deleted"}],
     holder    : [Mutex -> Thread \cup {Null}],  \* iCleanup.iThread
     clnPri    : [Mutex -> Pri \cup {0}],        \* iCleanup.iPriority
     holdCount : [Mutex -> Nat],
     waitCount : [Mutex \cup Cond -> Nat],
     count     : [Sem -> Int],
     cvMutex   : [Cond -> Mutex \cup {Null}],
     fault     : BOOLEAN]

Resetting(k, o) == k.phase[o] = "resetting"
Asserted(k, cond) == [k EXCEPT !.fault = @ \/ ~cond]

-----------------------------------------------------------------------------
\* Wait queues (TThreadWaitList): by priority, first come first served in each.
WaitAdd(k, o, t) ==
    LET q == k.waitQ[o]
        ahead == {i \in DOMAIN q : k.pri[q[i]] >= k.pri[t]}
    IN  [k EXCEPT !.waitQ[o] = InsertAt(q, Cardinality(ahead) + 1, t)]

WaitRemove(k, o, t) == [k EXCEPT !.waitQ[o] = Without(@, t)]

\* A debug build stops (K::Fault) if the thread is not on the queue.
ChangePriority(k, o, t, p) ==
    IF t \notin Range(k.waitQ[o]) THEN [k EXCEPT !.pri[t] = p, !.fault = TRUE]
    ELSE IF p = k.pri[t] THEN k
    ELSE WaitAdd([WaitRemove(k, o, t) EXCEPT !.pri[t] = p], o, t)

HighestPriority(k, m) == IF k.waitQ[m] = <<>> THEN 0 ELSE k.pri[Head(k.waitQ[m])]

Max2(x, y) == IF x > y THEN x ELSE y
CleanupPriority(k, t) ==
    IF k.cleanupQ[t] = {} THEN 0
    ELSE LET ps == {k.clnPri[m] : m \in k.cleanupQ[t]}
         IN  CHOOSE p \in ps : \A q \in ps : q =< p

\* The nanokernel: ThreadRelease, Block.
ThreadRelease(k, t, r) == [k EXCEPT !.blocked[t] = FALSE, !.timed[t] = FALSE, !.ret[t] = r]
Block(k, t, timed) == [k EXCEPT !.blocked[t] = TRUE, !.timed[t] = timed, !.ret[t] = "KErrNone"]

Ready(k, t) == [k EXCEPT !.mstate[t] = "EReady", !.waitObj[t] = Null]
Wait(k, o, t, ms) == WaitAdd([k EXCEPT !.mstate[t] = ms, !.waitObj[t] = o], o, t)

\* The first waiter becomes pending: released, but it has to find the mutex
\* free when it runs.
WakeUpNextThread(k, m) ==
    LET t == Head(k.waitQ[m])
    IN  ThreadRelease([WaitRemove(k, m, t) EXCEPT
            !.pendQ[m] = Append(@, t), !.mstate[t] = "EHoldMutexPending",
            !.waitCount[m] = @ - 1], t, "KErrNone")

ChangePendingThreadPriority(k, m, t, p) ==
    LET k1 == IF /\ k.holder[m] = Null /\ ~Resetting(k, m)
                 /\ p < k.pri[t] /\ p < HighestPriority(k, m)
              THEN WakeUpNextThread(k, m) ELSE k
    IN  [k1 EXCEPT !.pri[t] = p]

\* Priority inheritance.  What may end with a call of TThreadCleanup::ChangePriority
\* returns a link of the chain: the state k it leaves and what is left to do, give
\* priority p to the cleanup item of mutex m at nesting level n (K::PINestLevel).
Link(k, m, p, n) == [k |-> k, m |-> m, p |-> p, n |-> n]
Done(k) == Link(k, Null, 0, 0)

\* A waiter takes what it comes to: the mutex wait queue if the mutex is held.
WaitForMutex(k, t, m, n) ==
    LET k1 == Wait([k EXCEPT !.waitCount[m] = @ + 1], m, t, "EWaitMutex")
    IN  IF k1.pri[t] > k1.clnPri[m]
        THEN Link(k1, m, k1.pri[t], n) ELSE Done(k1)

\* Mutant of ChangeWaitingThreadPriority: the holder does not learn of it.
ChangeWaitingThreadPriorityMutant(k, m, t, p, n) == Done(ChangePriority(k, m, t, p))

ChangeWaitingThreadPriority(k, m, t, p, n) ==
    IF k.holder[m] = Null /\ p > k.pri[t] /\ ~Resetting(k, m)
    THEN Done(ThreadRelease([WaitRemove(k, m, t) EXCEPT
            !.pri[t] = p, !.pendQ[m] = Append(@, t),
            !.mstate[t] = "EHoldMutexPending", !.waitCount[m] = @ - 1],
            t, "KErrNone"))
    ELSE LET k1 == ChangePriority(k, m, t, p)
         IN  Link(k1, m, HighestPriority(k1, m), n)

\* DCondVar::UnBlockThread of a thread that is on no queue, without the
\* release of the system lock.  The code uncounts the thread after the chain; a
\* waiter that the chain comes to is itself counted, so the order is the same to it.
CondUncount(k, c) ==
    [k EXCEPT !.waitCount[c] = @ - 1,
              !.cvMutex[c] = IF k.waitCount[c] = 1 THEN Null ELSE @]

\* Mutant of UnBlockThread: the waiter always queues for the mutex.
UnBlockThreadMutant(k, c, t) ==
    LET m == k.cvMutex[c]
    IN  IF Resetting(k, c) THEN Done(ThreadRelease(Ready(k, t), t, "KErrGeneral"))
        ELSE WaitForMutex(CondUncount(k, c), t, m, 0)

UnBlockThread(k, c, t) ==
    LET m  == k.cvMutex[c]
        k1 == CondUncount(k, c)
    IN  IF Resetting(k, c) THEN Done(ThreadRelease(Ready(k, t), t, "KErrGeneral"))
        ELSE IF k.mstate[t] = "EWaitCondVarSuspended"
        THEN Done([k1 EXCEPT !.mstate[t] = "EWaitMutexSuspended", !.waitObj[t] = m,
                             !.suspQ[m] = Append(@, t), !.waitCount[m] = @ + 1])
        ELSE IF k.holder[m] # Null THEN WaitForMutex(k1, t, m, 0)
        ELSE Done(ThreadRelease([k1 EXCEPT !.mstate[t] = "EHoldMutexPending",
                       !.waitObj[t] = m, !.pendQ[m] = Append(@, t)], t, "KErrNone"))

\* A waiter whose priority is raised looks at its mutex again.
CondChangeWaitingPriority(k, c, t, p) ==
    IF p > k.pri[t] /\ ~Resetting(k, c)
    THEN UnBlockThread([WaitRemove(k, c, t) EXCEPT !.pri[t] = p], c, t)
    ELSE Done(ChangePriority(k, c, t, p))

SetActualPriority(k, t, p, n) ==
    LET o == k.waitObj[t]
    IN  CASE k.mstate[t] = "EWaitSemaphore"    -> Done(ChangePriority(k, o, t, p))
          [] k.mstate[t] = "EWaitMutex"        -> ChangeWaitingThreadPriority(k, o, t, p, n)
          [] k.mstate[t] = "EHoldMutexPending" -> Done(ChangePendingThreadPriority(k, o, t, p))
          [] k.mstate[t] = "EWaitCondVar"      -> CondChangeWaitingPriority(k, o, t, p)
          [] OTHER -> Done([k EXCEPT !.pri[t] = p])

RequiredPriority(k, t) == Max2(k.defPri[t], CleanupPriority(k, t))

SetRequiredPriority(k, t, n) ==
    IF RequiredPriority(k, t) = k.pri[t] THEN Done(k)
    ELSE SetActualPriority(k, t, RequiredPriority(k, t), n)

\* TThreadCleanup::ChangePriority
ChangeCleanupPriority(k, m, p, n) ==
    LET k1 == [k EXCEPT !.clnPri[m] = p]
    IN  IF p = k.clnPri[m] \/ k.holder[m] = Null \/ n + 1 >= KMaxPriorityInheritanceNesting
        THEN Done(k1) ELSE SetRequiredPriority(k1, k.holder[m], n + 1)

Follow(l) == IF l.m = Null THEN l ELSE ChangeCleanupPriority(l.k, l.m, l.p, l.n)

\* A chain has an end: the nesting level rises with every link, and starts again
\* only when a thread that waited for a condition variable comes to its mutex.
MaxLinks == KMaxPriorityInheritanceNesting * (Cardinality(Thread) + 1)

\* The state at the end of the chain that starts with l.  There is one x to choose;
\* the choice only makes TLC compute each link once.
Settle(l) ==
    LET link[i \in 0..MaxLinks] ==
            IF i = 0 THEN l ELSE CHOOSE x \in {Follow(y) : y \in {link[i - 1]}} : TRUE
    IN  link[MaxLinks].k

-----------------------------------------------------------------------------
\* DMutex

\* The end of DMutex::Wait and of DCondVar::Wait, with DThread::AddCleanup.
Claim(k, t, m) ==
    LET k1 == [k EXCEPT !.holder[m] = t, !.holdCount[m] = 1,
                        !.clnPri[m] = HighestPriority(k, m),
                        !.cleanupQ[t] = @ \cup {m}]
    IN  IF k1.clnPri[m] > k1.pri[t] THEN Settle(SetActualPriority(k1, t, k1.clnPri[m], 0))
        ELSE k1

\* What Signal and DCondVar::Wait do to give up the mutex, before the holder's
\* priority goes back.
GiveUp(k, t, m) ==
    LET k1 == IF k.waitQ[m] # <<>> THEN WakeUpNextThread(k, m)
              ELSE Asserted(k, k.clnPri[m] = 0)
    IN  [k1 EXCEPT !.holder[m] = Null, !.cleanupQ[t] = @ \ {m}]

\* DThread::RevertPriority is for a thread that is EReady.
MutexSignal(k, t, m) ==
    IF Resetting(k, m) THEN k
    ELSE LET k1 == [k EXCEPT !.holdCount[m] = @ - 1]
             k2 == GiveUp(k1, t, m)
         IN  IF k1.holdCount[m] > 0 THEN k1
             ELSE IF k2.clnPri[m] = 0 THEN k2
             ELSE [k2 EXCEPT !.pri[t] = RequiredPriority(k2, t)]

\* TThreadCleanup::Remove, and what DMutex::Reset does around it.  The chain goes on
\* from the nesting level n that K::PINestLevel has: unlike the other chains', it is
\* not set here.
ForgetHolder(k, m, n) ==
    LET t  == k.holder[m]
        k1 == [k EXCEPT !.cleanupQ[t] = @ \ {m}]
        k2 == IF k.clnPri[m] >= k.pri[t] THEN Settle(SetRequiredPriority(k1, t, n)) ELSE k1
    IN  [k2 EXCEPT !.holder[m] = Null]

\* Mutant of MutexWaitCancel: the holder keeps the priority of the thread that left.
MutexWaitCancelMutant(k, m, t) == [WaitRemove(k, m, t) EXCEPT !.waitCount[m] = @ - 1]

MutexWaitCancel(k, m, t) ==
    LET k1 == [WaitRemove(k, m, t) EXCEPT !.waitCount[m] = @ - 1]
    IN  Settle(Link(k1, m, HighestPriority(k1, m), 0))

MutexSuspendWaiting(k, m, t) ==
    LET k1 == [WaitRemove(k, m, t) EXCEPT !.suspQ[m] = Append(@, t),
                                      !.mstate[t] = "EWaitMutexSuspended"]
    IN  Settle(Link(k1, m, HighestPriority(k1, m), 0))

MutexResumeWaiting(k, m, t) ==
    LET k1 == [k EXCEPT !.suspQ[m] = Without(@, t), !.waitCount[m] = @ - 1]
    IN  IF Resetting(k, m) THEN ThreadRelease(Ready([k EXCEPT !.suspQ[m] = Without(@, t)], t),
                                              t, "KErrGeneral")
        ELSE IF k.holder[m] # Null THEN Settle(WaitForMutex(k1, t, m, 0))
        ELSE ThreadRelease([k1 EXCEPT !.mstate[t] = "EHoldMutexPending",
                                      !.pendQ[m] = Append(@, t)], t, "KErrNone")

\* Mutant of WakeAnother: the next waiter is left alone.
WakeAnotherMutant(k, m) == k

\* A pending thread is suspended or exits: another gets a chance at a free mutex.
WakeAnother(k, m) ==
    IF ~Resetting(k, m) /\ k.holder[m] = Null /\ k.waitQ[m] # <<>>
    THEN WakeUpNextThread(k, m) ELSE k

RemovePendingThread(k, m, t) == WakeAnother([k EXCEPT !.pendQ[m] = Without(@, t)], m)

-----------------------------------------------------------------------------
\* DSemaphore

SemResumeWaiting(k, s, t) ==
    LET k1 == [k EXCEPT !.suspQ[s] = Without(@, t)]
        k2 == [k1 EXCEPT !.count[s] = @ - 1]
    IN  IF Resetting(k, s) THEN ThreadRelease(Ready(k1, t), t, "KErrGeneral")
        ELSE IF k2.count[s] < 0 THEN Wait(k2, s, t, "EWaitSemaphore")
        ELSE ThreadRelease(Ready(k2, t), t, "KErrNone")

SemSuspendWaiting(k, s, t) ==
    [WaitRemove(k, s, t) EXCEPT !.count[s] = @ + 1, !.suspQ[s] = Append(@, t),
                            !.mstate[t] = "EWaitSemaphoreSuspended"]

SemWaitCancel(k, s, t) == [WaitRemove(k, s, t) EXCEPT !.count[s] = @ + 1]

\* The first waiter of a semaphore, or of any object that is reset, goes on.
ReleaseFirst(k, o, r) ==
    LET t == Head(k.waitQ[o]) IN ThreadRelease(Ready(WaitRemove(k, o, t), t), t, r)

SemSignal(k, s) ==
    LET k1 == [k EXCEPT !.count[s] = @ + 1]
    IN  IF Resetting(k, s) THEN k
        ELSE IF k1.count[s] =< 0 THEN ReleaseFirst(k1, s, "KErrNone") ELSE k1

-----------------------------------------------------------------------------
\* DCondVar

CondWaitCancel(k, c, t) == CondUncount(WaitRemove(k, c, t), c)

CondSuspendWaiting(k, c, t) ==
    [WaitRemove(k, c, t) EXCEPT !.suspQ[c] = Append(@, t),
                            !.mstate[t] = "EWaitCondVarSuspended"]

CondResumeWaiting(k, c, t) ==
    Settle(UnBlockThread([k EXCEPT !.suspQ[c] = Without(@, t), !.mstate[t] = "EWaitCondVar"], c, t))

CondSignal(k, c) ==
    IF k.waitQ[c] # <<>>
    THEN Settle(UnBlockThread(WaitRemove(k, c, Head(k.waitQ[c])), c, Head(k.waitQ[c])))
    ELSE IF k.suspQ[c] # <<>>
         THEN Settle(UnBlockThread([k EXCEPT !.suspQ[c] = Tail(@)], c, Head(k.suspQ[c])))
    ELSE k

-----------------------------------------------------------------------------
\* DThread

\* Mutant of SuspendWait: the wait queues do not hear of the suspension.
SuspendWaitMutant(k, t) == k

\* The end of DThread::Suspend: a suspended thread must not be handed anything.
SuspendWait(k, t) ==
    LET o == k.waitObj[t]
    IN  CASE k.mstate[t] = "EWaitSemaphore"    -> SemSuspendWaiting(k, o, t)
          [] k.mstate[t] = "EWaitMutex"        -> MutexSuspendWaiting(k, o, t)
          [] k.mstate[t] = "EHoldMutexPending" -> WakeAnother(k, o)
          [] k.mstate[t] = "EWaitCondVar"      -> CondSuspendWaiting(k, o, t)
          [] OTHER -> k

\* The end of DThread::Resume.
ResumeWait(k, t) ==
    LET o == k.waitObj[t]
    IN  CASE k.mstate[t] = "EWaitSemaphoreSuspended" -> SemResumeWaiting(k, o, t)
          [] k.mstate[t] = "EWaitMutexSuspended"     -> MutexResumeWaiting(k, o, t)
          [] k.mstate[t] = "EWaitCondVarSuspended"   -> CondResumeWaiting(k, o, t)
          [] OTHER -> k

\* The system lock is held by u, so that only a critical section of t, or t = u,
\* defers the suspension; that of u comes when it releases the lock.
Suspend(k, u, t) ==
    IF k.pc[t] = "dead" THEN k
    ELSE IF k.cs[t]
         THEN IF k.csFunction[t] >= 0 THEN [k EXCEPT !.csFunction[t] = @ + 1] ELSE k
    ELSE LET k1 == [k EXCEPT !.susp[t] = @ + 1]
         IN  IF t = u THEN k1 ELSE SuspendWait(k1, t)

Resume(k, t) ==
    IF k.cs[t] THEN IF k.csFunction[t] > 0 THEN [k EXCEPT !.csFunction[t] = @ - 1] ELSE k
    ELSE IF k.susp[t] = 0 THEN k
    ELSE LET k1 == [k EXCEPT !.susp[t] = @ - 1]
         IN  IF k1.susp[t] = 0 THEN ResumeWait(k1, t) ELSE k1

\* Mutant of ReleaseWait: a pending thread leaves without waking another.
ReleaseWaitMutant(k, t, r) ==
    LET o  == k.waitObj[t]
        k1 == CASE k.mstate[t] = "EWaitSemaphore" -> SemWaitCancel(k, o, t)
                [] k.mstate[t] = "EWaitMutex"     -> MutexWaitCancel(k, o, t)
                [] k.mstate[t] = "EHoldMutexPending" -> [k EXCEPT !.pendQ[o] = Without(@, t)]
                [] k.mstate[t] = "EWaitCondVar"   -> CondWaitCancel(k, o, t)
                [] OTHER -> k
    IN  IF k.mstate[t] = "EReady" THEN k ELSE ThreadRelease(Ready(k1, t), t, r)

\* Takes a thread off whatever it waits for.
ReleaseWait(k, t, r) ==
    LET o   == k.waitObj[t]
        deq == [k EXCEPT !.suspQ[o] = Without(@, t)]
        k1  == CASE k.mstate[t] = "EWaitSemaphore"          -> SemWaitCancel(k, o, t)
                 [] k.mstate[t] = "EWaitSemaphoreSuspended" -> deq
                 [] k.mstate[t] = "EWaitMutex"              -> MutexWaitCancel(k, o, t)
                 [] k.mstate[t] = "EWaitMutexSuspended"     -> [deq EXCEPT !.waitCount[o] = @ - 1]
                 [] k.mstate[t] = "EHoldMutexPending"       -> RemovePendingThread(k, o, t)
                 [] k.mstate[t] = "EWaitCondVar"            -> CondWaitCancel(k, o, t)
                 [] k.mstate[t] = "EWaitCondVarSuspended"   -> CondUncount(deq, o)
    IN  IF k.mstate[t] \in {"EReady", "EDead"} THEN k ELSE ThreadRelease(Ready(k1, t), t, r)

\* DThread::SetDefaultPriority
SetDefaultPriority(k, t, p) == Settle(SetRequiredPriority([k EXCEPT !.defPri[t] = p], t, 0))

\* DThread::Die for a thread other than the current one: NThreadBase::Kill, then
\* the exit priority.
Die(k, t) ==
    LET k1 == IF k.cs[t] THEN IF k.csFunction[t] < 0 THEN k ELSE [k EXCEPT !.csFunction[t] = -1]
              ELSE [ThreadRelease(k, t, "KErrDied") EXCEPT
                       !.susp[t] = 0, !.cs[t] = TRUE, !.csFunction[t] = -1, !.pc[t] = "Exit"]
    IN  SetDefaultPriority(k1, t, ExitPri)

\* NKern::ThreadLeaveCS: what was deferred happens now.
LeaveCS(k, t) ==
    IF k.csFunction[t] < 0 THEN [k EXCEPT !.pc[t] = "Exit"]
    ELSE [k EXCEPT !.cs[t] = FALSE, !.susp[t] = @ + k.csFunction[t], !.csFunction[t] = 0]
=============================================================================
