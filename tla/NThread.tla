------------------------------ MODULE NThread ------------------------------
(***************************************************************************)
(* The data of the uniprocessor nanokernel's scheduler and the functions   *)
(* of src/kernel/eka/nkern/nkern.cpp that run with the kernel locked.      *)
(*                                                                         *)
(* A thread that has locked the kernel (NKern::Lock) can be interrupted    *)
(* but not preempted, so such a function is an operator from a kernel      *)
(* state (a record k) to the kernel state it leaves.  Module NSched makes  *)
(* steps of them.  Fields of k keep the name of the member they stand for  *)
(* without its leading i.                                                  *)
(*                                                                         *)
(* DATA abstracted: contexts and stacks (cont says where a thread that     *)
(* gave up the processor inside a kernel function continues), CPU time     *)
(* accounting, tracing, wait timeouts (module NTimeout), return values,    *)
(* and fast semaphores other than the request semaphore of each thread.    *)
(***************************************************************************)
EXTENDS Integers, Queues

CONSTANTS
    Thread,         \* the nanothreads
    NullThread,     \* the initial thread, which becomes the idle thread
    Mutex,          \* the fast mutexes
    SysLock,        \* TScheduler::iLock, the system lock
    Null,           \* the NULL pointer
    Pri,            \* nanokernel priorities in use
    InitPri,        \* the priority each thread is created with
    Timeslice,      \* iTimeslice of each thread in ticks, -1 if unlimited
    ImplicitSys     \* threads with attribute KThreadAttImplicitSystemLock

KNumPriorities == 64

ASSUME ThreadAssumption ==
    /\ NullThread \in Thread
    /\ SysLock \in Mutex
    /\ Null \notin Thread \cup Mutex
    /\ Pri \subseteq 0..(KNumPriorities - 1)
    /\ InitPri \in [Thread -> Pri]
    /\ Timeslice \in [Thread -> Int]
    /\ \A t \in Thread : Timeslice[t] = -1 \/ Timeslice[t] > 0
    /\ ImplicitSys \subseteq Thread \ {NullThread}

\* NThreadBase::NThreadState, without the states of module NTimeout.
NState == {"EReady", "ESuspended", "EWaitFastSemaphore", "EBlocked", "EDead"}

\* NThreadBase::NThreadCSFunction.
ECSExitPending    == -1
ECSExitInProgress == -2

\* Where a thread goes on when it next has the processor: in its own code, in
\* NFastMutex::Wait after YieldTo, in FMFlash after PreemptionPoint, in Block
\* before it claims the mutex again, or in the forced exit of a killed thread.
Cont == {"run", "FMWait", "FMFlash", "Block", "ForcedExit"}

KState ==
    [nstate       : [Thread -> NState],
     pri          : [Thread -> Pri],
     suspendCount : [Thread -> Int],
     csCount      : [Thread -> Int],
     csFunction   : [Thread -> Int],
     heldFM       : [Thread -> Mutex \cup {Null}],
     waitFM       : [Thread -> Mutex \cup {Null}],
     time         : [Thread -> Int],
     count        : [Thread -> Int],      \* iRequestSemaphore.iCount
     cont         : [Thread -> Cont],
     arg          : [Thread -> Mutex \cup {Null}],  \* mutex to take again
     holding      : [Mutex -> Thread \cup {Null}],
     waiting      : [Mutex -> BOOLEAN],
     ready        : [Pri -> Seq(Thread)],
     current      : Thread,
     resched      : BOOLEAN,              \* iRescheduleNeededFlag
     fault        : BOOLEAN]              \* FAULT() was reached

-----------------------------------------------------------------------------
\* The ready list (TPriListBase, TScheduler)

\* aLink->InsertBefore(head): the tail of the queue of the thread's priority.
Add(k, t) == [k EXCEPT !.ready[k.pri[t]] = Append(@, t)]

PriListRemove(k, t) == [k EXCEPT !.ready[k.pri[t]] = Without(@, t)]

Present(k) == {p \in Pri : k.ready[p] # <<>>}

HighestPriority(k) ==
    CHOOSE p \in Present(k) : \A q \in Present(k) : q =< p

First(k) == Head(k.ready[HighestPriority(k)])

\* s > p : some ready thread has a priority above p.
Above(k, p) == \E q \in Present(k) : q > p

Alone(k, t) == Len(k.ready[k.pri[t]]) = 1

ChangePriority(k, t, p) ==
    Add([PriListRemove(k, t) EXCEPT !.pri[t] = p], t)

RescheduleNeeded(k) == [k EXCEPT !.resched = TRUE]

\* TScheduler::Remove: a thread that stops being ready gets a new timeslice.
SchedRemove(k, t) == PriListRemove([k EXCEPT !.time[t] = Timeslice[t]], t)

Rotated(k, p) ==
    [k EXCEPT !.time[Head(k.ready[p])] = Timeslice[Head(k.ready[p])],
              !.ready[p] = Append(Tail(@), Head(@))]

RotateReadyList(k, p) ==
    IF Len(k.ready[p]) < 2 THEN k
    ELSE [Rotated(k, p) EXCEPT !.resched = @ \/ Head(k.ready[p]) = k.current]

\* Whether t, made ready in state k, should get the processor: it has a higher
\* priority than any ready thread, or the same and the first one's slice is over.
Preempts(k, t) ==
    LET q == k.ready[k.pri[t]]
    IN  ~Above(k, k.pri[t]) /\ (q = <<>> \/ k.time[Head(q)] = 0)

DoReady(k, t) ==
    IF k.nstate[t] = "EDead" THEN k
    ELSE [Add(k, t) EXCEPT !.nstate[t] = "EReady",
                           !.resched = @ \/ Preempts(k, t)]

CheckSuspendThenReady(k, t) ==
    IF k.suspendCount[t] = 0 THEN DoReady(k, t)
    ELSE [k EXCEPT !.nstate[t] = "ESuspended"]

-----------------------------------------------------------------------------
\* Suspension, exit and kill

InCS(k, t) == k.csCount[t] # 0 \/ k.heldFM[t] # Null

\* Mutant of FlagHeld: the mutex held is not flagged.
FlagHeldMutant(k, t) == k

\* if (iHeldFastMutex && iCsCount==0) iHeldFastMutex->iWaiting=1;
\* so that the holder acts on csFunction when it signals the mutex.
FlagHeld(k, t) ==
    IF k.heldFM[t] # Null /\ k.csCount[t] = 0
    THEN [k EXCEPT !.waiting[k.heldFM[t]] = TRUE] ELSE k

SuspendNow(k, t, n) ==
    LET k1 == IF k.nstate[t] = "EReady"
              THEN [SchedRemove(RescheduleNeeded(k), t)
                       EXCEPT !.nstate[t] = "ESuspended"]
              ELSE k
    IN  [k1 EXCEPT !.suspendCount[t] = @ - n]

\* Mutant of Suspend: only a critical section defers it, not a fast mutex.
SuspendMutant(k, t, n) ==
    IF k.nstate[t] = "EDead" THEN k
    ELSE IF k.csCount[t] # 0
         THEN IF k.csFunction[t] >= 0 THEN [k EXCEPT !.csFunction[t] = @ + n] ELSE k
         ELSE SuspendNow(k, t, n)

Suspend(k, t, n) ==
    IF k.nstate[t] = "EDead" THEN k
    ELSE IF InCS(k, t)
         THEN IF k.csFunction[t] >= 0
              THEN FlagHeld([k EXCEPT !.csFunction[t] = @ + n], t) ELSE k
         ELSE SuspendNow(k, t, n)

\* The end of Resume and ForceResume, the suspensions being used up.
Resumed(k, t) == IF k.nstate[t] = "ESuspended" THEN DoReady(k, t) ELSE k

Resume(k, t) ==
    IF k.nstate[t] = "EDead" THEN k
    ELSE IF InCS(k, t)
         THEN IF k.csFunction[t] > 0 THEN [k EXCEPT !.csFunction[t] = @ - 1] ELSE k
         ELSE LET k1 == [k EXCEPT !.suspendCount[t] = @ + 1]
              IN  IF k.suspendCount[t] >= 0 THEN k
                  ELSE IF k1.suspendCount[t] = 0 THEN Resumed(k1, t) ELSE k1

ForceResume(k, t) ==
    IF k.nstate[t] = "EDead" THEN k
    ELSE IF InCS(k, t)
         THEN IF k.csFunction[t] > 0 THEN [k EXCEPT !.csFunction[t] = 0] ELSE k
         ELSE IF k.suspendCount[t] < 0
              THEN Resumed([k EXCEPT !.suspendCount[t] = 0], t) ELSE k

\* The thread enters its exit handler, with the kernel unlocked, unless it
\* holds a fast mutex or is in a critical section: then FAULT().
Exit(k, t) ==
    [k EXCEPT !.csCount[t] = 1, !.csFunction[t] = ECSExitInProgress,
              !.cont[t] = "run",
              !.fault = @ \/ k.heldFM[t] # Null \/ k.csCount[t] # 0]

DoCsFunction(k, t) ==
    LET k1 == [k EXCEPT !.csFunction[t] = 0]
    IN  IF k.csFunction[t] > 0 THEN Suspend(k1, t, k.csFunction[t])
        ELSE IF k.csFunction[t] = ECSExitPending THEN Exit(k1, t)
        ELSE [k1 EXCEPT !.fault = TRUE]

Exiting(k, t) == k.csFunction[t] = ECSExitInProgress

\* Entered by __DoForcedExit / NThread::ExitAsync, which clears iCsCount.
ForcedExit(k, t) == Exit([k EXCEPT !.csCount[t] = 0], t)
-----------------------------------------------------------------------------
\* Fast semaphores (the request semaphore of each thread)

SemWait(k, t) ==
    LET k1 == [k EXCEPT !.count[t] = @ - 1]
    IN  IF k1.count[t] >= 0 THEN k1
        ELSE SchedRemove([RescheduleNeeded(k1)
                             EXCEPT !.nstate[t] = "EWaitFastSemaphore"], t)

SemSignal(k, t) ==
    LET k1 == [k EXCEPT !.count[t] = @ + 1]
    IN  IF k1.count[t] > 0 THEN k1 ELSE CheckSuspendThenReady(k1, t)

SemSignalN(k, t, n) ==
    LET k1 == IF n > 0 /\ k.count[t] < 0 THEN CheckSuspendThenReady(k, t) ELSE k
    IN  [k1 EXCEPT !.count[t] = @ + n]

WaitCancel(k, t) == CheckSuspendThenReady([k EXCEPT !.count[t] = 0], t)

\* A wait that ends early (code < 0) takes its count back.
Release(k, t, code) ==
    IF k.nstate[t] = "EWaitFastSemaphore" /\ code < 0 THEN WaitCancel(k, t)
    ELSE IF k.nstate[t] = "EBlocked" THEN CheckSuspendThenReady(k, t)
    ELSE k

KErrNone == 0
KErrDied == -13

\* NThreadBase::Kill of a thread other than the current one.
Kill(k, t) ==
    IF InCS(k, t)
    THEN IF k.csFunction[t] < 0 THEN k
         ELSE FlagHeld([k EXCEPT !.csFunction[t] = ECSExitPending], t)
    ELSE [ForceResume(Release(k, t, KErrDied), t)
             EXCEPT !.waitFM[t] = Null, !.csCount[t] = 1,
                    !.csFunction[t] = ECSExitPending, !.cont[t] = "ForcedExit"]

-----------------------------------------------------------------------------
\* Fast mutexes

\* Mutant of FMTake: iWaitFastMutex keeps its value.
FMTakeMutant(k, t, m) ==
    [k EXCEPT !.heldFM[t] = m, !.holding[m] = t, !.cont[t] = "run"]

FMTake(k, t, m) ==
    [k EXCEPT !.waitFM[t] = Null, !.heldFM[t] = m, !.holding[m] = t,
              !.cont[t] = "run"]

\* Mutant of FMWait: the mutex is not flagged as contended.
FMWaitMutant(k, t, m) ==
    IF k.holding[m] # Null
    THEN [k EXCEPT !.waitFM[t] = m, !.cont[t] = "FMWait", !.resched = TRUE]
    ELSE FMTake(k, t, m)

\* NFastMutex::Wait up to the return of YieldTo; FMTake is the rest of it.
FMWait(k, t, m) ==
    IF k.holding[m] # Null
    THEN [k EXCEPT !.waiting[m] = TRUE, !.waitFM[t] = m, !.cont[t] = "FMWait",
                   !.resched = TRUE]
    ELSE FMTake(k, t, m)

FMSignal(k, t, m) ==
    LET k1 == [k EXCEPT !.holding[m] = Null, !.heldFM[t] = Null,
                        !.waiting[m] = FALSE, !.resched = @ \/ k.waiting[m]]
    IN  IF k.waiting[m] /\ k.csFunction[t] # 0 /\ k.csCount[t] = 0
        THEN DoCsFunction(k1, t) ELSE k1

-----------------------------------------------------------------------------
\* Priorities and the choice of the next thread

\* Mutant of PriorityReschedules: a thread that lowers its own priority looks
\* only at the queue it comes to.
PriorityReschedulesMutant(k, t, oldp) ==
    IF t = k.current THEN k.pri[t] < oldp /\ ~Alone(k, t)
    ELSE k.pri[t] > oldp /\ k.pri[t] > k.pri[k.current]

\* Whether SetPriority of a ready thread asks for a reschedule; k is the state
\* after the move to the new priority.
PriorityReschedules(k, t, oldp) ==
    LET newp == k.pri[t]
        cp   == k.pri[k.current]
    IN  IF t = k.current THEN newp < oldp /\ (Above(k, newp) \/ ~Alone(k, t))
        ELSE /\ newp > oldp
             /\ \/ newp > cp
                \/ /\ newp = cp /\ k.time[k.current] = 0
                   /\ k.heldFM[k.current] = Null

\* The round robin it asks for waits until the current thread's mutex is free.
PriorityDefers(k, t, oldp) ==
    /\ t # k.current /\ k.pri[t] > oldp /\ k.pri[t] = k.pri[k.current]
    /\ k.time[k.current] = 0 /\ k.heldFM[k.current] # Null

\* Mutant of SetPriority: a ready thread stays where it is on the ready list.
SetPriorityMutant(k, t, p) == [k EXCEPT !.pri[t] = p, !.resched = TRUE]

SetPriority(k, t, p) ==
    IF p = k.pri[t] THEN k
    ELSE IF k.nstate[t] # "EReady" THEN [k EXCEPT !.pri[t] = p]
    ELSE LET k1 == ChangePriority(k, t, p)
         IN  IF PriorityDefers(k1, t, k.pri[t])
             THEN [k1 EXCEPT !.waiting[k.heldFM[k.current]] = TRUE]
             ELSE [k1 EXCEPT !.resched = @ \/ PriorityReschedules(k1, t, k.pri[t])]

Switch(k, t) == [k EXCEPT !.current = t]
FlagAndSwitch(k, m, t) == [k EXCEPT !.waiting[m] = TRUE, !.current = t]

\* Mutants of SelectFor: a waiting thread is run itself; the implicit system lock is
\* not flagged.
SelectForWaiterMutant(k, t) == Switch(k, t)
SelectForSysMutant(k, t) ==
    LET wanted == k.waitFM[t]
    IN  IF k.heldFM[t] = Null /\ wanted # Null /\ k.holding[wanted] # Null
        THEN Switch(k, k.holding[wanted])
        ELSE IF k.heldFM[t] = Null /\ t \in ImplicitSys /\ k.holding[SysLock] # Null
        THEN Switch(k, k.holding[SysLock])
        ELSE Switch(k, t)

\* SelectThread once the round robin is done, for the first thread t.
SelectFor(k, t) ==
    LET needsSys == t \in ImplicitSys /\ k.holding[SysLock] # Null
        wanted   == k.waitFM[t]
    IN  IF k.heldFM[t] # Null
        THEN IF k.heldFM[t] # SysLock /\ needsSys
             THEN FlagAndSwitch(k, k.heldFM[t], t) ELSE Switch(k, t)
        ELSE IF wanted # Null /\ k.holding[wanted] # Null
             THEN Switch(k, k.holding[wanted])
        ELSE IF needsSys
             THEN FlagAndSwitch(k, k.heldFM[k.holding[SysLock]], k.holding[SysLock])
        ELSE Switch(k, t)

\* Mutant of SelectThread: the round robin of a holder is not deferred but lost.
SelectThreadMutant(k) ==
    LET t == First(k)
    IN  IF k.time[t] = 0 /\ ~Alone(k, t) /\ k.heldFM[t] = Null
        THEN LET k1 == Rotated(k, HighestPriority(k)) IN SelectFor(k1, First(k1))
        ELSE SelectFor(k, t)

SelectThread(k) ==
    LET t       == First(k)
        expired == k.time[t] = 0 /\ ~Alone(k, t)
    IN  IF expired /\ k.heldFM[t] # Null THEN FlagAndSwitch(k, k.heldFM[t], t)
        ELSE LET k1 == IF expired THEN Rotated(k, HighestPriority(k)) ELSE k
             IN  SelectFor(k1, First(k1))
=============================================================================
