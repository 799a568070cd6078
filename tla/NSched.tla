------------------------------- MODULE NSched -------------------------------
(***************************************************************************)
(* The uniprocessor nanokernel scheduler: nanothreads calling the NKern    *)
(* services of nkern.cpp, interrupts, IDFCs and the reschedule.            *)
(*                                                                         *)
(* iKernCSLocked is kern: "unlocked" while a thread runs preemptibly.  A   *)
(* service locks the kernel, does its work in one step (nothing but an     *)
(* interrupt can run meanwhile) and unlocks it: if iRescheduleNeededFlag   *)
(* or iDfcPendingFlag is set, NKern::Unlock leaves the kernel "locked" in  *)
(* TScheduler::Reschedule, which runs the IDFCs, then clears the flag      *)
(* ("selecting") and selects a thread, until neither flag is set.          *)
(*                                                                         *)
(* The threads' own code is the environment: a thread calls any service    *)
(* whose documented precondition holds.  Who suspends, kills or changes    *)
(* the priority of whom is a constant of the instance.                     *)
(***************************************************************************)
EXTENDS NThread

CONSTANTS
    Suspenders,   \* pairs <<t, u>>: t may suspend and resume u
    Killers,      \* pairs <<t, u>>: t may kill u
    Prioritisers, \* pairs <<t, u>>: t may change the priority of u
    Exiters,      \* threads that may exit, at once or deferred
    Blockers,     \* threads that may block in NKern::Block
    Yielders,     \* threads that yield their timeslice
    Rotators,     \* threads that rotate ready lists
    Signallers,   \* threads that complete requests of other threads
    MaxCount,     \* bound on the request semaphore
    MaxSuspend,   \* bound on the suspensions of a thread, deferred or not
    MaxCS,        \* bound on nested critical sections
    MaxLockedTicks  \* ticks that can come while the kernel stays locked

ASSUME ControlAssumption ==
    /\ Suspenders \cup Killers \cup Prioritisers
          \subseteq Thread \X (Thread \ {NullThread})
    /\ Exiters \cup Blockers \cup Yielders \cup Rotators \cup Signallers
          \subseteq Thread \ {NullThread}
    /\ MaxCount \in Nat /\ MaxSuspend \in Nat /\ MaxCS \in Nat
    /\ MaxLockedTicks \in Nat

VARIABLES
    k,        \* the kernel state, see NThread
    kern,     \* "unlocked", "locked" or "selecting"
    idfcs,    \* threads a queued IDFC of a device driver will signal
    ticks     \* ticks since the kernel was locked (bounds the interrupts)

vars == <<k, kern, idfcs, ticks>>

\* After boot: every thread waits for a first request, the system idles.
Init ==
    /\ k = [nstate       |-> [t \in Thread |-> IF t = NullThread THEN "EReady"
                                               ELSE "EWaitFastSemaphore"],
            pri          |-> InitPri,
            suspendCount |-> [t \in Thread |-> 0],
            csCount      |-> [t \in Thread |-> 0],
            csFunction   |-> [t \in Thread |-> 0],
            heldFM       |-> [t \in Thread |-> Null],
            waitFM       |-> [t \in Thread |-> Null],
            time         |-> Timeslice,
            count        |-> [t \in Thread |-> IF t = NullThread THEN 0 ELSE -1],
            cont         |-> [t \in Thread |-> "run"],
            arg          |-> [t \in Thread |-> Null],
            holding      |-> [m \in Mutex |-> Null],
            waiting      |-> [m \in Mutex |-> FALSE],
            ready        |-> [p \in Pri |-> IF p = InitPri[NullThread]
                                            THEN <<NullThread>> ELSE <<>>],
            current      |-> NullThread,
            resched      |-> FALSE,
            fault        |-> FALSE]
    /\ kern = "unlocked"
    /\ idfcs = {}
    /\ ticks = 0

-----------------------------------------------------------------------------
\* NKern::Unlock after the locked section that leaves state k1.
Unlock(k1) ==
    /\ k' = k1
    /\ kern' = IF k1.resched \/ idfcs # {} THEN "locked" ELSE "unlocked"
    /\ idfcs' = idfcs
    /\ ticks' = IF kern' = "unlocked" THEN 0 ELSE ticks

\* Thread t executes its own code and may call a service.
Running(t) ==
    /\ kern = "unlocked" /\ k.current = t /\ k.cont[t] = "run"
    /\ t # NullThread /\ ~k.fault

NoFM(t) == k.heldFM[t] = Null

\* The mutex argument of the services that signal one before they return:
\* none, or the mutex the caller holds.
FMArg(t) == {Null, k.heldFM[t]}
ThenSignal(k1, t, m) == IF m = Null THEN k1 ELSE FMSignal(k1, t, m)

-----------------------------------------------------------------------------
\* Fast mutexes

CallFMWait(t, m) ==
    /\ Running(t) /\ NoFM(t)
    /\ Unlock(FMWait(k, t, m))

CallFMSignal(t) ==
    /\ Running(t) /\ ~NoFM(t)
    /\ Unlock(FMSignal(k, t, k.heldFM[t]))

\* If nobody waits FMFlash does nothing.  Signal has set the flag, so
\* PreemptionPoint reschedules, unless Signal made the thread exit.
CallFMFlash(t) ==
    /\ Running(t) /\ ~NoFM(t)
    /\ LET m  == k.heldFM[t]
           k1 == FMSignal(k, t, m)
       IN  /\ k.waiting[m]
           /\ Unlock(IF Exiting(k1, t) /\ ~Exiting(k, t) THEN k1
                     ELSE [k1 EXCEPT !.cont[t] = "FMFlash", !.arg[t] = m])

-----------------------------------------------------------------------------
\* Request semaphores

WaitForAnyRequest(t) ==
    /\ Running(t) /\ NoFM(t)
    /\ Unlock(SemWait(k, t))

ThreadRequestSignal(t, u, m) ==
    /\ Running(t) /\ t \in Signallers /\ t # u /\ m \in FMArg(t)
    /\ k.count[u] < MaxCount
    /\ Unlock(ThenSignal(SemSignal(k, u), t, m))

ThreadRequestSignalN(t, u, n) ==
    /\ Running(t) /\ t \in Signallers
    /\ k.count[u] + n =< MaxCount
    /\ Unlock(SemSignalN(k, u, n))

-----------------------------------------------------------------------------
\* Suspension, priority, release, kill

Suspensions(u) ==
    (IF k.csFunction[u] > 0 THEN k.csFunction[u] ELSE 0) - k.suspendCount[u]

ThreadSuspend(t, u, n) ==
    /\ Running(t) /\ <<t, u>> \in Suspenders
    /\ Suspensions(u) + n =< MaxSuspend
    /\ Unlock(Suspend(k, u, n))

ThreadResume(t, u, m) ==
    /\ Running(t) /\ <<t, u>> \in Suspenders /\ m \in FMArg(t)
    /\ Unlock(ThenSignal(Resume(k, u), t, m))

ThreadForceResume(t, u, m) ==
    /\ Running(t) /\ <<t, u>> \in Suspenders /\ m \in FMArg(t)
    /\ Unlock(ThenSignal(ForceResume(k, u), t, m))

ThreadSetPriority(t, u, p, m) ==
    /\ Running(t) /\ <<t, u>> \in Prioritisers /\ m \in FMArg(t)
    /\ Unlock(ThenSignal(SetPriority(k, u, p), t, m))

\* The layer above releases a thread it has made block.
ThreadRelease(t, u, m) ==
    /\ Running(t) /\ k.nstate[u] = "EBlocked" /\ m \in FMArg(t)
    /\ Unlock(ThenSignal(Release(k, u, KErrNone), t, m))

ThreadKill(t, u, m) ==
    /\ Running(t) /\ <<t, u>> \in Killers /\ t # u /\ m \in FMArg(t)
    /\ Unlock(ThenSignal(Kill(k, u), t, m))

\* NKern::ThreadKill(self, mutex): the signal of the mutex makes it exit.
ThreadKillSelf(t) ==
    /\ Running(t) /\ t \in Exiters /\ ~NoFM(t)
    /\ k.csCount[t] = 0
    /\ LET m == k.heldFM[t]
       IN  Unlock(FMSignal([k EXCEPT !.csFunction[t] = ECSExitPending,
                                     !.waiting[m] = TRUE], t, m))

\* NKern::Exit, also what a thread does when its function returns, and
\* NThreadBase::Kill of the current thread.
CallExit(t) ==
    /\ Running(t) /\ t \in Exiters /\ NoFM(t) /\ k.csCount[t] = 0
    /\ Unlock(Exit(k, t))

DeferredExit(t) ==
    /\ Running(t) /\ t \in Exiters
    /\ Unlock(IF ~InCS(k, t) THEN Exit(k, t)
              ELSE FlagHeld([k EXCEPT !.csFunction[t] =
                                IF @ >= 0 THEN ECSExitPending ELSE @], t))

\* The exit handler returns: NThreadBase::Exit relocks the kernel for good.
ExitHandlerDone(t) ==
    /\ Running(t) /\ Exiting(k, t) /\ NoFM(t) /\ k.csCount[t] = 1
    /\ Unlock([SchedRemove(RescheduleNeeded(k), t) EXCEPT !.nstate[t] = "EDead"])

-----------------------------------------------------------------------------
\* Critical sections, Block, yielding

ThreadEnterCS(t) ==
    /\ Running(t) /\ k.csCount[t] < MaxCS
    /\ Unlock([k EXCEPT !.csCount[t] = @ + 1])

\* An exit handler leaves only the critical sections it entered.
ThreadLeaveCS(t) ==
    /\ Running(t) /\ k.csCount[t] > (IF Exiting(k, t) THEN 1 ELSE 0)
    /\ LET k1 == [k EXCEPT !.csCount[t] = @ - 1]
       IN  Unlock(IF k1.csCount[t] # 0 \/ k.csFunction[t] = 0 THEN k1
                  ELSE IF NoFM(t) THEN DoCsFunction(k1, t)
                  ELSE [k1 EXCEPT !.waiting[k.heldFM[t]] = TRUE])

\* NKern::Block with ERelease on the mutex held, or without a mutex.  The
\* thread acts on a deferred suspension or exit when it gives up the mutex.
Block(t, enterCS, claim) ==
    /\ Running(t) /\ t \in Blockers
    /\ enterCS => k.csCount[t] < MaxCS
    /\ claim => ~NoFM(t)
    /\ LET m   == k.heldFM[t]
           k1  == IF enterCS THEN [k EXCEPT !.csCount[t] = @ + 1] ELSE k
           k2  == IF NoFM(t) THEN k1
                  ELSE [k1 EXCEPT !.holding[m] = Null, !.heldFM[t] = Null,
                                  !.waiting[m] = FALSE]
           act == ~NoFM(t) /\ k.waiting[m] /\ k2.csCount[t] = 0
                           /\ k2.csFunction[t] # 0
           k3  == IF act THEN DoCsFunction(k2, t) ELSE k2
           k4  == RescheduleNeeded(IF k3.nstate[t] = "EReady"
                                   THEN SchedRemove(k3, t) ELSE k3)
       IN  Unlock(IF act /\ Exiting(k3, t) THEN k3
                  ELSE [k4 EXCEPT !.nstate[t] = "EBlocked",
                                  !.cont[t] = IF claim THEN "Block" ELSE "run",
                                  !.arg[t] = IF claim THEN m ELSE Null])

YieldTimeslice(t) ==
    /\ Running(t) /\ t \in Yielders
    /\ Unlock([k EXCEPT !.time[t] = 0, !.resched = @ \/ ~Alone(k, t)])

CallRotateReadyList(t, p) ==
    /\ Running(t) /\ t \in Rotators
    /\ Unlock(RotateReadyList(k, p))
-----------------------------------------------------------------------------
\* Interrupts.  At the end of one taken with the kernel unlocked, a pending
\* IDFC or reschedule is processed at once.

\* Mutant of TimesliceTick: the end of the timeslice is missed by one.
TimesliceTickMutant ==
    /\ k.time[k.current] > 0 /\ ~k.fault
    /\ kern = "unlocked" \/ ticks < MaxLockedTicks
    /\ k' = [k EXCEPT !.time[k.current] = @ - 1]
    /\ UNCHANGED <<kern, idfcs>>
    /\ ticks' = IF kern = "unlocked" THEN 0 ELSE ticks + 1

\* TScheduler::TimesliceTick, called by the tick interrupt.
TimesliceTick ==
    /\ k.time[k.current] > 0 /\ ~k.fault
    /\ kern = "unlocked" \/ ticks < MaxLockedTicks
    /\ k' = [k EXCEPT !.time[k.current] = @ - 1,
                      !.resched = @ \/ k.time[k.current] = 1]
    /\ kern' = IF kern = "unlocked" /\ k'.resched THEN "locked" ELSE kern
    /\ idfcs' = idfcs
    /\ ticks' = IF kern = "unlocked" THEN 0 ELSE ticks + 1

\* A device interrupt queues the IDFC that completes a request of u.
DeviceInterrupt(u) ==
    /\ u # NullThread /\ u \notin idfcs /\ k.count[u] < MaxCount /\ ~k.fault
    /\ idfcs' = idfcs \cup {u}
    /\ kern' = IF kern = "unlocked" THEN "locked" ELSE kern
    /\ UNCHANGED <<k, ticks>>

-----------------------------------------------------------------------------
\* TScheduler::Reschedule

RunIdfc(u) ==
    /\ kern = "locked" /\ u \in idfcs
    /\ k' = SemSignal(k, u)
    /\ idfcs' = idfcs \ {u}
    /\ UNCHANGED <<kern, ticks>>

ClearRescheduleFlag ==
    /\ kern = "locked" /\ idfcs = {} /\ k.resched
    /\ k' = [k EXCEPT !.resched = FALSE]
    /\ kern' = "selecting"
    /\ UNCHANGED <<idfcs, ticks>>

\* With interrupts enabled: a tick may come before SelectThread.
SwitchThread ==
    /\ kern = "selecting"
    /\ k' = SelectThread(k)
    /\ kern' = "locked"
    /\ UNCHANGED <<idfcs, ticks>>

\* Reschedule returns in thread t, wherever t called it.
Rescheduled(t, where) ==
    /\ kern = "locked" /\ idfcs = {} /\ ~k.resched
    /\ k.current = t /\ k.cont[t] = where

\* ... at the end of Unlock or of an interrupt.
ReturnToThread(t) ==
    /\ Rescheduled(t, "run")
    /\ Unlock(k)

\* ... in NFastMutex::Wait: it locks the kernel again, interrupts still
\* disabled, and takes the mutex without another look at iHoldingThread.
ReturnToFMWait(t) ==
    /\ Rescheduled(t, "FMWait")
    /\ Unlock(FMTake(k, t, k.waitFM[t]))

\* ... in FMFlash, which keeps the kernel locked and waits for the mutex.
ReturnToFMFlash(t) ==
    /\ Rescheduled(t, "FMFlash")
    /\ Unlock([FMWait(k, t, k.arg[t]) EXCEPT !.arg[t] = Null])

\* ... in Block, which calls FMWait with the kernel unlocked.
ReturnToBlock(t) ==
    /\ Rescheduled(t, "Block")
    /\ Unlock(k)

ClaimAfterBlock(t) ==
    /\ kern = "unlocked" /\ k.current = t /\ k.cont[t] = "Block" /\ ~k.fault
    /\ Unlock([FMWait(k, t, k.arg[t]) EXCEPT !.arg[t] = Null])

\* ... in the code Kill diverted it to.
ReturnToForcedExit(t) ==
    /\ Rescheduled(t, "ForcedExit")
    /\ Unlock(ForcedExit(k, t))

-----------------------------------------------------------------------------
ThreadStep(t) ==
    \/ \E m \in Mutex : CallFMWait(t, m)
    \/ CallFMSignal(t)
    \/ CallFMFlash(t)
    \/ WaitForAnyRequest(t)
    \/ \E u \in Thread \ {NullThread}, m \in FMArg(t) : ThreadRequestSignal(t, u, m)
    \/ \E u \in Thread \ {NullThread}, n \in 0..2 : ThreadRequestSignalN(t, u, n)
    \/ \E u \in Thread, n \in 1..2 : ThreadSuspend(t, u, n)
    \/ \E u \in Thread, m \in FMArg(t) : ThreadResume(t, u, m)
    \/ \E u \in Thread, m \in FMArg(t) : ThreadForceResume(t, u, m)
    \/ \E u \in Thread, p \in Pri \ {0}, m \in FMArg(t) : ThreadSetPriority(t, u, p, m)
    \/ \E u \in Thread, m \in FMArg(t) : ThreadRelease(t, u, m)
    \/ \E u \in Thread, m \in FMArg(t) : ThreadKill(t, u, m)
    \/ ThreadKillSelf(t)
    \/ CallExit(t)
    \/ DeferredExit(t)
    \/ ExitHandlerDone(t)
    \/ ThreadEnterCS(t)
    \/ ThreadLeaveCS(t)
    \/ \E enterCS, claim \in BOOLEAN : Block(t, enterCS, claim)
    \/ YieldTimeslice(t)
    \/ \E p \in Pri : CallRotateReadyList(t, p)
    \/ ClaimAfterBlock(t)

Interrupt ==
    \/ TimesliceTick
    \/ \E u \in Thread : DeviceInterrupt(u)

Reschedule ==
    \/ \E u \in Thread : RunIdfc(u)
    \/ ClearRescheduleFlag
    \/ SwitchThread
    \/ \E t \in Thread : \/ ReturnToThread(t)
                         \/ ReturnToFMWait(t)
                         \/ ReturnToFMFlash(t)
                         \/ ReturnToBlock(t)
                         \/ ReturnToForcedExit(t)

Next ==
    \/ \E t \in Thread : ThreadStep(t)
    \/ Interrupt
    \/ Reschedule

Spec == Init /\ [][Next]_vars
-----------------------------------------------------------------------------
\* Properties

\* Every variable and every field of the kernel state has its type; in
\* particular iCurrentThread always points to a thread.
TypeOK ==
    /\ k \in KState
    /\ kern \in {"unlocked", "locked", "selecting"}
    /\ idfcs \subseteq Thread \ {NullThread}
    /\ ticks \in 0..MaxLockedTicks

\* NFastMutex::iHoldingThread and NThreadBase::iHeldFastMutex agree.  Since
\* NFastMutex::Wait takes the mutex after YieldTo without testing
\* iHoldingThread again, this says that the scheduler never runs a waiting
\* thread while the mutex has a holder: mutual exclusion.
HolderConsistent ==
    \A t \in Thread, m \in Mutex : k.holding[m] = t <=> k.heldFM[t] = m

\* The thread a fast mutex names as its holder can always be run: it is
\* ready, whatever the other threads suspend, kill or release.  SelectThread
\* switches to the holder without looking at its state.
HolderReady ==
    \A t \in Thread : k.heldFM[t] # Null => k.nstate[t] = "EReady" /\ k.waitFM[t] = Null

\* A thread is on the ready list, once and at its own priority, exactly when
\* its state is EReady: Add, Remove and ChangePriority are always called on
\* threads in the state they expect.
ReadyListOK ==
    \A p \in Pri :
        /\ IsInjective(k.ready[p])
        /\ \A t \in Thread : t \in Range(k.ready[p]) <=> k.nstate[t] = "EReady" /\ k.pri[t] = p

\* With the kernel unlocked the processor executes a thread that is ready: a
\* thread suspended, killed or blocked by anyone has been switched away from.
RunningReady ==
    kern = "unlocked" => k.nstate[k.current] = "EReady" /\ k.suspendCount[k.current] = 0

\* The consistency checks of NThreadBase::Exit and DoCsFunction never fail: no
\* thread exits holding a fast mutex or inside a critical section.
NoFault == ~k.fault

\* A deferred suspension or exit is never lost: while csFunction is set the
\* thread is in a critical section, or it holds a fast mutex flagged so that
\* NFastMutex::Signal will act on it.
DeferredNotLost ==
    \A t \in Thread : k.csFunction[t] # 0 =>
        \/ k.csCount[t] > 0
        \/ k.heldFM[t] # Null /\ k.waiting[k.heldFM[t]]

\* A thread with outstanding suspensions is not ready, and one that is not
\* ready has something to make it so: suspensions, a wait, or it is dead.
SuspendedNotReady ==
    \A t \in Thread :
        /\ k.suspendCount[t] < 0 => k.nstate[t] # "EReady"
        /\ k.nstate[t] = "ESuspended" => k.suspendCount[t] < 0

\* The request semaphore counts one waiter exactly while its owner waits, also
\* when the wait is cancelled by a kill or overtaken by SignalN.
RequestCount ==
    \A t \in Thread : /\ k.count[t] >= -1
                      /\ k.count[t] = -1 <=> k.nstate[t] = "EWaitFastSemaphore"

ReadyAbove(t) == {u \in Thread : k.nstate[u] = "EReady" /\ k.pri[u] > k.pri[t]}

\* The current thread holds a fast mutex flagged as contended, so that it gives up
\* the processor when it signals it.
HoldsFlagged == k.heldFM[k.current] # Null /\ k.waiting[k.heldFM[k.current]]

\* Another thread waits for a fast mutex, or did until it was killed: SelectThread
\* runs the holder in its place, and does not set iWaiting.
Contended ==
    \E u \in Thread \ {k.current} : k.waitFM[u] # Null \/ k.cont[u] = "ForcedExit"

\* NKern::Block has acted on a deferred exit, before it called RescheduleNeeded.
ExitsFromBlock == k.current \in Blockers /\ Exiting(k, k.current)

\* nk_priv.h, EReady: the highest priority READY thread is the one that will run.  A
\* thread runs while one of a higher priority is ready only if it holds a flagged
\* mutex, or if another thread waits for a mutex.
HighestReadyRunsUnlessFMWait ==
    kern = "unlocked" /\ ReadyAbove(k.current) # {} =>
        HoldsFlagged \/ Contended \/ ExitsFromBlock

\* The holder of a contended mutex inherits its waiters' priority: whoever runs
\* while a higher priority thread is ready holds a mutex, and gives up the
\* processor when it signals it.
InheritedPriorityIsFlagged ==
    kern = "unlocked" /\ ReadyAbove(k.current) # {} => HoldsFlagged

\* A thread whose timeslice has expired executes beside a ready thread of the
\* same priority only while it holds a fast mutex, flagged so that the round
\* robin happens when it signals it.
SliceNotOverrun ==
    kern = "unlocked" /\ k.time[k.current] = 0 /\ ~Alone(k, k.current) => HoldsFlagged

\* The current thread needs the system lock implicitly and another thread holds it.
RunsWithoutSysLock ==
    k.current \in ImplicitSys /\ k.holding[SysLock] \notin {Null, k.current}

\* A thread that needs the system lock implicitly executes while another holds it only
\* if it holds a fast mutex of its own, flagged so that the holder of the system lock
\* runs when it signals that mutex, or on behalf of a thread that waits for its mutex.
ImplicitSysLock ==
    kern = "unlocked" /\ RunsWithoutSysLock =>
        HoldsFlagged \/ Contended \/ ExitsFromBlock

\* The same where no flag is missed, see HolderFlagged.
SysLockIsFlagged == kern = "unlocked" /\ RunsWithoutSysLock => HoldsFlagged

\* The fast mutexes as their users see them: whatever the scheduler does, each
\* step either leaves holders and waiters alone or is one that FastMutex allows.
FM == INSTANCE FastMutex WITH holder <- k.holding, wants <- k.waitFM
ImplementsFastMutex == FM!FMSpec

\* Holders and waiters of fast mutexes are exact: two pieces of state agree on who
\* holds what, over every order of waits, signals, preemptions and kills.
HoldersExact == TypeOK /\ HolderConsistent

\* Threads that leave each other's suspensions, priorities and turns alone, do not
\* exit from NKern::Block, and have timeslices longer than the kernel stays locked.
Steady ==
    /\ Suspenders = {} /\ Prioritisers = {} /\ Rotators = {}
    /\ \A t \in Blockers : t \notin Exiters /\ \A u \in Thread : <<u, t>> \notin Killers
    /\ \A t \in Thread : Timeslice[t] = -1 \/ Timeslice[t] > MaxLockedTicks

\* Whoever executes although a thread that should run before it is ready, for its
\* higher priority, because a timeslice is over, or as the holder of the system lock,
\* holds a fast mutex flagged so that NFastMutex::Signal gives the processor up: no
\* flag is missed among Steady threads.
HolderFlagged ==
    Steady => InheritedPriorityIsFlagged /\ SliceNotOverrun /\ SysLockIsFlagged

\* The states of the threads agree with what others have done to them: holders can
\* run, the current thread is ready, suspended threads are not, and waits count.
ThreadStatesOK == HolderReady /\ RunningReady /\ SuspendedNotReady /\ RequestCount

\* A suspension or an exit that was put off is acted on, at a moment when the
\* thread may stop or exit.
NothingForgotten == DeferredNotLost /\ NoFault

-----------------------------------------------------------------------------
\* Fairness

\* The processor keeps executing the scheduler, and NKern::Block when it returns.
KernelRuns ==
    WF_vars(Reschedule \/ \E t \in Thread : ClaimAfterBlock(t))

\* A thread that is given the processor again and again while it holds a fast
\* mutex gets to the end of that part of its code.
HoldersRun ==
    \A t \in Thread : SF_vars(CallFMSignal(t) \/ CallFMFlash(t))

\* The tick keeps coming, also while threads use the kernel.
TicksCome == SF_vars(TimesliceTick)

FairSpec == Spec /\ KernelRuns /\ HoldersRun
TickSpec == FairSpec /\ TicksCome

Top(t) == k.nstate[t] = "EReady" /\ ReadyAbove(t) = {}

\* A thread that waits for a fast mutex gets it, if no thread of a higher
\* priority is ready: lower priority threads hold it up only as long as they
\* hold a mutex themselves.
WaiterServed ==
    \A t \in Thread \ {NullThread}, m \in Mutex :
        k.waitFM[t] = m /\ Top(t) ~> k.waitFM[t] = Null \/ ~Top(t)

\* Round robin: a ready thread gets the processor although another thread of
\* its priority never gives it up, since timeslices end.
RoundRobin ==
    \A t \in Thread \ {NullThread} : Top(t) ~> k.current = t \/ ~Top(t)
=============================================================================
