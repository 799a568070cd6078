------------------------------- MODULE KThread -------------------------------
(***************************************************************************)
(* Threads that use the kernel's semaphores, mutexes and condition         *)
(* variables, and suspend, resume, kill, time out and re-prioritise each   *)
(* other meanwhile.                                                        *)
(*                                                                         *)
(* A step is the code between taking the system lock and releasing it, or  *)
(* flashing it.  A thread may take the lock when it is neither blocked nor *)
(* suspended; which of them does is left open (module NSched chooses by    *)
(* priority).  Threads call any service whose precondition holds; who acts *)
(* on whom is a constant of the instance.                                  *)
(***************************************************************************)
EXTENDS KSync

CONSTANTS
    Suspenders,   \* pairs <<u, t>>: u may suspend and resume t
    Killers,      \* pairs <<u, t>>: u may kill t
    Repriorities, \* pairs <<t, p>>: the default priority of t may become p
    Exiters,      \* threads that may exit of their own accord
    CSUsers,      \* threads that enter critical sections
    Timed,        \* threads whose waits have a timeout
    Deleters,     \* pairs <<t, o>>: t may close the last handle to o
    MaxHold,      \* bound on nested holds of a mutex
    MaxCount,     \* bound on the count of a semaphore
    MaxSusp       \* bound on the suspensions of a thread, deferred or not

ASSUME KThreadAssumption ==
    /\ Suspenders \cup Killers \subseteq Thread \X Thread
    /\ Repriorities \subseteq Thread \X Pri
    /\ Exiters \cup CSUsers \cup Timed \subseteq Thread
    /\ Deleters \subseteq Thread \X Obj
    /\ MaxHold \in Nat \ {0} /\ MaxCount \in Nat /\ MaxSusp \in Nat

VARIABLE k     \* the state, see KSync

Init ==
    k = [mstate     |-> [t \in Thread |-> "EReady"],
         waitObj    |-> [t \in Thread |-> Null],
         pri        |-> InitPri,
         defPri     |-> InitPri,
         cleanupQ   |-> [t \in Thread |-> {}],
         blocked    |-> [t \in Thread |-> FALSE],
         susp       |-> [t \in Thread |-> 0],
         cs         |-> [t \in Thread |-> FALSE],
         csFunction |-> [t \in Thread |-> 0],
         timed      |-> [t \in Thread |-> FALSE],
         ret        |-> [t \in Thread |-> "KErrNone"],
         pc         |-> [t \in Thread |-> "run"],
         obj        |-> [t \in Thread |-> Null],
         cond       |-> [t \in Thread |-> Null],
         todo       |-> [t \in Thread |-> 0],
         waitQ      |-> [o \in Obj |-> <<>>],
         suspQ      |-> [o \in Obj |-> <<>>],
         pendQ      |-> [m \in Mutex |-> <<>>],
         phase      |-> [o \in Obj |-> "live"],
         holder     |-> [m \in Mutex |-> Null],
         clnPri     |-> [m \in Mutex |-> 0],
         holdCount  |-> [m \in Mutex |-> 0],
         waitCount  |-> [o \in Mutex \cup Cond |-> 0],
         count      |-> [s \in Sem |-> 0],
         cvMutex    |-> [c \in Cond |-> Null],
         fault      |-> FALSE]

CanRun(t) == ~k.blocked[t] /\ k.susp[t] = 0 /\ k.pc[t] # "dead"
At(t, label) == CanRun(t) /\ k.pc[t] = label

\* Back in the thread's own code, which forgets what the call was about.
Back(k1, t) == [k1 EXCEPT !.pc[t] = "run", !.obj[t] = Null, !.cond[t] = Null,
                          !.ret[t] = "KErrNone"]
\* Back from a call made in a critical section.
BackLeaveCS(k1, t) == LeaveCS(Back(k1, t), t)

EnterCS(k1, t) == [k1 EXCEPT !.cs[t] = TRUE]
\* A handle to the object is left; the last one is gone before the object is reset.
Usable(o) == k.phase[o] = "live"
-----------------------------------------------------------------------------
\* Mutexes

\* What follows DMutex::Wait: the thread's own code, or the rest of
\* ExecHandler::CondVarBroadcast, which flashes the system lock first.
AfterMutexWait(k1, t) ==
    IF k1.cond[t] = Null THEN Back(k1, t) ELSE [k1 EXCEPT !.pc[t] = "Broadcast"]

\* The loop of DMutex::Wait once more.
MutexWaitLoop(k1, t, m) ==
    IF Resetting(k1, m) THEN AfterMutexWait(k1, t)
    ELSE IF k1.holder[m] = Null THEN AfterMutexWait(Claim(k1, t, m), t)
    ELSE IF k1.holder[m] = t
         THEN AfterMutexWait([k1 EXCEPT !.holdCount[m] = @ + 1], t)
    ELSE Block([Settle(WaitForMutex(k1, t, m, 0)) EXCEPT !.pc[t] = "MutexWait", !.obj[t] = m],
               t, t \in Timed /\ ~k1.cs[t])   \* Kern::MutexWait has no timeout

\* A mutex of the kernel is only taken after mutexes of higher order, which a
\* debug build enforces; for mutexes of user code there is no such rule.
InOrder(t, m) ==
    Order[m] < KMutexOrdUser => \A h \in k.cleanupQ[t] : h = m \/ Order[m] < Order[h]

MutexWait(t, m) ==
    /\ At(t, "run") /\ Usable(m) /\ InOrder(t, m)
    /\ k.holder[m] = t => k.holdCount[m] < MaxHold
    /\ k' = MutexWaitLoop(k, t, m)

\* DMutex::Wait(-1): the mutex only if it is free.
MutexPoll(t, m) ==
    /\ At(t, "run") /\ Usable(m) /\ InOrder(t, m) /\ k.holder[m] = Null
    /\ k' = Claim(k, t, m)

\* NKern::Block returns in DMutex::Wait with the system lock.
MutexWaitReturns(t) ==
    LET m  == k.obj[t]
        k1 == [Ready(k, t) EXCEPT !.pendQ[m] = Without(@, t)]
    IN  /\ At(t, "MutexWait")
        /\ k' = IF k.ret[t] # "KErrNone" \/ k.mstate[t] = "EReady"
                THEN AfterMutexWait(Asserted(k, k.mstate[t] = "EReady"), t)
                ELSE MutexWaitLoop(k1, t, m)

\* ExecHandler::MutexSignal refuses a thread that is not the holder.
MutexSignals(t, m) ==
    /\ At(t, "run") /\ Usable(m) /\ k.holder[m] = t
    /\ k' = MutexSignal(k, t, m)

-----------------------------------------------------------------------------
\* Semaphores

SemWait(t, s) ==
    /\ At(t, "run") /\ Usable(s)
    /\ LET k1 == [k EXCEPT !.count[s] = @ - 1]
       IN  k' = IF k1.count[s] >= 0 THEN k1
                ELSE Block(Wait(k1, s, t, "EWaitSemaphore"), t, t \in Timed)

\* DSemaphore::Wait(-1)
SemPoll(t, s) ==
    /\ At(t, "run") /\ Usable(s) /\ k.count[s] > 0
    /\ k' = [k EXCEPT !.count[s] = @ - 1]

SemSignals(t, s) ==
    /\ At(t, "run") /\ Usable(s) /\ k.count[s] < MaxCount
    /\ k' = SemSignal(k, s)

\* DSemaphore::SignalN until it has to release the system lock; it goes on
\* with todo signals.
SignalNLoop(k1, t, s, n) ==
    IF Resetting(k1, s) \/ n = 0 THEN BackLeaveCS([k1 EXCEPT !.todo[t] = 0], t)
    ELSE IF k1.count[s] < 0
         THEN [SemSignal(k1, s) EXCEPT !.pc[t] = "SignalN", !.obj[t] = s, !.todo[t] = n - 1]
    ELSE BackLeaveCS([k1 EXCEPT !.count[s] = @ + n, !.todo[t] = 0], t)

SemSignalN(t, s, n) ==
    /\ At(t, "run") /\ ~k.cs[t] /\ Usable(s) /\ k.count[s] + n =< MaxCount
    /\ k' = SignalNLoop(EnterCS(k, t), t, s, n)

SemSignalNGoesOn(t) ==
    /\ At(t, "SignalN")
    /\ k' = SignalNLoop(k, t, k.obj[t], k.todo[t])

-----------------------------------------------------------------------------
\* Condition variables

\* DCondVar::Wait as far as the release of the system lock.  Without the mutex
\* the thread panics, with another mutex than the other waiters' it gets
\* KErrInUse.
CondWait(t, c, m) ==
    /\ At(t, "run") /\ Usable(c) /\ Usable(m) /\ InOrder(t, m)
    /\ k.holder[m] = t /\ k.cvMutex[c] \in {Null, m}
    /\ LET k1 == Wait([k EXCEPT !.cvMutex[c] = m, !.waitCount[c] = @ + 1], c, t, "EWaitCondVar")
           k2 == GiveUp([k1 EXCEPT !.holdCount[m] = 0], t, m)
           k3 == IF k2.clnPri[m] = 0 THEN k2
                 ELSE ChangePriority(k2, c, t, RequiredPriority(k2, t))
       IN  k' = [k3 EXCEPT !.pc[t] = "CondWindow", !.obj[t] = m, !.cond[t] = c]

\* The loop of DCondVar::Wait: the thread blocks until it has been signalled
\* and the mutex is free, which it then takes.
CondWaitLoop(k1, t, m) ==
    LET k2 == IF k1.mstate[t] = "EHoldMutexPending"
              THEN [k1 EXCEPT !.pendQ[m] = Without(@, t)] ELSE k1
        waits == k1.mstate[t] \in {"EWaitMutex", "EWaitCondVar"}
    IN  IF waits THEN Block([k1 EXCEPT !.pc[t] = "CondWait"], t,
                         t \in Timed /\ k1.mstate[t] = "EWaitCondVar")
        ELSE IF k1.holder[m] # Null
             THEN Block([Settle(WaitForMutex(k2, t, m, 0)) EXCEPT !.pc[t] = "CondWait"], t, FALSE)
        ELSE Back(Claim(Asserted(Ready(k2, t),
                            k1.mstate[t] \in {"EReady", "EHoldMutexPending"}), t, m), t)

\* It takes the system lock again, to block: it may have been signalled,
\* suspended and resumed or had the variable deleted meanwhile.
CondWindow(t) ==
    /\ At(t, "CondWindow")
    /\ k' = IF k.mstate[t] = "EReady" THEN Back(k, t)
            ELSE CondWaitLoop(Asserted(k, k.mstate[t] \in {"EWaitCondVar", "EWaitMutex",
                                                           "EHoldMutexPending"}), t, k.obj[t])

\* NKern::Block returns in DCondVar::Wait with the system lock.
CondWaitReturns(t) ==
    LET failed == \/ k.ret[t] \notin {"KErrNone", "KErrTimedOut"}
                  \/ k.ret[t] = "KErrNone" /\ k.mstate[t] = "EReady"
    IN  /\ At(t, "CondWait")
        /\ k' = IF failed THEN Back(Asserted(k, k.mstate[t] = "EReady"), t)
                ELSE CondWaitLoop(k, t, k.obj[t])

CondSignals(t, c) ==
    /\ At(t, "run") /\ Usable(c)
    /\ k' = CondSignal(k, c)

\* DCondVar::Broadcast, and what ExecHandler::CondVarBroadcast does after it;
\* todo is its flag wm, that it took the mutex for the purpose.
BroadcastLoop(k1, t) ==
    LET m == k1.obj[t]
        c == k1.cond[t]
    IN  IF k1.cvMutex[c] = m THEN [CondSignal(k1, c) EXCEPT !.pc[t] = "Broadcast"]
        ELSE BackLeaveCS([IF k1.todo[t] = 1 THEN MutexSignal(k1, t, m) ELSE k1
                             EXCEPT !.todo[t] = 0], t)

\* ExecHandler::CondVarBroadcast: takes the mutex unless the thread has it, then
\* wakes the waiters one by one.
CondBroadcast(t, c) ==
    LET m  == k.cvMutex[c]
        k1 == [EnterCS(k, t) EXCEPT !.cond[t] = c, !.obj[t] = m, !.todo[t] = 1]
    IN  /\ At(t, "run") /\ ~k.cs[t] /\ Usable(c) /\ m # Null
        /\ InOrder(t, m)
        /\ k' = IF k.holder[m] = t THEN BroadcastLoop([k1 EXCEPT !.todo[t] = 0], t)
                ELSE MutexWaitLoop(k1, t, m)

BroadcastStep(t) ==
    /\ At(t, "Broadcast")
    /\ k' = BroadcastLoop(k, t)

-----------------------------------------------------------------------------
\* An object is destroyed: DMutex::Reset, DSemaphore::Reset, DCondVar::Reset

\* The values that matter of K::PINestLevel: one more would cut a chain where the
\* highest of these does, at its first link.
NestLevel == 0..KMaxPriorityInheritanceNesting - 1

Destroyed(k1, o, n) ==
    LET k2 == IF o \in Mutex /\ k1.holder[o] # Null THEN ForgetHolder(k1, o, n) ELSE k1
    IN  [k2 EXCEPT !.phase[o] = "deleted",
                   !.clnPri    = [m \in Mutex |-> IF m = o THEN 0 ELSE @[m]],
                   !.holdCount = [m \in Mutex |-> IF m = o THEN 0 ELSE @[m]],
                   !.count     = [x \in Sem   |-> IF x = o THEN 0 ELSE @[x]],
                   !.cvMutex   = [c \in Cond  |-> IF c = o THEN Null ELSE @[c]]]

\* One more waiter is released: the pending ones first, then those on the wait
\* queue, then the suspended ones; at the end the mutex loses its holder,
\* and n is K::PINestLevel then.
ResetLoop(k1, t, o, n) ==
    IF o \in Mutex /\ k1.pendQ[o] # <<>>
    THEN [Ready(k1, Head(k1.pendQ[o])) EXCEPT !.pendQ[o] = Tail(@)]
    ELSE IF k1.waitQ[o] # <<>>
    THEN [ReleaseFirst(k1, o, "KErrGeneral") EXCEPT !.count = [s \in Sem |->
             IF s = o THEN @[s] + 1 ELSE @[s]]]
    ELSE IF k1.suspQ[o] # <<>>
    THEN ThreadRelease(Ready([k1 EXCEPT !.suspQ[o] = Tail(@)], Head(k1.suspQ[o])),
                       Head(k1.suspQ[o]), "KErrGeneral")
    ELSE BackLeaveCS(Destroyed(k1, o, n), t)

\* Callers that come back to the object keep it open: the waiters of a condition
\* variable its mutex, a broadcast both.
KeptOpen(o) ==
    \E u \in Thread : \/ o \in Mutex /\ k.obj[u] = o /\ k.cond[u] # Null
                      \/ o \in Cond /\ k.cond[u] = o /\ k.pc[u] \in {"MutexWait", "Broadcast"}
                      \/ o \in Sem /\ k.obj[u] = o /\ k.pc[u] = "SignalN"

Delete(t, o) ==
    /\ At(t, "run") /\ ~k.cs[t] /\ k.phase[o] = "live" /\ ~KeptOpen(o)
    /\ k' = ResetLoop([EnterCS(k, t) EXCEPT !.phase[o] = "resetting", !.pc[t] = "Reset",
                                            !.obj[t] = o], t, o, 0)

\* The system lock was flashed: the chains of other threads may have left any level.
ResetStep(t) ==
    /\ At(t, "Reset")
    /\ \E n \in NestLevel : k' = ResetLoop(k, t, k.obj[t], n)

-----------------------------------------------------------------------------
\* Control of other threads

Suspends(u, t) ==
    /\ At(u, "run") /\ k.pc[t] # "dead"
    /\ k.susp[t] + k.csFunction[t] < MaxSusp
    /\ k' = Suspend(k, u, t)

Resumes(u, t) ==
    /\ At(u, "run") /\ u # t /\ k.pc[t] # "dead"
    /\ k' = Resume(k, t)

\* DThread::SetThreadPriority, by whichever thread.
SetsPriority(t, p) ==
    /\ k.pc[t] # "dead" /\ k.defPri[t] # p
    /\ k' = SetDefaultPriority(k, t, p)

Kills(u, t) ==
    /\ At(u, "run") /\ u # t /\ k.pc[t] # "dead" /\ k.csFunction[t] >= 0
    /\ k' = Die(k, t)

\* DThread::Die for the current thread, which is not in a critical section.
ExitSelf(t) ==
    /\ At(t, "run") /\ ~k.cs[t]
    /\ k' = [SetDefaultPriority(EnterCS(k, t), t, ExitPri) EXCEPT !.csFunction[t] = -1,
                                                                  !.pc[t] = "Exit"]

EntersCS(t) ==
    /\ At(t, "run") /\ ~k.cs[t]
    /\ k' = EnterCS(k, t)

LeavesCS(t) ==
    /\ At(t, "run") /\ k.cs[t]
    /\ k' = LeaveCS(k, t)

\* DThread::EpocThreadTimeoutHandler, for a thread that is still blocked.
Timeout(t) ==
    /\ k.blocked[t] /\ k.timed[t]
    /\ k' = ReleaseWait(k, t, "KErrTimedOut")

-----------------------------------------------------------------------------
\* DThread::Exit

\* Mutant of ExitReleasesWait: the wait is not given up.
ExitReleasesWaitMutant(t) ==
    /\ At(t, "Exit")
    /\ k' = [k EXCEPT !.pc[t] = "Cleanup"]

ExitReleasesWait(t) ==
    /\ At(t, "Exit")
    /\ k' = [ReleaseWait(k, t, "KErrDied") EXCEPT !.pc[t] = "Cleanup"]

\* TThreadMutexCleanup::Cleanup of the first item of iCleanupQ, at nesting level 0.
ExitCleansUp(t, m) ==
    /\ At(t, "Cleanup") /\ m \in k.cleanupQ[t] /\ k.clnPri[m] = CleanupPriority(k, t)
    /\ k' = IF Resetting(k, m) THEN ForgetHolder(k, m, 0)
            ELSE MutexSignal([k EXCEPT !.holdCount[m] = 1], t, m)

ExitEnds(t) ==
    /\ At(t, "Cleanup") /\ k.cleanupQ[t] = {}
    /\ k' = [k EXCEPT !.mstate[t] = "EDead", !.pc[t] = "dead", !.obj[t] = Null,
                      !.cond[t] = Null, !.ret[t] = "KErrNone"]

-----------------------------------------------------------------------------
\* What a thread does of its own accord, what it goes on with, what is done to it.
Call(t) ==
    \/ \E m \in Mutex : MutexWait(t, m) \/ MutexPoll(t, m) \/ MutexSignals(t, m)
    \/ \E s \in Sem : \/ SemWait(t, s) \/ SemPoll(t, s) \/ SemSignals(t, s)
                      \/ SemSignalN(t, s, 2)
    \/ \E c \in Cond : \/ CondSignals(t, c) \/ CondBroadcast(t, c)
                       \/ \E m \in Mutex : CondWait(t, c, m)

GoesOn(t) ==
    \/ MutexWaitReturns(t)
    \/ SemSignalNGoesOn(t)
    \/ CondWindow(t)
    \/ CondWaitReturns(t)
    \/ BroadcastStep(t)
    \/ ResetStep(t)
    \/ ExitReleasesWait(t)
    \/ \E m \in Mutex : ExitCleansUp(t, m)
    \/ ExitEnds(t)

Control ==
    \/ \E p \in Suspenders : Suspends(p[1], p[2]) \/ Resumes(p[1], p[2])
    \/ \E p \in Killers : Kills(p[1], p[2])
    \/ \E p \in Repriorities : SetsPriority(p[1], p[2])
    \/ \E p \in Deleters : Delete(p[1], p[2])
    \/ \E t \in Exiters : ExitSelf(t)
    \/ \E t \in CSUsers : EntersCS(t) \/ LeavesCS(t)
    \/ \E t \in Thread : Timeout(t)

Next == Control \/ \E t \in Thread : Call(t) \/ GoesOn(t)

Spec == Init /\ [][Next]_k

\* A thread with the processor gets through the kernel.
FairSpec == Spec /\ \A t \in Thread : WF_k(GoesOn(t))

-----------------------------------------------------------------------------
Waiters(o) == Range(k.waitQ[o])
Suspended(o) == Range(k.suspQ[o])
Pending(m) == Range(k.pendQ[m])

WaitState == [o \in Obj |-> IF o \in Mutex THEN "EWaitMutex"
                            ELSE IF o \in Sem THEN "EWaitSemaphore" ELSE "EWaitCondVar"]
SuspState == [o \in Obj |-> IF o \in Mutex THEN "EWaitMutexSuspended"
                            ELSE IF o \in Sem THEN "EWaitSemaphoreSuspended"
                            ELSE "EWaitCondVarSuspended"]

\* A thread's M-state names the queue it is on, and it is on no other.
QueuesAgree ==
    \A o \in Obj :
        /\ Inj(k.waitQ[o]) /\ Inj(k.suspQ[o])
        /\ Waiters(o) = {t \in Thread : k.waitObj[t] = o /\ k.mstate[t] = WaitState[o]}
        /\ Suspended(o) = {t \in Thread : k.waitObj[t] = o /\ k.mstate[t] = SuspState[o]}
        /\ o \in Mutex =>
              /\ Inj(k.pendQ[o])
              /\ Pending(o) = {t \in Thread : /\ k.waitObj[t] = o
                                              /\ k.mstate[t] = "EHoldMutexPending"}
        /\ \A i, j \in DOMAIN k.waitQ[o] :
              i < j => k.pri[k.waitQ[o][i]] >= k.pri[k.waitQ[o][j]]

\* The counters agree with the queues.
CountsAgree ==
    /\ \A o \in Mutex \cup Cond : k.phase[o] = "live" =>
          k.waitCount[o] = Len(k.waitQ[o]) + Len(k.suspQ[o])
    /\ \A s \in Sem : k.phase[s] # "deleted" =>
          Len(k.waitQ[s]) = IF k.count[s] < 0 THEN -k.count[s] ELSE 0
    /\ \A c \in Cond : k.phase[c] = "live" => (k.cvMutex[c] = Null <=> k.waitCount[c] = 0)

\* The nanokernel's view of a thread agrees with the kernel's.
NStatesAgree ==
    \A t \in Thread :
        /\ k.susp[t] > 0 => ~\E o \in Obj : t \in Waiters(o)
        /\ (\E o \in Obj : t \in Suspended(o)) => k.susp[t] > 0 \/ k.pc[t] = "Exit"
        /\ k.blocked[t] => \E o \in Obj : t \in Waiters(o) \cup Suspended(o)
        /\ CanRun(t) /\ k.pc[t] = "run" => k.mstate[t] = "EReady"
        /\ k.mstate[t] = "EReady" => k.waitObj[t] = Null

\* The holder of a mutex, and only it, has the mutex on its cleanup queue.
HoldersAgree ==
    \A m \in Mutex, t \in Thread : k.holder[m] = t <=> m \in k.cleanupQ[t]

\* None of the code's assertions on the way fails; the one in
\* TThreadWaitList::ChangePriority stops a debug build (K::Fault) if the thread
\* whose priority changes is not on the list.
AssertionsHold == ~k.fault

\* The parts of SyncExact that hold also when threads deadlock.
StructureExact ==
    k \in KState /\ QueuesAgree /\ CountsAgree /\ NStatesAgree /\ HoldersAgree

\* Whatever is done to a thread while it waits, is offered a mutex, is between
\* the two halves of a wait for a condition variable or is suspended, and
\* whichever object is destroyed meanwhile, DThread, the nanokernel and the
\* objects agree on who waits for what, who is counted and who holds what.
SyncExact == StructureExact /\ AssertionsHold

\* A live mutex that is free and waited for has been offered to a thread that
\* can take it and that no waiter outranks: when the thread that DMutex::Signal
\* woke is suspended, killed, times out or is lowered before it runs, another is
\* woken in its stead.
NoIdleMutex ==
    \A m \in Mutex :
        k.phase[m] = "live" /\ k.holder[m] = Null /\ k.waitQ[m] # <<>>
            => \E t \in Pending(m) : k.susp[t] = 0 /\ k.pri[t] >= HighestPriority(k, m)

\* The cleanup item of a mutex has the priority of the first of its waiters.
CleanupExact ==
    \A m \in Mutex : k.phase[m] = "live" /\ k.holder[m] # Null
                         => k.clnPri[m] = HighestPriority(k, m)

\* Priority inheritance: a thread has the highest of its own priority and those
\* of the threads that wait, directly or through others, for what it holds, also
\* after a waiter has left, been suspended or changed its priority.
InheritanceExact ==
    /\ CleanupExact
    /\ \A t \in Thread : k.pri[t] = RequiredPriority(k, t)

\* t cannot go on before u does: it waits for a mutex that u holds, or for a
\* condition variable whose mutex u holds.
WaitsFor(r, t, u) ==
    \/ r.mstate[t] = "EWaitMutex" /\ r.holder[r.waitObj[t]] = u
    \/ /\ r.mstate[t] = "EWaitCondVar" /\ r.cvMutex[r.waitObj[t]] # Null
       /\ r.holder[r.cvMutex[r.waitObj[t]]] = u

\* d ranks the threads: who waits for another is above it.
RankedBy(r, d) == \A t, u \in Thread : WaitsFor(r, t, u) => d[u] < d[t]
Ranked(r, D) == \E d \in [Thread -> 0..D] : RankedBy(r, d)

\* No threads wait for each other in a circle.
NoDeadlock == Ranked(k, Cardinality(Thread))

\* No thread waits, through others, for more threads than the nesting of
\* priority inheritance allows for.
ShortChains == Ranked(k, KMaxPriorityInheritanceNesting - 1)

\* While a mutex is reset, the thread that holds it waits for no other thread.  Where
\* it does, the reset may leave the threads it waits for with a priority that is too
\* high, as the chain may start at a level that other threads' chains have left.
ResetHoldersRun ==
    \A t, u, v \in Thread :
        k.pc[t] = "Reset" /\ k.obj[t] \in Mutex /\ k.holder[k.obj[t]] = u
            => ~WaitsFor(k, u, v)

\* A mutex that is free and waited for is taken, whatever happens to the threads
\* it was offered to, as long as threads with the processor get through the kernel.
FreeMutexIsTaken ==
    \A m \in Mutex :
        k.holder[m] = Null /\ k.waitQ[m] # <<>>
            ~> (k.holder[m] # Null \/ k.waitQ[m] = <<>>)
=============================================================================
