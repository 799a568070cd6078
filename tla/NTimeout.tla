-------------------------------- MODULE NTimeout --------------------------------
(***************************************************************************)
(* Waits with a timeout (src/kernel/eka/nkern/nkern.cpp).  A thread that   *)
(* blocks may start its own timer.  When that expires, DfcThread1 calls    *)
(* TimerExpired, which ends the wait; but the wait may have ended, and a   *)
(* new one begun, after the timer was taken off its queue and before       *)
(* TimerExpired has locked anything.  The bottom bit of iTimer.iPtr, the   *)
(* cookie, tells it.                                                       *)
(*                                                                         *)
(* Threads of the Symbian OS layer have a timeout handler, which ends the  *)
(* wait with the system lock held (kernel/sthread.cpp), and a state of     *)
(* their own, the M-state.  Other threads that hold the system lock do so  *)
(* for one step here; only the handler is seen holding it.  Each step is   *)
(* one stretch of code with the kernel or the system locked.  Threads are  *)
(* not suspended and not in critical sections here (module NSched).        *)
(***************************************************************************)
EXTENDS Integers, Queues

CONSTANTS
    Thread,
    Epoc,          \* threads of the Symbian OS layer
    NoThread

ASSUME TimeoutAssumption == Epoc \subseteq Thread /\ NoThread \notin Thread

VARIABLES
    k,             \* the fields of the threads, and DfcThread1's queue
    dfc,           \* where DfcThread1 is: "idle", or in TimerExpired
    who, cookie,   \* its pT and the bottom bit of its aPtr
    valid          \* history: the wait it was called for has not ended

timeoutVars == <<k, dfc, who, cookie, valid>>

Waiting == {"EBlocked", "ESleep"}

KState ==
    [nstate    : [Thread -> Waiting \cup {"EReady", "EDead"}],
     mstate    : [Thread -> {"EReady", "EWait", "EDead"}],
     killed    : [Thread -> BOOLEAN],                         \* diverted to Exit
     timer     : [Thread -> {"idle", "running", "expired"}],  \* "expired": completed queue
     userFlags : [Thread -> BOOLEAN],                         \* iTimer.iUserFlags
     ptr       : [Thread -> BOOLEAN],                         \* bottom bit of iTimer.iPtr
     returned  : [Thread -> {"KErrNone", "KErrDied", "KErrTimedOut"}],
     completed : Seq(Thread)]                                 \* NTimerQ::iCompletedQ

TimeoutInit ==
    /\ k = [nstate |-> [t \in Thread |-> "EReady"], mstate |-> [t \in Thread |-> "EReady"],
            killed |-> [t \in Thread |-> FALSE], timer |-> [t \in Thread |-> "idle"],
            userFlags |-> [t \in Thread |-> FALSE], ptr |-> [t \in Thread |-> FALSE],
            returned |-> [t \in Thread |-> "KErrNone"], completed |-> <<>>]
    /\ dfc = "idle" /\ who = NoThread /\ cookie = FALSE /\ valid = FALSE

\* The handler holds the system lock.
SysFree == dfc \notin {"locked", "ETimeoutPostamble", "ETimeoutSpurious"}

-----------------------------------------------------------------------------
\* NThreadBase::Release and what it calls

\* NTimer::Cancel.
Cancel(r, t) ==
    [r EXCEPT !.timer[t] = "idle",
              !.completed = IF r.timer[t] = "expired" THEN Without(@, t) ELSE @]

Woken(r, t) ==
    [r EXCEPT !.nstate[t] = IF @ \in Waiting THEN "EReady" ELSE @]

\* Mutant of Release: the cookie is not flipped.
ReleaseNoFlipMutant(r, t, code) ==
    LET r1 == Woken(r, t)
        r2 == IF ~r1.userFlags[t] THEN r1 ELSE [Cancel(r1, t) EXCEPT !.userFlags[t] = FALSE]
    IN  [r2 EXCEPT !.returned[t] = code]
Release(r, t, code) ==
    LET r1 == Woken(r, t)
        r2 == IF ~r1.userFlags[t] THEN r1
              ELSE [Cancel(r1, t) EXCEPT !.ptr[t] = IF r1.timer[t] = "idle" THEN ~@ ELSE @,
                                         !.userFlags[t] = FALSE]
    IN  IF r.nstate[t] = "EDead" THEN r ELSE [r2 EXCEPT !.returned[t] = code]

\* DThread::ReleaseWait, with the system locked.
ReleaseWait(r, t, code) ==
    IF r.mstate[t] # "EWait" THEN r
    ELSE Release([r EXCEPT !.mstate[t] = "EReady"], t, code)

\* The wait that DfcThread1 was called for may have ended.
StillValid == valid' = (valid /\ k'.nstate[who] \in Waiting)

-----------------------------------------------------------------------------
\* Threads

\* iTimer.iUserFlags = TRUE; iTimer.OneShot(aTimeout, TRUE), whose result is
\* ignored, if there is a timeout.
StartTimer(r, t, timed) ==
    IF ~timed THEN r
    ELSE [r EXCEPT !.userFlags[t] = TRUE,
                   !.timer[t] = IF @ = "idle" THEN "running" ELSE @]

\* The thread sets its M-state and calls NKern::Block, which unlocks the system.
\* A thread without M-state calls NKern::Block or NanoBlock.
Block(t, timed) ==
    /\ k.nstate[t] = "EReady" /\ ~k.killed[t]
    /\ t \in Epoc => SysFree
    /\ k' = [StartTimer(k, t, timed) EXCEPT !.nstate[t] = "EBlocked",
                                            !.mstate[t] = IF t \in Epoc THEN "EWait" ELSE @,
                                            !.returned[t] = "KErrNone"]
    /\ UNCHANGED <<dfc, who, cookie, valid>>

Sleep(t) ==
    /\ k.nstate[t] = "EReady" /\ ~k.killed[t]
    /\ k' = [StartTimer(k, t, TRUE) EXCEPT !.nstate[t] = "ESleep"]
    /\ UNCHANGED <<dfc, who, cookie, valid>>

\* Somebody ends the wait of t: a semaphore is signalled, say.
Wake(t) ==
    /\ IF t \in Epoc THEN SysFree /\ k.mstate[t] = "EWait"
                     ELSE k.nstate[t] \in Waiting
    /\ k' = IF t \in Epoc THEN ReleaseWait(k, t, "KErrNone") ELSE Release(k, t, "KErrNone")
    /\ StillValid
    /\ UNCHANGED <<dfc, who, cookie>>

\* NThreadBase::Kill; the thread runs to its exit when it is next scheduled.
Kill(t) ==
    /\ k.nstate[t] # "EDead" /\ ~k.killed[t]
    /\ t \in Epoc => SysFree
    /\ k' = [Release(k, t, "KErrDied") EXCEPT !.killed[t] = TRUE]
    /\ StillValid
    /\ UNCHANGED <<dfc, who, cookie>>

\* DThread::Exit, called by Exit, releases what is left of the wait.
ExitThread(t) ==
    /\ k.killed[t] /\ k.nstate[t] = "EReady"
    /\ t \in Epoc => SysFree
    /\ k' = [ReleaseWait(k, t, "KErrDied") EXCEPT
                 !.nstate[t] = "EDead", !.mstate[t] = IF t \in Epoc THEN "EDead" ELSE @]
    /\ StillValid
    /\ UNCHANGED <<dfc, who, cookie>>

\* The timer queue puts the timer on its completed queue.
Expire(t) ==
    /\ k.timer[t] = "running"
    /\ k' = [k EXCEPT !.timer[t] = "expired", !.completed = Append(@, t)]
    /\ UNCHANGED <<dfc, who, cookie, valid>>

-----------------------------------------------------------------------------
\* DfcThread1: NTimerQ::Dfc and NThreadBase::TimerExpired

Done == dfc' = "idle" /\ who' = NoThread /\ cookie' = FALSE /\ valid' = FALSE

\* The timer becomes idle, and the pointer is read, before TimerExpired is called.
CallTimerExpired ==
    /\ dfc = "idle" /\ k.completed # <<>>
    /\ LET t == Head(k.completed)
       IN  /\ k' = [k EXCEPT !.completed = Tail(@), !.timer[t] = "idle"]
           /\ who' = t /\ cookie' = k.ptr[t]
    /\ valid' = TRUE
    /\ dfc' = "TimerExpired"

\* With the kernel locked: it is left to the handler, or done at once.
TimerExpired ==
    /\ dfc = "TimerExpired"
    /\ IF who \in Epoc /\ k.nstate[who] = "EBlocked"
       THEN /\ dfc' = "ETimeoutPreamble"
            /\ UNCHANGED <<k, who, cookie, valid>>
       ELSE /\ k' = IF cookie # k.ptr[who] THEN k
                    ELSE IF k.nstate[who] \notin Waiting
                    THEN [k EXCEPT !.userFlags[who] = FALSE]
                    ELSE [Woken(k, who) EXCEPT !.userFlags[who] = FALSE,
                                               !.returned[who] = "KErrTimedOut"]
            /\ Done

\* The handler locks the system.
Preamble ==
    /\ dfc = "ETimeoutPreamble"
    /\ dfc' = "locked"
    /\ UNCHANGED <<k, who, cookie, valid>>

\* Mutants of SecondCheck: the cookie is not looked at again; the test is inverted.
SecondCheckNoneMutant ==
    /\ dfc = "locked"
    /\ dfc' = "ETimeoutPostamble"
    /\ k' = [k EXCEPT !.userFlags[who] = FALSE]
    /\ UNCHANGED <<who, cookie, valid>>
SecondCheckInvertedMutant ==
    /\ dfc = "locked"
    /\ IF cookie = k.ptr[who]
       THEN dfc' = "ETimeoutSpurious" /\ UNCHANGED k
       ELSE /\ dfc' = "ETimeoutPostamble"
            /\ k' = [k EXCEPT !.userFlags[who] = FALSE]
    /\ UNCHANGED <<who, cookie, valid>>

\* With the kernel locked again.
SecondCheck ==
    /\ dfc = "locked"
    /\ IF cookie # k.ptr[who]
       THEN dfc' = "ETimeoutSpurious" /\ UNCHANGED k
       ELSE /\ dfc' = "ETimeoutPostamble"
            /\ k' = [k EXCEPT !.userFlags[who] = FALSE]
    /\ UNCHANGED <<who, cookie, valid>>

\* Mutant of Postamble: the thread is released, its M-state is kept.
PostambleMutant ==
    /\ dfc \in {"ETimeoutPostamble", "ETimeoutSpurious"}
    /\ k' = IF dfc = "ETimeoutPostamble" THEN Release(k, who, "KErrTimedOut") ELSE k
    /\ Done

\* EpocThreadTimeoutHandler ends the wait, or does nothing, and unlocks the system.
Postamble ==
    /\ dfc \in {"ETimeoutPostamble", "ETimeoutSpurious"}
    /\ k' = IF dfc = "ETimeoutPostamble" THEN ReleaseWait(k, who, "KErrTimedOut") ELSE k
    /\ Done

-----------------------------------------------------------------------------
TimerDfc ==
    \/ CallTimerExpired
    \/ TimerExpired
    \/ Preamble
    \/ SecondCheck
    \/ Postamble

TimeoutNext ==
    \/ \E t \in Thread :
           \/ \E timed \in BOOLEAN : Block(t, timed)
           \/ Sleep(t)
           \/ Wake(t)
           \/ Kill(t)
           \/ ExitThread(t)
           \/ Expire(t)
    \/ TimerDfc

TimeoutSpec == TimeoutInit /\ [][TimeoutNext]_timeoutVars

\* Timers expire and DfcThread1 runs.
TimeoutFairSpec == TimeoutSpec /\ WF_timeoutVars(TimerDfc) /\ \A t \in Thread : WF_timeoutVars(Expire(t))

-----------------------------------------------------------------------------
\* Properties

\* Types of the fields; the completed queue holds the expired timers, each once.
TimeoutTypeOK ==
    /\ k \in KState
    /\ Range(k.completed) = {t \in Thread : k.timer[t] = "expired"}
    /\ Inj(k.completed)
    /\ dfc \in {"idle", "TimerExpired", "ETimeoutPreamble", "locked",
                "ETimeoutPostamble", "ETimeoutSpurious"}
    /\ who \in Thread \cup {NoThread} /\ cookie \in BOOLEAN /\ valid \in BOOLEAN
    /\ dfc = "idle" <=> who = NoThread

\* The comment in Release: one bit is enough.  At every moment TimerExpired may
\* look at it, the cookie says whether the wait it was called for is still on,
\* whatever other waits the thread has ended and begun since.
CookieExact ==
    dfc \in {"TimerExpired", "ETimeoutPreamble", "locked"} =>
        (cookie = k.ptr[who] <=> valid)

\* A wait that ends with KErrTimedOut is the one whose timer expired.
OnlyOwnTimeout ==
    [][\A t \in Thread :
           k.nstate[t] \in Waiting /\ k'.nstate[t] \notin Waiting
               /\ k'.returned[t] = "KErrTimedOut"
           => who = t /\ valid]_timeoutVars

\* A thread that is not waiting has no timer running, so that the OneShot of its
\* next wait does not fail, and a dead one's is not called after it is deleted.
TimerFree ==
    \A t \in Thread : k.nstate[t] \notin Waiting => k.timer[t] = "idle" /\ ~k.userFlags[t]

\* Timers and waits agree: a timer is in use exactly while its wait may still end by
\* it, and the one bit by which an expiry recognises its wait is enough.
TimersExact == TimeoutTypeOK /\ CookieExact /\ TimerFree

\* The layers agree: a thread that is not being killed waits in the Symbian OS
\* layer exactly if it is blocked in the nanokernel.
StatesAgree ==
    \A t \in Epoc :
        ~k.killed[t] => (k.mstate[t] = "EWait" <=> k.nstate[t] = "EBlocked")

\* A wait that has a timeout ends.
TimedWaitEnds ==
    \A t \in Thread :
        k.nstate[t] \in Waiting /\ k.userFlags[t] ~> k.nstate[t] \notin Waiting
=============================================================================
