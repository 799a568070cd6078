--------------------------------- MODULE NDfc ---------------------------------
(***************************************************************************)
(* Deferred function calls (src/kernel/eka/nkern/dfcs.cpp): IDFCs, which   *)
(* run with the kernel locked, and DFCs, which run in the thread of their  *)
(* queue.                                                                  *)
(*                                                                         *)
(* Interrupts may come at every step.  They use the pending queue iDfcs    *)
(* and the idle queue, and only iQueued keeps them from a DFC that is on a *)
(* final queue or that Cancel is about to take off one.  Everything else   *)
(* happens with the kernel locked: kern says by whom.  Which thread runs   *)
(* when the kernel is not locked is left open (module NSched), and so is   *)
(* the suspension of DFC threads: they are not suspended here.  Enque with *)
(* a fast mutex is Enque and NFastMutex::Signal in one locked section.     *)
(***************************************************************************)
EXTENDS Queues, FiniteSets

CONSTANTS
    Idfc,        \* IDFCs
    Dfc,         \* DFCs
    Queue,       \* DFC queues, each with its thread
    QueueOf,     \* iDfcQ of each DFC
    Priority,    \* iPriority of each DFC
    Idler,       \* those that are also queued with QueueOnIdle
    Null         \* the NULL pointer

ASSUME DfcAssumption ==
    /\ Idfc \cap Dfc = {} /\ Null \notin Idfc \cup Dfc
    /\ QueueOf \in [Dfc -> Queue] /\ Priority \in [Dfc -> 0..7]
    /\ Idler \subseteq Idfc \cup Dfc

Call == Idfc \cup Dfc

VARIABLES
    queued,      \* iQueued of each call
    onFinal,     \* iOnFinalQ of each call
    pending,     \* TScheduler::iDfcs
    idle,        \* TScheduler::iIdleDfcs
    final,       \* each DFC queue, in the order of arrival
    flag,        \* iDfcPendingFlag
    kern,        \* the kernel is unlocked, or what locks it: a thread, or
                 \* QueueDfcs in its loop, with cur popped, or in cur's function
    cur,         \* what QueueDfcs has taken off the pending queue
    victim,      \* what Cancel is taking off its queue
    unlinked,    \* it is off its queue, but iQueued is not clear yet
    thread,      \* where each DFC thread is
    fn           \* the DFC whose function it executes

flags == <<queued, onFinal>>
lists == <<pending, idle, final, flag>>
lock  == <<kern, cur, victim, unlinked>>
dthreads == <<thread, fn>>
vars == <<flags, lists, lock, dthreads>>

Init ==
    /\ queued = [d \in Call |-> FALSE] /\ onFinal = [d \in Call |-> FALSE]
    /\ pending = <<>> /\ idle = <<>> /\ final = [w \in Queue |-> <<>>]
    /\ flag = FALSE
    /\ kern = "unlocked" /\ cur = Null /\ victim = Null /\ unlinked = FALSE
    /\ thread = [w \in Queue |-> "EWaitDfc"] /\ fn = [w \in Queue |-> Null]

Drop(s, d) == IF d \in Range(s) THEN Without(s, d) ELSE s

-----------------------------------------------------------------------------
\* Queueing

\* TestAndSetQueued() finds d not queued.
MarkQueued(d) ==
    /\ ~queued[d]
    /\ queued' = [queued EXCEPT ![d] = TRUE]

\* Add or RawAdd, in an interrupt or with the kernel locked.  An interrupt that
\* finds the kernel unlocked goes on to the scheduler, which runs QueueDfcs.
RawAdd(d) ==
    /\ MarkQueued(d)
    /\ pending' = Append(pending, d) /\ flag' = TRUE
    /\ kern' = IF kern = "unlocked" THEN "QueueDfcs" ELSE kern
    /\ UNCHANGED <<onFinal, idle, final, cur, victim, unlinked, dthreads>>

QueueOnIdle(d) ==
    /\ d \in Idler
    /\ MarkQueued(d)
    /\ idle' = Append(idle, d)
    /\ UNCHANGED <<onFinal, pending, final, flag, lock, dthreads>>

\* Mutant of DoEnqueFinal: without the wakeup.
DoEnqueFinalQuietMutant(d) ==
    /\ onFinal' = [onFinal EXCEPT ![d] = TRUE]
    /\ final' = [final EXCEPT ![QueueOf[d]] = Append(@, d)]
    /\ thread' = thread

DoEnqueFinal(d) ==
    LET w == QueueOf[d]
    IN  /\ onFinal' = [onFinal EXCEPT ![d] = TRUE]
        /\ final' = [final EXCEPT ![w] = Append(@, d)]
        /\ thread' = [thread EXCEPT ![w] = IF @ = "EWaitDfc" THEN "ready" ELSE @]

\* In an IDFC, or in a thread that has locked the kernel.  Enque is the same
\* between Lock and Unlock.
DoEnque(d) ==
    /\ kern \in {"thread", "IDFC"} /\ victim = Null
    /\ MarkQueued(d)
    /\ DoEnqueFinal(d)
    /\ UNCHANGED <<pending, idle, flag, lock, fn>>

Lock ==
    /\ kern = "unlocked"
    /\ kern' = "thread"
    /\ UNCHANGED <<flags, lists, cur, victim, unlinked, dthreads>>

Unlock ==
    /\ kern = "thread" /\ victim = Null
    /\ kern' = IF flag THEN "QueueDfcs" ELSE "unlocked"
    /\ UNCHANGED <<flags, lists, cur, victim, unlinked, dthreads>>

-----------------------------------------------------------------------------
\* TDfc::Cancel, in an IDFC or in a thread that has locked the kernel

\* Mutant of CancelFinds: iQueued is cleared first.
CancelFindsMutant(d) ==
    /\ kern \in {"thread", "IDFC"} /\ victim = Null
    /\ queued[d]
    /\ queued' = [queued EXCEPT ![d] = FALSE]
    /\ victim' = d
    /\ UNCHANGED <<onFinal, lists, kern, cur, unlinked, dthreads>>

CancelFinds(d) ==
    /\ kern \in {"thread", "IDFC"} /\ victim = Null
    /\ queued[d]
    /\ victim' = d
    /\ UNCHANGED <<flags, lists, kern, cur, unlinked, dthreads>>

\* Mutant of CancelUnlinks: a pending call stays linked.
CancelUnlinksPendingMutant ==
    /\ victim # Null /\ ~unlinked
    /\ unlinked' = TRUE
    /\ IF onFinal[victim]
       THEN /\ final' = [final EXCEPT ![QueueOf[victim]] = Drop(@, victim)]
            /\ onFinal' = [onFinal EXCEPT ![victim] = FALSE]
       ELSE UNCHANGED <<final, onFinal>>
    /\ UNCHANGED <<queued, pending, idle, flag, kern, cur, victim, dthreads>>

\* Off the final queue, or off the pending or the idle queue with interrupts
\* disabled.
CancelUnlinks ==
    /\ victim # Null /\ ~unlinked
    /\ unlinked' = TRUE
    /\ IF onFinal[victim]
       THEN /\ final' = [final EXCEPT ![QueueOf[victim]] = Drop(@, victim)]
            /\ onFinal' = [onFinal EXCEPT ![victim] = FALSE]
            /\ UNCHANGED <<pending, idle>>
       ELSE /\ pending' = Drop(pending, victim) /\ idle' = Drop(idle, victim)
            /\ UNCHANGED <<final, onFinal>>
    /\ UNCHANGED <<queued, flag, kern, cur, victim, dthreads>>

CancelEnds ==
    /\ victim # Null /\ unlinked
    /\ queued' = [queued EXCEPT ![victim] = FALSE]
    /\ victim' = Null /\ unlinked' = FALSE
    /\ UNCHANGED <<onFinal, lists, kern, cur, dthreads>>

-----------------------------------------------------------------------------
\* TScheduler::QueueDfcs

TakePending ==
    /\ kern = "QueueDfcs" /\ pending # <<>>
    /\ cur' = Head(pending) /\ pending' = Tail(pending)
    /\ kern' = "taken"
    /\ UNCHANGED <<flags, idle, final, flag, victim, unlinked, dthreads>>

StartIdfc ==
    /\ kern = "taken" /\ cur \in Idfc
    /\ queued' = [queued EXCEPT ![cur] = FALSE]
    /\ kern' = "IDFC"
    /\ UNCHANGED <<onFinal, lists, cur, victim, unlinked, dthreads>>

EndIdfc ==
    /\ kern = "IDFC" /\ victim = Null
    /\ kern' = "QueueDfcs" /\ cur' = Null
    /\ UNCHANGED <<flags, lists, victim, unlinked, dthreads>>

MoveDfc ==
    /\ kern = "taken" /\ cur \in Dfc
    /\ DoEnqueFinal(cur)
    /\ kern' = "QueueDfcs" /\ cur' = Null
    /\ UNCHANGED <<queued, pending, idle, flag, victim, unlinked, fn>>

\* With interrupts disabled since the pending queue was found empty; then the
\* scheduler unlocks the kernel.
AllQueued ==
    /\ kern = "QueueDfcs" /\ pending = <<>>
    /\ flag' = FALSE
    /\ kern' = "unlocked"
    /\ UNCHANGED <<flags, pending, idle, final, cur, victim, unlinked, dthreads>>

-----------------------------------------------------------------------------
\* DFC threads and the idle thread

\* The first of those with the highest priority.
FirstDfc(w) ==
    LET top(i) == \A j \in DOMAIN final[w] : Priority[final[w][j]] =< Priority[final[w][i]]
    IN  final[w][CHOOSE i \in DOMAIN final[w] :
                     top(i) /\ \A j \in 1..(i - 1) : ~top(j)]

\* One turn of TDfcQue::ThreadFunction, up to its Unlock.
DfcThreadLoop(w) ==
    /\ kern = "unlocked" /\ thread[w] = "ready"
    /\ IF final[w] = <<>>
       THEN /\ thread' = [thread EXCEPT ![w] = "EWaitDfc"]
            /\ UNCHANGED <<flags, final, fn>>
       ELSE LET d == FirstDfc(w)
            IN  /\ final' = [final EXCEPT ![w] = Drop(@, d)]
                /\ onFinal' = [onFinal EXCEPT ![d] = FALSE]
                /\ queued' = [queued EXCEPT ![d] = FALSE]
                /\ thread' = [thread EXCEPT ![w] = "function"]
                /\ fn' = [fn EXCEPT ![w] = d]
    /\ kern' = IF flag THEN "QueueDfcs" ELSE "unlocked"
    /\ UNCHANGED <<pending, idle, flag, cur, victim, unlinked>>

FunctionReturns(w) ==
    /\ kern = "unlocked" /\ thread[w] = "function"
    /\ thread' = [thread EXCEPT ![w] = "ready"] /\ fn' = [fn EXCEPT ![w] = Null]
    /\ UNCHANGED <<flags, lists, lock>>

\* Mutant of Idle: iDfcPendingFlag is not set.
IdleMutant ==
    /\ kern = "unlocked" /\ \A w \in Queue : thread[w] = "EWaitDfc"
    /\ idle # <<>>
    /\ pending' = pending \o idle /\ idle' = <<>>
    /\ UNCHANGED <<flags, flag, final, lock, dthreads>>

\* NKern::Idle, called in a loop by the null thread: it makes the idle calls
\* pending, but nothing looks at iDfcPendingFlag before the next interrupt.
Idle ==
    /\ kern = "unlocked" /\ \A w \in Queue : thread[w] = "EWaitDfc"
    /\ idle # <<>>
    /\ pending' = pending \o idle /\ idle' = <<>> /\ flag' = TRUE
    /\ UNCHANGED <<flags, final, lock, dthreads>>

\* Any interrupt returns through the scheduler.
Interrupt ==
    /\ kern = "unlocked" /\ flag
    /\ kern' = "QueueDfcs"
    /\ UNCHANGED <<flags, lists, cur, victim, unlinked, dthreads>>

-----------------------------------------------------------------------------
QueueDfcs ==
    \/ TakePending
    \/ StartIdfc
    \/ EndIdfc
    \/ MoveDfc
    \/ AllQueued

Queueing ==
    \/ \E d \in Call : RawAdd(d) \/ QueueOnIdle(d)
    \/ \E d \in Dfc : DoEnque(d)

Next ==
    \/ Queueing
    \/ Lock
    \/ Unlock
    \/ \E d \in Call : CancelFinds(d)
    \/ CancelUnlinks
    \/ CancelEnds
    \/ QueueDfcs
    \/ \E w \in Queue : DfcThreadLoop(w) \/ FunctionReturns(w)
    \/ Idle
    \/ Interrupt

Spec == Init /\ [][Next]_vars

\* Locked sections end, functions return, DFC threads get the processor although
\* interrupts keep coming, interrupts come, and the system is idle sometimes if
\* it always can be.
FairSpec ==
    /\ Spec
    /\ WF_vars(Unlock) /\ WF_vars(CancelUnlinks) /\ WF_vars(CancelEnds)
    /\ WF_vars(QueueDfcs) /\ SF_vars(Interrupt) /\ SF_vars(Idle)
    /\ \A w \in Queue : SF_vars(DfcThreadLoop(w)) /\ SF_vars(FunctionReturns(w))
-----------------------------------------------------------------------------
\* Properties

\* Types of the members; a DFC thread executes a function until that returns.
TypeOK ==
    /\ queued \in [Call -> BOOLEAN] /\ onFinal \in [Call -> BOOLEAN]
    /\ pending \in Seq(Call) /\ idle \in Seq(Call)
    /\ final \in [Queue -> Seq(Dfc)]
    /\ flag \in BOOLEAN /\ unlinked \in BOOLEAN
    /\ kern \in {"unlocked", "thread", "QueueDfcs", "taken", "IDFC"}
    /\ cur \in Call \cup {Null} /\ victim \in Call \cup {Null}
    /\ thread \in [Queue -> {"EWaitDfc", "ready", "function"}]
    /\ fn \in [Queue -> Dfc \cup {Null}]
    /\ \A w \in Queue : fn[w] # Null <=> thread[w] = "function"
    /\ victim # Null => kern \in {"thread", "IDFC"}

\* Where d is linked: in a queue, or between the pending queue and its function
\* or final queue, or between its queue and the end of Cancel.
Places(d) ==
    {x \in {<<"pending", d \in Range(pending)>>, <<"idle", d \in Range(idle)>>,
            <<"taken", kern = "taken" /\ cur = d>>, <<"unlinked", unlinked /\ victim = d>>}
           \cup {<<w, d \in Range(final[w])>> : w \in Queue} : x[2]}

\* iQueued is set exactly while a call is in one of these places, and in no
\* queue twice: none is lost with iQueued set, and interrupts never link one
\* that is linked or being cancelled.  iOnFinalQ, by which Cancel decides how to
\* unlink a DFC, says whether it is on the final queue of its thread.
LinkedOnce ==
    /\ \A d \in Call : Cardinality(Places(d)) = IF queued[d] THEN 1 ELSE 0
    /\ Inj(pending) /\ Inj(idle) /\ \A w \in Queue : Inj(final[w])
    /\ \A d \in Call : onFinal[d] <=> d \in Dfc /\ d \in Range(final[QueueOf[d]])

\* A DFC thread never waits while there is a DFC on its queue.
NoLostWakeup ==
    \A w \in Queue : thread[w] = "EWaitDfc" => final[w] = <<>>

\* iDfcPendingFlag is set whenever calls are pending, so that whoever unlocks
\* the kernel or returns from an interrupt runs them.
PendingFlagged == pending # <<>> => flag \/ kern = "QueueDfcs"

\* The queues are exact: every queued call is linked in one place, once.
QueuesExact == TypeOK /\ LinkedOnce

\* A queued call is never left beside a sleeping DFC thread or a clear flag.
NothingForgotten == NoLostWakeup /\ PendingFlagged

\* TDfc::Cancel: a call that was dequeued does not execute until it is queued
\* again, and each time it is queued it executes at most once.
RunsOnlyIfQueued ==
    [][\A d \in Call :
           \/ kern' = "IDFC" /\ kern # "IDFC" /\ cur = d
           \/ \E w \in Queue : fn'[w] = d /\ fn[w] # d
           => queued[d] /\ ~queued'[d]]_vars

\* When nothing more is queued, every queued call is executed or cancelled.
EveryCallEnds ==
    <>[][~Queueing]_vars => \A d \in Call : queued[d] ~> ~queued[d]
=============================================================================
