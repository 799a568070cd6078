-------------------------------- MODULE NTimerQ --------------------------------
(***************************************************************************)
(* The nanokernel timer queue (src/kernel/eka/nkern/nk_timer.cpp).         *)
(*                                                                         *)
(* A timer that expires in less than NumQueues ticks is on the final queue *)
(* of its tick.  Others wait unsorted on the holding queue, until the      *)
(* timer DFC sorts them into the ordered queue and moves the first ones of *)
(* that to the final queues.  The DFC enables interrupts between any two   *)
(* short steps: a step here is one stretch of code with interrupts         *)
(* disabled, and calls and ticks come between any two of them.             *)
(*                                                                         *)
(* The record q stands for TheTimerQ and the timers; its fields keep the   *)
(* name of the member they stand for without its leading i.  The code has  *)
(* 32 queues and counts ticks modulo 2^32; here both are parameters.       *)
(* Calls that the code refuses (KErrInUse, KErrArgument) change nothing    *)
(* and are no steps.                                                       *)
(***************************************************************************)
EXTENDS Queues

CONSTANTS
    Timer,
    Null,          \* the NULL pointer, and the anchor of a queue
    NumQueues,     \* ENumTimerQueues
    Modulus,       \* the tick count wraps to 0 at this value
    Delay,         \* the values of aTime that callers use
    InDfc,         \* the values of aDfc that callers use
    Periodic,      \* timers that are also started with Again
    MaxLatency,    \* ticks that may pass between the request for the timer DFC
                   \* and the end of its transfers
    MaxSleep       \* most ticks suppressed at a time

ASSUME TimerAssumption ==
    /\ Null \notin Timer /\ Periodic \subseteq Timer
    /\ NumQueues \in Nat \ {0} /\ NumQueues % 2 = 0
    /\ Modulus \in Nat /\ Modulus % (2 * NumQueues) = 0
    /\ Modulus >= 4 * NumQueues
    /\ Delay \subseteq 0..((Modulus \div 2) - 1) /\ InDfc \subseteq BOOLEAN
    /\ MaxLatency \in Nat /\ MaxSleep \in Nat

VARIABLES
    q,        \* TheTimerQ and the members of the timers
    isr,      \* the tick interrupt: "off", or "callback" between callbacks
    doDfc,    \* its local doDfc
    dfc,      \* where the timer DFC is: "off" or the loop it is in
    pC, pN,   \* its locals: the timer it transfers and the one it stands at
    waiting,  \* ticks since iDfc was queued, -1 if it is not queued
    running   \* ticks since the DFC that is making transfers was queued, or -1

vars == <<q, isr, doDfc, dfc, pC, pN, waiting, running>>

\* NTimer::TState.
TState == {"EIdle", "ETransferring", "EHolding", "EOrdered", "ECritical", "EFinal"}

Tick32 == 0..(Modulus - 1)
Slot == 0..(NumQueues - 1)

QState ==
    [state       : [Timer -> TState],
     triggerTime : [Timer -> Tick32],
     inDfc       : [Timer -> BOOLEAN],          \* iCompleteInDfc
     msCount     : Tick32,
     present     : SUBSET Slot,                 \* bits set in iPresent
     intQ        : [Slot -> Seq(Timer)],
     dfcQ        : [Slot -> Seq(Timer)],
     holding     : Seq(Timer),
     ordered     : Seq(Timer),
     completed   : Seq(Timer),
     expired     : Seq(Timer),                  \* Tick's temporary queue
     transCancelled : BOOLEAN,
     critCancelled  : BOOLEAN]

Init ==
    /\ q = [state |-> [t \in Timer |-> "EIdle"],
            triggerTime |-> [t \in Timer |-> 0],
            inDfc |-> [t \in Timer |-> FALSE],
            msCount |-> 0, present |-> {},
            intQ |-> [i \in Slot |-> <<>>], dfcQ |-> [i \in Slot |-> <<>>],
            holding |-> <<>>, ordered |-> <<>>, completed |-> <<>>, expired |-> <<>>,
            transCancelled |-> FALSE, critCancelled |-> FALSE]
    /\ isr = "off" /\ doDfc = FALSE
    /\ dfc = "off" /\ pC = Null /\ pN = Null
    /\ waiting = -1 /\ running = -1

-----------------------------------------------------------------------------
\* Arithmetic of TUint32, and its reading as TInt

Minus(x, y) == (x - y) % Modulus
Half == Modulus \div 2
AsInt(d) == IF d < Half THEN d ELSE d - Modulus

\* trigger - iMsCount as TInt: ticks before the one at which t is to expire.
Remain(r, t) == AsInt(Minus(r.triggerTime[t], r.msCount))

SlotOf(r, t) == r.triggerTime[t] % NumQueues

-----------------------------------------------------------------------------
\* Functions that run with interrupts disabled

Drop(s, t) == IF t \in Range(s) THEN Without(s, t) ELSE s

\* SDblQueLink::Deque of a timer that is on some queue.
Deque(r, t) ==
    LET i == SlotOf(r, t)
    IN  [r EXCEPT !.intQ[i] = Drop(@, t), !.dfcQ[i] = Drop(@, t),
                  !.holding = Drop(@, t), !.ordered = Drop(@, t),
                  !.completed = Drop(@, t), !.expired = Drop(@, t)]

AddFinal(r, t) ==
    LET i  == SlotOf(r, t)
        r1 == [r EXCEPT !.present = @ \cup {i}, !.state[t] = "EFinal"]
    IN  IF r.inDfc[t] THEN [r1 EXCEPT !.dfcQ[i] = Append(@, t)]
                      ELSE [r1 EXCEPT !.intQ[i] = Append(@, t)]

\* Mutant of AddTimer: a timer NumQueues ticks away is put on a final queue.
AddTimerMutant(r, t) ==
    IF Remain(r, t) =< NumQueues THEN AddFinal(r, t)
    ELSE [r EXCEPT !.state[t] = "EHolding", !.holding = Append(@, t)]

AddTimer(r, t) ==
    IF Remain(r, t) < NumQueues THEN AddFinal(r, t)
    ELSE [r EXCEPT !.state[t] = "EHolding", !.holding = Append(@, t)]

\* Mutant of CancelSwitch: the DFC completions of the tick are overlooked.
CancelSwitchMutant(r, t, was) ==
    LET i == SlotOf(r, t)
    IN  CASE was = "ETransferring" -> [r EXCEPT !.transCancelled = TRUE]
          [] was = "ECritical"     -> [r EXCEPT !.critCancelled = TRUE]
          [] was = "EFinal" /\ r.intQ[i] = <<>> -> [r EXCEPT !.present = @ \ {i}]
          [] OTHER                 -> r

\* The switch in NTimer::Cancel, the timer being off all queues.
CancelSwitch(r, t, was) ==
    LET i == SlotOf(r, t)
    IN  CASE was = "ETransferring" -> [r EXCEPT !.transCancelled = TRUE]
          [] was = "ECritical"     -> [r EXCEPT !.critCancelled = TRUE]
          [] was = "EFinal" /\ r.intQ[i] = <<>> /\ r.dfcQ[i] = <<>>
                                   -> [r EXCEPT !.present = @ \ {i}]
          [] OTHER                 -> r

\* iState=EIdle.  The last trigger time and iCompleteInDfc are read again by
\* Again only, so they are kept for periodic timers only.
MakeIdle(r, t) ==
    IF t \in Periodic THEN [r EXCEPT !.state[t] = "EIdle"]
    ELSE [r EXCEPT !.state[t] = "EIdle", !.triggerTime[t] = 0, !.inDfc[t] = FALSE]

CancelTimer(r, t) == MakeIdle(CancelSwitch(Deque(r, t), t, r.state[t]), t)

-----------------------------------------------------------------------------
\* The calls, from a thread, an IDFC, an interrupt or a callback

\* NTimer::OneShot.  With a TDfc to be queued it is the same, inDfc being 0.
OneShot(t, n, inDfc) ==
    /\ q.state[t] = "EIdle"
    /\ q' = AddTimer([q EXCEPT !.inDfc[t] = inDfc,
                               !.triggerTime[t] = (q.msCount + n) % Modulus], t)
    /\ UNCHANGED <<isr, doDfc, dfc, pC, pN, waiting, running>>

Again(t, n) ==
    LET trigger == (q.triggerTime[t] + n) % Modulus
    IN  /\ q.state[t] = "EIdle"
        /\ Minus(trigger, q.msCount) < Half
        /\ q' = AddTimer([q EXCEPT !.triggerTime[t] = trigger], t)
        /\ UNCHANGED <<isr, doDfc, dfc, pC, pN, waiting, running>>

Cancel(t) ==
    /\ q.state[t] # "EIdle"
    /\ q' = CancelTimer(q, t)
    /\ UNCHANGED <<isr, doDfc, dfc, pC, pN, waiting, running>>

-----------------------------------------------------------------------------
\* The tick interrupt

Older(age) == IF age < 0 THEN age ELSE age + 1

\* iDfc.Add(): nothing if it is queued already.
QueueDfc(age) == IF age < 0 THEN 0 ELSE age

\* Tick's loop over its temporary queue, up to the next callback or its end.
IsrLoop(r, wanted, age) ==
    IF r.expired = <<>>
    THEN /\ q' = r
         /\ isr' = "off" /\ doDfc' = FALSE
         /\ waiting' = IF wanted THEN QueueDfc(age) ELSE age
    ELSE /\ q' = MakeIdle([r EXCEPT !.expired = Tail(@)], Head(r.expired))
         /\ isr' = "callback" /\ doDfc' = wanted
         /\ waiting' = age

\* Mutant of TransferDue: timers on the holding queue do not count.
TransferDueOrderedMutant(r) ==
    r.ordered # <<>> /\ Remain(r, Head(r.ordered)) < NumQueues

\* Every NumQueues/2 ticks: whether the DFC has something to transfer.
TransferDue(r) ==
    \/ r.holding # <<>>
    \/ r.ordered # <<>> /\ Remain(r, Head(r.ordered)) < NumQueues

Tick ==
    LET i  == q.msCount % NumQueues
        q1 == [q EXCEPT !.msCount = (@ + 1) % Modulus, !.present = @ \ {i},
                        !.completed = @ \o q.dfcQ[i], !.dfcQ[i] = <<>>,
                        !.expired = q.intQ[i], !.intQ[i] = <<>>]
        wanted == \/ q.dfcQ[i] # <<>>
                  \/ i % (NumQueues \div 2) = 0 /\ TransferDue(q1)
    IN  /\ isr = "off"
        /\ waiting < MaxLatency /\ running < MaxLatency
        /\ IsrLoop(q1, wanted, Older(waiting))
        /\ running' = Older(running)
        /\ UNCHANGED <<dfc, pC, pN>>

\* A callback from the tick interrupt returns.
TickGoesOn ==
    /\ isr = "callback"
    /\ IsrLoop(q, doDfc, waiting)
    /\ UNCHANGED <<dfc, pC, pN, running>>

-----------------------------------------------------------------------------
\* The timer DFC, run by DfcThread1

DfcStart ==
    /\ isr = "off" /\ dfc = "off" /\ waiting >= 0
    /\ dfc' = "ordered"
    /\ running' = waiting /\ waiting' = -1
    /\ UNCHANGED <<q, isr, doDfc, pC, pN>>

\* First loop: from the ordered queue to the final queues.
OrderedToFinal ==
    /\ isr = "off" /\ dfc = "ordered"
    /\ IF q.ordered # <<>> /\ Remain(q, Head(q.ordered)) < NumQueues
       THEN /\ q' = LET t == Head(q.ordered) IN AddFinal(Deque(q, t), t)
            /\ UNCHANGED dfc
       ELSE dfc' = "holding" /\ UNCHANGED q
    /\ UNCHANGED <<isr, doDfc, pC, pN, waiting, running>>

\* Second loop: takes the next timer from the holding queue.
TakeFromHolding ==
    /\ isr = "off" /\ dfc = "holding"
    /\ IF q.holding = <<>>
       THEN /\ dfc' = "completed" /\ running' = -1
            /\ UNCHANGED <<q, pC>>
       ELSE LET t  == Head(q.holding)
                q1 == [Deque(q, t) EXCEPT !.state[t] = "ETransferring",
                                          !.transCancelled = FALSE]
            IN  /\ IF Remain(q, t) < NumQueues
                   THEN q' = AddFinal(q1, t) /\ UNCHANGED <<dfc, pC>>
                   ELSE q' = q1 /\ dfc' = "walk" /\ pC' = t
                /\ UNCHANGED running
    /\ UNCHANGED <<isr, doDfc, pN, waiting>>

\* The timer after t on the ordered queue, or its anchor.
NextOn(s, t) ==
    LET i == CHOOSE j \in DOMAIN s : s[j] = t
    IN  IF i = Len(s) THEN Null ELSE s[i + 1]

\* pC->InsertBefore(pN) on the ordered queue.
InsertBefore(r, t, n) ==
    IF n = Null THEN [r EXCEPT !.ordered = Append(@, t)]
    ELSE LET i == CHOOSE j \in DOMAIN r.ordered : r.ordered[j] = n
         IN  [r EXCEPT !.ordered = InsertAt(@, i, t)]

\* The walk comes to n: it is past the end, given up, at its place, or goes on.
\* pC and pN are set to Null where the code does not use them any more.
WalkTo(r, n) ==
    /\ IF n # Null /\ ~r.transCancelled
            /\ Minus(r.triggerTime[n], r.triggerTime[pC]) >= Half
       THEN /\ q' = [r EXCEPT !.state[n] = "ECritical"]
            /\ dfc' = "critical" /\ pN' = n /\ pC' = pC
       ELSE /\ q' = IF r.transCancelled THEN r
                    ELSE [InsertBefore(r, pC, n) EXCEPT !.state[pC] = "EOrdered"]
            /\ dfc' = "holding" /\ pN' = Null /\ pC' = Null

\* Mutant of WalkFromStart: iCriticalCancelled is not reset.
WalkFromStartMutant ==
    /\ isr = "off" /\ dfc = "walk"
    /\ WalkTo(q, IF q.ordered = <<>> THEN Null ELSE Head(q.ordered))
    /\ UNCHANGED <<isr, doDfc, waiting, running>>

WalkFromStart ==
    /\ isr = "off" /\ dfc = "walk"
    /\ WalkTo([q EXCEPT !.critCancelled = FALSE],
              IF q.ordered = <<>> THEN Null ELSE Head(q.ordered))
    /\ UNCHANGED <<isr, doDfc, waiting, running>>

\* After the window in which pN is ECritical.
WalkGoesOn ==
    /\ isr = "off" /\ dfc = "critical"
    /\ IF q.critCancelled
       THEN /\ dfc' = IF q.transCancelled THEN "holding" ELSE "walk"
            /\ pC' = IF q.transCancelled THEN Null ELSE pC
            /\ pN' = Null
            /\ UNCHANGED q
       ELSE WalkTo([q EXCEPT !.state[pN] = "EOrdered"], NextOn(q.ordered, pN))
    /\ UNCHANGED <<isr, doDfc, waiting, running>>

\* Third loop: callbacks.
CallCompleted ==
    /\ isr = "off" /\ dfc = "completed"
    /\ IF q.completed = <<>>
       THEN dfc' = "off" /\ UNCHANGED q
       ELSE /\ q' = MakeIdle([q EXCEPT !.completed = Tail(@)], Head(q.completed))
            /\ UNCHANGED dfc
    /\ UNCHANGED <<isr, doDfc, pC, pN, waiting, running>>

-----------------------------------------------------------------------------
\* Tick suppression while the system is idle

\* Ticks before the first one with a nonempty final queue.
NextPresent == CHOOSE j \in Slot : /\ (q.msCount + j) % NumQueues \in q.present
                                   /\ \A i \in 0..(j - 1) :
                                          (q.msCount + i) % NumQueues \notin q.present

\* Ticks before the next one that requests transfers.
NextCheck == (-q.msCount) % (NumQueues \div 2)

\* Mutant of NextTransfer: without - 16.
NextTransferMutant ==
    LET tt == q.triggerTime[Head(q.ordered)]
    IN  AsInt(Minus(tt - (tt % (NumQueues \div 2)), q.msCount))

\* From the trigger time tt of the first ordered timer, (tt & ~15) - 16.
NextTransfer ==
    LET tt == q.triggerTime[Head(q.ordered)]
    IN  AsInt(Minus(tt - (tt % (NumQueues \div 2)) - NumQueues \div 2, q.msCount))

\* NTimerQ::IdleTime() >= n.
IdleAtLeast(n) ==
    /\ q.present # {} => n =< NextPresent
    /\ q.holding # <<>> => n =< NextCheck
    /\ q.ordered # <<>> => n =< NextTransfer

\* The base port suppresses n ticks and then calls NTimerQ::Advance(n).  It
\* does so in the idle thread, when no DFC is left to run.
Advance(n) ==
    /\ isr = "off" /\ dfc = "off" /\ waiting = -1
    /\ IdleAtLeast(n)
    /\ q' = [q EXCEPT !.msCount = (@ + n) % Modulus]
    /\ UNCHANGED <<isr, doDfc, dfc, pC, pN, waiting, running>>

-----------------------------------------------------------------------------
Call ==
    \/ \E t \in Timer, n \in Delay, inDfc \in InDfc : OneShot(t, n, inDfc)
    \/ \E t \in Periodic, n \in Delay : Again(t, n)
    \/ \E t \in Timer : Cancel(t)

DfcStep ==
    \/ DfcStart
    \/ OrderedToFinal
    \/ TakeFromHolding
    \/ WalkFromStart
    \/ WalkGoesOn
    \/ CallCompleted

Next ==
    \/ Call
    \/ Tick
    \/ TickGoesOn
    \/ DfcStep
    \/ \E n \in 1..MaxSleep : Advance(n)

Spec == Init /\ [][Next]_vars

\* The tick comes, callbacks return, and DfcThread1 goes on although ticks
\* interrupt it again and again.
FairSpec == Spec /\ WF_vars(Tick) /\ WF_vars(TickGoesOn) /\ SF_vars(DfcStep)

-----------------------------------------------------------------------------
\* Properties

\* The members of TheTimerQ and of the timers have their types.
TypeOK ==
    /\ q \in QState
    /\ isr \in {"off", "callback"} /\ doDfc \in BOOLEAN
    /\ dfc \in {"off", "ordered", "holding", "walk", "critical", "completed"}
    /\ pC \in Timer \cup {Null} /\ pN \in Timer \cup {Null}
    /\ waiting \in -1..MaxLatency /\ running \in -1..MaxLatency

\* iState says which queue a timer is on, which Cancel and the walk rely on: a
\* timer is on the holding queue, on the ordered queue, or on the final queue
\* of its tick, the expired or the completed queue, once, or on none.
StateSaysQueue ==
    \A t \in Timer :
        LET i  == SlotOf(q, t)
            st == q.state[t]
            final == q.intQ[i] \o q.dfcQ[i] \o q.expired \o q.completed
        IN  /\ t \in Range(q.holding) <=> st = "EHolding"
            /\ t \in Range(q.ordered) <=> st \in {"EOrdered", "ECritical"}
            /\ t \in Range(final) <=> st = "EFinal"
            /\ \A s \in {q.holding, q.ordered, final} :
                   Cardinality({j \in DOMAIN s : s[j] = t}) =< 1
            /\ \A j \in Slot \ {i} : t \notin Range(q.intQ[j] \o q.dfcQ[j])

\* iPresent has a bit for exactly the nonempty final queues: IdleTime neither
\* overlooks an expiry nor keeps the system awake for a cancelled timer.
PresentExact ==
    q.present = {i \in Slot : q.intQ[i] # <<>> \/ q.dfcQ[i] # <<>>}

\* The ordered queue is sorted by the time left, although timers are cancelled
\* and time goes on while the DFC looks for the place of the next one.
OrderedSorted ==
    \A i, j \in DOMAIN q.ordered :
        i < j => Remain(q, q.ordered[i]) =< Remain(q, q.ordered[j])

\* The two cancelled flags tell the DFC what became of the timers it points to
\* with interrupts enabled, also if they were started again meanwhile: unless
\* flagged, pC is in transfer and pN is still on the ordered queue.
DfcPointersValid ==
    /\ dfc \in {"walk", "critical"} =>
           (q.transCancelled <=> q.state[pC] # "ETransferring")
    /\ dfc = "critical" => (q.critCancelled <=> q.state[pN] # "ECritical")
    /\ \A t \in Timer :
           /\ q.state[t] = "ETransferring" => dfc \in {"walk", "critical"} /\ pC = t
           /\ q.state[t] = "ECritical" => dfc = "critical" /\ pN = t

\* The queues are exact: iPresent and iState, by which Cancel and IdleTime decide,
\* agree with the queues the timers are on.
QueuesExact == TypeOK /\ PresentExact /\ StateSaysQueue

\* What the DFC holds on to with interrupts enabled stays right: its two pointers,
\* and the order of the queue it walks along.
DfcPointersExact == OrderedSorted /\ DfcPointersValid

\* nk_timer.cpp, Tick: the DFC latency allowed for before timers are missed.
\* No timer is found on a final queue, or on its way there, that should have
\* expired: it would expire only when the tick count has its slot again.
NoneMissed ==
    \A t \in Timer :
        q.state[t] \in {"ETransferring", "EHolding", "EOrdered", "ECritical"}
            \/ t \in Range(q.intQ[SlotOf(q, t)] \o q.dfcQ[SlotOf(q, t)])
        => Remain(q, t) >= 0

\* Each timer expires at its tick, once, or is cancelled.
Expired(t) == t \in Range(q.expired \o q.completed)
T == INSTANCE Timers WITH
         Delay <- 0..(Half - 1),
         phase <- [t \in Timer |-> IF q.state[t] = "EIdle" THEN "off"
                                   ELSE IF Expired(t) THEN "due" ELSE "pending"],
         left  <- [t \in Timer |-> IF q.state[t] = "EIdle" \/ Expired(t) THEN 0
                                   ELSE Minus(q.triggerTime[t], q.msCount)]
ImplementsTimers == T!TSpec

\* If timers are not cancelled for ever, each one that is started expires and
\* has its callback: none is forgotten on the holding or ordered queue.
EveryTimerEnds ==
    <>[][\A t \in Timer : ~Cancel(t)]_vars =>
        \A t \in Timer : q.state[t] # "EIdle" ~> q.state[t] = "EIdle"
=============================================================================
