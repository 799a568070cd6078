-------------------------------- MODULE Timers --------------------------------
(***************************************************************************)
(* What nanokernel timers promise to their users: a timer started for n    *)
(* ticks expires at the (n+1)-th tick after the call, neither earlier nor  *)
(* later, once, unless it is cancelled first.  Then its callback follows,  *)
(* at once from the tick interrupt or later from DfcThread1.  Ticks that   *)
(* are skipped while the system sleeps count, and skip no expiry.  Module  *)
(* NTimerQ implements this specification.                                  *)
(***************************************************************************)
EXTENDS Integers

CONSTANTS
    Timer,
    Delay     \* numbers of ticks a timer may be started for

VARIABLES
    phase,    \* "off", "pending", or "due" between expiry and callback
    left      \* ticks still to pass before the one at which a timer expires

tvars == <<phase, left>>

TInit == phase = [t \in Timer |-> "off"] /\ left = [t \in Timer |-> 0]

Begin(t, n) ==
    /\ phase[t] = "off"
    /\ phase' = [phase EXCEPT ![t] = "pending"]
    /\ left' = [left EXCEPT ![t] = n]

Off(t) ==
    /\ phase' = [phase EXCEPT ![t] = "off"]
    /\ left' = [left EXCEPT ![t] = 0]

CallBack(t) == phase[t] = "due" /\ Off(t)
Stop(t)     == phase[t] # "off" /\ Off(t)

Expiring == {t \in Timer : phase[t] = "pending" /\ left[t] = 0}

\* One tick; the callbacks of some of the timers that expire follow at once.
Elapse ==
    /\ \E called \in SUBSET Expiring :
           phase' = [t \in Timer |-> IF t \in called THEN "off"
                                     ELSE IF t \in Expiring THEN "due" ELSE phase[t]]
    /\ left' = [t \in Timer |-> IF phase[t] = "pending" /\ left[t] > 0
                                THEN left[t] - 1 ELSE left[t]]

Sleep(n) ==
    /\ \A t \in Timer : phase[t] # "off" => phase[t] = "pending" /\ left[t] >= n
    /\ left' = [t \in Timer |-> IF phase[t] = "pending" THEN left[t] - n ELSE left[t]]
    /\ UNCHANGED phase

TNext ==
    \/ \E t \in Timer : \/ \E n \in Delay : Begin(t, n)
                        \/ CallBack(t)
                        \/ Stop(t)
    \/ Elapse
    \/ \E n \in Delay \ {0} : Sleep(n)

TSpec == TInit /\ [][TNext]_tvars
=============================================================================
