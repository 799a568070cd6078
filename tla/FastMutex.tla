------------------------------- MODULE FastMutex -------------------------------
(***************************************************************************)
(* What the nanokernel's fast mutexes promise to the threads that use      *)
(* them, without scheduling: a thread that asks for a mutex gets it only   *)
(* while nobody holds it, a thread has at most one mutex and waits for at  *)
(* most one, and only the holder gives a mutex up.  Module NSched          *)
(* implements this specification with holder <- k.holding and              *)
(* wants <- k.waitFM.                                                      *)
(***************************************************************************)
CONSTANTS Thread, Mutex, Null

VARIABLES
    holder,   \* the thread each mutex names as its holder
    wants     \* the mutex each thread is waiting for

fmvars == <<holder, wants>>

Holds(t) == \E m \in Mutex : holder[m] = t

FMInit ==
    /\ holder = [m \in Mutex |-> Null]
    /\ wants = [t \in Thread |-> Null]

\* NFastMutex::Wait finds the mutex held.
Ask(t, m) ==
    /\ ~Holds(t) /\ wants[t] = Null /\ holder[m] # Null
    /\ wants' = [wants EXCEPT ![t] = m]
    /\ UNCHANGED holder

\* NFastMutex::Wait returns, at once or after a wait.
Acquire(t, m) ==
    /\ ~Holds(t) /\ wants[t] \in {m, Null} /\ holder[m] = Null
    /\ holder' = [holder EXCEPT ![m] = t]
    /\ wants' = [wants EXCEPT ![t] = Null]

\* NFastMutex::Signal, alone or at the end of another service.
Release(t, m) ==
    /\ holder[m] = t
    /\ holder' = [holder EXCEPT ![m] = Null]
    /\ UNCHANGED wants

\* A waiting thread is killed, possibly by a holder that signals its mutex in
\* the same service.
Withdraw(u) ==
    /\ wants[u] # Null
    /\ wants' = [wants EXCEPT ![u] = Null]
    /\ \/ UNCHANGED holder
       \/ \E t \in Thread \ {u}, m \in Mutex : /\ holder[m] = t
                                               /\ holder' = [holder EXCEPT ![m] = Null]

FMNext ==
    \/ \E t \in Thread, m \in Mutex : Ask(t, m) \/ Acquire(t, m) \/ Release(t, m)
    \/ \E u \in Thread : Withdraw(u)

FMSpec == FMInit /\ [][FMNext]_fmvars

-----------------------------------------------------------------------------
\* No thread ever holds two fast mutexes, nor waits for one while it holds
\* another or the same: fast mutexes cannot deadlock (NFastMutex::Wait asserts
\* that the caller holds none).
NoNesting ==
    \A t \in Thread : /\ \A m, n \in Mutex : holder[m] = t /\ holder[n] = t => m = n
                      /\ wants[t] # Null => ~Holds(t)
=============================================================================
