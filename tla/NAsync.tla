-------------------------------- MODULE NAsync --------------------------------
(***************************************************************************)
(* TAsyncRequest (src/kernel/eka/nkern/dfcs.cpp): a client sends a request *)
(* to a handler, which is the request's own DFC, and is told when it is    *)
(* complete; others may cancel it at any moment.  All of them run          *)
(* preemptibly, one statement at a time; TDfc::Enque and TDfc::Cancel are  *)
(* atomic (module NDfc).                                                   *)
(*                                                                         *)
(* A completion object is a semaphore or a DFC: signals counts what it was *)
(* given.  The number of a request is not in the code: it serves to say    *)
(* which request a result belongs to.                                      *)
(***************************************************************************)
EXTENDS Integers, FiniteSets

CONSTANTS
    Canceller,     \* threads that call Cancel
    Handler,       \* the DFC's thread
    NumSends,      \* requests are numbered modulo this
    NoRequest

ASSUME AsyncAssumption ==
    /\ Handler \notin Canceller /\ NumSends \in Nat /\ NumSends > 1
    /\ NoRequest \notin 0..NumSends

VARIABLES
    iCompletionObject,  \* whether it is set
    iCancel,
    iResult,            \* <<number of the request, code>>
    iQueued,            \* TDfc::iQueued
    signals,            \* times the completion object was signalled
    send,               \* where the client is
    number,             \* the request it sent last
    at,                 \* where the handler and the cancellers are
    mine                \* the request each of them took off the queue

asyncVars == <<iCompletionObject, iCancel, iResult, iQueued, signals, send, number, at, mine>>

KErrNone == 0
KErrCancel == -3
Completer == Canceller \cup {Handler}

AsyncInit ==
    /\ iCompletionObject = FALSE /\ iCancel = FALSE /\ iResult = <<0, KErrNone>>
    /\ iQueued = FALSE /\ signals = 0
    /\ send = "idle" /\ number = 0
    /\ at = [c \in Completer |-> "idle"] /\ mine = [c \in Completer |-> NoRequest]

Goes(c, place) == at' = [at EXCEPT ![c] = place]

-----------------------------------------------------------------------------
\* The client: Send and the wait in SendReceive

SendClearsCancel ==
    /\ send = "idle"
    /\ iCancel' = FALSE
    /\ number' = (number + 1) % NumSends
    /\ send' = "cleared"
    /\ UNCHANGED <<iCompletionObject, iResult, iQueued, signals, at, mine>>

SendStoresObject ==
    /\ send = "cleared"
    /\ iCompletionObject' = TRUE
    /\ send' = "stored"
    /\ UNCHANGED <<iCancel, iResult, iQueued, signals, number, at, mine>>

SendEnque ==
    /\ send = "stored"
    /\ iQueued' = TRUE
    /\ send' = "waiting"
    /\ UNCHANGED <<iCompletionObject, iCancel, iResult, signals, number, at, mine>>

\* FSWait returns, and the client reads iResult.
Receive ==
    /\ send = "waiting" /\ signals > 0
    /\ signals' = signals - 1
    /\ send' = "idle"
    /\ UNCHANGED <<iCompletionObject, iCancel, iResult, iQueued, number, at, mine>>

-----------------------------------------------------------------------------
\* The handler and the cancellers

\* The DFC thread takes the request and calls its function.
HandlerStarts ==
    /\ at[Handler] = "idle" /\ iQueued
    /\ iQueued' = FALSE
    /\ mine' = [mine EXCEPT ![Handler] = number]
    /\ Goes(Handler, "complete")
    /\ UNCHANGED <<iCompletionObject, iCancel, iResult, signals, send, number>>

CancelSetsFlag(c) ==
    /\ at[c] = "idle"
    /\ iCancel' = TRUE
    /\ Goes(c, "flagged")
    /\ UNCHANGED <<iCompletionObject, iResult, iQueued, signals, send, number, mine>>

\* Mutant of CancelDequeues: a dequeued request is not completed.
CancelDequeuesQuietMutant(c) ==
    /\ at[c] = "flagged"
    /\ iQueued' = FALSE
    /\ Goes(c, "idle")
    /\ UNCHANGED <<iCompletionObject, iCancel, iResult, signals, send, number, mine>>

CancelDequeues(c) ==
    /\ at[c] = "flagged"
    /\ iQueued' = FALSE
    /\ mine' = [mine EXCEPT ![c] = IF iQueued THEN number ELSE NoRequest]
    /\ Goes(c, IF iQueued THEN "complete" ELSE "idle")
    /\ UNCHANGED <<iCompletionObject, iCancel, iResult, signals, send, number>>

\* Mutants of CompleteSwaps: the object is read and not cleared; the signal is
\* given before the result is stored.
CompleteSwapsReadMutant(c) ==
    /\ at[c] = "complete"
    /\ Goes(c, IF iCompletionObject THEN "swapped" ELSE "idle")
    /\ UNCHANGED <<iCompletionObject, iCancel, iResult, iQueued, signals, send, number, mine>>
CompleteSwapsSignalMutant(c) ==
    /\ at[c] = "complete"
    /\ iCompletionObject' = FALSE
    /\ signals' = signals + 1
    /\ Goes(c, "swapped")
    /\ UNCHANGED <<iCancel, iResult, iQueued, send, number, mine>>

\* Complete: the atomic swap of iCompletionObject with 0.
CompleteSwaps(c) ==
    /\ at[c] = "complete"
    /\ iCompletionObject' = FALSE
    /\ Goes(c, IF iCompletionObject THEN "swapped" ELSE "idle")
    /\ UNCHANGED <<iCancel, iResult, iQueued, signals, send, number, mine>>

\* The handler completes with KErrCancel only if PollForCancel told it to.
Codes(c) ==
    IF c # Handler THEN {KErrCancel}
    ELSE IF iCancel THEN {KErrNone, KErrCancel} ELSE {KErrNone}

CompleteStoresResult(c) ==
    /\ at[c] = "swapped"
    /\ \E code \in Codes(c) : iResult' = <<mine[c], code>>
    /\ Goes(c, "stored")
    /\ UNCHANGED <<iCompletionObject, iCancel, iQueued, signals, send, number, mine>>

CompleteSignals(c) ==
    /\ at[c] = "stored"
    /\ signals' = signals + 1
    /\ mine' = [mine EXCEPT ![c] = NoRequest]
    /\ Goes(c, "idle")
    /\ UNCHANGED <<iCompletionObject, iCancel, iResult, iQueued, send, number>>

-----------------------------------------------------------------------------
Send == SendClearsCancel \/ SendStoresObject \/ SendEnque
Complete(c) == CompleteSwaps(c) \/ CompleteStoresResult(c) \/ CompleteSignals(c)

AsyncNext ==
    \/ Send
    \/ Receive
    \/ HandlerStarts
    \/ \E c \in Canceller : CancelSetsFlag(c) \/ CancelDequeues(c)
    \/ \E c \in Completer : Complete(c)

AsyncSpec == AsyncInit /\ [][AsyncNext]_asyncVars

\* Every thread gets on; the handler is started however often a canceller is
\* faster.
AsyncFairSpec ==
    /\ AsyncSpec
    /\ WF_asyncVars(SendStoresObject) /\ WF_asyncVars(SendEnque) /\ WF_asyncVars(Receive)
    /\ SF_asyncVars(HandlerStarts)
    /\ \A c \in Canceller : WF_asyncVars(CancelDequeues(c))
    /\ \A c \in Completer : WF_asyncVars(Complete(c))

-----------------------------------------------------------------------------
\* Properties

\* A request that was sent is completed once: at each moment it is queued, or in
\* the hands of the handler or of one canceller, or signalled.
CompletedOnce ==
    LET hands == {c \in Completer : at[c] \in {"complete", "swapped", "stored"}}
    IN  IF send = "waiting"
        THEN Cardinality(hands) + signals + (IF iQueued THEN 1 ELSE 0) = 1
        ELSE hands = {} /\ signals = 0 /\ ~iQueued

\* The assertion of Send: when a request is sent, no completion object is left
\* over from an earlier one.
NoneOutstanding == send \in {"idle", "cleared"} => ~iCompletionObject

\* Nobody completes a request twice, or too late: a completion object is there while
\* one request waits, and is gone before the next is sent.
CompletedExactly == CompletedOnce /\ NoneOutstanding

\* The client that is woken reads the result of the request it sent, stored
\* before the signal, whoever completed it.
ResultIsMine == signals > 0 => iResult[1] = number

\* Every request is completed, however it is cancelled.
EveryRequestEnds == send = "waiting" ~> send = "idle"
=============================================================================
