------------------------------ MODULE KMsgQueue ------------------------------
(***************************************************************************)
(* Message queues (DMsgQueue, smqueue.cpp), the client requests that tell  *)
(* a thread of data or space in one (TClientRequest, sutils.cpp), the      *)
(* callbacks by which a request completes when its thread next returns to  *)
(* user mode (nkerns.cpp), and the deletion of threads and of the queue.   *)
(*                                                                         *)
(* Executive calls enter with the system lock held: what the code does     *)
(* until it releases it is one step, except that a completion releases it  *)
(* in a second step, since callbacks, the death of a thread and Dec do not *)
(* need the lock.  The destructor of the queue does not hold it at all.    *)
(*                                                                         *)
(* `fault' is set where the code relies on what is not true; the system    *)
(* then stops, as a debug build does.                                      *)
(*                                                                         *)
(* DATA abstracted: the length of messages; a request is known by its kind.*)
(* The queue is created once, and each thread uses one TRequestStatus for  *)
(* each kind, and starts no request with one that is in use.               *)
(***************************************************************************)
EXTENDS Queues, FiniteSets

CONSTANTS
    Client,     \* user threads of one process, or of several that share the queue
    Mortal,     \* those of them that may exit or be killed
    Closers,    \* those that may create the queue or close the handle to it
    Sup,        \* the supervisor thread
    Msg,        \* messages
    Slots,      \* aSlotCount
    Null

Kind == {"data", "space"}

ASSUME MsgQueueAssumption ==
    /\ Mortal \subseteq Client /\ Closers \subseteq Client /\ Slots \in Nat \ {0}
    /\ IsFiniteSet(Client) /\ Sup \notin Client
    /\ Null \notin Client \cup {Sup} \cup Msg \cup Seq(Kind)

Thread == Client \cup {Sup}
Slot == 0..(Slots - 1)

VARIABLES
    queue,      \* "none", "open" while there is a handle to it, "closed"
    iMsgPool,
    iFirstFreeSlot,
    iFirstFullSlot,
    iState,
    waiting,    \* iThreadWaitingOnDataAvail and ...SpaceAvail
    request,    \* state of iDataAvailRequest and iSpaceAvailRequest
    owner,      \* whose TRequestStatus iStatus points to
    iResult,    \* of the requests
    callbacks,  \* iUserModeCallbacks of each thread, Null when closed
    cancelling, \* the callbacks that the supervisor is cancelling
    access,     \* reference count of each thread
    pc,         \* where each thread is
    arg,        \* and the kind of request it is working on
    to,         \* and the thread it completes that for
    killed,     \* TRUE for a thread whose iExitType is not EExitPending
    status,     \* the TRequestStatus of each client for each kind
    sem,        \* request semaphore of each client
    sys,        \* holder of the system lock, when a step ends with it held
    sv,         \* where the supervisor is
    victim,     \* the thread it is clearing up
    cleanup,    \* TRUE if DeadClientCleanupDfc is queued
    deleting,   \* threads on the list of K::DoAsyncFree
    fault

ring == <<iMsgPool, iFirstFreeSlot, iFirstFullSlot, iState>>
requests == <<request, owner, iResult>>
user == <<status, sem>>
supervisor == <<sv, victim, cancelling, cleanup, deleting>>
vars == <<queue, ring, waiting, requests, callbacks, access, pc, arg, to, killed,
          user, sys, supervisor, fault>>

\* In user code, at the executive call, waiting for a request, woken from that; in
\* the executive, with the system lock ("signal") or without; in the destructor of
\* the queue; and dying.
Pc == {"run", "call", "wait", "woken", "signal", "asyncDelete", "asyncClose",
       "flash", "dtor", "dtorSignal", "dtorClose", "dtorFlash", "dtorFree",
       "exit", "dying", "dead", "deleted"}

TypeOK ==
    /\ queue \in {"none", "open", "closed"}
    /\ iMsgPool \in [Slot -> Msg \cup {Null}]
    /\ iFirstFreeSlot \in Slot
    /\ iFirstFullSlot \in Slot
    /\ iState \in {"EEmpty", "EPartial", "EFull"}
    /\ waiting \in [Kind -> Client \cup {Null}]
    /\ request \in [Kind -> {"null", "EFree", "EReady", "EInUse", "EClosing", "freed"}]
    /\ owner \in [Kind -> Client \cup {Null}]
    /\ iResult \in [Kind -> {"KRequestPending", "KErrNone", "KErrCancel"}]
    /\ callbacks \in [Thread -> Seq(Kind) \cup {Null}]
    /\ cancelling \in Seq(Kind)
    /\ access \in [Client -> Nat]
    /\ pc \in [Client -> Pc]
    /\ arg \in [Client -> Kind]
    /\ to \in [Client -> Client \cup {Null}]
    /\ killed \in [Client -> BOOLEAN]
    /\ status \in [Client -> [Kind -> {"unused", "KRequestPending", "KErrNone", "KErrCancel"}]]
    /\ sem \in [Client -> Nat]
    /\ sys \in Client \cup {Null}
    /\ sv \in {"idle", "take", "cancel", "close", "flash"}
    /\ victim \in Client \cup {Null}
    /\ cleanup \in BOOLEAN
    /\ deleting \in SUBSET Client
    /\ fault \in {"none", "null request", "system unlocked"}

Init ==
    /\ queue = "none"
    /\ iMsgPool = [i \in Slot |-> Null]
    /\ iFirstFreeSlot = 0 /\ iFirstFullSlot = 0 /\ iState = "EEmpty"
    /\ waiting = [k \in Kind |-> Null]
    /\ request = [k \in Kind |-> "null"]
    /\ owner = [k \in Kind |-> Null]
    /\ iResult = [k \in Kind |-> "KRequestPending"]
    /\ callbacks = [t \in Thread |-> <<>>]
    /\ cancelling = <<>>
    /\ access = [t \in Client |-> 1]
    /\ pc = [t \in Client |-> "run"]
    /\ arg = [t \in Client |-> "data"]
    /\ to = [t \in Client |-> Null]
    /\ killed = [t \in Client |-> FALSE]
    /\ status = [t \in Client |-> [k \in Kind |-> "unused"]]
    /\ sem = [t \in Client |-> 0]
    /\ sys = Null
    /\ sv = "idle" /\ victim = Null /\ cleanup = FALSE /\ deleting = {}
    /\ fault = "none"

-----------------------------------------------------------------------------
(* User code, and the way back to it. *)

Live == fault = "none"

\* A thread returns to user mode when it has run its callbacks.
InUser(t, p) == Live /\ pc[t] = p /\ ~killed[t] /\ callbacks[t] = <<>>

GoTo(t, p) == pc' = [pc EXCEPT ![t] = p]

\* The end of a call, or of a critical section: a thread that was killed exits.
Return(t) == GoTo(t, IF killed[t] THEN "exit" ELSE "run")

Call(t) ==
    /\ InUser(t, "run") /\ queue # "none"
    /\ GoTo(t, "call")
    /\ UNCHANGED <<queue, ring, waiting, requests, callbacks, access, arg, to, killed, user, sys, supervisor, fault>>

\* User::WaitForRequest ...
WaitForRequest(t) ==
    /\ InUser(t, "run")
    /\ \E k \in Kind : status[t][k] # "unused"
    /\ GoTo(t, "wait")
    /\ UNCHANGED <<queue, ring, waiting, requests, callbacks, access, arg, to, killed, user, sys, supervisor, fault>>

Wake(t) ==
    /\ Live /\ pc[t] = "wait" /\ ~killed[t] /\ sem[t] > 0
    /\ sem' = [sem EXCEPT ![t] = @ - 1]
    /\ GoTo(t, "woken")
    /\ UNCHANGED <<queue, ring, waiting, requests, callbacks, access, arg, to, killed, status, sys, supervisor, fault>>

Completed(t, k) == status[t][k] \in {"KErrNone", "KErrCancel"}

\* ... which returns to code that looks for a request that is complete.
HandleRequest(t) ==
    /\ InUser(t, "woken")
    /\ \E k \in Kind : /\ Completed(t, k)
                       /\ status' = [status EXCEPT ![t][k] = "unused"]
    /\ GoTo(t, "run")
    /\ UNCHANGED <<queue, ring, waiting, requests, callbacks, access, arg, to, killed, sem, sys, supervisor, fault>>

\* TClientRequest::MakeFree: a request that was closed is freed.
MakeFree(k) ==
    /\ request' = [request EXCEPT ![k] = IF @ = "EClosing" THEN "freed" ELSE "EFree"]
    /\ owner' = [owner EXCEPT ![k] = Null]
    /\ iResult' = [iResult EXCEPT ![k] = "KRequestPending"]

\* NThreadBase::CallUserModeCallbacks, for each callback.
CallUserModeCallback(t) ==
    /\ Live /\ pc[t] \in {"run", "woken"} /\ ~killed[t] /\ callbacks[t] # <<>>
    /\ LET k == Head(callbacks[t])
       IN  /\ MakeFree(k)
           /\ status' = [status EXCEPT ![owner[k]][k] = iResult[k]]
    /\ callbacks' = [callbacks EXCEPT ![t] = Tail(@)]
    /\ UNCHANGED <<queue, ring, waiting, access, pc, arg, to, killed, sem, sys, supervisor, fault>>

\* A thread that was killed exits when it is not in the executive; one that is about
\* to make a call may or may not do so first.
Exit(t) ==
    /\ Live /\ pc[t] \in {"run", "call", "wait", "woken"}
    /\ killed[t] \/ (t \in Mortal /\ pc[t] = "run")
    /\ killed' = [killed EXCEPT ![t] = TRUE]
    /\ GoTo(t, "exit")
    /\ UNCHANGED <<queue, ring, waiting, requests, callbacks, access, arg, to, user, sys, supervisor, fault>>

-----------------------------------------------------------------------------
(* Executive calls on the queue. *)

\* A thread that has made a call and gets the system lock.
Enter(t) == Live /\ pc[t] = "call" /\ sys = Null

\* Kern::QueueRequestComplete, without the signal, for a request that is ready.
QueueRequestComplete(u, k, r) ==
    /\ request' = [request EXCEPT ![k] = "EInUse"]
    /\ iResult' = [iResult EXCEPT ![k] = r]
    /\ callbacks' = IF callbacks[u] = Null THEN callbacks
                    ELSE [callbacks EXCEPT ![u] = <<k>> \o @]
    /\ UNCHANGED owner

\* The rest of it: the thread is signalled, or if it died the request is left to
\* the supervisor; u is then Null.  The semaphore of a dead thread is not modelled.
EndCompleteMutant(u, k) ==
    IF u = Null
    THEN /\ callbacks' = [callbacks EXCEPT ![Sup] = <<k>> \o @]
         /\ UNCHANGED <<cleanup, sem>>
    ELSE /\ sem' = IF callbacks[u] = Null THEN sem ELSE [sem EXCEPT ![u] = @ + 1]
         /\ UNCHANGED <<callbacks, cleanup>>
EndComplete(u, k) ==
    IF u = Null
    THEN /\ callbacks' = [callbacks EXCEPT ![Sup] = <<k>> \o @]
         /\ cleanup' = TRUE
         /\ UNCHANGED sem
    ELSE /\ sem' = IF callbacks[u] = Null THEN sem ELSE [sem EXCEPT ![u] = @ + 1]
         /\ UNCHANGED <<callbacks, cleanup>>

\* DMsgQueue::CompleteRequestIfPending: gives up the reference to the thread first.
CompleteRequestIfPending(t, k, r) ==
    LET u == waiting[k]
    IN  /\ waiting' = [waiting EXCEPT ![k] = Null]
        /\ IF request[k] # "EReady"
           THEN /\ Return(t)
                /\ UNCHANGED <<requests, callbacks, access, arg, to, sys>>
           ELSE /\ access' = [access EXCEPT ![u] = @ - 1]
                /\ IF access[u] = 1
                   THEN /\ request' = [request EXCEPT ![k] = "EFree"]
                        /\ owner' = [owner EXCEPT ![k] = Null]
                        /\ to' = [to EXCEPT ![t] = u]
                        /\ GoTo(t, "asyncDelete")
                        /\ UNCHANGED <<iResult, callbacks, arg, sys>>
                   ELSE /\ QueueRequestComplete(u, k, r)
                        /\ to' = [to EXCEPT ![t] = IF callbacks[u] = Null THEN Null ELSE u]
                        /\ arg' = [arg EXCEPT ![t] = k]
                        /\ GoTo(t, "signal")
                        /\ sys' = t

\* ... and then signals it, still with the system lock.
Signal(t) ==
    /\ Live /\ pc[t] = "signal"
    /\ EndComplete(to[t], arg[t])
    /\ to' = [to EXCEPT ![t] = Null] /\ arg' = [arg EXCEPT ![t] = "data"]
    /\ sys' = Null
    /\ Return(t)
    /\ UNCHANGED <<queue, ring, waiting, requests, access, killed, status, sv, victim, cancelling, deleting, fault>>

\* The slot after i, back at iMsgPool after the last.
NextSlot(i) == IF i + 1 = Slots THEN 0 ELSE i + 1

SendMutant(t) ==
    /\ Enter(t) /\ queue = "open"
    /\ IF iState = "EFull"
       THEN /\ Return(t)
            /\ UNCHANGED <<ring, waiting, requests, callbacks, access, arg, to, sys>>
       ELSE /\ \E x \in Msg : iMsgPool' = [iMsgPool EXCEPT ![iFirstFreeSlot] = x]
            /\ iFirstFreeSlot' = NextSlot(iFirstFreeSlot)
            /\ iState' = IF iFirstFreeSlot = iFirstFullSlot THEN "EFull" ELSE "EPartial"
            /\ CompleteRequestIfPending(t, "data", "KErrNone")
            /\ UNCHANGED iFirstFullSlot
    /\ UNCHANGED <<queue, killed, user, supervisor, fault>>
Send(t) ==
    /\ Enter(t) /\ queue = "open"
    /\ IF iState = "EFull"
       THEN /\ Return(t)
            /\ UNCHANGED <<ring, waiting, requests, callbacks, access, arg, to, sys>>
       ELSE /\ \E x \in Msg : iMsgPool' = [iMsgPool EXCEPT ![iFirstFreeSlot] = x]
            /\ iFirstFreeSlot' = NextSlot(iFirstFreeSlot)
            /\ iState' = IF iFirstFreeSlot' = iFirstFullSlot THEN "EFull" ELSE "EPartial"
            /\ CompleteRequestIfPending(t, "data", "KErrNone")
            /\ UNCHANGED iFirstFullSlot
    /\ UNCHANGED <<queue, killed, user, supervisor, fault>>

Receive(t) ==
    /\ Enter(t) /\ queue = "open"
    /\ IF iState = "EEmpty"
       THEN /\ Return(t)
            /\ UNCHANGED <<ring, waiting, requests, callbacks, access, arg, to, sys>>
       ELSE /\ iFirstFullSlot' = NextSlot(iFirstFullSlot)
            /\ iState' = IF iFirstFreeSlot = iFirstFullSlot' THEN "EEmpty" ELSE "EPartial"
            /\ CompleteRequestIfPending(t, "space", "KErrNone")
            /\ UNCHANGED <<iMsgPool, iFirstFreeSlot>>
    /\ UNCHANGED <<queue, killed, user, supervisor, fault>>

\* CancelDataAvailable and CancelSpaceAvailable.
Cancel(t, k) ==
    /\ Enter(t) /\ queue = "open"
    /\ CompleteRequestIfPending(t, k, "KErrCancel")
    /\ UNCHANGED <<queue, ring, killed, user, supervisor, fault>>

\* K::PanicCurrentThread with the system lock held.
Panic(t) ==
    /\ killed' = [killed EXCEPT ![t] = TRUE]
    /\ GoTo(t, "exit")
    /\ UNCHANGED <<queue, ring, waiting, requests, callbacks, access, arg, to, user, sys, supervisor, fault>>

\* Somebody is waiting already and is alive.
NotifyPanics(t, k) ==
    /\ Enter(t) /\ queue = "open" /\ t \in Mortal
    /\ request[k] = "EReady" /\ ~killed[waiting[k]]
    /\ Panic(t)

\* DMsgQueue::RequestNotification: a waiter that has died is forgotten, and the
\* reference to it closed after the system is unlocked.  If the request is still
\* in use SetStatus fails, which the code finds when it has unlocked the system.
Notify(t, k) ==
    /\ Enter(t) /\ queue = "open" /\ status[t][k] = "unused"
    /\ LET previous == request[k] = "EReady"
           ready    == IF k = "space" THEN iState # "EFull" ELSE iState # "EEmpty"
       IN  /\ previous => killed[waiting[k]]
           /\ IF ready
              THEN /\ status' = [status EXCEPT ![t][k] = "KErrNone"]
                   /\ sem' = [sem EXCEPT ![t] = @ + 1]
                   /\ waiting' = [waiting EXCEPT ![k] = Null]
                   /\ request' = [request EXCEPT ![k] = IF previous THEN "EFree" ELSE @]
                   /\ owner' = [owner EXCEPT ![k] = IF previous THEN Null ELSE @]
                   /\ UNCHANGED <<access, fault>>
              ELSE /\ status' = [status EXCEPT ![t][k] = "KRequestPending"]
                   /\ access' = [access EXCEPT ![t] = @ + 1]
                   /\ waiting' = [waiting EXCEPT ![k] = t]
                   /\ IF previous \/ request[k] = "EFree"
                      THEN /\ request' = [request EXCEPT ![k] = "EReady"]
                           /\ owner' = [owner EXCEPT ![k] = t]
                           /\ UNCHANGED fault
                      ELSE /\ fault' = "system unlocked"
                           /\ UNCHANGED <<request, owner>>
                   /\ UNCHANGED sem
           /\ IF previous
              THEN to' = [to EXCEPT ![t] = waiting[k]] /\ GoTo(t, "asyncClose")
              ELSE UNCHANGED to /\ Return(t)
    /\ UNCHANGED <<queue, ring, iResult, callbacks, arg, killed, sys, supervisor>>

\* The thread to delete, and the one to close.
AsyncDelete(t) ==
    /\ Live /\ pc[t] = "asyncDelete"
    /\ deleting' = deleting \cup {to[t]}
    /\ to' = [to EXCEPT ![t] = Null]
    /\ Return(t)
    /\ UNCHANGED <<queue, ring, waiting, requests, callbacks, access, arg, killed, user, sys, sv, victim, cancelling, cleanup, fault>>

AsyncClose(t) ==
    /\ Live /\ pc[t] = "asyncClose"
    /\ access' = [access EXCEPT ![to[t]] = @ - 1]
    /\ deleting' = IF access[to[t]] = 1 THEN deleting \cup {to[t]} ELSE deleting
    /\ to' = [to EXCEPT ![t] = Null]
    /\ Return(t)
    /\ UNCHANGED <<queue, ring, waiting, requests, callbacks, arg, killed, user, sys, sv, victim, cancelling, cleanup, fault>>

\* K::ObjectFromHandle finds no queue.
BadHandle(t) ==
    /\ Enter(t) /\ queue = "closed"
    /\ Panic(t)

\* DThread::Die of another thread, which exits when it is not in the executive.
Kill(t, u) ==
    /\ Enter(t) /\ u \in Mortal \ {t} /\ ~killed[u]
    /\ killed' = [killed EXCEPT ![u] = TRUE]
    /\ Return(t)
    /\ UNCHANGED <<queue, ring, waiting, requests, callbacks, access, arg, to, user, sys, supervisor, fault>>

-----------------------------------------------------------------------------
(* Creating and deleting the queue. *)

\* ExecHandler::MsgQueueCreate, with the requests that DMsgQueue::Create has made
\* when it returns; if it fails the queue is closed.
Create(t) ==
    /\ InUser(t, "run") /\ t \in Closers /\ queue = "none"
    /\ \/ /\ request' = [k \in Kind |-> "EFree"]
          /\ queue' = "open"
          /\ UNCHANGED pc
       \/ /\ \E made \in {{}, {"data"}, Kind} :
                 request' = [k \in Kind |-> IF k \in made THEN "EFree" ELSE "null"]
          /\ queue' = "closed"
          /\ GoTo(t, "flash")
    /\ UNCHANGED <<ring, waiting, owner, iResult, callbacks, access, arg, to, killed, user, sys, supervisor, fault>>

\* The last handle is closed: DObject::Close.
HandleClose(t) ==
    /\ InUser(t, "run") /\ t \in Closers /\ queue = "open"
    /\ queue' = "closed"
    /\ GoTo(t, "flash")
    /\ UNCHANGED <<ring, waiting, requests, callbacks, access, arg, to, killed, user, sys, supervisor, fault>>

\* Nobody who found the queue by its handle is using it now.
FlashQueue(t) ==
    /\ Live /\ pc[t] = "flash" /\ sys = Null
    /\ GoTo(t, "dtor")
    /\ arg' = [arg EXCEPT ![t] = "data"]
    /\ UNCHANGED <<queue, ring, waiting, requests, callbacks, access, to, killed, user, sys, supervisor, fault>>

\* DMsgQueue::~DMsgQueue, for the requests in turn.
NextRequest(t) ==
    IF arg[t] = "data" THEN GoTo(t, "dtor") /\ arg' = [arg EXCEPT ![t] = "space"]
    ELSE GoTo(t, "dtorFree") /\ arg' = [arg EXCEPT ![t] = "data"]

DtorComplete(t) ==
    /\ Live /\ pc[t] = "dtor"
    /\ LET k == arg[t]
           u == waiting[k]
       IN  CASE request[k] = "null" ->
                    /\ fault' = "null request"
                    /\ UNCHANGED <<pc, arg, to, requests, callbacks>>
             [] request[k] = "EReady" ->
                    /\ QueueRequestComplete(u, k, "KErrCancel")
                    /\ to' = [to EXCEPT ![t] = IF callbacks[u] = Null THEN Null ELSE u]
                    /\ GoTo(t, "dtorSignal")
                    /\ UNCHANGED <<arg, fault>>
             [] OTHER -> NextRequest(t) /\ UNCHANGED <<to, requests, callbacks, fault>>
    /\ UNCHANGED <<queue, ring, waiting, access, killed, user, sys, supervisor>>

DtorSignal(t) ==
    /\ Live /\ pc[t] = "dtorSignal"
    /\ EndComplete(to[t], arg[t])
    /\ to' = [to EXCEPT ![t] = waiting[arg[t]]]
    /\ GoTo(t, "dtorClose")
    /\ UNCHANGED <<queue, ring, waiting, requests, access, arg, killed, status, sys, sv, victim, cancelling, deleting, fault>>

DtorClose(t) ==
    /\ Live /\ pc[t] = "dtorClose"
    /\ access' = [access EXCEPT ![to[t]] = @ - 1]
    /\ waiting' = [waiting EXCEPT ![arg[t]] = Null]
    /\ IF access[to[t]] = 1
       THEN GoTo(t, "dtorFlash") /\ UNCHANGED <<arg, to>>
       ELSE NextRequest(t) /\ to' = [to EXCEPT ![t] = Null]
    /\ UNCHANGED <<queue, ring, requests, callbacks, killed, user, sys, supervisor, fault>>

DtorFlash(t) ==
    /\ Live /\ pc[t] = "dtorFlash" /\ sys = Null
    /\ to' = [to EXCEPT ![t] = Null]
    /\ arg' = [arg EXCEPT ![t] = IF @ = "data" THEN "space" ELSE "data"]
    /\ pc' = [pc EXCEPT ![t] = IF arg[t] = "data" THEN "dtor" ELSE "dtorFree",
                        ![to[t]] = "deleted"]
    /\ UNCHANGED <<queue, ring, waiting, requests, callbacks, access, killed, user, sys, supervisor, fault>>

\* The end of it: iMsgPool is freed; and Kern::DestroyClientRequest for both: one that
\* is in use is freed by its callback.
DtorFree(t) ==
    /\ Live /\ pc[t] = "dtorFree"
    /\ request' = [k \in Kind |-> IF request[k] = "EInUse" THEN "EClosing" ELSE "freed"]
    /\ iMsgPool' = [i \in Slot |-> Null]
    /\ iFirstFreeSlot' = 0 /\ iFirstFullSlot' = 0 /\ iState' = "EEmpty"
    /\ Return(t)
    /\ UNCHANGED <<queue, waiting, owner, iResult, callbacks, access, arg, to, killed, user, sys, supervisor, fault>>

-----------------------------------------------------------------------------
(* The supervisor thread. *)

\* DThread::SvKill: NKern::MoveUserModeCallbacks.
SvKill(u) ==
    /\ Live /\ sv = "idle" /\ pc[u] = "exit"
    /\ callbacks' = [callbacks EXCEPT ![Sup] = callbacks[u] \o @, ![u] = Null]
    /\ victim' = u /\ sv' = "take"
    /\ GoTo(u, "dying")
    /\ status' = [status EXCEPT ![u] = [k \in Kind |-> "unused"]]
    /\ sem' = [sem EXCEPT ![u] = 0]
    /\ UNCHANGED <<queue, ring, waiting, requests, access, arg, to, killed, sys, cancelling, cleanup, deleting, fault>>

\* TClientRequest::DoDeadClientCleanup.
DoDeadClientCleanup ==
    /\ Live /\ sv = "idle" /\ cleanup
    /\ cleanup' = FALSE /\ sv' = "take"
    /\ UNCHANGED <<queue, ring, waiting, requests, callbacks, access, pc, arg, to, killed, user, sys, victim, cancelling, deleting, fault>>

\* NKern::CancelUserModeCallbacks takes the whole list ...
TakeCallbacks ==
    /\ Live /\ sv = "take"
    /\ cancelling' = callbacks[Sup]
    /\ callbacks' = [callbacks EXCEPT ![Sup] = <<>>]
    /\ sv' = "cancel"
    /\ UNCHANGED <<queue, ring, waiting, requests, access, pc, arg, to, killed, user, sys, victim, cleanup, deleting, fault>>

\* ... and cancels one after another: nothing is written to the client.
CancelCallback ==
    /\ Live /\ sv = "cancel" /\ cancelling # <<>>
    /\ MakeFree(Head(cancelling))
    /\ cancelling' = Tail(cancelling)
    /\ UNCHANGED <<queue, ring, waiting, callbacks, access, pc, arg, to, killed, user, sys, sv, victim, cleanup, deleting, fault>>

\* In DThread::Release: DObject::Close.
CloseThread ==
    /\ Live /\ sv = "cancel" /\ cancelling = <<>>
    /\ IF victim = Null
       THEN sv' = "idle" /\ UNCHANGED <<access, pc, victim>>
       ELSE /\ access' = [access EXCEPT ![victim] = @ - 1]
            /\ IF access[victim] = 1
               THEN sv' = "flash" /\ UNCHANGED <<pc, victim>>
               ELSE /\ sv' = "idle" /\ victim' = Null
                    /\ GoTo(victim, "dead")
    /\ UNCHANGED <<queue, ring, waiting, requests, callbacks, arg, to, killed, user, sys, cancelling, cleanup, deleting, fault>>

\* It locks and unlocks the system before it deletes the thread.
FlashThreadMutant ==
    /\ Live /\ sv = "flash"
    /\ GoTo(victim, "deleted")
    /\ sv' = "idle" /\ victim' = Null
    /\ UNCHANGED <<queue, ring, waiting, requests, callbacks, access, arg, to, killed, user, sys, cancelling, cleanup, deleting, fault>>
FlashThread ==
    /\ Live /\ sv = "flash" /\ sys = Null
    /\ GoTo(victim, "deleted")
    /\ sv' = "idle" /\ victim' = Null
    /\ UNCHANGED <<queue, ring, waiting, requests, callbacks, access, arg, to, killed, user, sys, cancelling, cleanup, deleting, fault>>

DoAsyncFree ==
    /\ Live /\ sv = "idle" /\ deleting # {} /\ sys = Null
    /\ pc' = [t \in Client |-> IF t \in deleting THEN "deleted" ELSE pc[t]]
    /\ deleting' = {}
    /\ UNCHANGED <<queue, ring, waiting, requests, callbacks, access, arg, to, killed, user, sys, sv, victim, cancelling, cleanup, fault>>

-----------------------------------------------------------------------------
\* What a thread does in the executive with the system lock, and all that it does
\* when it is given the processor.
Operation(t) ==
    \/ Send(t) \/ Receive(t) \/ BadHandle(t)
    \/ \E k \in Kind : Cancel(t, k) \/ NotifyPanics(t, k) \/ Notify(t, k)
    \/ \E u \in Client : Kill(t, u)

Run(t) ==
    \/ Operation(t) \/ CallUserModeCallback(t) \/ Wake(t)
    \/ Signal(t) \/ AsyncDelete(t) \/ AsyncClose(t)
    \/ FlashQueue(t) \/ DtorComplete(t) \/ DtorSignal(t) \/ DtorClose(t) \/ DtorFlash(t)
    \/ DtorFree(t)
    \/ killed[t] /\ Exit(t)

\* What user code need not do.
User(t) ==
    \/ Call(t) \/ WaitForRequest(t) \/ HandleRequest(t) \/ Create(t) \/ HandleClose(t)
    \/ ~killed[t] /\ Exit(t)

Supervise ==
    \/ \E u \in Client : SvKill(u)
    \/ DoDeadClientCleanup \/ TakeCallbacks \/ CancelCallback \/ CloseThread
    \/ FlashThread \/ DoAsyncFree

Next == (\E t \in Client : User(t) \/ Run(t)) \/ Supervise

Spec == Init /\ [][Next]_vars

\* Threads run, and the system lock is not kept for ever from one that wants it.
Fairness == (\A t \in Client : SF_vars(Run(t))) /\ SF_vars(Supervise)

FairSpec == Spec /\ Fairness

-----------------------------------------------------------------------------
(* Properties. *)

\* The thread is alive for its user code, which can rely on its requests.
Running(t) == pc[t] \notin {"exit", "dying", "dead", "deleted"} /\ ~killed[t]

\* Everywhere that a callback may be.
Queued(k) == {t \in Thread : callbacks[t] # Null /\ k \in ToSet(callbacks[t])}
Orphaned(k) ==
    \/ k \in ToSet(cancelling)
    \/ \E t \in Client : pc[t] \in {"signal", "dtorSignal"} /\ to[t] = Null /\ arg[t] = k

\* A request in use is in just one list of callbacks: that of its thread, or the
\* supervisor's when its thread is dead.  A request that is ready has a thread that
\* waits and for which there is nothing in the queue.
RequestsOwned ==
    \A k \in Kind :
        /\ Cardinality(Queued(k)) + (IF Orphaned(k) THEN 1 ELSE 0)
               = (IF request[k] \in {"EInUse", "EClosing"} THEN 1 ELSE 0)
        /\ \A t \in Client : Queued(k) = {t} => owner[k] = t /\ pc[t] \notin {"dying", "dead", "deleted"}
        /\ fault = "none" => (request[k] = "EReady" <=> waiting[k] # Null)
                             \/ \E t \in Client : pc[t] \in {"dtorSignal", "dtorClose"}
        /\ request[k] = "EReady" =>
               /\ owner[k] = waiting[k]
               /\ queue = "open" => iState = IF k = "data" THEN "EEmpty" ELSE "EFull"

\* A TRequestStatus is pending just while the request is the thread's; and as often
\* as the thread is signalled there is a status, or a callback that writes one.
Told(t) == {k \in Kind : Completed(t, k)}
Coming(t) == {k \in Kind : t \in Queued(k)}
StatusExact ==
    fault = "none" => \A t \in Client : Running(t) =>
        /\ \A k \in Kind : status[t][k] = "KRequestPending" <=>
                           owner[k] = t /\ request[k] \in {"EReady", "EInUse", "EClosing"}
        /\ sem[t] + (IF pc[t] = "woken" THEN 1 ELSE 0)
              + Cardinality({s \in Client : pc[s] \in {"signal", "dtorSignal"} /\ to[s] = t})
           = Cardinality(Told(t)) + Cardinality(Coming(t))

\* The references to a thread: its own until the supervisor has released it, those
\* of the queue, and one that is about to be closed.  What is deleted is not used.
References(t) ==
    (IF pc[t] \in {"dead", "deleted"} \/ (sv = "flash" /\ victim = t) THEN 0 ELSE 1)
    + Cardinality({k \in Kind : waiting[k] = t})
    + Cardinality({s \in Client : pc[s] = "asyncClose" /\ to[s] = t})
ThreadsKept ==
    \A t \in Client :
        /\ access[t] = References(t)
        /\ pc[t] = "deleted" => \A s \in Client : pc[s] \in {"signal", "dtorSignal"} => to[s] # t

\* Message queues: requests, statuses, semaphores and references agree.
RequestsExact == TypeOK /\ RequestsOwned /\ StatusExact /\ ThreadsKept

\* A request that is in use is delivered or, when its thread dies, cancelled; and a
\* dead thread is deleted when the queue is.
InUse(k) == request[k] \in {"EInUse", "EClosing"}
Gone(t) == queue = "closed" /\ pc[t] \in {"exit", "dying", "dead"}
RequestsFreed ==
    /\ \A k \in Kind : []<>(Live => ~InUse(k))
    /\ \A t \in Client : []<>(Live => ~Gone(t))

\* The comment of K::PanicCurrentThread: enter with system locked.
PanicHoldsLock == fault # "system unlocked"

-----------------------------------------------------------------------------
(* What the queue promises. *)

\* How many messages there are, and the slot of the i-th, the oldest being the first.
Stored ==
    CASE iState = "EEmpty" -> 0
      [] iState = "EFull" -> Slots
      [] OTHER -> IF iFirstFreeSlot > iFirstFullSlot THEN iFirstFreeSlot - iFirstFullSlot
                  ELSE iFirstFreeSlot - iFirstFullSlot + Slots

SlotOf(i) ==
    IF iFirstFullSlot + i =< Slots THEN iFirstFullSlot + i - 1
    ELSE iFirstFullSlot + i - 1 - Slots

Contents == [i \in 1..Stored |-> iMsgPool[SlotOf(i)]]

Waiter == [k \in Kind |-> IF request[k] = "EReady" THEN waiting[k] ELSE Null]

Q == INSTANCE MessageQueue WITH q <- Contents, waiter <- Waiter
ImplementsQueue == Q!QSpec
=============================================================================
