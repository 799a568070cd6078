------------------------------- MODULE KMessage -------------------------------
(***************************************************************************)
(* Kernel messages (TMessageBase and TMessageQue, server.cpp), the channel *)
(* that sends one for each request and one when it is closed (device.cpp), *)
(* the death of a thread whose message may be with a driver (DThread::Exit *)
(* and Release, sthread.cpp), and two drivers, one of which there is:      *)
(*                                                                         *)
(*   - that of a DLogicalChannel with an iMsgQ and a DFC of its own, which *)
(*     answers a request before it receives the next (d_comm.cpp);         *)
(*   - that of a DLocalDrive, a channel that sends its requests to the     *)
(*     media of the drive (DPrimaryMediaBase, locmedia.cpp), which outlives*)
(*     it.  The media opens for the first request and defers others; so do *)
(*     the drivers of media (pccd_ata.cpp, medmmc.cpp) that are busy.      *)
(*                                                                         *)
(* A thread owns one message, iKernMsg, and is named for both.  The state  *)
(* of a message and the queues are guarded by the fast mutex MsgLock: what *)
(* the code does while it holds the mutex is one step.  A thread that      *)
(* completes a message closes the reference to its sender in a later step. *)
(*                                                                         *)
(* DATA abstracted: the arguments of requests, results other than KErrDied,*)
(* priorities.  A request to a media driver is completed at once, started, *)
(* or deferred because of another that has been started.  Opening, with the*)
(* power to be applied, drivers to be created and partitions to be read, is*)
(* one state, and its end one event.                                       *)
(*                                                                         *)
(* Not modelled: Forward and Complete of a forwarded message with          *)
(* aReceiveNext, which no driver does; paging requests; a media that is    *)
(* powered down with its drivers kept (EPoweredDown); EForceMediaChange;   *)
(* partitions that DoRequest reads again.                                  *)
(***************************************************************************)
EXTENDS Queues, FiniteSets

CONSTANTS
    Client,     \* user threads of one process
    Mortal,     \* those of them that may be killed
    Closers,    \* those that may close or open the handle to the channel
    Sup,        \* the supervisor thread
    Null

Thread == Client \cup {Sup}

\* iMsgQ of the channel or the media, and the media's queue of deferred requests,
\* whose callback is never used: nothing ever asks to receive from it.
Que == {"main", "deferred"}

ASSUME MessageAssumption ==
    /\ Mortal \subseteq Client /\ Closers \subseteq Client
    /\ Sup \notin Client /\ Null \notin Thread \cup Que \cup Nat
    /\ IsFiniteSet(Client)

VARIABLES
    iState,     \* of each message
    iQueue,     \* and the queue it was sent or forwarded to
    iSem,       \* and the count of its semaphore
    iValue,     \* and what was asked, or the result
    access,     \* reference count of each thread
    pc,         \* where each thread is
    closing,    \* TRUE for a thread that closes the channel for the last time
    iTempObj,   \* TRUE for a thread whose iTempObj is the channel
    killed,     \* TRUE for a thread that is to exit or has done so
    iQ,         \* the queues
    iReady,     \* of iMsgQ
    iMessage,   \* of iMsgQ; Null once MsgQFunc has read it
    queued,     \* TRUE if the DFC of iMsgQ is queued
    localDrive, \* TRUE if the channel is a DLocalDrive
    handle,     \* TRUE while the process has a handle to the channel
    chan,       \* reference count of the channel, Null when it is deleted
    creating,   \* the thread that connects a local drive it creates
    at,         \* where the driver's thread is
    back,       \* and where it goes when all deferred requests are done
    req,        \* the message of iMsgQ that it is working at
    pM,         \* the one that it took from the deferred ones
    pL,         \* in RunDeferred: the last request it is to run
    mState,     \* iState of the media
    iCurrentReq,\* of the media: the request that waits for it to open
    current,    \* iCurrentReq of the media driver: the request it has started
    pT,         \* a thread that Complete has to close a reference to
    victim,     \* the dead thread that the supervisor is clearing up
    deleting    \* threads on the supervisor's list of objects to delete

message == <<iState, iQueue, iSem, iValue>>
queues == <<iQ, iReady, iMessage, queued>>
channel == <<localDrive, handle, chan, creating, iTempObj>>
place == <<at, back, req, pM, pL>>
media == <<mState, iCurrentReq, current>>
driver == <<place, media>>
supervisor == <<victim, deleting>>
vars == <<message, access, pc, closing, killed, queues, channel, driver, pT, supervisor>>

\* A thread in its own code, on its way through SendReceive, and dying.
Pc == {"run", "send", "FSWait", "blocked", "sent", "close",
       "exit", "cancelled", "dead", "released", "deleted"}

\* The driver's thread: waiting for a DFC, working at a message of iMsgQ, at one
\* that had been deferred, or at one that SetClosed completes; and between them.
At == {"idle", "handle", "panic", "loop", "receive", "opened", "runDeferred",
       "drain", "rerun", "completeAll", "completing", "closeDrivers"}

\* What is asked of the driver when a channel is connected, and when it is closed.
Disconnect == {"ECloseMsg", "EDisconnect"}
Connection == Disconnect \cup {"EConnect"}

TypeOK ==
    /\ iState \in [Thread -> {"EFree", "EDelivered", "EAccepted"}]
    /\ iQueue \in [Thread -> Que \cup {Null}]
    /\ iSem \in [Thread -> -1..1]
    /\ iValue \in [Thread -> Connection \cup {"request", "result", "KErrDied"}]
    /\ access \in [Thread -> Nat]
    /\ pc \in [Thread -> Pc]
    /\ closing \in [Thread -> BOOLEAN]
    /\ iTempObj \in [Thread -> BOOLEAN]
    /\ killed \in [Thread -> BOOLEAN]
    /\ iQ \in [Que -> Seq(Thread)]
    /\ iReady \in BOOLEAN
    /\ iMessage \in Thread \cup {Null}
    /\ queued \in BOOLEAN
    /\ localDrive \in BOOLEAN
    /\ handle \in BOOLEAN
    /\ creating \in Thread \cup {Null}
    /\ chan \in Nat \cup {Null}
    /\ at \in At
    /\ back \in {"idle", "loop", "opened"}
    /\ req \in Thread \cup {Null}
    /\ pM \in Thread \cup {Null}
    /\ pL \in Thread \cup {Null}
    /\ mState \in {"EClosed", "EOpening", "EReady"}
    /\ iCurrentReq \in Thread \cup {Null}
    /\ current \in Thread \cup {Null}
    /\ pT \in Thread \cup {Null}
    /\ victim \in Client \cup {Null}
    /\ deleting \in SUBSET Client

Init ==
    /\ iState = [t \in Thread |-> "EFree"]
    /\ iQueue = [t \in Thread |-> Null]
    /\ iSem = [t \in Thread |-> 0]
    /\ iValue = [t \in Thread |-> "result"]
    /\ access = [t \in Thread |-> 1]
    /\ pc = [t \in Thread |-> "run"]
    /\ closing = [t \in Thread |-> FALSE]
    /\ iTempObj = [t \in Thread |-> FALSE]
    /\ killed = [t \in Thread |-> FALSE]
    /\ iQ = [w \in Que |-> <<>>]
    /\ iReady = TRUE /\ iMessage = Null /\ queued = FALSE
    /\ localDrive \in BOOLEAN /\ handle = TRUE /\ chan = 1 /\ creating = Null
    /\ at = "idle" /\ back = "idle" /\ req = Null /\ pM = Null /\ pL = Null
    /\ mState = "EClosed" /\ iCurrentReq = Null /\ current = Null
    /\ pT = Null /\ victim = Null /\ deleting = {}

-----------------------------------------------------------------------------
(* Threads. *)

InCS(t) == closing[t] \/ creating = t \/ pc[t] = "close"

\* Where a thread goes on when it leaves its critical section.
LeaveCS(t) == IF killed[t] THEN "exit" ELSE "run"

\* NKern::ThreadKill: outside a critical section the thread does nothing but exit.
Kill(t) ==
    /\ killed' = [killed EXCEPT ![t] = TRUE]
    /\ IF InCS(t) \/ killed[t]
       THEN UNCHANGED <<pc, iSem>>
       ELSE /\ pc' = [pc EXCEPT ![t] = "exit"]
            /\ iSem' = IF pc[t] = "blocked" THEN [iSem EXCEPT ![t] = 0] ELSE iSem

ThreadKill(t) ==
    /\ t \in Mortal /\ ~killed[t]
    /\ Kill(t)
    /\ UNCHANGED <<iState, iQueue, iValue, access, closing, queues, channel, driver, pT, supervisor>>

\* ExecHandler::ChannelRequest, up to the message.
ChannelRequest(t) ==
    /\ pc[t] = "run" /\ t \in Client /\ handle
    /\ chan' = chan + 1
    /\ iTempObj' = [iTempObj EXCEPT ![t] = TRUE]
    /\ iValue' = [iValue EXCEPT ![t] = "request"]
    /\ pc' = [pc EXCEPT ![t] = "send"]
    /\ UNCHANGED <<iState, iQueue, iSem, access, closing, killed, queues, localDrive, handle, creating, driver, pT, supervisor>>

\* Message x is given to queue w: received at once if somebody waits for it.
Give(x, w) ==
    /\ iQueue' = [iQueue EXCEPT ![x] = w]
    /\ IF w = "main" /\ iReady
       THEN /\ iState' = [iState EXCEPT ![x] = "EAccepted"]
            /\ iMessage' = x /\ iReady' = FALSE /\ queued' = TRUE
            /\ UNCHANGED iQ
       ELSE /\ iState' = [iState EXCEPT ![x] = "EDelivered"]
            /\ iQ' = [iQ EXCEPT ![w] = Append(@, x)]
            /\ UNCHANGED <<iMessage, iReady, queued>>

Send(t) ==
    /\ pc[t] = "send"
    /\ Give(t, "main")
    /\ iSem' = [iSem EXCEPT ![t] = 0]
    /\ access' = [access EXCEPT ![t] = @ + 1]
    /\ pc' = [pc EXCEPT ![t] = "FSWait"]
    /\ UNCHANGED <<iValue, closing, killed, channel, driver, pT, supervisor>>

FSWait(t) ==
    /\ pc[t] = "FSWait"
    /\ iSem' = [iSem EXCEPT ![t] = @ - 1]
    /\ pc' = [pc EXCEPT ![t] = IF iSem[t] > 0 THEN "sent" ELSE "blocked"]
    /\ UNCHANGED <<iState, iQueue, iValue, access, closing, killed, queues, channel, driver, pT, supervisor>>

\* The request has returned: iTempObj is to be closed.
RequestReturns(t) ==
    /\ pc[t] = "sent" /\ ~closing[t] /\ creating # t
    /\ iTempObj' = [iTempObj EXCEPT ![t] = FALSE]
    /\ pc' = [pc EXCEPT ![t] = "close"]
    /\ UNCHANGED <<message, access, closing, killed, queues, localDrive, handle, chan, creating, driver, pT, supervisor>>

HandleClose(t) ==
    /\ pc[t] = "run" /\ t \in Closers /\ handle
    /\ handle' = FALSE
    /\ pc' = [pc EXCEPT ![t] = "close"]
    /\ UNCHANGED <<message, access, closing, killed, queues, localDrive, chan, creating, iTempObj, driver, pT, supervisor>>

\* DLogicalChannel::Close, and for a local drive DObject::Close and its destructor:
\* the last one sends a message first ...
Close(t) ==
    /\ pc[t] = "close"
    /\ chan' = chan - 1
    /\ IF chan = 1
       THEN /\ iValue' = [iValue EXCEPT ![t] = IF localDrive THEN "EDisconnect" ELSE "ECloseMsg"]
            /\ closing' = [closing EXCEPT ![t] = TRUE]
            /\ pc' = [pc EXCEPT ![t] = "send"]
       ELSE /\ pc' = [pc EXCEPT ![t] = LeaveCS(t)]
            /\ UNCHANGED <<iValue, closing>>
    /\ UNCHANGED <<iState, iQueue, iSem, access, killed, queues, localDrive, handle, creating, iTempObj, driver, pT, supervisor>>

\* ... and then deletes the channel.
DeleteChannel(t) ==
    /\ pc[t] = "sent" /\ closing[t]
    /\ chan' = Null
    /\ closing' = [closing EXCEPT ![t] = FALSE]
    /\ pc' = [pc EXCEPT ![t] = LeaveCS(t)]
    /\ UNCHANGED <<message, access, killed, queues, localDrive, handle, creating, iTempObj, driver, pT, supervisor>>

\* ExecHandler::ChannelCreate: a driver with a queue receives as soon as the channel
\* exists; a local drive is connected first, and gets its handle then.
ChannelCreate(t) ==
    /\ pc[t] = "run" /\ t \in Closers /\ ~handle /\ chan = Null
    /\ chan' = 1
    /\ IF localDrive
       THEN /\ creating' = t
            /\ iValue' = [iValue EXCEPT ![t] = "EConnect"]
            /\ pc' = [pc EXCEPT ![t] = "send"]
            /\ UNCHANGED <<handle, iReady, iMessage>>
       ELSE /\ handle' = TRUE
            /\ iReady' = TRUE /\ iMessage' = Null
            /\ UNCHANGED <<creating, iValue, pc>>
    /\ UNCHANGED <<iState, iQueue, iSem, access, closing, killed, iQ, queued, localDrive, iTempObj, driver, pT, supervisor>>

Connected(t) ==
    /\ pc[t] = "sent" /\ creating = t
    /\ creating' = Null /\ handle' = TRUE
    /\ pc' = [pc EXCEPT ![t] = LeaveCS(t)]
    /\ UNCHANGED <<message, access, closing, killed, queues, localDrive, chan, iTempObj, driver, pT, supervisor>>

\* TMessageBase::Cancel, in DThread::Exit: only if nobody has got the message.
CancelMutant(t) ==
    /\ pc[t] = "exit"
    /\ iQ' = [w \in Que |-> SelectSeq(iQ[w], LAMBDA x : x # t)]
    /\ iState' = [iState EXCEPT ![t] = "EFree"]
    /\ iQueue' = [iQueue EXCEPT ![t] = Null]
    /\ pc' = [pc EXCEPT ![t] = IF iState[t] = "EFree" THEN "dead" ELSE "cancelled"]
    /\ UNCHANGED <<iSem, iValue, access, closing, killed, iReady, iMessage, queued, channel, driver, pT, supervisor>>
Cancel(t) ==
    /\ pc[t] = "exit"
    /\ IF iState[t] = "EDelivered"
       THEN /\ iQ' = [iQ EXCEPT ![iQueue[t]] = Without(@, t)]
            /\ iState' = [iState EXCEPT ![t] = "EFree"]
            /\ iQueue' = [iQueue EXCEPT ![t] = Null]
            /\ pc' = [pc EXCEPT ![t] = "cancelled"]
       ELSE /\ pc' = [pc EXCEPT ![t] = "dead"]
            /\ UNCHANGED <<iQ, iState, iQueue>>
    /\ UNCHANGED <<iSem, iValue, access, closing, killed, iReady, iMessage, queued, channel, driver, pT, supervisor>>

\* DObject::AsyncClose.
AsyncCloseMutant(t) ==
    /\ access' = [access EXCEPT ![t] = @ - 1]
    /\ deleting' = IF access[t] = 0 THEN deleting \cup {t} ELSE deleting
AsyncClose(t) ==
    /\ access' = [access EXCEPT ![t] = @ - 1]
    /\ deleting' = IF access[t] = 1 THEN deleting \cup {t} ELSE deleting

CancelCloses(t) ==
    /\ pc[t] = "cancelled"
    /\ AsyncClose(t)
    /\ pc' = [pc EXCEPT ![t] = "dead"]
    /\ UNCHANGED <<message, closing, killed, queues, channel, driver, pT, victim>>

-----------------------------------------------------------------------------
(* The supervisor thread. *)

SvIdle == victim = Null /\ pc[Sup] = "run"

\* DThread::SvKill and Release: the temporary object, later the thread itself.
SvKill(t) ==
    /\ SvIdle /\ pc[t] = "dead"
    /\ victim' = t
    /\ IF iTempObj[t]
       THEN /\ iTempObj' = [iTempObj EXCEPT ![t] = FALSE]
            /\ pc' = [pc EXCEPT ![Sup] = "close"]
       ELSE UNCHANGED <<iTempObj, pc>>
    /\ UNCHANGED <<message, access, closing, killed, queues, localDrive, handle, chan, creating, driver, pT, deleting>>

CloseThread ==
    /\ victim # Null /\ pc[Sup] = "run"
    /\ access' = [access EXCEPT ![victim] = @ - 1]
    /\ pc' = [pc EXCEPT ![victim] = IF access[victim] = 1 THEN "deleted" ELSE "released"]
    /\ victim' = Null
    /\ UNCHANGED <<message, closing, killed, queues, channel, driver, pT, deleting>>

DoAsyncFree ==
    /\ SvIdle /\ deleting # {}
    /\ pc' = [t \in Thread |-> IF t \in deleting THEN "deleted" ELSE pc[t]]
    /\ deleting' = {}
    /\ UNCHANGED <<message, access, closing, killed, queues, channel, driver, pT, victim>>

-----------------------------------------------------------------------------
(* The driver's thread. *)

\* TMessageQue::Receive, and the end of Complete(.., ETrue): the next message of
\* iMsgQ is received, now or when it is sent.  s is iState before that.
ReceiveNext(s) ==
    IF iQ["main"] # <<>>
    THEN LET x == Head(iQ["main"])
         IN  /\ iState' = [s EXCEPT ![x] = "EAccepted"]
             /\ iMessage' = x /\ queued' = TRUE
             /\ iQ' = [iQ EXCEPT !["main"] = Tail(@)]
             /\ UNCHANGED iReady
    ELSE /\ iState' = s
         /\ iReady' = TRUE /\ iMessage' = Null
         /\ UNCHANGED <<iQ, queued>>

\* TMessageBase::Complete, up to the reference to the sender.
Complete(x, r, next) ==
    /\ iValue' = [iValue EXCEPT ![x] = r]
    /\ iQueue' = [iQueue EXCEPT ![x] = Null]
    /\ iSem' = [iSem EXCEPT ![x] = @ + 1]
    /\ pc' = IF pc[x] = "blocked" THEN [pc EXCEPT ![x] = "sent"] ELSE pc
    /\ pT' = x
    /\ LET s == [iState EXCEPT ![x] = "EFree"]
       IN  IF next THEN ReceiveNext(s) ELSE iState' = s /\ UNCHANGED queues
    /\ UNCHANGED <<access, closing, killed, channel, supervisor>>

CompleteCloses ==
    /\ pT # Null
    /\ AsyncClose(pT)
    /\ pT' = Null
    /\ UNCHANGED <<message, pc, closing, killed, queues, channel, driver, victim>>

\* A step of the driver that is at p.
At1(p) == at = p /\ pT = Null

\* MsgQFunc, or handleMsg, calls HandleMsg.
RunMsgDfc ==
    /\ At1("idle") /\ queued
    /\ queued' = FALSE
    /\ req' = iMessage /\ iMessage' = Null /\ at' = "handle"
    /\ UNCHANGED <<message, access, pc, closing, killed, iQ, iReady, channel, back, pM, pL, media, pT, supervisor>>

\* The handler of a channel with its own queue.  It completes a request and receives
\* the next one in one call ...
CompleteAndReceive ==
    /\ At1("handle") /\ ~localDrive /\ iValue[req] = "request"
    /\ Complete(req, "result", TRUE)
    /\ at' = "idle" /\ req' = Null
    /\ UNCHANGED <<back, pM, pL, media>>

\* ... but after the close message it receives no more.
HandleCloseMsgMutant ==
    /\ At1("handle") /\ iValue[req] = "ECloseMsg"
    /\ Complete(req, "result", TRUE)
    /\ at' = "idle" /\ req' = Null
    /\ UNCHANGED <<back, pM, pL, media>>
HandleCloseMsg ==
    /\ At1("handle") /\ iValue[req] = "ECloseMsg"
    /\ Complete(req, "result", FALSE)
    /\ at' = "idle" /\ req' = Null
    /\ UNCHANGED <<back, pM, pL, media>>

\* TMessageBase::PanicClient.
PanicClient ==
    /\ At1("handle") /\ ~localDrive /\ iValue[req] = "request" /\ req \in Mortal
    /\ Kill(req)
    /\ at' = "panic"
    /\ UNCHANGED <<iState, iQueue, iValue, access, closing, queues, channel, back, req, pM, pL, media, pT, supervisor>>

PanicCompletes ==
    /\ At1("panic")
    /\ Complete(req, "KErrDied", TRUE)
    /\ at' = "idle" /\ req' = Null
    /\ UNCHANGED <<back, pM, pL, media>>

-----------------------------------------------------------------------------
(* The thread of a media. *)

\* The driver goes on at p; it returns there if it had to (back is then "idle").
GoOn(p) ==
    /\ at' = p
    /\ back' = IF p = back THEN "idle" ELSE back

\* Runs the deferred requests, and then goes on at b.
CallRunDeferred(b) == at' = "runDeferred" /\ back' = b

\* Where the thread goes when a call ends that a DFC made, or handleMsg: while it
\* is in handleMsg, iMsgQ neither waits for a message nor has one for the DFC.
Caller == IF iReady \/ queued THEN "idle" ELSE "loop"

\* What DoRequest and a media driver that is open may do with x: complete it, ...
Finish(x) ==
    /\ Complete(x, "result", FALSE)
    /\ UNCHANGED media

\* ... start it, ...
Start(x) ==
    /\ current = Null
    /\ current' = x
    /\ UNCHANGED <<message, access, pc, closing, killed, queues, channel, mState, iCurrentReq, pT, supervisor>>

\* ... or have it deferred: each driver of the repository that does so does it
\* just when it has started another, whatever background tasks others may run.
Defer(x) ==
    /\ current # Null
    /\ Give(x, "deferred")
    /\ UNCHANGED <<iSem, iValue, access, pc, closing, killed, channel, media, pT, supervisor>>

\* EConnect and EDisconnect: answered in any state of the media.
HandleConnection ==
    /\ At1("handle") /\ iValue[req] \in {"EConnect", "EDisconnect"}
    /\ Finish(req)
    /\ at' = "loop" /\ req' = Null
    /\ UNCHANGED <<back, pM, pL>>

\* DPrimaryMediaBase::HandleMsg of a request, when the media is ready: a driver that
\* completes it by DMediaDriver::Complete has the deferred requests run, ...
HandleMsg ==
    /\ At1("handle") /\ localDrive /\ iValue[req] = "request" /\ mState = "EReady"
    /\ \/ GoOn("loop") /\ (Finish(req) \/ Start(req) \/ Defer(req))
       \/ CallRunDeferred("loop") /\ Finish(req)
    /\ req' = Null
    /\ UNCHANGED <<pM, pL>>

\* ... while it is being opened, ...
HandleWhileOpening ==
    /\ At1("handle") /\ localDrive /\ iValue[req] = "request" /\ mState = "EOpening"
    /\ Give(req, "deferred")
    /\ at' = "loop" /\ req' = Null
    /\ UNCHANGED <<iSem, iValue, access, pc, closing, killed, channel, back, pM, pL, media, pT, supervisor>>

\* ... and when it is to be opened, which may be done at once.
Open ==
    /\ At1("handle") /\ localDrive /\ iValue[req] = "request" /\ mState = "EClosed"
    /\ mState' = "EOpening" /\ iCurrentReq' = req /\ req' = Null
    /\ at' \in {"loop", "opened"}
    /\ UNCHANGED <<message, access, pc, closing, killed, queues, channel, back, pM, pL, current, pT, supervisor>>

OpenCompletes ==
    /\ At1("idle") /\ mState = "EOpening"
    /\ at' = "opened"
    /\ UNCHANGED <<message, access, pc, closing, killed, queues, channel, back, req, pM, pL, media, pT, supervisor>>

\* PowerUpComplete with an error calls SetClosed.
PowerUpFails ==
    /\ At1("opened") /\ mState = "EOpening"
    /\ at' = "completeAll" /\ back' = Caller
    /\ UNCHANGED <<message, access, pc, closing, killed, queues, channel, req, pM, pL, media, pT, supervisor>>

\* MediaReadyHandleRequest: the request that the media was opened for, and then the
\* deferred ones (also if the driver, by DMediaDriver::Complete, has just had them run).
MediaReady ==
    /\ At1("opened")
    /\ IF iCurrentReq # Null
       THEN /\ mState' = "EReady" /\ iCurrentReq' = Null
            /\ \/ /\ Complete(iCurrentReq, "result", FALSE) /\ UNCHANGED current
                  /\ CallRunDeferred("opened") \/ UNCHANGED <<at, back>>
               \/ /\ current' = iCurrentReq
                  /\ UNCHANGED <<message, access, pc, closing, killed, queues, channel, at, back, pT, supervisor>>
       ELSE /\ CallRunDeferred(Caller)
            /\ UNCHANGED <<message, access, pc, closing, killed, queues, channel, media, pT, supervisor>>
    /\ UNCHANGED <<req, pM, pL>>

\* TMessageQue::Poll of queue w, when there is a message; and when there is none,
\* the driver goes on at p.
Poll(w) ==
    /\ iQ[w] # <<>>
    /\ iState' = [iState EXCEPT ![Head(iQ[w])] = "EAccepted"]
    /\ iQ' = [iQ EXCEPT ![w] = Tail(@)]
    /\ UNCHANGED <<iQueue, iSem, iValue, access, pc, closing, killed, iReady, iMessage, queued, channel, back, pL, media, pT, supervisor>>

GoTo(p) ==
    /\ GoOn(p)
    /\ UNCHANGED <<message, access, pc, closing, killed, queues, channel, req, pM, iCurrentReq, current, pT, supervisor>>

\* handleMsg: as long as there are messages, and then Receive.
PollMain ==
    /\ At1("loop")
    /\ \/ Poll("main") /\ req' = Head(iQ["main"]) /\ at' = "handle" /\ UNCHANGED pM
       \/ iQ["main"] = <<>> /\ GoTo("receive") /\ UNCHANGED <<pL, mState>>

Receive ==
    /\ At1("receive")
    /\ ReceiveNext(iState)
    /\ at' = "idle"
    /\ UNCHANGED <<iQueue, iSem, iValue, access, pc, closing, killed, channel, back, req, pM, pL, media, pT, supervisor>>

\* The request that was started is complete: DMediaDriver::Complete.
CurrentCompletesMutant ==
    /\ At1("idle") /\ current # Null
    /\ Complete(current, "result", FALSE)
    /\ current' = Null
    /\ UNCHANGED <<place, mState, iCurrentReq>>
CurrentCompletes ==
    /\ At1("idle") /\ current # Null
    /\ Complete(current, "result", FALSE)
    /\ current' = Null
    /\ CallRunDeferred("idle")
    /\ UNCHANGED <<req, pM, pL, mState, iCurrentReq>>

\* DPrimaryMediaBase::RunDeferred, up to the request that is last now ...
RunDeferred ==
    /\ At1("runDeferred")
    /\ LET q == iQ["deferred"]
       IN  IF q = <<>> THEN GoTo(back) /\ UNCHANGED pL
           ELSE GoTo("drain") /\ pL' = Last(q)
    /\ UNCHANGED mState

\* ... and its loop, which ends after that one, or when there are no more.
PollDeferred ==
    /\ At1("drain")
    /\ \/ Poll("deferred") /\ pM' = Head(iQ["deferred"]) /\ at' = "rerun" /\ UNCHANGED req
       \/ iQ["deferred"] = <<>> /\ GoTo(back) /\ pL' = Null /\ UNCHANGED mState

RunOneDeferred ==
    /\ At1("rerun")
    /\ Finish(pM) \/ Start(pM) \/ Defer(pM)
    /\ LET p == IF pM = pL THEN back ELSE "drain"
       IN  GoOn(p) /\ pL' = IF p = "drain" THEN pL ELSE Null
    /\ pM' = Null
    /\ UNCHANGED req

\* DPrimaryMediaBase::SetClosed: the medium has gone, or the power.
SetClosed ==
    /\ At1("idle") /\ mState # "EClosed"
    /\ at' = "completeAll"
    /\ UNCHANGED <<message, access, pc, closing, killed, queues, channel, back, req, pM, pL, media, pT, supervisor>>

\* TMessageQue::CompleteAll polls; CompleteCurrent follows it.
CompleteAll ==
    /\ At1("completeAll")
    /\ \/ /\ Poll("deferred") /\ pM' = Head(iQ["deferred"])
          /\ at' = "completing" /\ UNCHANGED req
       \/ /\ iQ["deferred"] = <<>> /\ iCurrentReq # Null
          /\ Complete(iCurrentReq, "result", FALSE)
          /\ iCurrentReq' = Null
          /\ UNCHANGED <<place, mState, current>>
       \/ /\ iQ["deferred"] = <<>> /\ iCurrentReq = Null
          /\ GoTo(IF current = Null THEN back ELSE "closeDrivers")
          /\ mState' = "EClosed" /\ UNCHANGED pL

\* ... and completes.
CompleteOne ==
    /\ At1("completing")
    /\ Complete(pM, "result", FALSE)
    /\ at' = "completeAll" /\ pM' = Null
    /\ UNCHANGED <<back, req, pL, media>>

\* A driver that is closed completes the request it has started; no other is deferred.
\* (A driver that is told of it before SetClosed does so then: CurrentCompletes.)
CloseMediaDrivers ==
    /\ At1("closeDrivers")
    /\ Complete(current, "result", FALSE)
    /\ current' = Null
    /\ GoOn(back)
    /\ UNCHANGED <<req, pM, pL, mState, iCurrentReq>>

-----------------------------------------------------------------------------
DriverStep ==
    \/ CompleteCloses \/ RunMsgDfc \/ CompleteAndReceive \/ HandleCloseMsg
    \/ PanicClient \/ PanicCompletes
    \/ HandleConnection \/ HandleMsg \/ HandleWhileOpening \/ Open \/ PollMain \/ Receive
    \/ OpenCompletes \/ PowerUpFails \/ MediaReady \/ CurrentCompletes
    \/ RunDeferred \/ PollDeferred \/ RunOneDeferred
    \/ CompleteAll \/ CompleteOne \/ CloseMediaDrivers

SupervisorStep == CloseThread \/ DoAsyncFree \/ \E t \in Client : SvKill(t)

\* What a thread goes on to do by itself.
ThreadStep(t) ==
    \/ Send(t) \/ FSWait(t) \/ RequestReturns(t) \/ Close(t) \/ DeleteChannel(t) \/ Connected(t)
    \/ Cancel(t) \/ CancelCloses(t)

Next ==
    \/ DriverStep \/ SetClosed \/ SupervisorStep
    \/ \E t \in Thread : ThreadStep(t)
    \/ \E t \in Client : ThreadKill(t) \/ ChannelRequest(t) \/ HandleClose(t) \/ ChannelCreate(t)

Spec == Init /\ [][Next]_vars

\* Every thread gets to run; the DFCs of the driver, of one priority, are run in the
\* order they were queued in, so that none keeps another out.  The hardware answers.
FairSpec ==
    /\ Spec
    /\ WF_vars(DriverStep) /\ WF_vars(SupervisorStep)
    /\ SF_vars(CurrentCompletes \/ OpenCompletes) /\ SF_vars(RunMsgDfc)
    /\ \A t \in Thread : WF_vars(ThreadStep(t))

-----------------------------------------------------------------------------
(* Properties. *)

\* Who has a message that has been accepted: the DFC that is to handle it, the
\* handler, RunDeferred or CompleteAll, the media that opens, or the hardware.
Holders(t) ==
    {h \in {"dfc", "handler", "deferred", "opening", "hardware"} :
        \/ h = "dfc" /\ iMessage = t
        \/ h = "handler" /\ req = t
        \/ h = "deferred" /\ pM = t
        \/ h = "opening" /\ iCurrentReq = t
        \/ h = "hardware" /\ current = t}

\* A message that is EDelivered is once on the queue it names and on no other,
\* one that is EAccepted has one holder, and one that is EFree has none: only then
\* may its thread reuse it.  Nobody polls a queue that is ready (the asserts in
\* Receive and Poll) and it is empty.
OnePlace ==
    /\ \A w \in Que : Inj(iQ[w])
    /\ \A t \in Thread, w \in Que :
          t \in Range(iQ[w]) <=> iState[t] = "EDelivered" /\ iQueue[t] = w
    /\ \A t \in Thread : iState[t] = "EDelivered" => iQueue[t] # Null
    /\ \A t \in Thread : IF iState[t] = "EAccepted" THEN Cardinality(Holders(t)) = 1
                                                    ELSE Holders(t) = {}
    /\ \A t \in Thread : pc[t] \in {"send", "sent"} => iState[t] = "EFree"
    /\ queued <=> iMessage # Null
    /\ iReady => iQ["main"] = <<>> /\ ~queued /\ at \notin {"handle", "panic", "loop", "receive"}

One(b) == IF b THEN 1 ELSE 0

\* A thread sleeps as long as its message has not been answered, and no longer.
AnsweredOnce ==
    \A t \in Thread :
        /\ pc[t] = "FSWait" => iSem[t] = One(iState[t] = "EFree")
        /\ pc[t] = "blocked" => iSem[t] = -1 /\ iState[t] # "EFree"
        /\ pc[t] \in {"FSWait", "blocked", "sent"} /\ iState[t] = "EFree" =>
              iValue[t] \in {"result", "KErrDied"}

\* A kernel message, reused for every request of its thread, is never in two
\* places, not handed out while somebody has it, and answered once.
MessagesExact == TypeOK /\ OnePlace /\ AnsweredOnce

\* The reference count of a thread is the number of those that have a pointer to
\* it: so it exists as long as a driver has its message.  So does the channel as
\* long as somebody uses it or a message that names it is under way; and if the
\* queue is its own, then until no message is left on it and its DFC is idle, also
\* when threads died with requests that were sent or accepted.
References(t) ==
    One(pc[t] \notin {"released", "deleted"}) + One(iState[t] # "EFree")
    + One(pT = t) + One(pc[t] = "cancelled")
ObjectsKept ==
    /\ \A t \in Thread : access[t] = References(t)
    /\ \A t \in Thread : t \in deleting <=> access[t] = 0 /\ pc[t] = "released"
    /\ chan # Null => chan = One(handle) + One(creating # Null)
                            + Cardinality({t \in Thread : iTempObj[t]})
                            + Cardinality({t \in Thread : pc[t] = "close"})
    /\ chan = Null => /\ ~handle /\ creating = Null
                      /\ \A t \in Thread : ~iTempObj[t]
                      /\ \A t \in Thread : iValue[t] \in Connection => iState[t] = "EFree"
                      /\ ~localDrive => ~iReady /\ ~queued /\ iQ["main"] = <<>> /\ at = "idle"

Waiting(t) == pc[t] \in {"send", "FSWait", "blocked"}

\* The driver's loops come to an end.  Nothing bounds them in the code: handleMsg
\* goes on as long as requests arrive, RunDeferred as long as DoRequest defers
\* them again, if its last one is cancelled meanwhile.
Ends == []<>(at = "idle")

\* If they do, no thread waits for ever: every request, and every message that
\* connects or closes a channel, is answered or its thread is killed; none is
\* forgotten on a queue that nobody receives from, or with a media that closes.
RequestsEnd == Ends => \A t \in Thread : []<>~Waiting(t)

\* And every thread that dies is deleted, whatever has its message or its channel.
\* (A thread that has been killed, or deleted, remains so.)
DeadAreDeleted == Ends => \A t \in Mortal : []<>(killed[t] => pc[t] = "deleted")
=============================================================================
