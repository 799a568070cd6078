--------------------------- MODULE KMsgQueueProofs ---------------------------
(***************************************************************************)
(* DMsgQueue implements the abstract message queue, for any number of      *)
(* slots, of messages and of threads, whatever threads die; and its        *)
(* requests, the statuses and semaphores of the threads and the references *)
(* to them agree.                                                          *)
(***************************************************************************)
EXTENDS KMsgQueue, QueueProofs, SequenceTheorems, FiniteSetTheorems, TLAPS

-----------------------------------------------------------------------------
\* The ring: the pointers meet just when it is empty or full.
RingOK ==
    /\ iMsgPool \in [Slot -> Msg \cup {Null}]
    /\ iFirstFreeSlot \in Slot /\ iFirstFullSlot \in Slot
    /\ iState \in {"EEmpty", "EPartial", "EFull"}
    /\ iState = "EPartial" <=> iFirstFreeSlot # iFirstFullSlot

Entry == Msg \cup {Null}

\* What Send does to the ring.
Sent(x) ==
    /\ iMsgPool' = [iMsgPool EXCEPT ![iFirstFreeSlot] = x]
    /\ iFirstFreeSlot' = NextSlot(iFirstFreeSlot)
    /\ iState' = IF iFirstFreeSlot' = iFirstFullSlot THEN "EFull" ELSE "EPartial"
    /\ UNCHANGED iFirstFullSlot

\* What Receive does to it.
Received ==
    /\ iFirstFullSlot' = NextSlot(iFirstFullSlot)
    /\ iState' = IF iFirstFreeSlot = iFirstFullSlot' THEN "EEmpty" ELSE "EPartial"
    /\ UNCHANGED <<iMsgPool, iFirstFreeSlot>>

LEMMA StoredBounds ==
    ASSUME RingOK
    PROVE  /\ Stored \in 0..Slots
           /\ Stored = 0 <=> iState = "EEmpty"
           /\ Stored = Slots <=> iState = "EFull"
           /\ \A i \in 1..Stored : SlotOf(i) \in Slot
           /\ \A i \in 1..Stored : iState # "EFull" => SlotOf(i) # iFirstFreeSlot
BY MsgQueueAssumption, SMTT(60) DEF RingOK, Stored, SlotOf, Slot

LEMMA ContentsSeq ==
    ASSUME RingOK
    PROVE  /\ Contents \in Seq(Entry) /\ Len(Contents) = Stored
           /\ DOMAIN Contents = 1..Stored
           /\ \A i \in 1..Stored : Contents[i] = iMsgPool[SlotOf(i)]
<1>1. Stored \in Nat /\ \A i \in 1..Stored : iMsgPool[SlotOf(i)] \in Entry
  BY StoredBounds DEF RingOK, Entry
<1>2. Contents \in [1..Stored -> Entry]
  BY <1>1 DEF Contents
<1> QED
  BY <1>1, <1>2 DEF Contents

\* A message that is sent becomes the last one.
LEMMA SendAppends ==
    ASSUME RingOK, iState # "EFull", NEW x \in Msg, Sent(x)
    PROVE  /\ RingOK'
           /\ Len(Contents) < Slots
           /\ Contents' = Append(Contents, x)
<1>1. RingOK'
  BY MsgQueueAssumption DEF RingOK, Sent, NextSlot, Slot
<1>2. Stored' = Stored + 1 /\ Stored < Slots /\ Stored \in Nat
  <2>1. Stored < Slots /\ Stored \in Nat
    BY StoredBounds, MsgQueueAssumption
  <2>2. Stored' = Stored + 1
    BY MsgQueueAssumption, SMTT(60) DEF RingOK, Sent, NextSlot, Slot, Stored
  <2> QED
    BY <2>1, <2>2
<1>3. \A i \in 1..Stored : SlotOf(i)' = SlotOf(i)
  BY DEF SlotOf, Sent
<1>4. ASSUME NEW n \in Nat, n = Stored + 1
      PROVE  SlotOf(n)' = iFirstFreeSlot
  BY <1>4, MsgQueueAssumption, SMTT(60) DEF RingOK, Sent, Slot, Stored, SlotOf
<1>5. \A i \in 1..Stored : Contents'[i] = Contents[i]
  <2> SUFFICES ASSUME NEW i \in 1..Stored PROVE Contents'[i] = Contents[i]
    OBVIOUS
  <2>1. Contents'[i] = iMsgPool'[SlotOf(i)]
    BY <1>1, <1>2, <1>3, ContentsSeq DEF Contents
  <2>2. SlotOf(i) \in Slot /\ SlotOf(i) # iFirstFreeSlot
    BY StoredBounds
  <2> QED
    BY <2>1, <2>2, ContentsSeq DEF Sent, RingOK
<1>6. ASSUME NEW n \in Nat, n = Stored + 1
      PROVE  Contents'[n] = x
  BY <1>2, <1>4, <1>6 DEF Contents, Sent, RingOK
<1>7. /\ Contents \in Seq(Entry) /\ Len(Contents) = Stored
      /\ Contents' \in Seq(Entry) /\ Len(Contents') = Stored + 1
  <2>1. (Contents \in Seq(Entry) /\ Len(Contents) = Stored)'
    BY <1>1, ContentsSeq, PTL
  <2> QED
    BY <2>1, <1>2, ContentsSeq DEF Entry
<1>8. Append(Contents, x) \in Seq(Entry) /\ Len(Append(Contents, x)) = Stored + 1
  BY <1>7, <1>2 DEF Entry
<1>9. \A i \in 1..(Stored + 1) : Contents'[i] = Append(Contents, x)[i]
  BY <1>2, <1>5, <1>6, <1>7
<1>10. Contents' = Append(Contents, x)
  BY <1>7, <1>8, <1>9, SeqEqual
<1> QED
  BY <1>1, <1>2, <1>7, <1>10

\* The message that is received was the first one.
LEMMA ReceiveTakesFirst ==
    ASSUME RingOK, iState # "EEmpty", Received
    PROVE  /\ RingOK'
           /\ Contents # <<>>
           /\ Contents' = Tail(Contents)
<1>1. RingOK'
  BY MsgQueueAssumption DEF RingOK, Received, NextSlot, Slot
<1>2. Stored' = Stored - 1 /\ Stored > 0 /\ Stored \in Nat
  <2>1. Stored > 0 /\ Stored \in Nat
    BY StoredBounds, MsgQueueAssumption
  <2>2. Stored' = Stored - 1
    BY MsgQueueAssumption, SMTT(60) DEF RingOK, Received, NextSlot, Slot, Stored
  <2> QED
    BY <2>1, <2>2
<1>3. \A i \in 1..(Stored - 1) : SlotOf(i)' = SlotOf(i + 1)
  <2> SUFFICES ASSUME NEW i \in 1..(Stored - 1) PROVE SlotOf(i)' = SlotOf(i + 1)
    OBVIOUS
  <2>1. i \in Nat \ {0} /\ i < Slots
    BY <1>2, StoredBounds, MsgQueueAssumption
  <2>2. iFirstFullSlot + 1 # Slots => SlotOf(i)' = SlotOf(i + 1)
    BY <2>1, MsgQueueAssumption DEF RingOK, Received, NextSlot, Slot, SlotOf
  <2>3. iFirstFullSlot + 1 = Slots => SlotOf(i)' = SlotOf(i + 1)
    <3> SUFFICES ASSUME iFirstFullSlot + 1 = Slots PROVE SlotOf(i)' = SlotOf(i + 1)
      OBVIOUS
    <3>1. Slots \in Nat /\ iFirstFullSlot = Slots - 1 /\ iFirstFullSlot' = 0
      BY MsgQueueAssumption DEF RingOK, Received, NextSlot, Slot
    <3>2. SlotOf(i)' = i - 1
      BY <2>1, <3>1 DEF SlotOf
    <3>3. SlotOf(i + 1) = i - 1
      BY <2>1, <3>1 DEF SlotOf
    <3> QED
      BY <3>2, <3>3
  <2> QED
    BY <2>2, <2>3
<1>4. /\ Contents \in Seq(Entry) /\ Len(Contents) = Stored
      /\ Contents' \in Seq(Entry) /\ Len(Contents') = Stored - 1
  <2>1. (Contents \in Seq(Entry) /\ Len(Contents) = Stored)'
    BY <1>1, ContentsSeq, PTL
  <2> QED
    BY <2>1, <1>2, ContentsSeq DEF Entry
<1>5. Contents # <<>>
  BY <1>2, <1>4
<1>6. /\ Tail(Contents) \in Seq(Entry) /\ Len(Tail(Contents)) = Stored - 1
      /\ \A i \in 1..(Stored - 1) : Tail(Contents)[i] = Contents[i + 1]
  BY <1>4, <1>5, HeadTailProperties
<1>7. \A i \in 1..(Stored - 1) : Contents'[i] = Tail(Contents)[i]
  <2> SUFFICES ASSUME NEW i \in 1..(Stored - 1) PROVE Contents'[i] = Contents[i + 1]
    BY <1>6
  <2>1. Contents'[i] = iMsgPool'[SlotOf(i + 1)]
    BY <1>2, <1>3 DEF Contents
  <2>2. i + 1 \in 1..Stored
    BY <1>2
  <2> QED
    BY <2>1, <2>2, ContentsSeq DEF Received
<1>8. Contents' = Tail(Contents)
  BY <1>4, <1>6, <1>7, SeqEqual
<1> QED
  BY <1>1, <1>5, <1>8
-----------------------------------------------------------------------------
\* What the destructor of the queue has passed: nobody waits there any more.  It runs
\* when the handle is closed, so that no new request is made.
DtorPc == {"flash", "dtor", "dtorSignal", "dtorClose", "dtorFlash", "dtorFree"}

DtorPassed(t) ==
    /\ queue = "closed"
    /\ pc[t] \in {"dtorSignal", "dtorClose", "dtorFlash"} => request[arg[t]] # "EReady"
    /\ pc[t] \notin {"flash", "dtorFree"} /\ arg[t] = "space" => request["data"] # "EReady"
    /\ pc[t] = "dtorFree" => request["data"] # "EReady" /\ request["space"] # "EReady"

Types ==
    /\ waiting \in [Kind -> Client \cup {Null}]
    /\ request \in [Kind -> {"null", "EFree", "EReady", "EInUse", "EClosing", "freed"}]
    /\ pc \in [Client -> Pc]
    /\ arg \in [Client -> Kind]

IInv ==
    /\ RingOK
    /\ Types
    /\ \A k \in Kind : request[k] = "EReady" => queue # "none"
    /\ \A t \in Client : pc[t] \in DtorPc => DtorPassed(t)

QStep == Q!QNext \/ UNCHANGED Q!qvars

LEMMA RingKept ==
    ASSUME RingOK, UNCHANGED ring
    PROVE  RingOK' /\ Contents' = Contents
BY DEF RingOK, ring, Contents, Stored, SlotOf

\* A step at most one request is ended by.
LEMMA LeaveStep ==
    ASSUME NEW k, IInv, UNCHANGED ring, Types',
           \A x \in Kind \ {k} : request'[x] = request[x] /\ waiting'[x] = waiting[x],
           k \in Kind => request'[k] # "EReady" \/ waiting'[k] = Null
    PROVE  QStep
<1>1. Contents' = Contents
  BY RingKept DEF IInv
<1>2. CASE k \in Kind
  <2>1. Waiter' = [Waiter EXCEPT ![k] = Null]
    BY <1>2 DEF Waiter, IInv, Types
  <2>2. Q!Leave(k)
    BY <1>1, <2>1 DEF Q!Leave
  <2> QED
    BY <1>2, <2>2 DEF QStep, Q!QNext, Kind
<1>3. CASE k \notin Kind
  <2>1. Waiter' = Waiter
    BY <1>3 DEF Waiter, IInv, Types
  <2> QED
    BY <1>1, <2>1 DEF QStep, Q!qvars
<1> QED
  BY <1>2, <1>3

\* A step that the queue does not take part in.
LEMMA QuietStep ==
    ASSUME IInv, UNCHANGED <<queue, ring, waiting, request>>, Types',
           \A t \in Client : pc'[t] \in DtorPc =>
               DtorPassed(t)' \/ (pc'[t] = pc[t] /\ arg'[t] = arg[t])
    PROVE  IInv' /\ QStep
<1>1. RingOK' /\ Contents' = Contents
  BY RingKept DEF IInv
<1>2. Waiter' = Waiter
  BY DEF Waiter
<1>3. QStep
  BY <1>1, <1>2 DEF QStep, Q!qvars
<1>4. IInv'
  BY <1>1 DEF IInv, DtorPassed
<1> QED
  BY <1>3, <1>4

\* A step by which no thread gets into the destructor and no request becomes ready.
LEMMA EndingStep ==
    ASSUME IInv, UNCHANGED queue, RingOK', Types',
           \A k \in Kind : request'[k] = "EReady" => request[k] = "EReady",
           \A t \in Client : pc'[t] \in DtorPc => pc'[t] = pc[t] /\ arg'[t] = arg[t]
    PROVE  IInv'
BY DEF IInv, DtorPassed, Types, Kind
-----------------------------------------------------------------------------
\* Each action is a step of the abstract queue or none, and keeps the invariant.

\* Those of the threads that leave the requests and the ring alone.
LEMMA UserSteps ==
    ASSUME IInv, NEW t \in Client,
           \/ Call(t) \/ WaitForRequest(t) \/ Wake(t) \/ HandleRequest(t) \/ Exit(t)
    PROVE  IInv' /\ QStep
<1>1. UNCHANGED <<queue, ring, waiting, request, arg>>
  BY DEF Call, WaitForRequest, Wake, HandleRequest, Exit, requests
<1>2. /\ pc' \in [Client -> Pc]
      /\ \A u \in Client : pc'[u] \in DtorPc => pc'[u] = pc[u]
  BY DEF Call, WaitForRequest, Wake, HandleRequest, Exit, GoTo, IInv, Types, Pc, DtorPc
<1> QED
  BY <1>1, <1>2, QuietStep DEF IInv, Types

LEMMA ExecSteps ==
    ASSUME IInv, NEW t \in Client,
           \/ Signal(t) \/ AsyncDelete(t) \/ AsyncClose(t) \/ BadHandle(t)
           \/ \E k \in Kind : NotifyPanics(t, k)
           \/ \E u \in Client : Kill(t, u)
    PROVE  IInv' /\ QStep
<1>1. UNCHANGED <<queue, ring, waiting, request>>
  BY DEF Signal, AsyncDelete, AsyncClose, BadHandle, NotifyPanics, Kill, Panic, requests
<1>2. /\ pc' \in [Client -> Pc] /\ arg' \in [Client -> Kind]
      /\ \A u \in Client : pc'[u] \in DtorPc => pc'[u] = pc[u] /\ arg'[u] = arg[u]
  BY DEF Signal, AsyncDelete, AsyncClose, BadHandle, NotifyPanics, Kill, Panic, Return, GoTo,
         IInv, Types, Pc, DtorPc, Kind
<1> QED
  BY <1>1, <1>2, QuietStep DEF IInv, Types

LEMMA SupervisorSteps ==
    ASSUME IInv,
           \/ \E u \in Client : SvKill(u)
           \/ DoDeadClientCleanup \/ TakeCallbacks \/ CloseThread \/ FlashThread \/ DoAsyncFree
    PROVE  IInv' /\ QStep
<1>1. UNCHANGED <<queue, ring, waiting, request, arg>>
  BY DEF SvKill, DoDeadClientCleanup, TakeCallbacks, CloseThread, FlashThread, DoAsyncFree, requests
<1>2. /\ pc' \in [Client -> Pc]
      /\ \A u \in Client : pc'[u] \in DtorPc => pc'[u] = pc[u]
  BY DEF SvKill, DoDeadClientCleanup, TakeCallbacks, CloseThread, FlashThread, DoAsyncFree,
         GoTo, IInv, Types, Pc, DtorPc
<1> QED
  BY <1>1, <1>2, QuietStep DEF IInv, Types

\* The destructor, where it does not change a request.
LEMMA DtorQuietSteps ==
    ASSUME IInv, NEW t \in Client, FlashQueue(t) \/ DtorSignal(t) \/ DtorFlash(t)
    PROVE  IInv' /\ QStep
<1>1. UNCHANGED <<queue, ring, waiting, request>>
  BY DEF FlashQueue, DtorSignal, DtorFlash, requests
<1>2. pc' \in [Client -> Pc] /\ arg' \in [Client -> Kind]
  BY DEF FlashQueue, DtorSignal, DtorFlash, GoTo, IInv, Types, Pc, Kind
<1>3. CASE FlashQueue(t)
  <2>1. \A u \in Client : pc'[u] \in DtorPc =>
            DtorPassed(u)' \/ (pc'[u] = pc[u] /\ arg'[u] = arg[u])
    BY <1>1, <1>3 DEF FlashQueue, GoTo, IInv, Types, DtorPc, DtorPassed
  <2> QED
    BY <1>1, <1>2, <2>1, QuietStep DEF IInv, Types
<1>4. CASE DtorSignal(t)
  <2>1. \A u \in Client : pc'[u] \in DtorPc =>
            DtorPassed(u)' \/ (pc'[u] = pc[u] /\ arg'[u] = arg[u])
    BY <1>1, <1>4 DEF DtorSignal, GoTo, IInv, Types, DtorPc, DtorPassed
  <2> QED
    BY <1>1, <1>2, <2>1, QuietStep DEF IInv, Types
<1>5. CASE DtorFlash(t)
  <2>1. \A u \in Client : pc'[u] \in DtorPc =>
            DtorPassed(u)' \/ (pc'[u] = pc[u] /\ arg'[u] = arg[u])
    BY <1>1, <1>5 DEF DtorFlash, IInv, Types, DtorPc, DtorPassed, Kind
  <2> QED
    BY <1>1, <1>2, <2>1, QuietStep DEF IInv, Types
<1> QED
  BY <1>3, <1>4, <1>5

\* A callback frees its request, which was in use.
LEMMA MakeFreeStep ==
    ASSUME IInv, NEW k, MakeFree(k), UNCHANGED <<queue, ring, waiting, pc, arg>>
    PROVE  IInv' /\ QStep
<1>1. Types' /\ \A x \in Kind : request'[x] = "EReady" => request[x] = "EReady"
  BY DEF MakeFree, IInv, Types
<1>2. IInv'
  BY <1>1, RingKept, EndingStep DEF IInv
<1>3. /\ \A x \in Kind \ {k} : request'[x] = request[x] /\ waiting'[x] = waiting[x]
      /\ k \in Kind => request'[k] # "EReady"
  BY DEF MakeFree, IInv, Types
<1> QED
  BY <1>1, <1>2, <1>3, LeaveStep

LEMMA CallbackSteps ==
    ASSUME IInv, CancelCallback \/ \E t \in Client : CallUserModeCallback(t)
    PROVE  IInv' /\ QStep
<1>1. PICK k : MakeFree(k)
  BY DEF CancelCallback, CallUserModeCallback
<1>2. UNCHANGED <<queue, ring, waiting, pc, arg>>
  BY DEF CancelCallback, CallUserModeCallback
<1> QED
  BY <1>1, <1>2, MakeFreeStep
\* A completion makes nobody wait, and takes its thread nowhere near the destructor.
LEMMA Completion ==
    ASSUME IInv, NEW t \in Client, NEW k \in Kind, NEW r, CompleteRequestIfPending(t, k, r)
    PROVE  /\ Types' /\ waiting' = [waiting EXCEPT ![k] = Null]
           /\ request'[k] # "EReady" \/ waiting'[k] = Null
           /\ \A x \in Kind \ {k} : request'[x] = request[x]
           /\ \A x \in Kind : request'[x] = "EReady" => request[x] = "EReady"
           /\ \A u \in Client : pc'[u] \in DtorPc => pc'[u] = pc[u] /\ arg'[u] = arg[u]
<1> USE DEF IInv, Types
<1>1. waiting' = [waiting EXCEPT ![k] = Null]
  BY DEF CompleteRequestIfPending
<1>2. CASE request[k] # "EReady"
  BY <1>1, <1>2 DEF CompleteRequestIfPending, requests, Return, GoTo, Pc, DtorPc
<1>3. CASE request[k] = "EReady" /\ access[waiting[k]] = 1
  BY <1>1, <1>3 DEF CompleteRequestIfPending, GoTo, Pc, DtorPc
<1>4. CASE request[k] = "EReady" /\ access[waiting[k]] # 1
  BY <1>1, <1>4 DEF CompleteRequestIfPending, QueueRequestComplete, GoTo, Pc, DtorPc
<1> QED
  BY <1>2, <1>3, <1>4

LEMMA CancelSteps ==
    ASSUME IInv, NEW t \in Client, NEW k \in Kind, Cancel(t, k)
    PROVE  IInv' /\ QStep
<1>1. UNCHANGED <<queue, ring>> /\ CompleteRequestIfPending(t, k, "KErrCancel")
  BY DEF Cancel
<1>2. /\ Types' /\ waiting' = [waiting EXCEPT ![k] = Null]
      /\ \A x \in Kind \ {k} : request'[x] = request[x]
      /\ \A x \in Kind : request'[x] = "EReady" => request[x] = "EReady"
      /\ \A u \in Client : pc'[u] \in DtorPc => pc'[u] = pc[u] /\ arg'[u] = arg[u]
  BY <1>1, Completion
<1>3. IInv'
  BY <1>1, <1>2, RingKept, EndingStep DEF IInv
<1>4. /\ \A x \in Kind \ {k} : waiting'[x] = waiting[x]
      /\ waiting'[k] = Null
  BY <1>2 DEF IInv, Types
<1> QED
  BY <1>1, <1>2, <1>3, <1>4, LeaveStep

\* A message sent ends a wait for data, one received a wait for space.
LEMMA SendSteps ==
    ASSUME IInv, NEW t \in Client, Send(t)
    PROVE  IInv' /\ QStep
<1>1. CASE iState = "EFull"
  <2>1. UNCHANGED <<queue, ring, waiting, request, arg>>
    BY <1>1 DEF Send, requests
  <2>2. /\ pc' \in [Client -> Pc]
        /\ \A u \in Client : pc'[u] \in DtorPc => pc'[u] = pc[u]
    BY <1>1 DEF Send, Return, GoTo, IInv, Types, Pc, DtorPc
  <2> QED
    BY <2>1, <2>2, QuietStep DEF IInv, Types
<1>2. CASE iState # "EFull"
  <2>1. PICK x \in Msg : iMsgPool' = [iMsgPool EXCEPT ![iFirstFreeSlot] = x]
    BY <1>2 DEF Send
  <2>2. Sent(x) /\ UNCHANGED queue /\ CompleteRequestIfPending(t, "data", "KErrNone")
    BY <1>2, <2>1 DEF Send, Sent
  <2>3. RingOK' /\ Len(Contents) < Slots /\ Contents' = Append(Contents, x)
    BY <1>2, <2>2, SendAppends DEF IInv
  <2>4. /\ Types' /\ waiting' = [waiting EXCEPT !["data"] = Null]
        /\ request'["space"] = request["space"]
        /\ \A y \in Kind : request'[y] = "EReady" => request[y] = "EReady"
        /\ \A u \in Client : pc'[u] \in DtorPc => pc'[u] = pc[u] /\ arg'[u] = arg[u]
    BY <2>2, Completion DEF Kind
  <2>5. IInv'
    BY <2>2, <2>3, <2>4, EndingStep
  <2>6. Waiter' = [Waiter EXCEPT !["data"] = Null]
    BY <2>4 DEF Waiter, IInv, Types, Kind
  <2>7. Q!Put(x)
    BY <2>3, <2>6 DEF Q!Put
  <2> QED
    BY <2>5, <2>7 DEF QStep, Q!QNext
<1> QED
  BY <1>1, <1>2

LEMMA ReceiveSteps ==
    ASSUME IInv, NEW t \in Client, Receive(t)
    PROVE  IInv' /\ QStep
<1>1. CASE iState = "EEmpty"
  <2>1. UNCHANGED <<queue, ring, waiting, request, arg>>
    BY <1>1 DEF Receive, requests
  <2>2. /\ pc' \in [Client -> Pc]
        /\ \A u \in Client : pc'[u] \in DtorPc => pc'[u] = pc[u]
    BY <1>1 DEF Receive, Return, GoTo, IInv, Types, Pc, DtorPc
  <2> QED
    BY <2>1, <2>2, QuietStep DEF IInv, Types
<1>2. CASE iState # "EEmpty"
  <2>1. Received /\ UNCHANGED queue /\ CompleteRequestIfPending(t, "space", "KErrNone")
    BY <1>2 DEF Receive, Received
  <2>2. RingOK' /\ Contents # <<>> /\ Contents' = Tail(Contents)
    BY <1>2, <2>1, ReceiveTakesFirst DEF IInv
  <2>3. /\ Types' /\ waiting' = [waiting EXCEPT !["space"] = Null]
        /\ request'["data"] = request["data"]
        /\ \A y \in Kind : request'[y] = "EReady" => request[y] = "EReady"
        /\ \A u \in Client : pc'[u] \in DtorPc => pc'[u] = pc[u] /\ arg'[u] = arg[u]
    BY <2>1, Completion DEF Kind
  <2>4. IInv'
    BY <2>1, <2>2, <2>3, EndingStep
  <2>5. Waiter' = [Waiter EXCEPT !["space"] = Null]
    BY <2>3 DEF Waiter, IInv, Types, Kind
  <2>6. Q!Get
    BY <2>2, <2>5 DEF Q!Get
  <2> QED
    BY <2>4, <2>6 DEF QStep, Q!QNext
<1> QED
  BY <1>1, <1>2
\* A thread that asks in vain waits; one that need not wait, or whose request is in use, does not.
LEMMA NotifySteps ==
    ASSUME IInv, NEW t \in Client, NEW k \in Kind, Notify(t, k)
    PROVE  IInv' /\ QStep
<1> DEFINE ready == IF k = "space" THEN iState # "EFull" ELSE iState # "EEmpty"
<1>1. /\ UNCHANGED <<queue, ring, arg>> /\ queue = "open"
      /\ \A x \in Kind \ {k} : request'[x] = request[x] /\ waiting'[x] = waiting[x]
  BY DEF Notify, IInv, Types
<1>2. Types' /\ \A u \in Client : pc'[u] \in DtorPc => pc'[u] = pc[u]
  <2>1. pc' \in [Client -> Pc] /\ \A u \in Client : pc'[u] \in DtorPc => pc'[u] = pc[u]
    BY DEF Notify, Return, GoTo, IInv, Types, Pc, DtorPc
  <2>2. waiting' \in [Kind -> Client \cup {Null}]
    BY DEF Notify, IInv, Types
  <2>3. request' \in [Kind -> {"null", "EFree", "EReady", "EInUse", "EClosing", "freed"}]
    BY DEF Notify, IInv, Types
  <2> QED
    BY <1>1, <2>1, <2>2, <2>3 DEF IInv, Types
<1>3. IInv'
  <2>1. RingOK'
    BY <1>1, RingKept DEF IInv
  <2>2. \A u \in Client : pc'[u] \notin DtorPc
    BY <1>1, <1>2 DEF IInv, DtorPassed
  <2> QED
    BY <1>1, <1>2, <2>1, <2>2 DEF IInv
<1>4. CASE ready
  <2>1. waiting'[k] = Null
    BY <1>4 DEF Notify, IInv, Types
  <2> QED
    BY <1>1, <1>2, <1>3, <2>1, LeaveStep
<1>5. CASE ~ready /\ (request[k] = "EReady" \/ request[k] = "EFree")
  <2>1. waiting' = [waiting EXCEPT ![k] = t] /\ request' = [request EXCEPT ![k] = "EReady"]
    BY <1>5 DEF Notify
  <2>2. Waiter' = [Waiter EXCEPT ![k] = t]
    BY <2>1 DEF Waiter, IInv, Types
  <2>3. Contents' = Contents
    BY <1>1, RingKept DEF IInv
  <2>4. IF k = "data" THEN Contents = <<>> ELSE Len(Contents) = Slots
    <3>1. IF k = "data" THEN Stored = 0 ELSE Stored = Slots
      BY <1>5, StoredBounds DEF Kind, IInv
    <3>2. Contents \in Seq(Entry) /\ Len(Contents) = Stored
      BY ContentsSeq DEF IInv
    <3> QED
      BY <3>1, <3>2
  <2>5. Q!Ask(k, t)
    BY <2>2, <2>3, <2>4 DEF Q!Ask
  <2> QED
    BY <1>3, <2>5 DEF QStep, Q!QNext, Kind
<1>6. CASE ~ready /\ request[k] # "EReady" /\ request[k] # "EFree"
  <2>1. request'[k] # "EReady"
    BY <1>6 DEF Notify, IInv, Types
  <2> QED
    BY <1>1, <1>2, <1>3, <2>1, LeaveStep
<1> QED
  BY <1>4, <1>5, <1>6

\* The queue comes into being and loses its handle.
LEMMA HandleSteps ==
    ASSUME IInv, NEW t \in Client, Create(t) \/ HandleClose(t)
    PROVE  IInv' /\ QStep
<1>1. UNCHANGED <<ring, waiting, arg>>
  BY DEF Create, HandleClose
<1>2. RingOK' /\ Contents' = Contents
  BY <1>1, RingKept DEF IInv
<1>3. pc' \in [Client -> Pc]
  BY DEF Create, HandleClose, GoTo, IInv, Types, Pc
<1>4. CASE Create(t)
  <2>1. queue = "none" /\ \A k \in Kind : request[k] # "EReady"
    BY <1>4 DEF Create, IInv
  <2>2. /\ request' \in [Kind -> {"null", "EFree", "EReady", "EInUse", "EClosing", "freed"}]
        /\ \A k \in Kind : request'[k] # "EReady"
    BY <1>4 DEF Create
  <2>3. \A u \in Client : pc[u] \notin DtorPc
    BY <2>1 DEF IInv, DtorPassed
  <2>4. \A u \in Client : pc'[u] \in DtorPc => pc'[u] = "flash" /\ queue' = "closed"
    BY <1>4, <2>3 DEF Create, GoTo, DtorPc, IInv, Types
  <2>5. IInv'
    BY <1>1, <1>2, <1>3, <2>2, <2>4 DEF IInv, Types, DtorPassed
  <2>6. Waiter' = Waiter
    BY <2>1, <2>2 DEF Waiter
  <2> QED
    BY <1>2, <2>5, <2>6 DEF QStep, Q!qvars
<1>5. CASE HandleClose(t)
  <2>1. /\ UNCHANGED request /\ queue = "open" /\ queue' = "closed"
        /\ pc' = [pc EXCEPT ![t] = "flash"]
    BY <1>5 DEF HandleClose, GoTo, requests
  <2>2. \A u \in Client : pc'[u] \in DtorPc => pc'[u] = "flash"
    BY <2>1 DEF IInv, DtorPassed, Types
  <2>3. IInv'
    BY <1>1, <1>2, <1>3, <2>1, <2>2 DEF IInv, Types, DtorPassed
  <2>4. Waiter' = Waiter
    BY <1>1, <2>1 DEF Waiter
  <2> QED
    BY <1>2, <2>3, <2>4 DEF QStep, Q!qvars
<1> QED
  BY <1>4, <1>5

\* The destructor ends the wait for a request and goes on to the next.
LEMMA DtorCompleteStep ==
    ASSUME IInv, NEW t \in Client, DtorComplete(t)
    PROVE  IInv' /\ QStep
<1> DEFINE k == arg[t]
<1>1. UNCHANGED <<queue, ring, waiting>> /\ k \in Kind /\ pc[t] = "dtor"
  BY DEF DtorComplete, IInv, Types
<1>2. RingOK'
  BY <1>1, RingKept DEF IInv
<1>3. CASE request[k] = "EReady"
  <2>1. /\ request' = [request EXCEPT ![k] = "EInUse"] /\ UNCHANGED arg
        /\ pc' = [pc EXCEPT ![t] = "dtorSignal"]
    BY <1>3 DEF DtorComplete, QueueRequestComplete, GoTo
  <2>2. Types'
    BY <1>1, <2>1 DEF IInv, Types, Pc
  <2>3. \A u \in Client : pc'[u] \in DtorPc => DtorPassed(u)'
    BY <1>1, <2>1 DEF IInv, Types, DtorPassed, DtorPc, Kind
  <2>4. IInv'
    BY <1>1, <1>2, <2>1, <2>2, <2>3 DEF IInv, Types
  <2>5. \A x \in Kind \ {k} : request'[x] = request[x]
    BY <2>1 DEF IInv, Types
  <2>6. request'[k] # "EReady"
    BY <1>1, <2>1 DEF IInv, Types
  <2> QED
    BY <1>1, <2>2, <2>4, <2>5, <2>6, LeaveStep
<1>4. CASE request[k] # "EReady"
  <2>1. UNCHANGED request
    BY <1>4 DEF DtorComplete, requests
  <2>2. UNCHANGED <<pc, arg>> \/ NextRequest(t)
    BY <1>4 DEF DtorComplete
  <2>3. Types'
    BY <1>1, <2>1, <2>2 DEF NextRequest, GoTo, IInv, Types, Pc, Kind
  <2>4. \A u \in Client : pc'[u] \in DtorPc =>
            DtorPassed(u)' \/ (pc'[u] = pc[u] /\ arg'[u] = arg[u])
    BY <1>1, <1>4, <2>1, <2>2 DEF NextRequest, GoTo, IInv, Types, DtorPassed, DtorPc, Kind
  <2> QED
    BY <1>1, <2>1, <2>3, <2>4, QuietStep
<1> QED
  BY <1>3, <1>4

LEMMA DtorCloseStep ==
    ASSUME IInv, NEW t \in Client, DtorClose(t)
    PROVE  IInv' /\ QStep
<1> DEFINE k == arg[t]
<1>1. /\ UNCHANGED <<queue, ring, request>> /\ k \in Kind /\ pc[t] = "dtorClose"
      /\ waiting' = [waiting EXCEPT ![k] = Null]
  BY DEF DtorClose, requests, IInv, Types
<1>2. \/ pc' = [pc EXCEPT ![t] = "dtorFlash"] /\ UNCHANGED arg
      \/ NextRequest(t)
  BY DEF DtorClose, GoTo
<1>3. Types'
  BY <1>1, <1>2 DEF NextRequest, GoTo, IInv, Types, Pc, Kind
<1>4. \A u \in Client : pc'[u] \in DtorPc => DtorPassed(u)'
  <2>1. request[k] # "EReady" /\ (k = "space" => request["data"] # "EReady")
        /\ queue = "closed"
    BY <1>1 DEF IInv, DtorPassed, DtorPc
  <2> QED
    BY <1>1, <1>2, <2>1 DEF NextRequest, GoTo, IInv, Types, DtorPassed, DtorPc, Kind
<1>5. IInv'
  BY <1>1, <1>3, <1>4, RingKept DEF IInv
<1>6. /\ \A x \in Kind \ {k} : request'[x] = request[x] /\ waiting'[x] = waiting[x]
      /\ waiting'[k] = Null
  BY <1>1 DEF IInv, Types
<1> QED
  BY <1>1, <1>3, <1>5, <1>6, LeaveStep

\* The queue is empty, and nobody waits, when its memory is freed.
LEMMA DtorFreeStep ==
    ASSUME IInv, NEW t \in Client, DtorFree(t)
    PROVE  IInv' /\ QStep
<1>1. /\ UNCHANGED <<queue, waiting, arg>>
      /\ \A k \in Kind : request[k] # "EReady" /\ request'[k] # "EReady"
  <2>1. request["data"] # "EReady" /\ request["space"] # "EReady"
    BY DEF DtorFree, IInv, DtorPassed, DtorPc
  <2>2. \A k \in Kind : request'[k] # "EReady"
    BY DEF DtorFree
  <2> QED
    BY <2>1, <2>2 DEF DtorFree, Kind
<1>2. RingOK' /\ Contents' = <<>>
  <2>1. RingOK' /\ iState' = "EEmpty"
    BY MsgQueueAssumption DEF DtorFree, RingOK, Slot
  <2>2. Stored' = 0
    BY <2>1 DEF Stored
  <2>3. Contents' = [i \in 1..0 |-> iMsgPool'[SlotOf(i)']]
    BY <2>2 DEF Contents
  <2>4. Contents' \in Seq(Entry) /\ Len(Contents') = 0
    <3>1. (Contents \in Seq(Entry) /\ Len(Contents) = Stored)'
      BY <2>1, ContentsSeq, PTL
    <3> QED
      BY <3>1, <2>2 DEF Entry
  <2> QED
    BY <2>1, <2>4
<1>3. /\ Types'
      /\ \A u \in Client : pc'[u] \in DtorPc => pc'[u] = pc[u] /\ arg'[u] = arg[u]
  BY DEF DtorFree, Return, GoTo, IInv, Types, Pc, DtorPc
<1>4. IInv'
  BY <1>1, <1>2, <1>3, EndingStep
<1>5. Waiter = [k \in {"data", "space"} |-> Null] /\ Waiter' = Waiter
  BY <1>1 DEF Waiter, Kind
<1>6. Q!Drop
  BY <1>2, <1>5 DEF Q!Drop
<1> QED
  BY <1>4, <1>6 DEF QStep, Q!QNext

-----------------------------------------------------------------------------
LEMMA InitOK == Init => IInv /\ Q!QInit
<1> SUFFICES ASSUME Init PROVE IInv /\ Q!QInit
  OBVIOUS
<1>1. RingOK
  BY MsgQueueAssumption DEF Init, RingOK, Slot
<1>2. IInv
  BY <1>1 DEF Init, IInv, Types, Kind, Pc, DtorPc
<1>3. Contents = <<>>
  <2>1. Stored = 0
    BY DEF Stored, Init
  <2>2. Contents \in Seq(Entry) /\ Len(Contents) = 0
    BY <1>1, <2>1, ContentsSeq
  <2> QED
    BY <2>2
<1>4. Waiter = [k \in {"data", "space"} |-> Null]
  BY DEF Init, Waiter, Kind
<1> QED
  BY <1>2, <1>3, <1>4 DEF Q!QInit

LEMMA NextOK == IInv /\ [Next]_vars => IInv' /\ QStep
<1> SUFFICES ASSUME IInv, [Next]_vars PROVE IInv' /\ QStep
  OBVIOUS
<1>1. ASSUME NEW t \in Client, User(t) \/ Run(t) PROVE IInv' /\ QStep
  <2>1. CASE \/ Call(t) \/ WaitForRequest(t) \/ Wake(t) \/ HandleRequest(t) \/ Exit(t)
    BY <2>1, UserSteps
  <2>2. CASE \/ Signal(t) \/ AsyncDelete(t) \/ AsyncClose(t) \/ BadHandle(t)
             \/ \E k \in Kind : NotifyPanics(t, k)
             \/ \E u \in Client : Kill(t, u)
    BY <2>2, ExecSteps
  <2>3. CASE FlashQueue(t) \/ DtorSignal(t) \/ DtorFlash(t)
    BY <2>3, DtorQuietSteps
  <2>4. CASE CallUserModeCallback(t)
    BY <2>4, CallbackSteps
  <2>5. CASE Send(t)
    BY <2>5, SendSteps
  <2>6. CASE Receive(t)
    BY <2>6, ReceiveSteps
  <2>7. CASE \E k \in Kind : Cancel(t, k)
    BY <2>7, CancelSteps
  <2>8. CASE \E k \in Kind : Notify(t, k)
    BY <2>8, NotifySteps
  <2>9. CASE Create(t) \/ HandleClose(t)
    BY <2>9, HandleSteps
  <2>10. CASE DtorComplete(t)
    BY <2>10, DtorCompleteStep
  <2>11. CASE DtorClose(t)
    BY <2>11, DtorCloseStep
  <2>12. CASE DtorFree(t)
    BY <2>12, DtorFreeStep
  <2> QED
    BY <1>1, <2>1, <2>2, <2>3, <2>4, <2>5, <2>6, <2>7, <2>8, <2>9, <2>10, <2>11, <2>12
       DEF User, Run, Operation
<1>2. CASE Supervise
  BY <1>2, SupervisorSteps, CallbackSteps DEF Supervise
<1>3. CASE UNCHANGED vars
  <2>1. /\ UNCHANGED <<queue, ring, waiting, request, pc, arg>>
    BY <1>3 DEF vars, requests
  <2> QED
    BY <2>1, QuietStep DEF IInv, Types
<1> QED
  BY <1>1, <1>2, <1>3 DEF Next

\* DMsgQueue is a message queue: first in, first out, bounded, and each change that
\* somebody waits for ends the wait in the same step, whatever threads die and while
\* the queue is deleted.
THEOREM Refinement == Spec => ImplementsQueue
<1>1. Init => IInv /\ Q!QInit
  BY InitOK
<1>2. IInv /\ [Next]_vars => IInv' /\ [Q!QNext]_(Q!qvars)
  BY NextOK DEF QStep
<1> QED
  BY <1>1, <1>2, PTL DEF Spec, ImplementsQueue, Q!QSpec

\* What MessageQueue keeps.
WaitInv == /\ Q!Bounded /\ Q!NoneWaitsInVain
           /\ Waiter \in [{"data", "space"} -> Client \cup {Null}]

\* RMsgQueueBase promises at most Slots messages, and that a thread which asked to
\* be told of data or of space is told as soon as there is any.
THEOREM ToldInTime == Q!QSpec => [](Q!Bounded /\ Q!NoneWaitsInVain)
<1> USE MsgQueueAssumption DEF Q!Bounded, Q!NoneWaitsInVain
<1>1. Q!QInit => WaitInv
  BY DEF Q!QInit, WaitInv
<1>2. WaitInv /\ [Q!QNext]_(Q!qvars) => WaitInv'
  <2> SUFFICES ASSUME WaitInv, [Q!QNext]_(Q!qvars)
               PROVE  WaitInv'
    OBVIOUS
  <2> USE DEF WaitInv
  <2>1. ASSUME NEW x \in Msg, Q!Put(x) PROVE WaitInv'
    BY <2>1 DEF Q!Put
  <2>2. CASE Q!Get
    BY <2>2 DEF Q!Get
  <2>3. CASE Q!Drop
    BY <2>3 DEF Q!Drop
  <2>4. ASSUME NEW k \in {"data", "space"}, Q!Leave(k) PROVE WaitInv'
    BY <2>4 DEF Q!Leave
  <2>5. ASSUME NEW k \in {"data", "space"}, NEW t \in Client, Q!Ask(k, t) PROVE WaitInv'
    BY <2>5 DEF Q!Ask
  <2>6. CASE UNCHANGED Q!qvars
    BY <2>6 DEF Q!qvars
  <2> QED
    BY <2>1, <2>2, <2>3, <2>4, <2>5, <2>6 DEF Q!QNext
<1>3. WaitInv => Q!Bounded /\ Q!NoneWaitsInVain
  BY DEF WaitInv
<1> QED
  BY <1>1, <1>2, <1>3, PTL DEF Q!QSpec

\* Nobody waits in vain: a request for data is outstanding only while the ring is
\* empty, one for space only while it is full, and none when the queue is freed.
WaitsFit ==
    /\ request["data"] = "EReady" /\ waiting["data"] # Null => iState = "EEmpty"
    /\ request["space"] = "EReady" /\ waiting["space"] # Null => iState = "EFull"
    /\ \A t \in Client : pc[t] = "dtorFree" => \A k \in Kind : request[k] # "EReady"

THEOREM WaitsAreFit == Spec => []WaitsFit
<1>1. Init => IInv
  BY InitOK
<1>2. IInv /\ [Next]_vars => IInv'
  BY NextOK
<1>3. Spec => []IInv
  BY <1>1, <1>2, PTL DEF Spec
<1>4. Spec => [](Q!NoneWaitsInVain)
  BY ToldInTime, Refinement, PTL DEF ImplementsQueue
<1>5. IInv /\ Q!NoneWaitsInVain => WaitsFit
  <2> SUFFICES ASSUME IInv, Q!NoneWaitsInVain PROVE WaitsFit
    OBVIOUS
  <2>1. Contents \in Seq(Entry) /\ Len(Contents) = Stored
    BY ContentsSeq DEF IInv
  <2>2. /\ Contents = <<>> => iState = "EEmpty"
        /\ Len(Contents) = Slots => iState = "EFull"
    BY <2>1, StoredBounds DEF IInv
  <2>3. \A k \in Kind : request[k] = "EReady" => Waiter[k] = waiting[k]
    BY DEF Waiter
  <2>4. \A t \in Client : pc[t] = "dtorFree" => \A k \in Kind : request[k] # "EReady"
    BY DEF IInv, DtorPassed, DtorPc, Kind
  <2> QED
    BY <2>2, <2>3, <2>4 DEF Q!NoneWaitsInVain, WaitsFit, Kind
<1> QED
  BY <1>3, <1>4, <1>5, PTL

-----------------------------------------------------------------------------
(* Requests, statuses, semaphores and references agree.                     *)

\* The threads that are completing, closing or deleting something.
Busy == {"signal", "dtorSignal", "asyncDelete", "asyncClose", "dtorClose", "dtorFlash"}

Alive(t) == pc[t] \notin {"dying", "dead", "deleted"}

\* Where a request in use may be: on the callbacks of a thread, taken off them by the
\* supervisor, or in the hand of a thread that has found its owner dead.
On(t, k) == callbacks[t] # Null /\ k \in ToSet(callbacks[t])
Taken(k) == k \in ToSet(cancelling)
InHand(s, k) == pc[s] \in {"signal", "dtorSignal"} /\ to[s] = Null /\ arg[s] = k

\* A thread that signals another has the system lock, or is the only one that deletes
\* the queue and then nobody has it.
LockOK ==
    /\ \A t \in Client : pc[t] = "signal" <=> sys = t
    /\ \A t \in Client : pc[t] \in DtorPc \ {"flash"} => sys = Null
    /\ \A t, u \in Client : pc[t] \in DtorPc /\ pc[u] \in DtorPc => t = u
    /\ \A k \in Kind : request[k] \in {"EClosing", "freed"} =>
           queue = "closed" /\ \A t \in Client : pc[t] \notin DtorPc

\* A request in use is in one place.
OnePlace(k) ==
    /\ \A t, u \in Thread : On(t, k) /\ On(u, k) => t = u
    /\ \A t \in Thread : On(t, k) => ~Taken(k)
    /\ \A s \in Client : InHand(s, k) => ~Taken(k) /\ \A t \in Thread : ~On(t, k)
    /\ InUse(k) <=> \/ Taken(k)
                    \/ \E t \in Thread : On(t, k)
                    \/ \E s \in Client : InHand(s, k)

ListsOK ==
    /\ \A t \in Thread : callbacks[t] # Null => Inj(callbacks[t])
    /\ Inj(cancelling)
    /\ \A k \in Kind : OnePlace(k)

\* It is its owner's, and no longer on the callbacks of one that is dead.
Orphan(k) == On(Sup, k) \/ Taken(k) \/ \E s \in Client : InHand(s, k)
OwnedBy(k) ==
    /\ \A t \in Client : On(t, k) => owner[k] = t
    /\ Orphan(k) => owner[k] \in Client /\ ~Alive(owner[k])
    /\ InUse(k) => iResult[k] # "KRequestPending"
    /\ request[k] = "EReady" => owner[k] = waiting[k] /\ waiting[k] # Null
    /\ fault = "none" /\ waiting[k] # Null =>
           \/ request[k] = "EReady"
           \/ \E t \in Client : pc[t] \in {"dtorSignal", "dtorClose"} /\ arg[t] = k
    /\ queue = "none" => request[k] = "null"
OwnedOK == \A k \in Kind : OwnedBy(k)

SupOK ==
    /\ \A t \in Client : callbacks[t] = Null <=> ~Alive(t)
    /\ callbacks[Sup] # Null
    /\ sv # "cancel" => cancelling = <<>>
    /\ sv = "idle" => victim = Null
    /\ \A t \in Client : pc[t] = "dying" <=> victim = t
    /\ sv = "flash" => victim # Null /\ access[victim] = 0

\* Its own reference to a thread, those of the queue, and those about to be closed.
Own(t) == ~(pc[t] \in {"dead", "deleted"} \/ (sv = "flash" /\ victim = t))
Waits(t) == {k \in Kind : waiting[k] = t}
Closing(t) == {s \in Client : pc[s] = "asyncClose" /\ to[s] = t}

CountOK == \A t \in Client : access[t] = References(t)

ToOK ==
    /\ \A t \in Client : pc[t] \notin Busy => to[t] = Null
    /\ \A t \in Client : pc[t] \in {"asyncDelete", "asyncClose", "dtorFlash"} => to[t] # Null
    /\ \A t \in Client : pc[t] = "dtorSignal" =>
           waiting[arg[t]] # Null /\ to[t] \in {Null, waiting[arg[t]]}
    /\ \A t \in Client : pc[t] = "dtorClose" => to[t] # Null /\ waiting[arg[t]] = to[t]

\* What is deleted, or is to be, has no references left.
Free(t) == access[t] = 0 /\ pc[t] \in {"dead", "deleted"}
DeletedOK ==
    /\ \A t \in Client : pc[t] \in {"asyncDelete", "dtorFlash"} => Free(to[t])
    /\ \A t \in deleting : Free(t)
    /\ \A t \in Client : pc[t] = "deleted" => access[t] = 0
    /\ \A t, u \in Client : pc[t] = "signal" /\ to[t] = u => pc[u] # "deleted"

Rest ==
    /\ TypeOK /\ LockOK /\ ListsOK /\ OwnedOK /\ SupOK
    /\ CountOK /\ ToOK /\ DeletedOK /\ StatusExact

AllOK == IInv /\ Rest

\* The threads that are about to signal another.
Hands(t) == {s \in Client : pc[s] \in {"signal", "dtorSignal"} /\ to[s] = t}

B(x) == IF x THEN 1 ELSE 0

-----------------------------------------------------------------------------
\* Null is no thread and no list of callbacks, and there are finitely many of both.
LEMMA Constants ==
    /\ Null \notin Client /\ Null # Sup /\ Sup \notin Client
    /\ Client \subseteq Thread /\ Sup \in Thread
    /\ \A q \in Seq(Kind) : q # Null
    /\ IsFiniteSet(Client) /\ IsFiniteSet(Kind)
<1>1. IsFiniteSet(Kind)
  <2>1. Kind = {"data"} \cup {"space"} /\ IsFiniteSet({"data"})
    BY FS_Singleton DEF Kind
  <2> QED
    BY <2>1, FS_AddElement
<1> QED
  BY <1>1, MsgQueueAssumption DEF Thread

\* Two lists of callbacks that share none are joined.
LEMMA JoinLists ==
    ASSUME NEW S, NEW p \in Seq(S), NEW q \in Seq(S), Inj(p), Inj(q),
           ToSet(p) \cap ToSet(q) = {}
    PROVE  /\ p \o q \in Seq(S)
           /\ Inj(p \o q)
           /\ ToSet(p \o q) = ToSet(p) \cup ToSet(q)
<1>1. ToSet(p) = Range(p) /\ ToSet(q) = Range(q) /\ ToSet(p \o q) = Range(p \o q)
  BY DEF ToSet, Range
<1>2. Range(p) \cap Range(q) = {}
  BY <1>1
<1>3. p \o q \in Seq(S) /\ Inj(p \o q) /\ Range(p \o q) = Range(p) \cup Range(q)
  BY <1>2, ConcatQueue
<1> QED
  BY <1>1, <1>3

\* A callback is queued first.
LEMMA PushQueue ==
    ASSUME NEW S, NEW q \in Seq(S), NEW k \in S, Inj(q), k \notin ToSet(q)
    PROVE  /\ <<k>> \o q \in Seq(S)
           /\ Inj(<<k>> \o q)
           /\ ToSet(<<k>> \o q) = ToSet(q) \cup {k}
<1> DEFINE p == <<k>>
<1>1. p \in Seq(S) /\ DOMAIN p = {1} /\ p[1] = k
  OBVIOUS
<1> HIDE DEF p
<1>2. Inj(p) /\ ToSet(p) = {k}
  BY <1>1 DEF Inj, ToSet
<1>3. ToSet(p) \cap ToSet(q) = {}
  BY <1>2
<1>4. p \o q \in Seq(S) /\ Inj(p \o q) /\ ToSet(p \o q) = ToSet(p) \cup ToSet(q)
  BY <1>1, <1>2, <1>3, JoinLists
<1> QED
  BY <1>2, <1>4 DEF p

\* The first callback is taken.
LEMMA PopQueue ==
    ASSUME NEW S, NEW q \in Seq(S), Inj(q), q # <<>>
    PROVE  /\ Head(q) \in ToSet(q) /\ Head(q) \in S
           /\ Tail(q) \in Seq(S)
           /\ Inj(Tail(q))
           /\ ToSet(Tail(q)) = ToSet(q) \ {Head(q)}
<1>1. \A s : ToSet(s) = Range(s)
  BY DEF ToSet, Range
<1> QED
  BY <1>1, TailQueue

\* One member more or less.
LEMMA CountChange ==
    ASSUME NEW U, IsFiniteSet(U), NEW S \in SUBSET U, NEW T \in SUBSET U, NEW t,
           \A x \in U \ {t} : x \in S <=> x \in T
    PROVE  /\ Cardinality(S) \in Nat /\ Cardinality(T) \in Nat
           /\ Cardinality(T) = Cardinality(S) + B(t \in T) - B(t \in S)
           /\ t \in S => Cardinality(S) > 0
<1>1. IsFiniteSet(S) /\ IsFiniteSet(T)
  BY FS_Subset
<1>2. Cardinality(S) \in Nat /\ Cardinality(T) \in Nat
  BY <1>1, FS_CardinalityType
<1>6. t \in S => Cardinality(S) > 0
  BY <1>1, <1>2, FS_EmptySet
<1>3. CASE t \in S /\ t \notin T
  <2>1. T = S \ {t}
    BY <1>3
  <2>2. Cardinality(T) = Cardinality(S) - 1
    BY <1>1, <1>3, <2>1, FS_RemoveElement
  <2> QED
    BY <1>2, <1>3, <2>2 DEF B
<1>4. CASE t \notin S /\ t \in T
  <2>1. T = S \cup {t}
    BY <1>4
  <2>2. Cardinality(T) = Cardinality(S) + 1
    BY <1>1, <1>4, <2>1, FS_AddElement
  <2> QED
    BY <1>2, <1>4, <2>2 DEF B
<1>5. CASE t \in S <=> t \in T
  <2>1. T = S
    BY <1>5
  <2>2. B(t \in T) = B(t \in S) /\ B(t \in S) \in {0, 1}
    BY <1>5 DEF B
  <2> QED
    BY <1>2, <2>1, <2>2, <1>6
<1> QED
  BY <1>2, <1>3, <1>4, <1>5, <1>6

-----------------------------------------------------------------------------
\* The references to a thread, of each sort ...
LEMMA RefsSplit ==
    /\ \A t \in Client : References(t) = B(Own(t)) + Cardinality(Waits(t)) + Cardinality(Closing(t))
    /\ \A t \in Client : /\ Cardinality(Waits(t)) \in Nat /\ Cardinality(Closing(t)) \in Nat
                         /\ Waits(t) \in SUBSET Kind /\ Closing(t) \in SUBSET Client
                         /\ B(Own(t)) \in {0, 1}
<1>1. ASSUME NEW t \in Client
      PROVE  /\ References(t) = B(Own(t)) + Cardinality(Waits(t)) + Cardinality(Closing(t))
             /\ Cardinality(Waits(t)) \in Nat /\ Cardinality(Closing(t)) \in Nat
             /\ Waits(t) \in SUBSET Kind /\ Closing(t) \in SUBSET Client
             /\ B(Own(t)) \in {0, 1}
  <2>1. Waits(t) \in SUBSET Kind /\ Closing(t) \in SUBSET Client
    BY DEF Waits, Closing
  <2>2. IsFiniteSet(Waits(t)) /\ IsFiniteSet(Closing(t))
    BY <2>1, Constants, FS_Subset
  <2>3. Cardinality(Waits(t)) \in Nat /\ Cardinality(Closing(t)) \in Nat
    BY <2>2, FS_CardinalityType
  <2>4. B(Own(t)) = IF pc[t] \in {"dead", "deleted"} \/ (sv = "flash" /\ victim = t) THEN 0 ELSE 1
    BY DEF B, Own
  <2>5. References(t) = (IF pc[t] \in {"dead", "deleted"} \/ (sv = "flash" /\ victim = t) THEN 0 ELSE 1)
                        + Cardinality(Waits(t)) + Cardinality(Closing(t))
    BY DEF References, Waits, Closing
  <2> QED
    BY <2>1, <2>3, <2>4, <2>5
<1> QED
  BY <1>1

\* ... and after a step.
LEMMA RefsNext ==
    \A t \in Client : References(t)' = B(Own(t)') + Cardinality(Waits(t)') + Cardinality(Closing(t)')
<1> SUFFICES ASSUME NEW t \in Client
             PROVE  References(t)' = B(Own(t)') + Cardinality(Waits(t)') + Cardinality(Closing(t)')
  OBVIOUS
<1> DEFINE w == Cardinality(Waits(t)')
           c == Cardinality(Closing(t)')
<1>1. w \in Nat /\ c \in Nat
  <2>1. Waits(t)' \in SUBSET Kind /\ Closing(t)' \in SUBSET Client
    BY DEF Waits, Closing
  <2> QED
    BY <2>1, Constants, FS_Subset, FS_CardinalityType
<1>2. B(Own(t)') = IF pc'[t] \in {"dead", "deleted"} \/ (sv' = "flash" /\ victim' = t) THEN 0 ELSE 1
  BY DEF B, Own
<1>3. References(t)' = (IF pc'[t] \in {"dead", "deleted"} \/ (sv' = "flash" /\ victim' = t) THEN 0 ELSE 1)
                      + w + c
  BY DEF References, Waits, Closing
<1> QED
  BY <1>1, <1>2, <1>3

\* A step changes one of the references of the queue, one of those about to be closed,
\* and threads' own.
LEMMA CountStep ==
    ASSUME CountOK, TypeOK, NEW k, NEW s,
           \A j \in Kind \ {k} : waiting'[j] = waiting[j],
           \A x \in Client \ {s} : pc'[x] = "asyncClose" \/ pc[x] = "asyncClose" =>
                                       pc'[x] = pc[x] /\ to'[x] = to[x],
           \A t \in Client :
               access'[t] = access[t] + B(Own(t)') - B(Own(t))
                            + B(k \in Waits(t)') - B(k \in Waits(t))
                            + B(s \in Closing(t)') - B(s \in Closing(t))
    PROVE  CountOK'
<1> SUFFICES ASSUME NEW t \in Client PROVE access'[t] = References(t)'
  BY DEF CountOK
<1>1. access[t] = B(Own(t)) + Cardinality(Waits(t)) + Cardinality(Closing(t))
  BY RefsSplit DEF CountOK
<1>2. /\ Waits(t) \in SUBSET Kind /\ Closing(t) \in SUBSET Client
      /\ Waits(t)' \in SUBSET Kind /\ Closing(t)' \in SUBSET Client
  BY DEF Waits, Closing
<1>3. \A j \in Kind \ {k} : j \in Waits(t) <=> j \in Waits(t)'
  BY DEF Waits
<1>4. \A x \in Client \ {s} : x \in Closing(t) <=> x \in Closing(t)'
  BY DEF Closing
<1>5. /\ Cardinality(Waits(t)) \in Nat /\ Cardinality(Waits(t)') \in Nat
      /\ Cardinality(Waits(t)') = Cardinality(Waits(t)) + B(k \in Waits(t)') - B(k \in Waits(t))
  BY <1>2, <1>3, CountChange, Constants
<1>6. /\ Cardinality(Closing(t)) \in Nat /\ Cardinality(Closing(t)') \in Nat
      /\ Cardinality(Closing(t)') = Cardinality(Closing(t)) + B(s \in Closing(t)') - B(s \in Closing(t))
  BY <1>2, <1>4, CountChange, Constants
<1>7. References(t)' = B(Own(t)') + Cardinality(Waits(t)') + Cardinality(Closing(t)')
  BY RefsNext
<1>8. \A x \in BOOLEAN : B(x) \in {0, 1}
  BY DEF B
<1>9. /\ B(Own(t)) \in {0, 1} /\ B(Own(t)') \in {0, 1}
      /\ B(k \in Waits(t)) \in {0, 1} /\ B(k \in Waits(t)') \in {0, 1}
      /\ B(s \in Closing(t)) \in {0, 1} /\ B(s \in Closing(t)') \in {0, 1}
  BY DEF B
<1>10. access'[t] = access[t] + B(Own(t)') - B(Own(t))
                     + B(k \in Waits(t)') - B(k \in Waits(t))
                     + B(s \in Closing(t)') - B(s \in Closing(t))
  OBVIOUS
<1> QED
  BY <1>1, <1>5, <1>6, <1>7, <1>9, <1>10

\* A step changes no reference.
LEMMA CountSame ==
    ASSUME CountOK, UNCHANGED <<waiting, access>>,
           \A x \in Client : pc'[x] = "asyncClose" \/ pc[x] = "asyncClose" =>
                                       pc'[x] = pc[x] /\ to'[x] = to[x],
           \A t \in Client : Own(t)' = Own(t)
    PROVE  CountOK'
<1> SUFFICES ASSUME NEW t \in Client PROVE access'[t] = References(t)'
  BY DEF CountOK
<1>1. access[t] = B(Own(t)) + Cardinality(Waits(t)) + Cardinality(Closing(t))
  BY RefsSplit DEF CountOK
<1>2. Waits(t)' = Waits(t)
  BY DEF Waits
<1>3. Closing(t)' = Closing(t)
  BY DEF Closing
<1>4. B(Own(t)') = B(Own(t))
  BY DEF B
<1>6. References(t)' = B(Own(t)') + Cardinality(Waits(t)') + Cardinality(Closing(t)')
  BY RefsNext
<1> QED
  BY <1>1, <1>2, <1>3, <1>4, <1>6

\* The queue, or a thread about to close it, has a reference to a thread: if it is the
\* last one the thread is dead.
LEMMA LastRef ==
    ASSUME AllOK, NEW t \in Client,
           \/ \E k \in Kind : waiting[k] = t
           \/ \E s \in Client : pc[s] = "asyncClose" /\ to[s] = t
    PROVE  /\ access[t] \in Nat \ {0} /\ access[t] - 1 \in Nat
           /\ pc[t] # "deleted" /\ t \notin deleting
           /\ access[t] = 1 => pc[t] = "dead"
<1>1. access[t] = B(Own(t)) + Cardinality(Waits(t)) + Cardinality(Closing(t))
      /\ Cardinality(Waits(t)) \in Nat /\ Cardinality(Closing(t)) \in Nat
      /\ B(Own(t)) \in {0, 1}
  BY RefsSplit DEF CountOK, AllOK, Rest
<1>2. Cardinality(Waits(t)) > 0 \/ Cardinality(Closing(t)) > 0
  <2>1. CASE \E k \in Kind : waiting[k] = t
    <3>1. PICK k \in Kind : k \in Waits(t)
      BY <2>1 DEF Waits
    <3>2. Cardinality(Waits(t)) > 0
      BY <3>1, CountChange, RefsSplit, Constants
    <3> QED
      BY <3>2
  <2>2. CASE \E s \in Client : pc[s] = "asyncClose" /\ to[s] = t
    <3>1. PICK s \in Client : s \in Closing(t)
      BY <2>2 DEF Closing
    <3>2. Cardinality(Closing(t)) > 0
      BY <3>1, CountChange, RefsSplit, Constants
    <3> QED
      BY <3>2
  <2> QED
    BY <2>1, <2>2
<1>3. access[t] \in Nat \ {0} /\ (access[t] = 1 => ~Own(t))
  BY <1>1, <1>2 DEF B
<1>4. ~Own(t) => pc[t] \in {"dead", "deleted"}
  BY <1>3 DEF AllOK, Rest, SupOK, Own
<1>5. pc[t] # "deleted" /\ t \notin deleting
  BY <1>3 DEF AllOK, Rest, DeletedOK, Free
<1> QED
  BY <1>3, <1>4, <1>5

-----------------------------------------------------------------------------
\* What the steps do not touch.

\* A step of a thread that gives nothing away, outside the destructor.
LEMMA LockSame ==
    ASSUME LockOK, UNCHANGED <<sys, queue>>,
           \A s \in Client : \/ pc'[s] = pc[s]
                             \/ /\ pc[s] \notin DtorPc \cup {"signal"}
                                /\ pc'[s] \notin DtorPc \cup {"signal"},
           \A k \in Kind : request'[k] \in {"EClosing", "freed"} =>
                               request[k] \in {"EClosing", "freed"}
    PROVE  LockOK'
BY DEF LockOK, DtorPc

\* A step of the destructor.
LEMMA LockDtor ==
    ASSUME LockOK, NEW t \in Client, UNCHANGED <<sys, queue, request>>,
           pc[t] \in DtorPc \ {"flash"},
           \A s \in Client \ {t} : pc'[s] = pc[s] \/ (pc[s] \notin DtorPc /\ pc'[s] = "deleted"),
           pc'[t] \in DtorPc
    PROVE  LockOK'
<1>1. sys = Null /\ \A s \in Client \ {t} : pc[s] \notin DtorPc
  BY DEF LockOK
<1>2. \A s \in Client : pc'[s] # "signal" /\ sys' # s
  BY <1>1, Constants DEF LockOK, DtorPc
<1> QED
  BY <1>1, <1>2 DEF LockOK, DtorPc

\* Statuses, for the threads that are still running.
LEMMA StatusSame ==
    ASSUME StatusExact, NEW x, fault' = "none" => fault = "none",
           \A t \in Client : Running(t)' =>
               /\ Running(t) /\ status'[t] = status[t]
               /\ sem'[t] = sem[t] /\ (pc'[t] = "woken" <=> pc[t] = "woken")
               /\ callbacks'[t] = callbacks[t]
               /\ \A k \in Kind :
                      owner'[k] = t /\ request'[k] \in {"EReady", "EInUse", "EClosing"}
                      <=> owner[k] = t /\ request[k] \in {"EReady", "EInUse", "EClosing"}
               /\ \A s \in Client :
                      s \in Hands(t)' <=> s \in Hands(t)
    PROVE  StatusExact'
<1> SUFFICES ASSUME fault' = "none", NEW t \in Client, Running(t)'
             PROVE  /\ \A k \in Kind : status'[t][k] = "KRequestPending" <=>
                           owner'[k] = t /\ request'[k] \in {"EReady", "EInUse", "EClosing"}
                    /\ sem'[t] + (IF pc'[t] = "woken" THEN 1 ELSE 0) + Cardinality(Hands(t)')
                       = Cardinality(Told(t)') + Cardinality(Coming(t)')
  BY DEF StatusExact, Hands
<1>1. /\ \A k \in Kind : status[t][k] = "KRequestPending" <=>
             owner[k] = t /\ request[k] \in {"EReady", "EInUse", "EClosing"}
      /\ sem[t] + (IF pc[t] = "woken" THEN 1 ELSE 0) + Cardinality(Hands(t))
         = Cardinality(Told(t)) + Cardinality(Coming(t))
  BY DEF StatusExact, Hands
<1>2. Hands(t)' = Hands(t)
  BY DEF Hands
<1>3. Told(t)' = Told(t)
  BY DEF Told, Completed
<1>4. Coming(t)' = Coming(t)
  BY DEF Coming, Queued
<1> QED
  BY <1>1, <1>2, <1>3, <1>4

\* The lists, when no request is put anywhere else.
LEMMA ListsSame ==
    ASSUME ListsOK, UNCHANGED <<callbacks, cancelling>>,
           \A k \in Kind : InUse(k)' = InUse(k),
           \A k \in Kind, s \in Client : InHand(s, k)' = InHand(s, k)
    PROVE  ListsOK'
<1>1. \A k \in Kind : Taken(k)' = Taken(k) /\ \A t \in Thread : On(t, k)' = On(t, k)
  BY DEF On, Taken
<1>2. ASSUME NEW k \in Kind PROVE OnePlace(k)'
  <2>1. OnePlace(k)
    BY DEF ListsOK
  <2> QED
    BY <1>1, <2>1 DEF OnePlace
<1> QED
  BY <1>2 DEF ListsOK

\* What a step does that takes a thread from one place where it holds nothing to another.
Neutral == Pc \ (Busy \cup {"dying", "dead", "deleted"})
Stroll(t) ==
    /\ \A s \in Client : \/ pc'[s] = pc[s]
                         \/ s = t /\ pc[s] \in Neutral /\ pc'[s] \in Neutral
    /\ \A s \in Client : arg'[s] = arg[s] \/ pc[s] \in Neutral
    /\ \A k \in Kind : /\ request'[k] = "EReady" <=> request[k] = "EReady"
                       /\ InUse(k)' = InUse(k)
                       /\ queue' = "none" => request'[k] = "null"
    /\ fault' = "none" => fault = "none"
    /\ sv' = sv \/ (sv = "idle" /\ sv' = "take")
    /\ UNCHANGED <<waiting, owner, iResult, callbacks, cancelling, access, to, victim, deleting>>

\* Such a step leaves all but the lock and the statuses as it was.
LEMMA StrollKeeps ==
    ASSUME AllOK, NEW t, Stroll(t)
    PROVE  ListsOK' /\ OwnedOK' /\ SupOK' /\ CountOK' /\ ToOK' /\ DeletedOK'
<1>1. UNCHANGED <<waiting, owner, iResult, callbacks, cancelling, access, to, victim, deleting>>
  BY DEF Stroll
<1>2. \A s \in Client : \/ pc'[s] = pc[s]
                        \/ /\ pc[s] \notin Busy /\ pc'[s] \notin Busy
                           /\ pc[s] \notin {"dying", "dead", "deleted"}
                           /\ pc'[s] \notin {"dying", "dead", "deleted"}
  BY DEF Stroll, Neutral
<1>3. \A s \in Client : arg'[s] = arg[s] \/ pc[s] \notin Busy
  BY DEF Stroll, Neutral
<1>4. \A s \in Client, k \in Kind : InHand(s, k)' = InHand(s, k)
  BY <1>1, <1>2, <1>3 DEF InHand, Busy
<1>5. \A s \in Client : Alive(s)' = Alive(s) /\ Own(s)' = Own(s)
  BY <1>1, <1>2 DEF Alive, Own, Stroll
<1>6. \A k \in Kind : Taken(k)' = Taken(k) /\ \A u \in Thread : On(u, k)' = On(u, k)
  BY <1>1 DEF On, Taken
<1>7. ListsOK'
  BY <1>1, <1>4, ListsSame DEF AllOK, Rest, Stroll
<1>8. SupOK'
  BY <1>1, <1>2, <1>5 DEF AllOK, Rest, SupOK, Stroll
<1>9. CountOK'
  BY <1>1, <1>2, <1>5, CountSame DEF AllOK, Rest, Busy
<1>10. ToOK'
  BY <1>1, <1>2, <1>3 DEF AllOK, Rest, ToOK, Busy
<1>11. DeletedOK'
  <2>1. /\ \A s \in Client : to[s] \in Client \cup {Null}
        /\ deleting \subseteq Client
    BY DEF AllOK, Rest, TypeOK
  <2>2. \A s \in Client : pc[s] \in {"asyncDelete", "dtorFlash"} => to[s] \in Client
    BY <2>1 DEF AllOK, Rest, ToOK
  <2>3. /\ \A s \in Client : pc[s] \in {"asyncDelete", "dtorFlash"} => Free(to[s])
        /\ \A s \in deleting : Free(s)
        /\ \A s \in Client : pc[s] = "deleted" => access[s] = 0
        /\ \A s, u \in Client : pc[s] = "signal" /\ to[s] = u => pc[u] # "deleted"
    BY DEF AllOK, Rest, DeletedOK
  <2> QED
    BY <1>1, <1>2, <2>1, <2>2, <2>3 DEF DeletedOK, Free, Busy
<1>12. ASSUME NEW k \in Kind
       PROVE  /\ \A u \in Client : On(u, k)' => owner'[k] = u
              /\ On(Sup, k)' \/ Taken(k)' \/ (\E s \in Client : InHand(s, k)') =>
                     owner'[k] \in Client /\ pc'[owner'[k]] \in {"dying", "dead", "deleted"}
              /\ InUse(k)' => iResult'[k] # "KRequestPending"
              /\ request'[k] = "EReady" => owner'[k] = waiting'[k] /\ waiting'[k] # Null
              /\ fault' = "none" /\ waiting'[k] # Null =>
                     \/ request'[k] = "EReady"
                     \/ \E u \in Client : pc'[u] \in {"dtorSignal", "dtorClose"} /\ arg'[u] = k
              /\ queue' = "none" => request'[k] = "null"
  <2>1. /\ \A u \in Client : On(u, k) => owner[k] = u
        /\ On(Sup, k) \/ Taken(k) \/ (\E s \in Client : InHand(s, k)) =>
               owner[k] \in Client /\ pc[owner[k]] \in {"dying", "dead", "deleted"}
        /\ InUse(k) => iResult[k] # "KRequestPending"
        /\ request[k] = "EReady" => owner[k] = waiting[k] /\ waiting[k] # Null
        /\ fault = "none" /\ waiting[k] # Null =>
               \/ request[k] = "EReady"
               \/ \E u \in Client : pc[u] \in {"dtorSignal", "dtorClose"} /\ arg[u] = k
    BY DEF AllOK, Rest, OwnedOK, OwnedBy, Orphan, Alive
  <2>2. \A u \in Client : On(u, k)' => owner'[k] = u
    BY <1>1, <1>6, <2>1, Constants
  <2>3. On(Sup, k)' \/ Taken(k)' \/ (\E s \in Client : InHand(s, k)') =>
                     owner'[k] \in Client /\ pc'[owner'[k]] \in {"dying", "dead", "deleted"}
    BY <1>1, <1>2, <1>4, <1>6, <2>1, Constants
  <2>4. fault' = "none" /\ waiting'[k] # Null =>
                     \/ request'[k] = "EReady"
                     \/ \E u \in Client : pc'[u] \in {"dtorSignal", "dtorClose"} /\ arg'[u] = k
    BY <1>1, <1>2, <1>3, <2>1 DEF Busy, Stroll
  <2>5. InUse(k)' => iResult'[k] # "KRequestPending"
    BY <1>1, <2>1 DEF Stroll
  <2>6. request'[k] = "EReady" => owner'[k] = waiting'[k] /\ waiting'[k] # Null
    BY <1>1, <2>1 DEF Stroll
  <2> QED
    BY <2>2, <2>3, <2>4, <2>5, <2>6 DEF Stroll
<1>13. OwnedOK'
  BY <1>12 DEF OwnedOK, OwnedBy, Orphan, Alive
<1> QED
  BY <1>7, <1>8, <1>9, <1>10, <1>11, <1>13

-----------------------------------------------------------------------------
\* Nobody is in the destructor before the queue is closed.
LEMMA NoDtor ==
    ASSUME AllOK, queue # "closed"
    PROVE  /\ \A s \in Client : pc[s] \notin DtorPc
           /\ \A k \in Kind : request[k] \notin {"EClosing", "freed"}
BY DEF AllOK, Rest, IInv, DtorPassed, LockOK

\* Steps by which a thread goes on.
LEMMA WalkSteps ==
    ASSUME AllOK, NEW t \in Client,
           \/ Call(t) \/ WaitForRequest(t) \/ Exit(t) \/ BadHandle(t)
           \/ \E k \in Kind : NotifyPanics(t, k)
           \/ \E u \in Client : Kill(t, u)
           \/ Send(t) /\ iState = "EFull"
           \/ Receive(t) /\ iState = "EEmpty"
    PROVE  Rest'
<1>1. /\ UNCHANGED <<queue, iMsgPool, iFirstFreeSlot, iFirstFullSlot, iState, waiting,
                     request, owner, iResult>>
      /\ UNCHANGED <<callbacks, cancelling, access, arg, to, status, sem, sys, sv, victim,
                     cleanup, deleting, fault>>
      /\ pc[t] \in {"run", "call", "wait", "woken"}
      /\ \/ pc' = [pc EXCEPT ![t] = "call"] \/ pc' = [pc EXCEPT ![t] = "wait"]
         \/ pc' = [pc EXCEPT ![t] = "exit"] \/ pc' = [pc EXCEPT ![t] = "run"]
      /\ pc[t] = "woken" => killed'[t]
  BY DEF Call, WaitForRequest, Exit, BadHandle, NotifyPanics, Kill, Send, Receive, Panic, Enter,
         InUser, Return, GoTo, ring, requests, user, supervisor, AllOK, Rest, TypeOK
<1>2. /\ killed' \in [Client -> BOOLEAN]
      /\ \A s \in Client : killed[s] => killed'[s]
  <2>1. \/ UNCHANGED killed \/ killed' = [killed EXCEPT ![t] = TRUE]
        \/ \E u \in Client : killed' = [killed EXCEPT ![u] = TRUE]
    BY DEF Call, WaitForRequest, Exit, BadHandle, NotifyPanics, Kill, Send, Receive, Panic
  <2> QED
    BY <2>1 DEF AllOK, Rest, TypeOK
<1>3. /\ pc' \in [Client -> Pc] /\ pc'[t] \in {"call", "wait", "exit", "run"}
      /\ \A s \in Client \ {t} : pc'[s] = pc[s]
  BY <1>1 DEF AllOK, Rest, TypeOK, Pc
<1>4. TypeOK'
  BY <1>1, <1>2, <1>3 DEF AllOK, Rest, TypeOK
<1>5. LockOK'
  BY <1>1, <1>3, LockSame DEF AllOK, Rest, DtorPc
<1>6. Stroll(t)
  BY <1>1, <1>3 DEF Stroll, Neutral, Busy, Pc, AllOK, Rest, OwnedOK, OwnedBy, Orphan, InUse
<1>7. StatusExact'
  <2>1. StatusExact
    BY DEF AllOK, Rest
  <2>2. \A s \in Client : Running(s)' => Running(s) /\ (pc'[s] = "woken" <=> pc[s] = "woken")
    BY <1>1, <1>2, <1>3 DEF Running
  <2>3. \A s, v \in Client : s \in Hands(v)' <=> s \in Hands(v)
    BY <1>1, <1>3 DEF Hands
  <2> QED
    BY <1>1, <2>1, <2>2, <2>3, StatusSame
<1> QED
  BY <1>4, <1>5, <1>6, <1>7, StrollKeeps DEF Rest

\* A completion when there is no request to complete.
LEMMA NothingToComplete ==
    ASSUME AllOK, NEW t \in Client, NEW k \in Kind, NEW r, Enter(t), queue = "open",
           UNCHANGED <<queue, killed, user, supervisor, fault>>, RingOK',
           CompleteRequestIfPending(t, k, r), request[k] # "EReady"
    PROVE  Rest'
<1>1. waiting[k] = Null
  BY NoDtor DEF AllOK, Rest, OwnedOK, OwnedBy, Orphan, Enter, Live, DtorPc
<1>2. /\ UNCHANGED <<queue, waiting, request, owner, iResult>>
      /\ UNCHANGED <<callbacks, cancelling, access, arg, to, status, sem, sys, sv, victim,
                     cleanup, deleting, fault, killed>>
      /\ pc[t] = "call"
      /\ pc' = [pc EXCEPT ![t] = "exit"] \/ pc' = [pc EXCEPT ![t] = "run"]
  BY <1>1 DEF CompleteRequestIfPending, Enter, Return, GoTo, requests, user, supervisor, AllOK, Rest, TypeOK
<1>3. /\ pc' \in [Client -> Pc] /\ pc'[t] \in {"exit", "run"}
      /\ \A s \in Client \ {t} : pc'[s] = pc[s]
  BY <1>2 DEF AllOK, Rest, TypeOK, Pc
<1>4. TypeOK'
  BY <1>2, <1>3 DEF AllOK, Rest, TypeOK, RingOK
<1>5. LockOK'
  BY <1>2, <1>3, LockSame DEF AllOK, Rest, DtorPc
<1>6. Stroll(t)
  BY <1>2, <1>3 DEF Stroll, Neutral, Busy, Pc, AllOK, Rest, OwnedOK, OwnedBy, Orphan, InUse
<1>7. StatusExact'
  <2>1. StatusExact
    BY DEF AllOK, Rest
  <2>2. \A s \in Client : Running(s)' => Running(s) /\ (pc'[s] = "woken" <=> pc[s] = "woken")
    BY <1>2, <1>3 DEF Running
  <2>3. \A s, v \in Client : s \in Hands(v)' <=> s \in Hands(v)
    BY <1>2, <1>3 DEF Hands
  <2> QED
    BY <1>2, <2>1, <2>2, <2>3, StatusSame
<1> QED
  BY <1>4, <1>5, <1>6, <1>7, StrollKeeps DEF Rest

\* The queue is created and closed.
LEMMA HandlesKeep ==
    ASSUME AllOK, NEW t \in Client, Create(t) \/ HandleClose(t)
    PROVE  Rest'
<1>1. /\ UNCHANGED <<iMsgPool, iFirstFreeSlot, iFirstFullSlot, iState, waiting, owner, iResult>>
      /\ UNCHANGED <<callbacks, cancelling, access, arg, to, status, sem, sys, sv, victim,
                     cleanup, deleting, fault, killed>>
      /\ pc[t] = "run" /\ queue # "closed" /\ queue' \in {"open", "closed"}
      /\ (pc' = pc /\ queue' = "open") \/ (pc' = [pc EXCEPT ![t] = "flash"] /\ queue' = "closed")
  BY DEF Create, HandleClose, InUser, GoTo, ring, requests, user, supervisor
<1>2. /\ pc' \in [Client -> Pc] /\ pc'[t] \in {"run", "flash"}
      /\ \A s \in Client \ {t} : pc'[s] = pc[s]
  BY <1>1 DEF AllOK, Rest, TypeOK, Pc
<1>3. /\ request' \in [Kind -> {"null", "EFree", "EReady", "EInUse", "EClosing", "freed"}]
      /\ \A k \in Kind : /\ request'[k] = "EReady" <=> request[k] = "EReady"
                         /\ InUse(k)' = InUse(k)
                         /\ request'[k] \notin {"EClosing", "freed"}
                         /\ \A u \in Client :
                                owner[k] = u /\ request'[k] \in {"EReady", "EInUse", "EClosing"}
                                <=> owner[k] = u /\ request[k] \in {"EReady", "EInUse", "EClosing"}
  <2>1. CASE Create(t)
    <3>1. \A k \in Kind : request[k] = "null"
      BY <2>1 DEF Create, AllOK, Rest, OwnedOK, OwnedBy, Orphan
    <3>2. /\ request' \in [Kind -> {"null", "EFree"}]
      BY <2>1 DEF Create
    <3> QED
      BY <3>1, <3>2 DEF InUse
  <2>2. CASE HandleClose(t)
    <3>1. UNCHANGED request
      BY <2>2 DEF HandleClose, requests
    <3> QED
      BY <1>1, <3>1, NoDtor DEF InUse, AllOK, Rest, TypeOK
  <2> QED
    BY <2>1, <2>2
<1>4. TypeOK'
  BY <1>1, <1>2, <1>3 DEF AllOK, Rest, TypeOK
<1>5. LockOK'
  BY <1>1, <1>2, <1>3, NoDtor DEF AllOK, Rest, LockOK, DtorPc
<1>6. Stroll(t)
  BY <1>1, <1>2, <1>3 DEF Stroll, Neutral, Busy, Pc
<1>7. StatusExact'
  <2>1. StatusExact
    BY DEF AllOK, Rest
  <2>2. \A s \in Client : Running(s)' => Running(s) /\ (pc'[s] = "woken" <=> pc[s] = "woken")
    BY <1>1, <1>2 DEF Running
  <2>3. \A s, v \in Client : s \in Hands(v)' <=> s \in Hands(v)
    BY <1>1, <1>2 DEF Hands
  <2> QED
    BY <1>1, <1>3, <2>1, <2>2, <2>3, StatusSame
<1> QED
  BY <1>4, <1>5, <1>6, <1>7, StrollKeeps DEF Rest

\* The destructor, when nobody waits.
LEMMA DtorWalks ==
    ASSUME AllOK, NEW t \in Client,
           \/ FlashQueue(t)
           \/ DtorComplete(t) /\ request[arg[t]] # "EReady"
    PROVE  Rest'
<1>1. /\ UNCHANGED <<queue, iMsgPool, iFirstFreeSlot, iFirstFullSlot, iState, waiting,
                     request, owner, iResult>>
      /\ UNCHANGED <<callbacks, cancelling, access, to, status, sem, sys, sv, victim,
                     cleanup, deleting, killed>>
      /\ fault' \in {fault, "null request"} /\ fault = "none"
      /\ pc[t] \in {"flash", "dtor"} /\ sys = Null
      /\ \/ pc' = [pc EXCEPT ![t] = "dtor"] \/ pc' = [pc EXCEPT ![t] = "dtorFree"] \/ pc' = pc
      /\ \/ arg' = [arg EXCEPT ![t] = "data"] \/ arg' = [arg EXCEPT ![t] = "space"] \/ arg' = arg
  BY DEF FlashQueue, DtorComplete, NextRequest, GoTo, ring, requests, user, supervisor, Live,
         AllOK, Rest, TypeOK, LockOK, DtorPc
<1>2. /\ pc' \in [Client -> Pc] /\ pc'[t] \in {"dtor", "dtorFree", pc[t]}
      /\ \A s \in Client \ {t} : pc'[s] = pc[s]
      /\ arg' \in [Client -> Kind] /\ \A s \in Client \ {t} : arg'[s] = arg[s]
  BY <1>1 DEF AllOK, Rest, TypeOK, Pc, Kind
<1>3. TypeOK'
  BY <1>1, <1>2 DEF AllOK, Rest, TypeOK
<1>4. LockOK'
  <2>1. LockOK
    BY DEF AllOK, Rest
  <2> QED
    BY <1>1, <1>2, <2>1 DEF LockOK, DtorPc
<1>5. Stroll(t)
  BY <1>1, <1>2 DEF Stroll, Neutral, Busy, Pc, AllOK, Rest, OwnedOK, OwnedBy, Orphan, InUse
<1>6. StatusExact'
  <2>1. StatusExact
    BY DEF AllOK, Rest
  <2>2. \A s \in Client : Running(s)' => Running(s) /\ (pc'[s] = "woken" <=> pc[s] = "woken")
    BY <1>1, <1>2 DEF Running
  <2>3. \A s, v \in Client : s \in Hands(v)' <=> s \in Hands(v)
    BY <1>1, <1>2 DEF Hands
  <2> QED
    BY <1>1, <2>1, <2>2, <2>3, StatusSame
<1> QED
  BY <1>3, <1>4, <1>5, <1>6, StrollKeeps DEF Rest

\* The destructor frees the requests; one in use is left to its callback.
LEMMA DtorFrees ==
    ASSUME AllOK, NEW t \in Client, DtorFree(t), RingOK'
    PROVE  Rest'
<1>1. /\ UNCHANGED <<queue, waiting, owner, iResult>>
      /\ UNCHANGED <<callbacks, cancelling, access, arg, to, status, sem, sys, sv, victim,
                     cleanup, deleting, killed, fault>>
      /\ pc[t] = "dtorFree"
      /\ pc' = [pc EXCEPT ![t] = "exit"] \/ pc' = [pc EXCEPT ![t] = "run"]
      /\ request' = [k \in Kind |-> IF request[k] = "EInUse" THEN "EClosing" ELSE "freed"]
  BY DEF DtorFree, Return, GoTo, user, supervisor
<1>2. /\ pc' \in [Client -> Pc] /\ pc'[t] \in {"exit", "run"}
      /\ \A s \in Client \ {t} : pc'[s] = pc[s]
  BY <1>1 DEF AllOK, Rest, TypeOK, Pc
<1>3. /\ queue = "closed" /\ \A k \in Kind : request[k] # "EReady"
      /\ \A k \in Kind : request[k] \notin {"EClosing", "freed"}
      /\ \A s \in Client : pc'[s] \notin DtorPc
  BY <1>1, <1>2 DEF AllOK, Rest, LockOK, IInv, DtorPassed, DtorPc, Kind
<1>4. /\ request' \in [Kind -> {"null", "EFree", "EReady", "EInUse", "EClosing", "freed"}]
      /\ \A k \in Kind : /\ request'[k] = "EReady" <=> request[k] = "EReady"
                         /\ InUse(k)' = InUse(k)
                         /\ request'[k] \in {"EReady", "EInUse", "EClosing"} <=>
                            request[k] \in {"EReady", "EInUse", "EClosing"}
  <2>1. request \in [Kind -> {"null", "EFree", "EReady", "EInUse", "EClosing", "freed"}]
    BY DEF AllOK, Rest, TypeOK
  <2>2. \A k \in Kind : request'[k] = IF request[k] = "EInUse" THEN "EClosing" ELSE "freed"
    BY <1>1
  <2> QED
    BY <1>1, <1>3, <2>1, <2>2 DEF InUse
<1>5. TypeOK'
  BY <1>1, <1>2, <1>4 DEF AllOK, Rest, TypeOK, RingOK
<1>6. LockOK'
  <2>1. LockOK
    BY DEF AllOK, Rest
  <2> QED
    BY <1>1, <1>2, <1>3, <2>1 DEF LockOK, DtorPc
<1>7. Stroll(t)
  BY <1>1, <1>2, <1>3, <1>4 DEF Stroll, Neutral, Busy, Pc
<1>8. StatusExact'
  <2>1. StatusExact
    BY DEF AllOK, Rest
  <2>2. \A s \in Client : Running(s)' => Running(s) /\ (pc'[s] = "woken" <=> pc[s] = "woken")
    BY <1>1, <1>2 DEF Running
  <2>3. \A s, v \in Client : s \in Hands(v)' <=> s \in Hands(v)
    BY <1>1, <1>2 DEF Hands
  <2> QED
    BY <1>1, <1>4, <2>1, <2>2, <2>3, StatusSame
<1> QED
  BY <1>5, <1>6, <1>7, <1>8, StrollKeeps DEF Rest

\* Steps that change only what nothing depends on.
LEMMA IdleSteps ==
    ASSUME AllOK, DoDeadClientCleanup \/ UNCHANGED vars
    PROVE  Rest'
<1>1. /\ UNCHANGED <<queue, iMsgPool, iFirstFreeSlot, iFirstFullSlot, iState, waiting,
                     request, owner, iResult, pc, killed>>
      /\ UNCHANGED <<callbacks, cancelling, access, arg, to, status, sem, sys, victim,
                     deleting, fault>>
      /\ cleanup' \in BOOLEAN
      /\ sv' = sv \/ (sv = "idle" /\ sv' = "take")
  BY DEF DoDeadClientCleanup, vars, ring, requests, user, supervisor, AllOK, Rest, TypeOK
<1>2. TypeOK'
  BY <1>1 DEF AllOK, Rest, TypeOK
<1>3. LockOK'
  BY <1>1, LockSame DEF AllOK, Rest
<1>4. Stroll(Null)
  BY <1>1 DEF Stroll, AllOK, Rest, OwnedOK, OwnedBy, Orphan, InUse
<1>5. StatusExact'
  <2>1. StatusExact
    BY DEF AllOK, Rest
  <2>2. \A s \in Client : Running(s)' => Running(s) /\ (pc'[s] = "woken" <=> pc[s] = "woken")
    BY <1>1 DEF Running
  <2>3. \A s, v \in Client : s \in Hands(v)' <=> s \in Hands(v)
    BY <1>1 DEF Hands
  <2> QED
    BY <1>1, <2>1, <2>2, <2>3, StatusSame
<1> QED
  BY <1>2, <1>3, <1>4, <1>5, StrollKeeps DEF Rest

\* A thread is woken, and finds which of its requests is complete.
LEMMA WakeKeeps ==
    ASSUME AllOK, NEW t \in Client, Wake(t)
    PROVE  Rest'
<1>1. /\ UNCHANGED <<queue, iMsgPool, iFirstFreeSlot, iFirstFullSlot, iState, waiting,
                     request, owner, iResult>>
      /\ UNCHANGED <<callbacks, cancelling, access, arg, to, status, sys, sv, victim,
                     cleanup, deleting, killed, fault>>
      /\ pc[t] = "wait" /\ sem[t] > 0
      /\ pc' = [pc EXCEPT ![t] = "woken"] /\ sem' = [sem EXCEPT ![t] = @ - 1]
  BY DEF Wake, GoTo, ring, requests, supervisor
<1>2. /\ pc' \in [Client -> Pc] /\ pc'[t] = "woken"
      /\ \A s \in Client \ {t} : pc'[s] = pc[s] /\ sem'[s] = sem[s]
      /\ sem[t] \in Nat /\ sem'[t] = sem[t] - 1 /\ sem' \in [Client -> Nat]
  <2>1. pc \in [Client -> Pc] /\ sem \in [Client -> Nat]
    BY DEF AllOK, Rest, TypeOK
  <2>2. sem[t] - 1 \in Nat
    BY <1>1, <2>1
  <2> QED
    BY <1>1, <2>1, <2>2 DEF Pc
<1>3. TypeOK'
  BY <1>1, <1>2 DEF AllOK, Rest, TypeOK
<1>4. LockOK'
  BY <1>1, <1>2, LockSame DEF AllOK, Rest, DtorPc
<1>5. Stroll(t)
  BY <1>1, <1>2 DEF Stroll, Neutral, Busy, Pc, AllOK, Rest, OwnedOK, OwnedBy, Orphan, InUse
<1>6. StatusExact'
  <2> SUFFICES ASSUME fault' = "none", NEW u \in Client, Running(u)'
               PROVE  /\ \A k \in Kind : status'[u][k] = "KRequestPending" <=>
                             owner'[k] = u /\ request'[k] \in {"EReady", "EInUse", "EClosing"}
                      /\ sem'[u] + (IF pc'[u] = "woken" THEN 1 ELSE 0) + Cardinality(Hands(u)')
                         = Cardinality(Told(u)') + Cardinality(Coming(u)')
    BY DEF StatusExact, Hands
  <2>1. Running(u)
    BY <1>1, <1>2 DEF Running
  <2>2. /\ \A k \in Kind : status[u][k] = "KRequestPending" <=>
               owner[k] = u /\ request[k] \in {"EReady", "EInUse", "EClosing"}
        /\ sem[u] + (IF pc[u] = "woken" THEN 1 ELSE 0) + Cardinality(Hands(u))
           = Cardinality(Told(u)) + Cardinality(Coming(u))
    BY <1>1, <2>1 DEF StatusExact, Hands, AllOK, Rest
  <2>3. Hands(u)' = Hands(u)
    BY <1>1, <1>2 DEF Hands
  <2>4. Told(u)' = Told(u) /\ Coming(u)' = Coming(u)
    BY <1>1 DEF Told, Completed, Coming, Queued
  <2>5. sem'[u] + (IF pc'[u] = "woken" THEN 1 ELSE 0) = sem[u] + (IF pc[u] = "woken" THEN 1 ELSE 0)
    BY <1>1, <1>2
  <2> QED
    BY <1>1, <2>2, <2>3, <2>4, <2>5
<1> QED
  BY <1>3, <1>4, <1>5, <1>6, StrollKeeps DEF Rest

\* ... and when it has looked at a request that is complete it is one told less.
LEMMA HandleRequestKeeps ==
    ASSUME AllOK, NEW t \in Client, HandleRequest(t)
    PROVE  Rest'
<1>1. PICK k \in Kind : Completed(t, k) /\ status' = [status EXCEPT ![t][k] = "unused"]
  BY DEF HandleRequest
<1>2. /\ UNCHANGED <<queue, iMsgPool, iFirstFreeSlot, iFirstFullSlot, iState, waiting,
                     request, owner, iResult>>
      /\ UNCHANGED <<callbacks, cancelling, access, arg, to, sem, sys, sv, victim,
                     cleanup, deleting, killed, fault>>
      /\ pc[t] = "woken" /\ pc' = [pc EXCEPT ![t] = "run"]
  BY DEF HandleRequest, InUser, GoTo, ring, requests, supervisor
<1>3. /\ pc' \in [Client -> Pc] /\ pc'[t] = "run"
      /\ \A s \in Client \ {t} : pc'[s] = pc[s] /\ status'[s] = status[s]
      /\ status'[t][k] = "unused" /\ \A j \in Kind \ {k} : status'[t][j] = status[t][j]
      /\ status' \in [Client -> [Kind -> {"unused", "KRequestPending", "KErrNone", "KErrCancel"}]]
      /\ sem[t] \in Nat
  BY <1>1, <1>2 DEF AllOK, Rest, TypeOK, Pc
<1>4. TypeOK'
  BY <1>2, <1>3 DEF AllOK, Rest, TypeOK
<1>5. LockOK'
  BY <1>2, <1>3, LockSame DEF AllOK, Rest, DtorPc
<1>6. Stroll(t)
  BY <1>2, <1>3 DEF Stroll, Neutral, Busy, Pc, AllOK, Rest, OwnedOK, OwnedBy, Orphan, InUse
<1>7. StatusExact'
  <2> SUFFICES ASSUME fault' = "none", NEW u \in Client, Running(u)'
               PROVE  /\ \A j \in Kind : status'[u][j] = "KRequestPending" <=>
                             owner'[j] = u /\ request'[j] \in {"EReady", "EInUse", "EClosing"}
                      /\ sem'[u] + (IF pc'[u] = "woken" THEN 1 ELSE 0) + Cardinality(Hands(u)')
                         = Cardinality(Told(u)') + Cardinality(Coming(u)')
    BY DEF StatusExact, Hands
  <2>1. Running(u)
    BY <1>2, <1>3 DEF Running
  <2>2. /\ \A j \in Kind : status[u][j] = "KRequestPending" <=>
               owner[j] = u /\ request[j] \in {"EReady", "EInUse", "EClosing"}
        /\ sem[u] + (IF pc[u] = "woken" THEN 1 ELSE 0) + Cardinality(Hands(u))
           = Cardinality(Told(u)) + Cardinality(Coming(u))
    BY <1>2, <2>1 DEF StatusExact, Hands, AllOK, Rest
  <2>3. Hands(u)' = Hands(u)
    BY <1>2, <1>3 DEF Hands
  <2>4. Coming(u)' = Coming(u)
    BY <1>2 DEF Coming, Queued
  <2>5. CASE u # t
    <3>1. Told(u)' = Told(u) /\ status'[u] = status[u] /\ pc'[u] = pc[u]
      BY <1>3, <2>5 DEF Told, Completed
    <3> QED
      BY <1>2, <2>2, <2>3, <2>4, <3>1
  <2>6. CASE u = t
    <3>1. k \in Told(t) /\ k \notin Told(t)' /\ \A j \in Kind \ {k} : j \in Told(t) <=> j \in Told(t)'
      BY <1>1, <1>3 DEF Told, Completed
    <3>2. /\ Cardinality(Told(t)) \in Nat
          /\ Cardinality(Told(t)') = Cardinality(Told(t)) - 1
      <4>1. Told(t) \in SUBSET Kind /\ Told(t)' \in SUBSET Kind
        BY DEF Told
      <4>2. Cardinality(Told(t)) \in Nat
            /\ Cardinality(Told(t)') = Cardinality(Told(t)) + B(k \in Told(t)') - B(k \in Told(t))
        BY <3>1, <4>1, CountChange, Constants
      <4> QED
        BY <3>1, <4>2 DEF B
    <3>3. Cardinality(Coming(t)) \in Nat /\ Cardinality(Hands(t)) \in Nat
      <4>1. Coming(t) \in SUBSET Kind /\ Hands(t) \in SUBSET Client
        BY DEF Coming, Hands
      <4> QED
        BY <4>1, Constants, FS_Subset, FS_CardinalityType
    <3>4. \A j \in Kind : status'[t][j] = "KRequestPending" <=>
                          owner'[j] = t /\ request'[j] \in {"EReady", "EInUse", "EClosing"}
      BY <1>1, <1>2, <1>3, <2>2, <2>6 DEF Completed
    <3>5. sem'[t] = sem[t] /\ pc[t] = "woken" /\ pc'[t] # "woken" /\ sem[t] \in Nat
      BY <1>2, <1>3
    <3>6. sem[t] + 1 + Cardinality(Hands(t)) = Cardinality(Told(t)) + Cardinality(Coming(t))
      BY <2>2, <2>6, <3>5
    <3>7. sem'[t] + 0 + Cardinality(Hands(t)') = Cardinality(Told(t)') + Cardinality(Coming(t)')
      BY <2>3, <2>4, <2>6, <3>2, <3>3, <3>5, <3>6
    <3> QED
      BY <2>6, <3>4, <3>5, <3>7
  <2> QED
    BY <2>5, <2>6
<1> QED
  BY <1>4, <1>5, <1>6, <1>7, StrollKeeps DEF Rest

-----------------------------------------------------------------------------
\* What a step that puts a request elsewhere leaves as it was for another one.
LEMMA PlaceSame ==
    ASSUME NEW k, OnePlace(k),
           \A v \in Thread : On(v, k)' = On(v, k), Taken(k)' = Taken(k),
           \A s \in Client : InHand(s, k)' = InHand(s, k), InUse(k)' = InUse(k)
    PROVE  OnePlace(k)'
BY DEF OnePlace

\* ... and whose it is.
LEMMA OwnedSame ==
    ASSUME NEW k \in Kind, OwnedBy(k),
           \A v \in Client : On(v, k)' => On(v, k),
           Orphan(k)' => Orphan(k),
           \A s \in Client : Alive(s)' => Alive(s),
           owner'[k] = owner[k], iResult'[k] = iResult[k], request'[k] = request[k],
           waiting'[k] = waiting[k], queue' = queue, fault' = fault,
           \A s \in Client : pc[s] \in {"dtorSignal", "dtorClose"} /\ arg[s] = k =>
                                 pc'[s] \in {"dtorSignal", "dtorClose"} /\ arg'[s] = k
    PROVE  OwnedBy(k)'
<1>1. InUse(k)' = InUse(k)
  BY DEF InUse
<1>2. Orphan(k)' => owner'[k] \in Client /\ ~Alive(owner[k])'
  BY DEF OwnedBy
<1>3. Orphan(k)' => owner'[k] \in Client /\ pc'[owner'[k]] \in {"dying", "dead", "deleted"}
  BY <1>2 DEF Alive
<1>4. fault' = "none" /\ waiting'[k] # Null =>
           \/ request'[k] = "EReady"
           \/ \E t \in Client : pc'[t] \in {"dtorSignal", "dtorClose"} /\ arg'[t] = k
  BY DEF OwnedBy
<1>5. /\ \A t \in Client : On(t, k)' => owner'[k] = t
      /\ InUse(k)' => iResult'[k] # "KRequestPending"
      /\ request'[k] = "EReady" => owner'[k] = waiting'[k] /\ waiting'[k] # Null
      /\ queue' = "none" => request'[k] = "null"
  BY <1>1 DEF OwnedBy
<1> QED
  BY <1>3, <1>4, <1>5 DEF OwnedBy, Alive

\* One thread signals another or not any more, and one request of it goes on.
LEMMA StatusStep ==
    ASSUME AllOK, NEW v \in Client, Running(v), fault = "none", NEW s, NEW j,
           \A x \in Client \ {s} : x \in Hands(v)' <=> x \in Hands(v),
           \A k \in Kind \ {j} : k \in Told(v)' <=> k \in Told(v),
           \A k \in Kind \ {j} : k \in Coming(v)' <=> k \in Coming(v),
           sem'[v] \in Nat,
           sem'[v] + B(pc'[v] = "woken") + B(s \in Hands(v)') - B(s \in Hands(v))
           = sem[v] + B(pc[v] = "woken") + B(j \in Told(v)') - B(j \in Told(v))
             + B(j \in Coming(v)') - B(j \in Coming(v))
    PROVE  sem'[v] + (IF pc'[v] = "woken" THEN 1 ELSE 0) + Cardinality(Hands(v)')
           = Cardinality(Told(v)') + Cardinality(Coming(v)')
<1>1. sem[v] + (IF pc[v] = "woken" THEN 1 ELSE 0) + Cardinality(Hands(v))
      = Cardinality(Told(v)) + Cardinality(Coming(v))
  BY DEF StatusExact, Hands, AllOK, Rest
<1>2. /\ Hands(v) \in SUBSET Client /\ Hands(v)' \in SUBSET Client
      /\ Told(v) \in SUBSET Kind /\ Told(v)' \in SUBSET Kind
      /\ Coming(v) \in SUBSET Kind /\ Coming(v)' \in SUBSET Kind
  BY DEF Hands, Told, Coming
<1>3. /\ Cardinality(Hands(v)) \in Nat /\ Cardinality(Hands(v)') \in Nat
      /\ Cardinality(Hands(v)') = Cardinality(Hands(v)) + B(s \in Hands(v)') - B(s \in Hands(v))
  <2>1. \A x \in Client \ {s} : x \in Hands(v) <=> x \in Hands(v)'
    OBVIOUS
  <2> QED
    BY <1>2, <2>1, CountChange, Constants
<1>4. /\ Cardinality(Told(v)) \in Nat /\ Cardinality(Told(v)') \in Nat
      /\ Cardinality(Told(v)') = Cardinality(Told(v)) + B(j \in Told(v)') - B(j \in Told(v))
  <2>1. \A k \in Kind \ {j} : k \in Told(v) <=> k \in Told(v)'
    OBVIOUS
  <2> QED
    BY <1>2, <2>1, CountChange, Constants
<1>5. /\ Cardinality(Coming(v)) \in Nat /\ Cardinality(Coming(v)') \in Nat
      /\ Cardinality(Coming(v)') = Cardinality(Coming(v)) + B(j \in Coming(v)') - B(j \in Coming(v))
  <2>1. \A k \in Kind \ {j} : k \in Coming(v) <=> k \in Coming(v)'
    OBVIOUS
  <2> QED
    BY <1>2, <2>1, CountChange, Constants
<1>6. /\ B(pc[v] = "woken") = (IF pc[v] = "woken" THEN 1 ELSE 0)
      /\ B(pc'[v] = "woken") = (IF pc'[v] = "woken" THEN 1 ELSE 0)
      /\ B(pc[v] = "woken") \in Nat /\ B(pc'[v] = "woken") \in Nat
      /\ B(s \in Hands(v)') \in Nat /\ B(s \in Hands(v)) \in Nat
      /\ B(j \in Told(v)') \in Nat /\ B(j \in Told(v)) \in Nat
      /\ B(j \in Coming(v)') \in Nat /\ B(j \in Coming(v)) \in Nat
  BY DEF B
<1>7. sem[v] \in Nat
  BY DEF AllOK, Rest, TypeOK
<1>8. sem'[v] + B(pc'[v] = "woken") + Cardinality(Hands(v)') = Cardinality(Told(v)') + Cardinality(Coming(v)')
  BY <1>1, <1>3, <1>4, <1>5, <1>6, <1>7
<1> QED
  BY <1>6, <1>8

\* A callback is queued to a thread.
LEMMA Pushed ==
    ASSUME AllOK, NEW u \in Thread, NEW k \in Kind, callbacks[u] # Null,
           \A v \in Thread : ~On(v, k),
           callbacks' = [callbacks EXCEPT ![u] = <<k>> \o @]
    PROVE  /\ callbacks' \in [Thread -> Seq(Kind) \cup {Null}]
           /\ \A v \in Thread : callbacks'[v] = Null <=> callbacks[v] = Null
           /\ \A v \in Thread : callbacks'[v] # Null => Inj(callbacks'[v])
           /\ \A v \in Thread, j \in Kind : On(v, j)' <=> On(v, j) \/ (v = u /\ j = k)
<1>1. callbacks \in [Thread -> Seq(Kind) \cup {Null}]
  BY DEF AllOK, Rest, TypeOK
<1> DEFINE q == callbacks[u]
           r == callbacks'[u]
<1>2. q \in Seq(Kind) /\ Inj(q) /\ k \notin ToSet(q)
  BY <1>1 DEF On, AllOK, Rest, ListsOK
<1>3. r = <<k>> \o q /\ \A v \in Thread \ {u} : callbacks'[v] = callbacks[v]
  BY <1>1
<1>4. r \in Seq(Kind) /\ Inj(r) /\ ToSet(r) = ToSet(q) \cup {k}
  BY <1>2, <1>3, PushQueue
<1>5. callbacks' = [callbacks EXCEPT ![u] = r]
  BY <1>1
<1>6. callbacks' \in [Thread -> Seq(Kind) \cup {Null}]
  BY <1>1, <1>4, <1>5
<1>7. \A v \in Thread : callbacks'[v] = Null <=> callbacks[v] = Null
  BY <1>2, <1>3, <1>4, Constants
<1>8. \A v \in Thread : callbacks'[v] # Null => Inj(callbacks'[v])
  BY <1>3, <1>4 DEF AllOK, Rest, ListsOK
<1>9. \A v \in Thread, j \in Kind : On(v, j)' <=> On(v, j) \/ (v = u /\ j = k)
  BY <1>2, <1>3, <1>4, Constants DEF On
<1> QED
  BY <1>6, <1>7, <1>8, <1>9

-----------------------------------------------------------------------------
\* A request that is ready completes, but for the signal: t goes to p, with the
\* callback on the list of u, or in its hand if u is dead.
Completes(t, k, u, r, p) ==
    /\ fault = "none" /\ request[k] = "EReady" /\ u = waiting[k] /\ r # "KRequestPending"
    /\ pc[t] \in {"call", "dtor"} /\ p \in {"signal", "dtorSignal"}
    /\ QueueRequestComplete(u, k, r)
    /\ to' = [to EXCEPT ![t] = IF callbacks[u] = Null THEN Null ELSE u]
    /\ arg' = [arg EXCEPT ![t] = k]
    /\ pc' = [pc EXCEPT ![t] = p]
    /\ \A j \in Kind \ {k} : waiting'[j] = waiting[j]
    /\ waiting'[k] = Null \/ p = "dtorSignal"
    /\ UNCHANGED <<queue, cancelling, status, sem, killed, fault>>

\* What such a step keeps.
LEMMA CompletesKeeps ==
    ASSUME AllOK, NEW t \in Client, NEW k \in Kind, NEW u, NEW r, NEW p, Completes(t, k, u, r, p)
    PROVE  /\ u \in Client /\ owner[k] = u
           /\ callbacks' \in [Thread -> Seq(Kind) \cup {Null}]
           /\ \A v \in Thread : callbacks'[v] = Null <=> callbacks[v] = Null
           /\ ListsOK' /\ OwnedOK' /\ StatusExact'
<1>1. /\ pc \in [Client -> Pc] /\ to \in [Client -> Client \cup {Null}]
      /\ arg \in [Client -> Kind] /\ callbacks \in [Thread -> Seq(Kind) \cup {Null}]
      /\ waiting \in [Kind -> Client \cup {Null}]
      /\ request \in [Kind -> {"null", "EFree", "EReady", "EInUse", "EClosing", "freed"}]
      /\ owner \in [Kind -> Client \cup {Null}]
      /\ iResult \in [Kind -> {"KRequestPending", "KErrNone", "KErrCancel"}]
      /\ sem \in [Client -> Nat]
  BY DEF AllOK, Rest, TypeOK
<1>2. u \in Client /\ owner[k] = u
  BY <1>1 DEF Completes, AllOK, Rest, OwnedOK, OwnedBy
<1>3. /\ request'[k] = "EInUse" /\ iResult'[k] # "KRequestPending" /\ owner' = owner
      /\ \A j \in Kind \ {k} : request'[j] = request[j] /\ iResult'[j] = iResult[j]
      /\ callbacks' = IF callbacks[u] = Null THEN callbacks
                      ELSE [callbacks EXCEPT ![u] = <<k>> \o @]
  BY <1>1 DEF Completes, QueueRequestComplete
<1>4. /\ to'[t] = IF callbacks[u] = Null THEN Null ELSE u
      /\ arg'[t] = k /\ pc'[t] = p /\ p \in {"signal", "dtorSignal"}
      /\ pc[t] \in {"call", "dtor"}
      /\ \A s \in Client \ {t} : to'[s] = to[s] /\ arg'[s] = arg[s] /\ pc'[s] = pc[s]
      /\ UNCHANGED <<queue, cancelling, status, sem, killed, fault>>
      /\ \A j \in Kind \ {k} : waiting'[j] = waiting[j]
      /\ waiting'[k] = Null \/ p = "dtorSignal"
      /\ fault = "none" /\ request[k] = "EReady"
  BY <1>1 DEF Completes
<1>5. ~InUse(k) /\ InUse(k)' /\ \A j \in Kind \ {k} : InUse(j)' = InUse(j)
  BY <1>3, <1>4 DEF InUse
<1>6. \A j \in Kind : OnePlace(j) /\ OwnedBy(j)
  BY DEF AllOK, Rest, ListsOK, OwnedOK
<1>7. ~Taken(k) /\ (\A v \in Thread : ~On(v, k)) /\ \A s \in Client : ~InHand(s, k)
  BY <1>5, <1>6 DEF OnePlace
<1>8. u \in Thread
  BY <1>2 DEF Thread
<1>9. callbacks[u] = Null <=> ~Alive(u)
  BY <1>2 DEF AllOK, Rest, SupOK
<1>10. \A s \in Client : Alive(s)' = Alive(s)
  BY <1>4 DEF Alive
<1>11. /\ callbacks' \in [Thread -> Seq(Kind) \cup {Null}]
       /\ \A v \in Thread : callbacks'[v] = Null <=> callbacks[v] = Null
       /\ \A v \in Thread : callbacks'[v] # Null => Inj(callbacks'[v])
       /\ \A v \in Thread, j \in Kind :
              On(v, j)' <=> On(v, j) \/ (callbacks[u] # Null /\ v = u /\ j = k)
  <2>1. CASE callbacks[u] = Null
    <3>1. callbacks' = callbacks
      BY <1>3, <2>1
    <3>2. \A v \in Thread, j \in Kind : On(v, j)' = On(v, j)
      BY <3>1 DEF On
    <3> QED
      BY <1>1, <2>1, <3>1, <3>2 DEF AllOK, Rest, ListsOK
  <2>2. CASE callbacks[u] # Null
    <3>1. callbacks' = [callbacks EXCEPT ![u] = <<k>> \o @]
      BY <1>3, <2>2
    <3>2. /\ callbacks' \in [Thread -> Seq(Kind) \cup {Null}]
          /\ \A v \in Thread : callbacks'[v] = Null <=> callbacks[v] = Null
          /\ \A v \in Thread : callbacks'[v] # Null => Inj(callbacks'[v])
          /\ \A v \in Thread, j \in Kind : On(v, j)' <=> On(v, j) \/ (v = u /\ j = k)
      BY <1>7, <1>8, <2>2, <3>1, Pushed
    <3> QED
      BY <2>2, <3>2
  <2> QED
    BY <2>1, <2>2
<1>12. \A j \in Kind, s \in Client :
           InHand(s, j)' <=> InHand(s, j) \/ (callbacks[u] = Null /\ s = t /\ j = k)
  <2>1. \A j \in Kind, s \in Client \ {t} : InHand(s, j)' = InHand(s, j)
    BY <1>4 DEF InHand
  <2>2. \A j \in Kind : ~InHand(t, j) /\ (InHand(t, j)' <=> callbacks[u] = Null /\ j = k)
    BY <1>2, <1>4, Constants DEF InHand
  <2> QED
    BY <1>7, <2>1, <2>2
<1>13. \A j \in Kind : Taken(j)' = Taken(j)
  BY <1>4 DEF Taken
<1>14. ListsOK'
  <2>1. ASSUME NEW j \in Kind, j # k PROVE OnePlace(j)'
    <3>1. \A v \in Thread : On(v, j)' = On(v, j)
      BY <1>11, <2>1 DEF On
    <3>2. \A s \in Client : InHand(s, j)' = InHand(s, j)
      BY <1>12, <2>1 DEF InHand
    <3> QED
      BY <1>5, <1>6, <1>13, <2>1, <3>1, <3>2, PlaceSame
  <2>2. OnePlace(k)'
    BY <1>5, <1>7, <1>8, <1>11, <1>12, <1>13 DEF OnePlace
  <2>3. Inj(cancelling')
    BY <1>4 DEF AllOK, Rest, ListsOK
  <2> QED
    BY <1>11, <2>1, <2>2, <2>3 DEF ListsOK
<1>15. OwnedOK'
  <2>1. ASSUME NEW j \in Kind, j # k PROVE OwnedBy(j)'
    <3>1. \A v \in Client : On(v, j)' => On(v, j)
      BY <1>11, <2>1, Constants
    <3>2. Orphan(j)' => Orphan(j)
      BY <1>11, <1>12, <1>13, <2>1, Constants DEF Orphan
    <3>3. \A s \in Client : pc[s] \in {"dtorSignal", "dtorClose"} /\ arg[s] = j =>
                                 pc'[s] \in {"dtorSignal", "dtorClose"} /\ arg'[s] = j
      BY <1>4
    <3> QED
      BY <1>3, <1>4, <1>6, <1>10, <2>1, <3>1, <3>2, <3>3, OwnedSame
  <2>2. OwnedBy(k)'
    <3>1. \A v \in Client : On(v, k)' => owner'[k] = v
      BY <1>2, <1>3, <1>7, <1>11, Constants
    <3>2. ~On(Sup, k)'
      BY <1>2, <1>7, <1>11, Constants
    <3>3. Orphan(k)' => owner'[k] \in Client /\ pc'[owner'[k]] \in {"dying", "dead", "deleted"}
      <4>1. Orphan(k)' => callbacks[u] = Null
        BY <1>7, <1>12, <1>13, <3>2 DEF Orphan
      <4>2. callbacks[u] = Null => pc'[u] \in {"dying", "dead", "deleted"}
        BY <1>2, <1>9, <1>10 DEF Alive
      <4> QED
        BY <1>2, <1>3, <4>1, <4>2
    <3>4. fault' = "none" /\ waiting'[k] # Null =>
              \E s \in Client : pc'[s] \in {"dtorSignal", "dtorClose"} /\ arg'[s] = k
      BY <1>4
    <3>5. queue' # "none"
      BY <1>4, <1>6 DEF OwnedBy
    <3> QED
      BY <1>3, <3>1, <3>3, <3>4, <3>5 DEF OwnedBy, Alive
  <2> QED
    BY <2>1, <2>2 DEF OwnedOK
<1>16. StatusExact'
  <2> SUFFICES ASSUME fault' = "none", NEW v \in Client, Running(v)'
               PROVE  /\ \A j \in Kind : status'[v][j] = "KRequestPending" <=>
                             owner'[j] = v /\ request'[j] \in {"EReady", "EInUse", "EClosing"}
                      /\ sem'[v] + (IF pc'[v] = "woken" THEN 1 ELSE 0) + Cardinality(Hands(v)')
                         = Cardinality(Told(v)') + Cardinality(Coming(v)')
    BY DEF StatusExact, Hands
  <2>1. Running(v) /\ (pc'[v] = "woken" <=> pc[v] = "woken")
    BY <1>4 DEF Running
  <2>2. \A j \in Kind : status[v][j] = "KRequestPending" <=>
                           owner[j] = v /\ request[j] \in {"EReady", "EInUse", "EClosing"}
    BY <1>4, <2>1 DEF StatusExact, AllOK, Rest
  <2>3. \A j \in Kind : status'[v][j] = "KRequestPending" <=>
                           owner'[j] = v /\ request'[j] \in {"EReady", "EInUse", "EClosing"}
    BY <1>3, <1>4, <2>2
  <2>4. Told(v)' = Told(v)
    BY <1>4 DEF Told, Completed
  <2>5. /\ \A x \in Client \ {t} : x \in Hands(v)' <=> x \in Hands(v)
        /\ t \notin Hands(v)
        /\ t \in Hands(v)' <=> callbacks[u] # Null /\ v = u
    <3>1. v # Null
      BY Constants
    <3> QED
      BY <1>2, <1>4, <3>1 DEF Hands
  <2>6. /\ \A j \in Kind \ {k} : j \in Coming(v)' <=> j \in Coming(v)
        /\ k \notin Coming(v)
        /\ k \in Coming(v)' <=> callbacks[u] # Null /\ v = u
    <3>1. v \in Thread
      BY DEF Thread
    <3>2. \A j \in Kind : j \in Coming(v) <=> On(v, j)
      BY <3>1 DEF Coming, Queued, On
    <3>3. \A j \in Kind : j \in Coming(v)' <=> On(v, j)'
      BY <3>1 DEF Coming, Queued, On
    <3> QED
      BY <1>7, <1>11, <3>1, <3>2, <3>3
  <2>7. sem'[v] + B(pc'[v] = "woken") + B(t \in Hands(v)') - B(t \in Hands(v))
        = sem[v] + B(pc[v] = "woken") + B(k \in Told(v)') - B(k \in Told(v))
             + B(k \in Coming(v)') - B(k \in Coming(v))
    <3>1. sem'[v] = sem[v] /\ sem[v] \in Nat
      BY <1>1, <1>4
    <3> QED
      BY <2>1, <2>4, <2>5, <2>6, <3>1 DEF B
  <2>8. sem'[v] \in Nat
    BY <1>1, <1>4
  <2> QED
    BY <1>4, <2>1, <2>3, <2>4, <2>5, <2>6, <2>7, <2>8, StatusStep
<1> QED
  BY <1>2, <1>11, <1>14, <1>15, <1>16

-----------------------------------------------------------------------------
\* The reference that a completion gives up was the last one: the thread is dead.
LEMMA CompletesDead ==
    ASSUME AllOK, NEW t \in Client, NEW k \in Kind, NEW r, Enter(t), queue = "open",
           UNCHANGED <<queue, killed, user, supervisor, fault>>, RingOK',
           CompleteRequestIfPending(t, k, r), request[k] = "EReady",
           NEW u, u = waiting[k], access[u] = 1
    PROVE  Rest'
<1>1. /\ pc \in [Client -> Pc] /\ to \in [Client -> Client \cup {Null}]
      /\ waiting \in [Kind -> Client \cup {Null}] /\ access \in [Client -> Nat]
      /\ request \in [Kind -> {"null", "EFree", "EReady", "EInUse", "EClosing", "freed"}]
      /\ owner \in [Kind -> Client \cup {Null}]
  BY DEF AllOK, Rest, TypeOK
<1>2. \A j \in Kind : OnePlace(j) /\ OwnedBy(j)
  BY DEF AllOK, Rest, ListsOK, OwnedOK
<1>3. /\ u \in Client /\ owner[k] = u /\ access[u] = 1 /\ fault = "none" /\ request[k] = "EReady"
      /\ pc[t] = "call" /\ sys = Null
  BY <1>1, <1>2 DEF Enter, Live, OwnedBy
<1>4. pc[u] = "dead" /\ u \notin deleting
  BY <1>3, LastRef
<1>5. /\ waiting' = [waiting EXCEPT ![k] = Null]
      /\ access' = [access EXCEPT ![u] = 0]
      /\ request' = [request EXCEPT ![k] = "EFree"]
      /\ owner' = [owner EXCEPT ![k] = Null]
      /\ to' = [to EXCEPT ![t] = u]
      /\ pc' = [pc EXCEPT ![t] = "asyncDelete"]
      /\ UNCHANGED <<queue, killed, iResult, callbacks, arg, sys, status, sem, sv, victim,
                     cancelling, cleanup, deleting, fault>>
  BY <1>3 DEF CompleteRequestIfPending, GoTo, user, supervisor
<1>6. /\ waiting'[k] = Null /\ \A j \in Kind \ {k} : waiting'[j] = waiting[j]
      /\ access'[u] = 0 /\ \A s \in Client \ {u} : access'[s] = access[s]
      /\ request'[k] = "EFree" /\ \A j \in Kind \ {k} : request'[j] = request[j]
      /\ owner'[k] = Null /\ \A j \in Kind \ {k} : owner'[j] = owner[j]
      /\ to'[t] = u /\ \A s \in Client \ {t} : to'[s] = to[s]
      /\ pc'[t] = "asyncDelete" /\ \A s \in Client \ {t} : pc'[s] = pc[s]
      /\ u # t /\ u # Null /\ waiting[k] = u
  BY <1>1, <1>3, <1>4, <1>5, Constants
<1>7. TypeOK'
  <2>1. TypeOK
    BY DEF AllOK, Rest
  <2> QED
    BY <1>1, <1>3, <1>5, <2>1 DEF TypeOK, RingOK, Pc
<1>8. \A s \in Client : pc'[s] = pc[s] \/ (pc[s] = "call" /\ pc'[s] = "asyncDelete")
  BY <1>3, <1>6
<1>9. LockOK'
  BY <1>5, <1>6, <1>8, LockSame DEF AllOK, Rest, DtorPc
<1>10. ~InUse(k) /\ \A j \in Kind : InUse(j)' = InUse(j)
  BY <1>3, <1>6 DEF InUse
<1>11. \A s \in Client, j \in Kind : InHand(s, j)' = InHand(s, j)
  BY <1>5, <1>6, <1>8 DEF InHand
<1>12. /\ \A v \in Thread, j \in Kind : On(v, j)' = On(v, j)
       /\ \A j \in Kind : Taken(j)' = Taken(j)
       /\ \A j \in Kind : Orphan(j)' = Orphan(j)
       /\ \A s \in Client : Alive(s)' = Alive(s) /\ Own(s)' = Own(s)
  BY <1>5, <1>8, <1>11 DEF On, Taken, Orphan, Alive, Own
<1>13. ListsOK'
  BY <1>5, <1>10, <1>11, ListsSame DEF AllOK, Rest
<1>14. OwnedOK'
  <2>1. ASSUME NEW j \in Kind, j # k PROVE OwnedBy(j)'
    <3>1. \A v \in Client : On(v, j)' => On(v, j)
      BY <1>12, Constants
    <3>2. \A s \in Client : pc[s] \in {"dtorSignal", "dtorClose"} /\ arg[s] = j =>
                                 pc'[s] \in {"dtorSignal", "dtorClose"} /\ arg'[s] = j
      BY <1>5, <1>8
    <3> QED
      BY <1>2, <1>5, <1>6, <1>12, <2>1, <3>1, <3>2, OwnedSame
  <2>2. OwnedBy(k)'
    <3>1. ~Orphan(k) /\ \A v \in Client : ~On(v, k)
      BY <1>2, <1>10, Constants DEF OnePlace, Orphan
    <3>2. ~Orphan(k)' /\ \A v \in Client : ~On(v, k)'
      BY <1>12, <3>1, Constants
    <3> QED
      BY <1>5, <1>6, <1>10, <3>2 DEF OwnedBy
  <2> QED
    BY <2>1, <2>2 DEF OwnedOK
<1>15. SupOK'
  <2>1. SupOK
    BY DEF AllOK, Rest
  <2>2. /\ \A s \in Client : callbacks[s] = Null <=> ~Alive(s)
        /\ \A s \in Client : pc'[s] = "dying" <=> pc[s] = "dying"
        /\ sv = "flash" => access'[victim] = 0
    <3>1. victim \in Client \cup {Null}
      BY DEF AllOK, Rest, TypeOK
    <3>2. sv = "flash" => victim \in Client /\ access[victim] = 0
      BY <2>1, <3>1 DEF SupOK
    <3>3. sv = "flash" => access'[victim] = 0
      BY <1>6, <3>2
    <3>4. \A s \in Client : pc'[s] = "dying" <=> pc[s] = "dying"
      BY <1>8
    <3>5. \A s \in Client : callbacks[s] = Null <=> ~Alive(s)
      BY <2>1 DEF SupOK
    <3> QED
      BY <3>3, <3>4, <3>5
  <2> QED
    BY <1>5, <1>12, <2>1, <2>2 DEF SupOK
<1>16. CountOK'
  <2>1. \A s \in Client : /\ k \in Waits(s)' <=> FALSE
                          /\ k \in Waits(s) <=> s = u
                          /\ t \notin Closing(s) /\ t \notin Closing(s)'
    BY <1>3, <1>6, Constants DEF Waits, Closing
  <2>2. \A s \in Client : access'[s] = access[s] + B(Own(s)') - B(Own(s))
                            + B(k \in Waits(s)') - B(k \in Waits(s))
                            + B(t \in Closing(s)') - B(t \in Closing(s))
    <3> TAKE s \in Client
    <3>1. access[s] \in Nat /\ access'[s] = access[s] - B(k \in Waits(s))
      BY <1>1, <1>3, <1>6, <2>1 DEF B
    <3> QED
      BY <1>12, <2>1, <3>1 DEF B
  <2>3. \A x \in Client \ {t} : pc'[x] = "asyncClose" \/ pc[x] = "asyncClose" =>
                                       pc'[x] = pc[x] /\ to'[x] = to[x]
    BY <1>6
  <2>4. CountOK /\ TypeOK
    BY DEF AllOK, Rest
  <2> QED
    BY <1>6, <2>2, <2>3, <2>4, CountStep
<1>17. \A s \in Client : pc[s] \notin DtorPc
  BY NoDtor
<1>18. ToOK'
  <2>1. ToOK
    BY DEF AllOK, Rest
  <2>2. \A s \in Client : pc'[s] \notin {"dtorSignal", "dtorClose"}
    BY <1>8, <1>17 DEF DtorPc
  <2> QED
    BY <1>5, <1>6, <2>1, <2>2 DEF ToOK, Busy
<1>19. DeletedOK'
  <2>1. DeletedOK
    BY DEF AllOK, Rest
  <2>2. \A s \in Client : pc[s] \in {"asyncDelete", "dtorFlash"} => to[s] \in Client
    BY <1>1 DEF AllOK, Rest, ToOK
  <2>3. \A s \in Client : Free(s) => Free(s)'
    BY <1>6, <1>8 DEF Free
  <2>4. Free(u)'
    BY <1>3, <1>4, <1>6 DEF Free
  <2>5. ASSUME NEW s \in Client, pc'[s] \in {"asyncDelete", "dtorFlash"} PROVE Free(to[s])'
    <3>1. CASE s = t
      BY <1>6, <2>4, <3>1 DEF Free
    <3>2. CASE s # t
      <4>1. pc[s] \in {"asyncDelete", "dtorFlash"} /\ to'[s] = to[s]
        BY <1>6, <2>5, <3>2
      <4>2. to[s] \in Client /\ access[to[s]] = 0 /\ pc[to[s]] \in {"dead", "deleted"}
        BY <2>1, <2>2, <4>1 DEF DeletedOK, Free
      <4>3. access'[to[s]] = 0 /\ pc'[to[s]] \in {"dead", "deleted"}
        BY <1>6, <1>8, <4>2
      <4> QED
        BY <4>1, <4>3 DEF Free
    <3> QED
      BY <3>1, <3>2
  <2>6. \A s \in deleting : Free(s)'
    BY <2>1, <2>3 DEF DeletedOK, AllOK, Rest, TypeOK
  <2>7. /\ \A s \in Client : pc'[s] = "deleted" => access'[s] = 0
        /\ \A s, v \in Client : pc'[s] = "signal" /\ to'[s] = v => pc'[v] # "deleted"
    BY <1>6, <1>8, <2>1 DEF DeletedOK
  <2> QED
    BY <1>5, <2>5, <2>6, <2>7 DEF DeletedOK
<1>20. StatusExact'
  <2>1. StatusExact
    BY DEF AllOK, Rest
  <2>2. \A s \in Client : Running(s)' => Running(s) /\ (pc'[s] = "woken" <=> pc[s] = "woken") /\ s # u
    BY <1>4, <1>5, <1>8, <1>6 DEF Running
  <2>3. \A s, v \in Client : s \in Hands(v)' <=> s \in Hands(v)
    BY <1>6, <1>8 DEF Hands
  <2>4. \A s \in Client \ {u}, j \in Kind :
            owner'[j] = s /\ request'[j] \in {"EReady", "EInUse", "EClosing"}
            <=> owner[j] = s /\ request[j] \in {"EReady", "EInUse", "EClosing"}
    BY <1>3, <1>6, Constants
  <2> QED
    BY <1>5, <2>1, <2>2, <2>3, <2>4, StatusSame
<1> QED
  BY <1>7, <1>9, <1>13, <1>14, <1>15, <1>16, <1>18, <1>19, <1>20 DEF Rest

-----------------------------------------------------------------------------
\* It was not: the thread is given the callback, or the request is in the hand of t.
LEMMA CompletesLive ==
    ASSUME AllOK, NEW t \in Client, NEW k \in Kind, NEW r \in {"KErrNone", "KErrCancel"},
           Enter(t), queue = "open",
           UNCHANGED <<queue, killed, user, supervisor, fault>>, RingOK',
           CompleteRequestIfPending(t, k, r), request[k] = "EReady",
           NEW u, u = waiting[k], access[u] # 1
    PROVE  Rest'
<1>1. /\ pc \in [Client -> Pc] /\ to \in [Client -> Client \cup {Null}]
      /\ waiting \in [Kind -> Client \cup {Null}] /\ access \in [Client -> Nat]
      /\ request \in [Kind -> {"null", "EFree", "EReady", "EInUse", "EClosing", "freed"}]
      /\ iResult \in [Kind -> {"KRequestPending", "KErrNone", "KErrCancel"}]
      /\ arg \in [Client -> Kind]
  BY DEF AllOK, Rest, TypeOK
<1>2. /\ waiting' = [waiting EXCEPT ![k] = Null]
      /\ access' = [access EXCEPT ![u] = access[u] - 1]
      /\ request' = [request EXCEPT ![k] = "EInUse"]
      /\ iResult' = [iResult EXCEPT ![k] = r]
      /\ owner' = owner
      /\ to' = [to EXCEPT ![t] = IF callbacks[u] = Null THEN Null ELSE u]
      /\ pc' = [pc EXCEPT ![t] = "signal"]
      /\ arg' = [arg EXCEPT ![t] = k]
      /\ sys' = t /\ sys = Null /\ pc[t] = "call"
      /\ UNCHANGED <<queue, killed, status, sem, sv, victim, cancelling, cleanup, deleting, fault>>
  BY DEF CompleteRequestIfPending, QueueRequestComplete, GoTo, user, supervisor, Enter
<1>3. Completes(t, k, u, r, "signal")
  BY <1>1, <1>2 DEF CompleteRequestIfPending, Completes, Enter, Live
<1>4. /\ u \in Client /\ owner[k] = u
      /\ callbacks' \in [Thread -> Seq(Kind) \cup {Null}]
      /\ \A v \in Thread : callbacks'[v] = Null <=> callbacks[v] = Null
      /\ ListsOK' /\ OwnedOK' /\ StatusExact'
  BY <1>3, CompletesKeeps
<1>5. access[u] \in Nat \ {0} /\ access[u] - 1 \in Nat
  BY <1>4, LastRef
<1>6. /\ waiting'[k] = Null /\ \A j \in Kind \ {k} : waiting'[j] = waiting[j]
      /\ access'[u] = access[u] - 1 /\ \A s \in Client \ {u} : access'[s] = access[s]
      /\ to'[t] \in {Null, u} /\ (to'[t] = u => callbacks[u] # Null)
      /\ \A s \in Client \ {t} : to'[s] = to[s] /\ pc'[s] = pc[s] /\ arg'[s] = arg[s]
      /\ pc'[t] = "signal" /\ arg'[t] = k /\ waiting[k] = u
      /\ access' \in [Client -> Nat]
  BY <1>1, <1>2, <1>4, <1>5, Constants
<1>7. TypeOK'
  <2>1. TypeOK
    BY DEF AllOK, Rest
  <2>2. to' \in [Client -> Client \cup {Null}] /\ pc' \in [Client -> Pc]
    BY <1>1, <1>2, <1>4 DEF Pc
  <2> QED
    BY <1>1, <1>2, <1>4, <1>6, <2>1, <2>2 DEF TypeOK, RingOK
<1>8. \A s \in Client : pc[s] \notin DtorPc
  BY NoDtor
<1>9. LockOK'
  <2>1. LockOK /\ queue # "closed"
    BY DEF AllOK, Rest
  <2>2. \A s \in Client : pc'[s] \notin DtorPc
    BY <1>6, <1>8 DEF DtorPc
  <2>3. \A s \in Client : pc'[s] = "signal" <=> sys' = s
    BY <1>2, <1>6, <2>1, Constants DEF LockOK
  <2>4. \A j \in Kind : request'[j] \notin {"EClosing", "freed"}
    BY <1>1, <1>2, <2>1 DEF LockOK
  <2> QED
    BY <2>2, <2>3, <2>4 DEF LockOK
<1>10. \A s \in Client : Alive(s)' = Alive(s) /\ Own(s)' = Own(s)
  BY <1>2, <1>6 DEF Alive, Own
<1>11. SupOK'
  <2>1. SupOK
    BY DEF AllOK, Rest
  <2>2. victim \in Client \cup {Null}
    BY DEF AllOK, Rest, TypeOK
  <2>3. sv = "flash" => victim # Null /\ access[victim] = 0
    BY <2>1 DEF SupOK
  <2>4. sv = "flash" => access'[victim] = 0
    BY <1>5, <1>6, <2>2, <2>3
  <2>5. \A s \in Client : pc'[s] = "dying" <=> pc[s] = "dying"
    BY <1>2, <1>6
  <2>6. \A s \in Client : callbacks'[s] = Null <=> ~Alive(s)'
    BY <1>4, <1>10, <2>1, Constants DEF SupOK
  <2>7. callbacks'[Sup] # Null
    BY <1>4, <2>1, Constants DEF SupOK
  <2> QED
    BY <1>2, <2>1, <2>3, <2>4, <2>5, <2>6, <2>7 DEF SupOK
<1>12. CountOK'
  <2>1. \A s \in Client : /\ k \in Waits(s)' <=> FALSE
                          /\ k \in Waits(s) <=> s = u
                          /\ t \notin Closing(s) /\ t \notin Closing(s)'
    BY <1>2, <1>6, Constants DEF Waits, Closing
  <2>2. \A s \in Client : access'[s] = access[s] + B(Own(s)') - B(Own(s))
                            + B(k \in Waits(s)') - B(k \in Waits(s))
                            + B(t \in Closing(s)') - B(t \in Closing(s))
    <3> TAKE s \in Client
    <3>1. access[s] \in Nat /\ access'[s] = access[s] - B(k \in Waits(s))
      BY <1>1, <1>6, <2>1 DEF B
    <3> QED
      BY <1>10, <2>1, <3>1 DEF B
  <2>3. \A x \in Client \ {t} : pc'[x] = "asyncClose" \/ pc[x] = "asyncClose" =>
                                       pc'[x] = pc[x] /\ to'[x] = to[x]
    BY <1>6
  <2>4. CountOK /\ TypeOK
    BY DEF AllOK, Rest
  <2>5. \A j \in Kind \ {k} : waiting'[j] = waiting[j]
    BY <1>6
  <2> QED
    BY <2>2, <2>3, <2>4, <2>5, CountStep
<1>13. ToOK'
  <2>1. ToOK
    BY DEF AllOK, Rest
  <2>2. \A s \in Client : pc'[s] \notin {"dtorSignal", "dtorClose"}
    BY <1>6, <1>8 DEF DtorPc
  <2> QED
    BY <1>2, <1>6, <2>1, <2>2 DEF ToOK, Busy
<1>14. DeletedOK'
  <2>1. DeletedOK
    BY DEF AllOK, Rest
  <2>2. \A s \in Client : pc[s] \in {"asyncDelete", "dtorFlash"} => to[s] \in Client
    BY <1>1 DEF AllOK, Rest, ToOK
  <2>3. \A s \in Client : Free(s) => access'[s] = 0 /\ pc'[s] \in {"dead", "deleted"}
    BY <1>2, <1>5, <1>6 DEF Free
  <2>4. \A s \in Client : pc'[s] \in {"asyncDelete", "dtorFlash"} =>
            access'[to'[s]] = 0 /\ pc'[to'[s]] \in {"dead", "deleted"}
    BY <1>6, <2>1, <2>2, <2>3 DEF DeletedOK
  <2>5. \A s \in deleting' : access'[s] = 0 /\ pc'[s] \in {"dead", "deleted"}
    BY <1>2, <2>1, <2>3 DEF DeletedOK, AllOK, Rest, TypeOK
  <2>6. \A s \in Client : pc'[s] = "deleted" => access'[s] = 0
    BY <1>5, <1>6, <2>1 DEF DeletedOK
  <2>7. \A s, v \in Client : pc'[s] = "signal" /\ to'[s] = v => pc'[v] # "deleted"
    <3>1. pc[u] = "deleted" => callbacks[u] = Null
      BY <1>4 DEF AllOK, Rest, SupOK, Alive
    <3> QED
      BY <1>4, <1>6, <2>1, <3>1, Constants DEF DeletedOK
  <2> QED
    BY <2>4, <2>5, <2>6, <2>7 DEF DeletedOK, Free
<1> QED
  BY <1>4, <1>7, <1>9, <1>11, <1>12, <1>13, <1>14 DEF Rest

\* What a send, a receive and a cancellation do.
LEMMA CompleteKeeps ==
    ASSUME AllOK, NEW t \in Client, NEW k \in Kind, NEW r \in {"KErrNone", "KErrCancel"},
           Enter(t), queue = "open",
           UNCHANGED <<queue, killed, user, supervisor, fault>>, RingOK',
           CompleteRequestIfPending(t, k, r)
    PROVE  Rest'
<1>1. CASE request[k] # "EReady"
  BY <1>1, NothingToComplete
<1>2. CASE request[k] = "EReady" /\ access[waiting[k]] = 1
  BY <1>2, CompletesDead
<1>3. CASE request[k] = "EReady" /\ access[waiting[k]] # 1
  BY <1>3, CompletesLive
<1> QED
  BY <1>1, <1>2, <1>3

\* Send, Receive and Cancel.
LEMMA QueueSteps ==
    ASSUME AllOK, RingOK', NEW t \in Client,
           Send(t) \/ Receive(t) \/ \E k \in Kind : Cancel(t, k)
    PROVE  Rest'
<1>1. CASE Send(t)
  <2>1. CASE iState = "EFull"
    BY <1>1, <2>1, WalkSteps
  <2>2. CASE iState # "EFull"
    <3>1. /\ Enter(t) /\ queue = "open" /\ CompleteRequestIfPending(t, "data", "KErrNone")
          /\ UNCHANGED <<queue, killed, user, supervisor, fault>> /\ "data" \in Kind
      BY <1>1, <2>2 DEF Send, Kind
    <3> QED
      BY <3>1, CompleteKeeps
  <2> QED
    BY <2>1, <2>2
<1>2. CASE Receive(t)
  <2>1. CASE iState = "EEmpty"
    BY <1>2, <2>1, WalkSteps
  <2>2. CASE iState # "EEmpty"
    <3>1. /\ Enter(t) /\ queue = "open" /\ CompleteRequestIfPending(t, "space", "KErrNone")
          /\ UNCHANGED <<queue, killed, user, supervisor, fault>> /\ "space" \in Kind
      BY <1>2, <2>2 DEF Receive, Kind
    <3> QED
      BY <3>1, CompleteKeeps
  <2> QED
    BY <2>1, <2>2
<1>3. CASE \E k \in Kind : Cancel(t, k)
  <2>1. PICK k \in Kind : Cancel(t, k)
    BY <1>3
  <2> QED
    BY <2>1, CompleteKeeps DEF Cancel
<1> QED
  BY <1>1, <1>2, <1>3

-----------------------------------------------------------------------------
\* The end of a completion: t signals u, or gives request k to the supervisor.
Ends(t, k, u, p) ==
    /\ pc[t] \in {"signal", "dtorSignal"} /\ k = arg[t] /\ u = to[t]
    /\ p \notin {"signal", "dtorSignal", "woken", "dying", "dead", "deleted"}
    /\ pc[t] = "dtorSignal" => p = "dtorClose" /\ arg' = arg
    /\ EndComplete(u, k)
    /\ pc' = [pc EXCEPT ![t] = p]
    /\ \A s \in Client \ {t} : to'[s] = to[s] /\ arg'[s] = arg[s]
    /\ UNCHANGED <<queue, waiting, requests, cancelling, status, killed, fault>>

\* What such a step keeps.
LEMMA EndsKeeps ==
    ASSUME AllOK, NEW t \in Client, NEW k, NEW u, NEW p, Ends(t, k, u, p)
    PROVE  /\ callbacks' \in [Thread -> Seq(Kind) \cup {Null}]
           /\ \A v \in Thread : callbacks'[v] = Null <=> callbacks[v] = Null
           /\ sem' \in [Client -> Nat] /\ cleanup' \in BOOLEAN
           /\ ListsOK' /\ OwnedOK' /\ StatusExact'
<1>1. /\ pc \in [Client -> Pc] /\ to \in [Client -> Client \cup {Null}]
      /\ arg \in [Client -> Kind] /\ callbacks \in [Thread -> Seq(Kind) \cup {Null}]
      /\ sem \in [Client -> Nat] /\ cleanup \in BOOLEAN
      /\ status \in [Client -> [Kind -> {"unused", "KRequestPending", "KErrNone", "KErrCancel"}]]
  BY DEF AllOK, Rest, TypeOK
<1>2. /\ k \in Kind /\ u \in Client \cup {Null} /\ k = arg[t] /\ u = to[t]
      /\ pc[t] \in {"signal", "dtorSignal"} /\ pc'[t] = p
      /\ p \notin {"signal", "dtorSignal", "woken", "dying", "dead", "deleted"}
      /\ pc[t] = "dtorSignal" => p = "dtorClose" /\ arg'[t] = k
      /\ \A s \in Client \ {t} : to'[s] = to[s] /\ arg'[s] = arg[s] /\ pc'[s] = pc[s]
      /\ UNCHANGED <<queue, waiting, request, owner, iResult, cancelling, status, killed, fault>>
  BY <1>1 DEF Ends, requests
<1>3. \A s \in Client \ {t} : pc[s] \notin {"signal", "dtorSignal"}
  BY <1>2, Constants DEF AllOK, Rest, LockOK, DtorPc
<1>4. /\ callbacks' = IF u = Null THEN [callbacks EXCEPT ![Sup] = <<k>> \o @] ELSE callbacks
      /\ sem' = IF u = Null \/ callbacks[u] = Null THEN sem ELSE [sem EXCEPT ![u] = @ + 1]
      /\ cleanup' \in BOOLEAN
  BY <1>1 DEF Ends, EndComplete
<1>5. sem' \in [Client -> Nat]
  <2>1. u # Null => u \in Client /\ sem[u] + 1 \in Nat
    BY <1>1, <1>2
  <2> QED
    BY <1>1, <1>4, <2>1
<1>6. \A j \in Kind : OnePlace(j) /\ OwnedBy(j)
  BY DEF AllOK, Rest, ListsOK, OwnedOK
<1>7. /\ \A j \in Kind, s \in Client : InHand(s, j) <=> s = t /\ j = k /\ u = Null
      /\ \A j \in Kind, s \in Client : ~InHand(s, j)'
  BY <1>2, <1>3 DEF InHand
<1>8. /\ \A s \in Client : Alive(s)' = Alive(s)
      /\ \A j \in Kind : Taken(j)' = Taken(j) /\ InUse(j)' = InUse(j)
  BY <1>2 DEF Alive, Taken, InUse
<1>9. /\ callbacks' \in [Thread -> Seq(Kind) \cup {Null}]
      /\ \A v \in Thread : callbacks'[v] = Null <=> callbacks[v] = Null
      /\ \A v \in Thread : callbacks'[v] # Null => Inj(callbacks'[v])
      /\ \A v \in Thread, j \in Kind :
             On(v, j)' <=> On(v, j) \/ (u = Null /\ v = Sup /\ j = k)
  <2>1. CASE u # Null
    <3>1. callbacks' = callbacks
      BY <1>4, <2>1
    <3>2. \A v \in Thread, j \in Kind : On(v, j)' = On(v, j)
      BY <3>1 DEF On
    <3> QED
      BY <1>1, <2>1, <3>1, <3>2 DEF AllOK, Rest, ListsOK
  <2>2. CASE u = Null
    <3>1. callbacks' = [callbacks EXCEPT ![Sup] = <<k>> \o @]
      BY <1>4, <2>2
    <3>2. \A v \in Thread : ~On(v, k)
      BY <1>2, <1>6, <1>7, <2>2 DEF OnePlace
    <3>3. callbacks[Sup] # Null
      BY DEF AllOK, Rest, SupOK
    <3>4. /\ callbacks' \in [Thread -> Seq(Kind) \cup {Null}]
          /\ \A v \in Thread : callbacks'[v] = Null <=> callbacks[v] = Null
          /\ \A v \in Thread : callbacks'[v] # Null => Inj(callbacks'[v])
          /\ \A v \in Thread, j \in Kind : On(v, j)' <=> On(v, j) \/ (v = Sup /\ j = k)
      BY <1>2, <3>1, <3>2, <3>3, Pushed, Constants
    <3> QED
      BY <2>2, <3>4
  <2> QED
    BY <2>1, <2>2
<1>10. ASSUME NEW j \in Kind PROVE OnePlace(j)'
  <2>1. CASE ~(u = Null /\ j = k)
    <3>1. \A v \in Thread : On(v, j)' = On(v, j)
      BY <1>9, <2>1 DEF On
    <3>2. \A s \in Client : InHand(s, j)' = InHand(s, j)
      BY <1>7, <2>1 DEF InHand
    <3> QED
      BY <1>6, <1>8, <3>1, <3>2, PlaceSame
  <2>2. CASE u = Null /\ j = k
    <3>1. /\ InUse(j) /\ ~Taken(j) /\ \A v \in Thread : ~On(v, j)
      BY <1>6, <1>7, <2>2 DEF OnePlace
    <3>2. \A v \in Thread : On(v, j)' <=> v = Sup
      BY <1>9, <2>2, <3>1
    <3> QED
      BY <1>7, <1>8, <3>1, <3>2, Constants DEF OnePlace
  <2> QED
    BY <2>1, <2>2
<1>11. ListsOK'
  <2>1. Inj(cancelling')
    BY <1>2 DEF AllOK, Rest, ListsOK
  <2> QED
    BY <1>9, <1>10, <2>1 DEF ListsOK
<1>12. ASSUME NEW j \in Kind PROVE OwnedBy(j)'
  <2>1. \A v \in Client : On(v, j)' => On(v, j)
    BY <1>9, Constants
  <2>2. Orphan(j)' => Orphan(j)
    BY <1>7, <1>8, <1>9, Constants DEF Orphan
  <2>3. \A s \in Client : pc[s] \in {"dtorSignal", "dtorClose"} /\ arg[s] = j =>
                               pc'[s] \in {"dtorSignal", "dtorClose"} /\ arg'[s] = j
    BY <1>2
  <2> QED
    BY <1>2, <1>6, <1>8, <2>1, <2>2, <2>3, OwnedSame
<1>13. StatusExact'
  <2> SUFFICES ASSUME fault' = "none", NEW v \in Client, Running(v)'
               PROVE  /\ \A j \in Kind : status'[v][j] = "KRequestPending" <=>
                             owner'[j] = v /\ request'[j] \in {"EReady", "EInUse", "EClosing"}
                      /\ sem'[v] + (IF pc'[v] = "woken" THEN 1 ELSE 0) + Cardinality(Hands(v)')
                         = Cardinality(Told(v)') + Cardinality(Coming(v)')
    BY DEF StatusExact, Hands
  <2>1. Running(v) /\ (pc'[v] = "woken" <=> pc[v] = "woken")
    BY <1>2 DEF Running
  <2>2. \A j \in Kind : status'[v][j] = "KRequestPending" <=>
                           owner'[j] = v /\ request'[j] \in {"EReady", "EInUse", "EClosing"}
    BY <1>2, <2>1 DEF StatusExact, AllOK, Rest
  <2>3. Told(v)' = Told(v)
    BY <1>2 DEF Told, Completed
  <2>4. /\ \A x \in Client \ {t} : x \in Hands(v)' <=> x \in Hands(v)
        /\ t \notin Hands(v)'
        /\ t \in Hands(v) <=> v = u
    BY <1>2 DEF Hands
  <2>5. \A j \in Kind : j \in Coming(v)' <=> j \in Coming(v)
    <3>1. v \in Thread /\ v # Sup
      BY Constants DEF Thread
    <3>2. \A j \in Kind : j \in Coming(v) <=> On(v, j)
      BY <3>1 DEF Coming, Queued, On
    <3>3. \A j \in Kind : j \in Coming(v)' <=> On(v, j)'
      BY <3>1 DEF Coming, Queued, On
    <3> QED
      BY <1>9, <3>1, <3>2, <3>3
  <2>6. sem'[v] = sem[v] + B(v = u) /\ sem[v] \in Nat /\ sem'[v] \in Nat
    <3>1. Alive(v) /\ callbacks[v] # Null /\ v # Null
      BY <2>1, Constants DEF Running, Alive, AllOK, Rest, SupOK
    <3> QED
      BY <1>1, <1>4, <1>5, <3>1 DEF B
  <2>7. sem'[v] + B(pc'[v] = "woken") + B(t \in Hands(v)') - B(t \in Hands(v))
        = sem[v] + B(pc[v] = "woken") + B(k \in Told(v)') - B(k \in Told(v))
             + B(k \in Coming(v)') - B(k \in Coming(v))
    BY <1>2, <2>1, <2>3, <2>4, <2>5, <2>6 DEF B
  <2> QED
    BY <1>2, <2>1, <2>2, <2>3, <2>4, <2>5, <2>6, <2>7, StatusStep
<1> QED
  BY <1>4, <1>5, <1>9, <1>11, <1>12, <1>13 DEF OwnedOK

\* The end of a completion with the system lock.
LEMMA SignalKeeps ==
    ASSUME AllOK, NEW t \in Client, Signal(t)
    PROVE  Rest'
<1>1. /\ pc \in [Client -> Pc] /\ to \in [Client -> Client \cup {Null}]
      /\ arg \in [Client -> Kind]
  BY DEF AllOK, Rest, TypeOK
<1>2. /\ pc[t] = "signal" /\ to' = [to EXCEPT ![t] = Null] /\ arg' = [arg EXCEPT ![t] = "data"]
      /\ sys' = Null /\ fault = "none" /\ EndComplete(to[t], arg[t])
      /\ UNCHANGED <<queue, iMsgPool, iFirstFreeSlot, iFirstFullSlot, iState, waiting, request,
                     owner, iResult, access, killed, status, sv, victim, cancelling, deleting, fault>>
  BY DEF Signal, Live, ring, requests
<1>3. PICK p \in {"run", "exit"} : pc' = [pc EXCEPT ![t] = p]
  BY DEF Signal, Return, GoTo
<1>4. Ends(t, arg[t], to[t], p)
  BY <1>1, <1>2, <1>3 DEF Ends, requests
<1>5. /\ callbacks' \in [Thread -> Seq(Kind) \cup {Null}]
      /\ \A v \in Thread : callbacks'[v] = Null <=> callbacks[v] = Null
      /\ sem' \in [Client -> Nat] /\ cleanup' \in BOOLEAN
      /\ ListsOK' /\ OwnedOK' /\ StatusExact'
  BY <1>4, EndsKeeps
<1>6. /\ pc'[t] \in {"run", "exit"} /\ pc' \in [Client -> Pc]
      /\ to'[t] = Null /\ to' \in [Client -> Client \cup {Null}] /\ arg' \in [Client -> Kind]
      /\ \A s \in Client \ {t} : to'[s] = to[s] /\ pc'[s] = pc[s] /\ arg'[s] = arg[s]
  BY <1>1, <1>2, <1>3 DEF Pc, Kind
<1>7. TypeOK'
  BY <1>2, <1>5, <1>6 DEF AllOK, Rest, TypeOK
<1>8. LockOK'
  <2>1. LockOK /\ sys = t
    BY <1>2 DEF AllOK, Rest, LockOK
  <2>2. \A s \in Client : pc'[s] # "signal" /\ (pc'[s] \in DtorPc => pc[s] \in DtorPc)
    BY <1>6, <2>1 DEF LockOK, DtorPc
  <2> QED
    BY <1>2, <1>6, <2>1, <2>2, Constants DEF LockOK
<1>9. \A s \in Client : Alive(s)' = Alive(s) /\ Own(s)' = Own(s)
  BY <1>2, <1>6 DEF Alive, Own
<1>10. SupOK'
  BY <1>2, <1>5, <1>6, <1>9, Constants DEF AllOK, Rest, SupOK
<1>11. CountOK'
  BY <1>2, <1>6, <1>9, CountSame DEF AllOK, Rest
<1>12. ToOK'
  BY <1>2, <1>6 DEF AllOK, Rest, ToOK, Busy
<1>13. DeletedOK'
  <2>1. DeletedOK
    BY DEF AllOK, Rest
  <2>2. \A s \in Client : pc[s] \in {"asyncDelete", "dtorFlash"} => to[s] \in Client
    BY <1>1 DEF AllOK, Rest, ToOK
  <2>3. \A s \in Client : Free(s) => access'[s] = 0 /\ pc'[s] \in {"dead", "deleted"}
    BY <1>2, <1>6 DEF Free
  <2>4. \A s \in Client : pc'[s] \in {"asyncDelete", "dtorFlash"} =>
            access'[to'[s]] = 0 /\ pc'[to'[s]] \in {"dead", "deleted"}
    BY <1>6, <2>1, <2>2, <2>3 DEF DeletedOK
  <2>5. \A s \in deleting' : access'[s] = 0 /\ pc'[s] \in {"dead", "deleted"}
    BY <1>2, <2>1, <2>3 DEF DeletedOK, AllOK, Rest, TypeOK
  <2>6. \A s \in Client : pc'[s] = "deleted" => access'[s] = 0
    BY <1>2, <1>6, <2>1 DEF DeletedOK
  <2>7. \A s, v \in Client : pc'[s] = "signal" /\ to'[s] = v => pc'[v] # "deleted"
    BY <1>6, <2>1 DEF DeletedOK
  <2> QED
    BY <2>4, <2>5, <2>6, <2>7 DEF DeletedOK, Free
<1> QED
  BY <1>5, <1>7, <1>8, <1>10, <1>11, <1>12, <1>13 DEF Rest

-----------------------------------------------------------------------------
\* What is to be deleted stays dead and without a reference.
LEMMA DeletedStep ==
    ASSUME AllOK,
           \A s \in Client : Free(s) => access'[s] = 0 /\ pc'[s] \in {"dead", "deleted"},
           \A s \in Client : pc'[s] \in {"asyncDelete", "dtorFlash"} =>
               \/ pc[s] \in {"asyncDelete", "dtorFlash"} /\ to'[s] = to[s]
               \/ access'[to'[s]] = 0 /\ pc'[to'[s]] \in {"dead", "deleted"},
           \A s \in deleting' : s \in deleting \/ (access'[s] = 0 /\ pc'[s] \in {"dead", "deleted"}),
           \A s \in Client : pc'[s] = "deleted" => pc[s] = "deleted" \/ access'[s] = 0,
           \A s, v \in Client : pc'[s] = "signal" /\ to'[s] = v =>
               pc[s] = "signal" /\ to[s] = v /\ (pc'[v] = "deleted" => pc[v] = "deleted")
    PROVE  DeletedOK'
<1>1. DeletedOK /\ deleting \subseteq Client
  BY DEF AllOK, Rest, TypeOK
<1>2. \A s \in Client : pc[s] \in {"asyncDelete", "dtorFlash"} => to[s] \in Client
  <2>1. \A s \in Client : to[s] \in Client \cup {Null}
    BY DEF AllOK, Rest, TypeOK
  <2> QED
    BY <2>1 DEF AllOK, Rest, ToOK
<1>3. \A s \in Client : pc'[s] \in {"asyncDelete", "dtorFlash"} =>
          access'[to'[s]] = 0 /\ pc'[to'[s]] \in {"dead", "deleted"}
  BY <1>1, <1>2 DEF DeletedOK
<1>4. \A s \in deleting' : access'[s] = 0 /\ pc'[s] \in {"dead", "deleted"}
  BY <1>1 DEF DeletedOK
<1>5. \A s \in Client : pc'[s] = "deleted" => access'[s] = 0
  BY <1>1 DEF DeletedOK, Free
<1>6. \A s, v \in Client : pc'[s] = "signal" /\ to'[s] = v => pc'[v] # "deleted"
  BY <1>1 DEF DeletedOK
<1> QED
  BY <1>3, <1>4, <1>5, <1>6 DEF DeletedOK, Free

\* The destructor completes the requests.
LEMMA DtorCompletes ==
    ASSUME AllOK, NEW t \in Client, DtorComplete(t), request[arg[t]] = "EReady"
    PROVE  Rest'
<1> USE DEF Rest
<1>1. /\ pc \in [Client -> Pc] /\ to \in [Client -> Client \cup {Null}]
      /\ request \in [Kind -> {"null", "EFree", "EReady", "EInUse", "EClosing", "freed"}]
      /\ iResult \in [Kind -> {"KRequestPending", "KErrNone", "KErrCancel"}]
      /\ arg \in [Client -> Kind] /\ arg[t] \in Kind
  BY DEF AllOK, TypeOK
<1>2. PICK k \in Kind : k = arg[t]
  BY <1>1
<1>3. PICK u : u = waiting[k]
  OBVIOUS
<1>4. /\ QueueRequestComplete(u, k, "KErrCancel")
      /\ request' = [request EXCEPT ![k] = "EInUse"]
      /\ iResult' = [iResult EXCEPT ![k] = "KErrCancel"]
      /\ owner' = owner
      /\ to' = [to EXCEPT ![t] = IF callbacks[u] = Null THEN Null ELSE u]
      /\ pc' = [pc EXCEPT ![t] = "dtorSignal"]
      /\ pc[t] = "dtor" /\ fault = "none"
      /\ UNCHANGED <<queue, iMsgPool, iFirstFreeSlot, iFirstFullSlot, iState, waiting, arg, access,
                     sys, killed, status, sem, sv, victim, cancelling, cleanup, deleting, fault>>
  BY <1>2, <1>3 DEF DtorComplete, QueueRequestComplete, GoTo, user, supervisor, ring, Live
<1>5. Completes(t, k, u, "KErrCancel", "dtorSignal")
  BY <1>1, <1>2, <1>3, <1>4 DEF Completes
<1>6. /\ u \in Client /\ owner[k] = u
      /\ callbacks' \in [Thread -> Seq(Kind) \cup {Null}]
      /\ \A v \in Thread : callbacks'[v] = Null <=> callbacks[v] = Null
      /\ ListsOK' /\ OwnedOK' /\ StatusExact'
  BY <1>5, CompletesKeeps
<1>7. /\ to'[t] \in {Null, u} /\ pc'[t] = "dtorSignal" /\ u # Null
      /\ to' \in [Client -> Client \cup {Null}] /\ pc' \in [Client -> Pc]
      /\ \A s \in Client \ {t} : to'[s] = to[s] /\ pc'[s] = pc[s]
  BY <1>1, <1>4, <1>6, Constants DEF Pc
<1>8. TypeOK'
  BY <1>1, <1>4, <1>6, <1>7 DEF AllOK, TypeOK
<1>9. LockOK'
  <2>1. LockOK /\ sys = Null
    BY <1>4 DEF AllOK, LockOK, DtorPc
  <2>2. \A s \in Client : (pc'[s] = "signal" <=> pc[s] = "signal") /\ (pc'[s] \in DtorPc <=> pc[s] \in DtorPc)
    BY <1>4, <1>7 DEF DtorPc
  <2>3. \A j \in Kind : request'[j] \in {"EClosing", "freed"} => request[j] \in {"EClosing", "freed"}
    BY <1>1, <1>4
  <2> QED
    BY <1>4, <2>1, <2>2, <2>3 DEF LockOK
<1>10. \A s \in Client : Alive(s)' = Alive(s) /\ Own(s)' = Own(s)
  BY <1>4, <1>7 DEF Alive, Own
<1>11. SupOK'
  BY <1>4, <1>6, <1>7, <1>10, Constants DEF AllOK, SupOK
<1>12. CountOK'
  BY <1>4, <1>7, <1>10, CountSame DEF AllOK
<1>13. ToOK'
  BY <1>2, <1>3, <1>4, <1>7 DEF AllOK, ToOK, Busy
<1>14. DeletedOK'
  <2>1. \A s \in Client : Free(s) => access'[s] = 0 /\ pc'[s] \in {"dead", "deleted"}
    BY <1>4, <1>7 DEF Free
  <2> QED
    BY <1>4, <1>7, <2>1, DeletedStep
<1> QED
  BY <1>6, <1>8, <1>9, <1>11, <1>12, <1>13, <1>14

\* The end of a completion by the destructor.
LEMMA DtorSignals ==
    ASSUME AllOK, NEW t \in Client, DtorSignal(t)
    PROVE  Rest'
<1> USE DEF Rest
<1>1. /\ pc \in [Client -> Pc] /\ to \in [Client -> Client \cup {Null}]
      /\ arg \in [Client -> Kind] /\ arg[t] \in Kind /\ waiting \in [Kind -> Client \cup {Null}]
  BY DEF AllOK, TypeOK
<1>2. /\ pc[t] = "dtorSignal" /\ to' = [to EXCEPT ![t] = waiting[arg[t]]]
      /\ pc' = [pc EXCEPT ![t] = "dtorClose"]
      /\ fault = "none" /\ EndComplete(to[t], arg[t])
      /\ UNCHANGED <<queue, iMsgPool, iFirstFreeSlot, iFirstFullSlot, iState, waiting, request,
                     owner, iResult, access, arg, killed, status, sys, sv, victim, cancelling,
                     deleting, fault>>
  BY DEF DtorSignal, Live, ring, requests, GoTo
<1>3. waiting[arg[t]] \in Client
  BY <1>1, <1>2 DEF AllOK, ToOK
<1>4. Ends(t, arg[t], to[t], "dtorClose")
  BY <1>1, <1>2 DEF Ends, requests
<1>5. /\ callbacks' \in [Thread -> Seq(Kind) \cup {Null}]
      /\ \A v \in Thread : callbacks'[v] = Null <=> callbacks[v] = Null
      /\ sem' \in [Client -> Nat] /\ cleanup' \in BOOLEAN
      /\ ListsOK' /\ OwnedOK' /\ StatusExact'
  BY <1>4, EndsKeeps
<1>6. /\ pc'[t] = "dtorClose" /\ pc' \in [Client -> Pc]
      /\ to'[t] = waiting[arg[t]] /\ to' \in [Client -> Client \cup {Null}]
      /\ \A s \in Client \ {t} : to'[s] = to[s] /\ pc'[s] = pc[s]
  BY <1>1, <1>2, <1>3 DEF Pc
<1>7. TypeOK'
  BY <1>2, <1>5, <1>6 DEF AllOK, TypeOK
<1>8. LockOK'
  BY <1>2, <1>6, LockDtor DEF AllOK, DtorPc
<1>9. \A s \in Client : Alive(s)' = Alive(s) /\ Own(s)' = Own(s)
  BY <1>2, <1>6 DEF Alive, Own
<1>10. SupOK'
  BY <1>2, <1>5, <1>6, <1>9, Constants DEF AllOK, SupOK
<1>11. CountOK'
  BY <1>2, <1>6, <1>9, CountSame DEF AllOK
<1>12. ToOK'
  BY <1>2, <1>3, <1>6, Constants DEF AllOK, ToOK, Busy
<1>13. DeletedOK'
  <2>1. \A s \in Client : Free(s) => access'[s] = 0 /\ pc'[s] \in {"dead", "deleted"}
    BY <1>2, <1>6 DEF Free
  <2> QED
    BY <1>2, <1>6, <2>1, DeletedStep
<1> QED
  BY <1>5, <1>7, <1>8, <1>10, <1>11, <1>12, <1>13

-----------------------------------------------------------------------------
\* What a step keeps of the supervisor's state when it closes a reference to w.
LEMMA SupClose ==
    ASSUME AllOK, NEW w \in Client, access[w] # 0,
           \A s \in Client \ {w} : access'[s] = access[s],
           \A s \in Client : Alive(s)' = Alive(s) /\ (pc'[s] = "dying" <=> pc[s] = "dying"),
           UNCHANGED <<callbacks, sv, victim, cancelling>>
    PROVE  SupOK'
<1>1. SupOK
  BY DEF AllOK, Rest
<1>2. victim \in Client \cup {Null}
  BY DEF AllOK, Rest, TypeOK
<1>3. sv = "flash" => victim \in Client /\ access[victim] = 0
  BY <1>1, <1>2 DEF SupOK
<1>4. sv = "flash" => access'[victim] = 0
  BY <1>3
<1> QED
  BY <1>1, <1>4 DEF SupOK

\* A thread that had its last reference from the queue is to be deleted.
LEMMA AsyncDeleteKeeps ==
    ASSUME AllOK, NEW t \in Client, AsyncDelete(t)
    PROVE  Rest'
<1> USE DEF Rest
<1>1. /\ pc \in [Client -> Pc] /\ to \in [Client -> Client \cup {Null}]
  BY DEF AllOK, TypeOK
<1>2. PICK w \in Client : w = to[t]
  BY <1>1 DEF AsyncDelete, AllOK, ToOK
<1>3. /\ UNCHANGED <<queue, iMsgPool, iFirstFreeSlot, iFirstFullSlot, iState, waiting,
                     request, owner, iResult>>
      /\ UNCHANGED <<callbacks, cancelling, access, arg, status, sem, sys, sv, victim,
                     cleanup, killed, fault>>
      /\ pc[t] = "asyncDelete" /\ deleting' = deleting \cup {w}
      /\ to' = [to EXCEPT ![t] = Null]
      /\ pc' = [pc EXCEPT ![t] = "run"] \/ pc' = [pc EXCEPT ![t] = "exit"]
  BY <1>2 DEF AsyncDelete, Return, GoTo, ring, requests, user
<1>4. /\ pc'[t] \in {"run", "exit"} /\ pc' \in [Client -> Pc]
      /\ to'[t] = Null /\ to' \in [Client -> Client \cup {Null}]
      /\ \A s \in Client \ {t} : to'[s] = to[s] /\ pc'[s] = pc[s]
  BY <1>1, <1>3 DEF Pc
<1>5. access[w] = 0 /\ pc[w] \in {"dead", "deleted"} /\ w # t
  BY <1>2, <1>3 DEF AllOK, DeletedOK, Free
<1>6. TypeOK'
  <2>1. deleting' \in SUBSET Client
    BY <1>2, <1>3 DEF AllOK, TypeOK
  <2> QED
    BY <1>3, <1>4, <2>1 DEF AllOK, TypeOK
<1>7. LockOK'
  BY <1>3, <1>4, LockSame DEF AllOK, DtorPc
<1>8. /\ \A s \in Client, j \in Kind : InHand(s, j)' = InHand(s, j)
      /\ \A j \in Kind : InUse(j)' = InUse(j) /\ Taken(j)' = Taken(j)
      /\ \A v \in Thread, j \in Kind : On(v, j)' = On(v, j)
  BY <1>3, <1>4 DEF InHand, InUse, Taken, On
<1>9. ListsOK'
  BY <1>3, <1>8, ListsSame DEF AllOK
<1>10. /\ \A s \in Client : Alive(s)' = Alive(s) /\ Own(s)' = Own(s)
       /\ \A j \in Kind : Orphan(j)' = Orphan(j)
  BY <1>3, <1>4, <1>8, Constants DEF Alive, Own, Orphan
<1>11. ASSUME NEW j \in Kind PROVE OwnedBy(j)'
  <2>1. OwnedBy(j) /\ \A v \in Client : On(v, j)' => On(v, j)
    BY <1>8, Constants DEF AllOK, OwnedOK
  <2>2. \A s \in Client : pc[s] \in {"dtorSignal", "dtorClose"} /\ arg[s] = j =>
                               pc'[s] \in {"dtorSignal", "dtorClose"} /\ arg'[s] = j
    BY <1>3, <1>4
  <2> QED
    BY <1>3, <1>10, <2>1, <2>2, OwnedSame
<1>12. SupOK'
  BY <1>3, <1>4, <1>10 DEF AllOK, SupOK
<1>13. CountOK'
  BY <1>3, <1>4, <1>10, CountSame DEF AllOK
<1>14. ToOK'
  BY <1>3, <1>4 DEF AllOK, ToOK, Busy
<1>15. DeletedOK'
  <2>1. \A s \in Client : Free(s) => access'[s] = 0 /\ pc'[s] \in {"dead", "deleted"}
    BY <1>3, <1>4 DEF Free
  <2>2. access'[w] = 0 /\ pc'[w] \in {"dead", "deleted"}
    BY <1>3, <1>4, <1>5
  <2> QED
    BY <1>3, <1>4, <2>1, <2>2, DeletedStep
<1>16. StatusExact'
  <2>1. StatusExact
    BY DEF AllOK
  <2>2. \A s \in Client : Running(s)' => Running(s) /\ (pc'[s] = "woken" <=> pc[s] = "woken")
    BY <1>3, <1>4 DEF Running
  <2>3. \A s, v \in Client : s \in Hands(v)' <=> s \in Hands(v)
    BY <1>3, <1>4 DEF Hands
  <2> QED
    BY <1>3, <2>1, <2>2, <2>3, StatusSame
<1> QED
  BY <1>6, <1>7, <1>9, <1>11, <1>12, <1>13, <1>14, <1>15, <1>16 DEF OwnedOK

\* The reference of a waiter that has died is closed.
LEMMA AsyncCloseKeeps ==
    ASSUME AllOK, NEW t \in Client, AsyncClose(t)
    PROVE  Rest'
<1> USE DEF Rest
<1>1. /\ pc \in [Client -> Pc] /\ to \in [Client -> Client \cup {Null}]
      /\ access \in [Client -> Nat]
  BY DEF AllOK, TypeOK
<1>2. PICK w \in Client : w = to[t]
  BY <1>1 DEF AsyncClose, AllOK, ToOK
<1>3. /\ UNCHANGED <<queue, iMsgPool, iFirstFreeSlot, iFirstFullSlot, iState, waiting,
                     request, owner, iResult>>
      /\ UNCHANGED <<callbacks, cancelling, arg, status, sem, sys, sv, victim,
                     cleanup, killed, fault>>
      /\ pc[t] = "asyncClose" /\ deleting' = IF access[w] = 1 THEN deleting \cup {w} ELSE deleting
      /\ to' = [to EXCEPT ![t] = Null]
      /\ access' = [access EXCEPT ![w] = access[w] - 1]
      /\ pc' = [pc EXCEPT ![t] = "run"] \/ pc' = [pc EXCEPT ![t] = "exit"]
  BY <1>2 DEF AsyncClose, Return, GoTo, ring, requests, user
<1>4. /\ pc'[t] \in {"run", "exit"} /\ pc' \in [Client -> Pc]
      /\ to'[t] = Null /\ to' \in [Client -> Client \cup {Null}]
      /\ \A s \in Client \ {t} : to'[s] = to[s] /\ pc'[s] = pc[s]
  BY <1>1, <1>3 DEF Pc
<1>5. /\ access[w] \in Nat \ {0} /\ access[w] - 1 \in Nat /\ pc[w] # "deleted" /\ w \notin deleting
      /\ access[w] = 1 => pc[w] = "dead"
  BY <1>2, <1>3, LastRef
<1>6. /\ access'[w] = access[w] - 1 /\ access' \in [Client -> Nat]
      /\ \A s \in Client \ {w} : access'[s] = access[s]
  BY <1>1, <1>3, <1>5
<1>7. TypeOK'
  <2>1. deleting' \in SUBSET Client
    BY <1>2, <1>3 DEF AllOK, TypeOK
  <2> QED
    BY <1>3, <1>4, <1>6, <2>1 DEF AllOK, TypeOK
<1>8. LockOK'
  BY <1>3, <1>4, LockSame DEF AllOK, DtorPc
<1>9. /\ \A s \in Client, j \in Kind : InHand(s, j)' = InHand(s, j)
      /\ \A j \in Kind : InUse(j)' = InUse(j) /\ Taken(j)' = Taken(j)
      /\ \A v \in Thread, j \in Kind : On(v, j)' = On(v, j)
  BY <1>3, <1>4 DEF InHand, InUse, Taken, On
<1>10. ListsOK'
  BY <1>3, <1>9, ListsSame DEF AllOK
<1>11. /\ \A s \in Client : Alive(s)' = Alive(s) /\ Own(s)' = Own(s) /\ (pc'[s] = "dying" <=> pc[s] = "dying")
       /\ \A j \in Kind : Orphan(j)' = Orphan(j)
  BY <1>3, <1>4, <1>9, Constants DEF Alive, Own, Orphan
<1>12. ASSUME NEW j \in Kind PROVE OwnedBy(j)'
  <2>1. OwnedBy(j) /\ \A v \in Client : On(v, j)' => On(v, j)
    BY <1>9, Constants DEF AllOK, OwnedOK
  <2>2. \A s \in Client : pc[s] \in {"dtorSignal", "dtorClose"} /\ arg[s] = j =>
                               pc'[s] \in {"dtorSignal", "dtorClose"} /\ arg'[s] = j
    BY <1>3, <1>4
  <2> QED
    BY <1>3, <1>11, <2>1, <2>2, OwnedSame
<1>13. SupOK'
  BY <1>3, <1>5, <1>6, <1>11, SupClose
<1>14. CountOK'
  <2>1. \A s \in Client : /\ "data" \in Waits(s)' <=> "data" \in Waits(s)
                          /\ t \in Closing(s) <=> s = w
                          /\ t \notin Closing(s)'
    BY <1>2, <1>3, <1>4 DEF Waits, Closing
  <2>2. \A s \in Client : access'[s] = access[s] + B(Own(s)') - B(Own(s))
                            + B("data" \in Waits(s)') - B("data" \in Waits(s))
                            + B(t \in Closing(s)') - B(t \in Closing(s))
    <3> TAKE s \in Client
    <3>1. access[s] \in Nat /\ access'[s] = access[s] - B(t \in Closing(s))
      BY <1>1, <1>6, <2>1 DEF B
    <3>2. /\ B(Own(s)') = B(Own(s)) /\ B("data" \in Waits(s)') = B("data" \in Waits(s))
          /\ B(t \in Closing(s)') = 0
          /\ B(Own(s)) \in Nat /\ B("data" \in Waits(s)) \in Nat /\ B(t \in Closing(s)) \in Nat
      BY <1>11, <2>1 DEF B
    <3> QED
      BY <3>1, <3>2
  <2>3. \A x \in Client \ {t} : pc'[x] = "asyncClose" \/ pc[x] = "asyncClose" =>
                                       pc'[x] = pc[x] /\ to'[x] = to[x]
    BY <1>4
  <2>4. CountOK /\ TypeOK
    BY DEF AllOK
  <2>5. \A j \in Kind \ {"data"} : waiting'[j] = waiting[j]
    BY <1>3
  <2> QED
    BY <2>2, <2>3, <2>4, <2>5, CountStep
<1>15. ToOK'
  BY <1>3, <1>4 DEF AllOK, ToOK, Busy
<1>16. DeletedOK'
  <2>1. \A s \in Client : Free(s) => access'[s] = 0 /\ pc'[s] \in {"dead", "deleted"}
    BY <1>3, <1>4, <1>5, <1>6 DEF Free
  <2>2. access[w] = 1 => access'[w] = 0 /\ pc'[w] \in {"dead", "deleted"}
    BY <1>3, <1>4, <1>5, <1>6
  <2>3. \A s \in deleting' : s \in deleting \/ (access'[s] = 0 /\ pc'[s] \in {"dead", "deleted"})
    BY <1>3, <2>2
  <2> QED
    BY <1>4, <2>1, <2>3, DeletedStep
<1>17. StatusExact'
  <2>1. StatusExact
    BY DEF AllOK
  <2>2. \A s \in Client : Running(s)' => Running(s) /\ (pc'[s] = "woken" <=> pc[s] = "woken")
    BY <1>3, <1>4 DEF Running
  <2>3. \A s, v \in Client : s \in Hands(v)' <=> s \in Hands(v)
    BY <1>3, <1>4 DEF Hands
  <2> QED
    BY <1>3, <2>1, <2>2, <2>3, StatusSame
<1> QED
  BY <1>7, <1>8, <1>10, <1>12, <1>13, <1>14, <1>15, <1>16, <1>17 DEF OwnedOK

-----------------------------------------------------------------------------
\* The destructor closes its reference to the thread ...
LEMMA DtorCloses ==
    ASSUME AllOK, NEW t \in Client, DtorClose(t)
    PROVE  Rest'
<1> USE DEF Rest
<1>1. /\ pc \in [Client -> Pc] /\ to \in [Client -> Client \cup {Null}]
      /\ access \in [Client -> Nat] /\ arg \in [Client -> Kind] /\ arg[t] \in Kind
      /\ waiting \in [Kind -> Client \cup {Null}]
  BY DEF AllOK, TypeOK
<1>2. PICK k \in Kind : k = arg[t]
  BY <1>1
<1>3. PICK w \in Client : w = to[t] /\ waiting[k] = w
  BY <1>1, <1>2 DEF DtorClose, AllOK, ToOK
<1>4. /\ UNCHANGED <<queue, iMsgPool, iFirstFreeSlot, iFirstFullSlot, iState,
                     request, owner, iResult>>
      /\ UNCHANGED <<callbacks, cancelling, status, sem, sys, sv, victim,
                     cleanup, deleting, killed, fault>>
      /\ pc[t] = "dtorClose"
      /\ access' = [access EXCEPT ![w] = access[w] - 1]
      /\ waiting' = [waiting EXCEPT ![k] = Null]
  BY <1>2, <1>3 DEF DtorClose, ring, requests, user, supervisor
<1>5. /\ \/ pc'[t] = "dtorFlash" /\ to'[t] = w /\ access[w] = 1
         \/ pc'[t] \in {"dtor", "dtorFree"} /\ to'[t] = Null
      /\ pc' \in [Client -> Pc] /\ to' \in [Client -> Client \cup {Null}] /\ arg' \in [Client -> Kind]
      /\ \A s \in Client \ {t} : to'[s] = to[s] /\ pc'[s] = pc[s] /\ arg'[s] = arg[s]
  <2>1. CASE access[w] = 1
    <3>1. pc' = [pc EXCEPT ![t] = "dtorFlash"] /\ UNCHANGED <<arg, to>>
      BY <1>3, <2>1 DEF DtorClose, GoTo
    <3> QED
      BY <1>1, <1>3, <2>1, <3>1 DEF Pc
  <2>2. CASE access[w] # 1
    <3>1. /\ \/ pc' = [pc EXCEPT ![t] = "dtor"] /\ arg' = [arg EXCEPT ![t] = "space"]
             \/ pc' = [pc EXCEPT ![t] = "dtorFree"] /\ arg' = [arg EXCEPT ![t] = "data"]
          /\ to' = [to EXCEPT ![t] = Null]
      BY <1>3, <2>2 DEF DtorClose, NextRequest, GoTo
    <3> QED
      BY <1>1, <3>1 DEF Pc, Kind
  <2> QED
    BY <2>1, <2>2
<1>6. /\ access[w] \in Nat \ {0} /\ access[w] - 1 \in Nat /\ pc[w] # "deleted" /\ w \notin deleting
      /\ access[w] = 1 => pc[w] = "dead"
  BY <1>3, LastRef
<1>7. /\ access'[w] = access[w] - 1 /\ access' \in [Client -> Nat]
      /\ \A s \in Client \ {w} : access'[s] = access[s]
      /\ waiting'[k] = Null /\ \A j \in Kind \ {k} : waiting'[j] = waiting[j]
      /\ waiting' \in [Kind -> Client \cup {Null}]
  BY <1>1, <1>4, <1>6
<1>8. TypeOK'
  BY <1>4, <1>5, <1>7 DEF AllOK, TypeOK
<1>9. LockOK'
  BY <1>4, <1>5, LockDtor DEF AllOK, DtorPc
<1>10. /\ \A s \in Client, j \in Kind : InHand(s, j)' = InHand(s, j)
       /\ \A j \in Kind : InUse(j)' = InUse(j) /\ Taken(j)' = Taken(j)
       /\ \A v \in Thread, j \in Kind : On(v, j)' = On(v, j)
  BY <1>4, <1>5 DEF InHand, InUse, Taken, On
<1>11. ListsOK'
  BY <1>4, <1>10, ListsSame DEF AllOK
<1>12. /\ \A s \in Client : Alive(s)' = Alive(s) /\ Own(s)' = Own(s) /\ (pc'[s] = "dying" <=> pc[s] = "dying")
       /\ \A j \in Kind : Orphan(j)' = Orphan(j)
  BY <1>4, <1>5, <1>10, Constants DEF Alive, Own, Orphan
<1>13. ASSUME NEW j \in Kind, j # k PROVE OwnedBy(j)'
  <2>1. OwnedBy(j) /\ \A v \in Client : On(v, j)' => On(v, j)
    BY <1>10, Constants DEF AllOK, OwnedOK
  <2>2. \A s \in Client : pc[s] \in {"dtorSignal", "dtorClose"} /\ arg[s] = j =>
                               pc'[s] \in {"dtorSignal", "dtorClose"} /\ arg'[s] = j
    BY <1>2, <1>5, <1>13
  <2> QED
    BY <1>4, <1>7, <1>12, <1>13, <2>1, <2>2, OwnedSame
<1>14. OwnedBy(k)'
  <2>1. request[k] # "EReady"
    BY <1>2, <1>4 DEF AllOK, IInv, DtorPassed, DtorPc
  <2>2. OwnedBy(k) /\ \A v \in Client : On(v, k)' => On(v, k)
    BY <1>10, Constants DEF AllOK, OwnedOK
  <2>3. Orphan(k)' => owner[k] \in Client /\ pc'[owner[k]] \in {"dying", "dead", "deleted"}
    BY <1>12, <2>2 DEF OwnedBy, Alive
  <2> QED
    BY <1>4, <1>7, <1>10, <2>1, <2>2, <2>3 DEF OwnedBy, Alive
<1>15. SupOK'
  BY <1>4, <1>6, <1>7, <1>12, SupClose
<1>16. CountOK'
  <2>1. \A s \in Client : /\ k \notin Waits(s)'
                          /\ k \in Waits(s) <=> s = w
                          /\ t \notin Closing(s) /\ t \notin Closing(s)'
    BY <1>3, <1>4, <1>5, <1>7, Constants DEF Waits, Closing
  <2>2. \A s \in Client : access'[s] = access[s] + B(Own(s)') - B(Own(s))
                            + B(k \in Waits(s)') - B(k \in Waits(s))
                            + B(t \in Closing(s)') - B(t \in Closing(s))
    <3> TAKE s \in Client
    <3>1. access[s] \in Nat /\ access'[s] = access[s] - B(k \in Waits(s))
      BY <1>1, <1>7, <2>1 DEF B
    <3>2. /\ B(Own(s)') = B(Own(s)) /\ B(k \in Waits(s)') = 0
          /\ B(t \in Closing(s)') = 0 /\ B(t \in Closing(s)) = 0
          /\ B(Own(s)) \in Nat /\ B(k \in Waits(s)) \in Nat
      BY <1>12, <2>1 DEF B
    <3> QED
      BY <3>1, <3>2
  <2>3. \A x \in Client \ {t} : pc'[x] = "asyncClose" \/ pc[x] = "asyncClose" =>
                                       pc'[x] = pc[x] /\ to'[x] = to[x]
    BY <1>5
  <2>4. CountOK /\ TypeOK
    BY DEF AllOK
  <2>5. \A j \in Kind \ {k} : waiting'[j] = waiting[j]
    BY <1>7
  <2> QED
    BY <2>2, <2>3, <2>4, <2>5, CountStep
<1>17. ToOK'
  <2>1. \A s \in Client \ {t} : pc[s] \notin DtorPc
    BY <1>4 DEF AllOK, LockOK, DtorPc
  <2> QED
    BY <1>4, <1>5, <2>1, Constants DEF AllOK, ToOK, Busy, DtorPc
<1>18. DeletedOK'
  <2>1. \A s \in Client : Free(s) => access'[s] = 0 /\ pc'[s] \in {"dead", "deleted"}
    BY <1>4, <1>5, <1>6, <1>7 DEF Free
  <2>2. access[w] = 1 => access'[w] = 0 /\ pc'[w] \in {"dead", "deleted"}
    BY <1>4, <1>5, <1>6, <1>7
  <2>3. \A s \in Client : pc'[s] \in {"asyncDelete", "dtorFlash"} =>
               \/ pc[s] \in {"asyncDelete", "dtorFlash"} /\ to'[s] = to[s]
               \/ access'[to'[s]] = 0 /\ pc'[to'[s]] \in {"dead", "deleted"}
    BY <1>5, <2>2
  <2>4. \A s, v \in Client : pc'[s] = "signal" /\ to'[s] = v =>
               pc[s] = "signal" /\ to[s] = v /\ (pc'[v] = "deleted" => pc[v] = "deleted")
    BY <1>5
  <2>5. \A s \in Client : pc'[s] = "deleted" => pc[s] = "deleted" \/ access'[s] = 0
    BY <1>5
  <2> QED
    BY <1>4, <2>1, <2>3, <2>4, <2>5, DeletedStep
<1>19. StatusExact'
  <2>1. StatusExact
    BY DEF AllOK
  <2>2. \A s \in Client : Running(s)' => Running(s) /\ (pc'[s] = "woken" <=> pc[s] = "woken")
    BY <1>4, <1>5 DEF Running
  <2>3. \A s, v \in Client : s \in Hands(v)' <=> s \in Hands(v)
    BY <1>4, <1>5 DEF Hands
  <2> QED
    BY <1>4, <2>1, <2>2, <2>3, StatusSame
<1> QED
  BY <1>8, <1>9, <1>11, <1>13, <1>14, <1>15, <1>16, <1>17, <1>18, <1>19 DEF OwnedOK

\* A thread that is locked out by the system lock, or by the destructor, while it is signalled.
LEMMA NoSignal ==
    ASSUME AllOK, sys = Null, NEW w \in Client, access[w] = 0
    PROVE  \A s \in Client : /\ pc[s] # "signal"
                             /\ pc[s] = "dtorSignal" => to[s] # w
<1>1. \A s \in Client : pc[s] # "signal"
  BY Constants DEF AllOK, Rest, LockOK
<1>2. \A k \in Kind : waiting[k] # w
  BY LastRef
<1>3. ASSUME NEW s \in Client, pc[s] = "dtorSignal" PROVE to[s] # w
  <2>1. arg[s] \in Kind /\ to[s] \in {Null, waiting[arg[s]]}
    BY <1>3 DEF AllOK, Rest, ToOK, TypeOK
  <2> QED
    BY <1>2, <2>1, Constants
<1> QED
  BY <1>1, <1>3

\* ... and deletes the thread if that was the last one.
LEMMA DtorFlashes ==
    ASSUME AllOK, NEW t \in Client, DtorFlash(t)
    PROVE  Rest'
<1> USE DEF Rest
<1>1. /\ pc \in [Client -> Pc] /\ to \in [Client -> Client \cup {Null}]
      /\ arg \in [Client -> Kind]
  BY DEF AllOK, TypeOK
<1>2. PICK w \in Client : w = to[t]
  BY <1>1 DEF DtorFlash, AllOK, ToOK
<1>3. /\ UNCHANGED <<queue, iMsgPool, iFirstFreeSlot, iFirstFullSlot, iState, waiting,
                     request, owner, iResult>>
      /\ UNCHANGED <<callbacks, cancelling, status, sem, sys, sv, victim, access,
                     cleanup, deleting, killed, fault>>
      /\ pc[t] = "dtorFlash" /\ sys = Null
      /\ to' = [to EXCEPT ![t] = Null]
      /\ arg' = [arg EXCEPT ![t] = IF arg[t] = "data" THEN "space" ELSE "data"]
      /\ pc' = [pc EXCEPT ![t] = IF arg[t] = "data" THEN "dtor" ELSE "dtorFree", ![w] = "deleted"]
  BY <1>1, <1>2 DEF DtorFlash, ring, requests, user, supervisor
<1>4. access[w] = 0 /\ pc[w] \in {"dead", "deleted"} /\ w # t
  BY <1>2, <1>3 DEF AllOK, DeletedOK, Free
<1>5. /\ pc'[t] \in {"dtor", "dtorFree"} /\ pc'[w] = "deleted" /\ pc' \in [Client -> Pc]
      /\ \A s \in Client \ {t, w} : pc'[s] = pc[s]
      /\ to'[t] = Null /\ to' \in [Client -> Client \cup {Null}] /\ arg' \in [Client -> Kind]
      /\ \A s \in Client \ {t} : to'[s] = to[s] /\ arg'[s] = arg[s]
  BY <1>1, <1>3, <1>4 DEF Pc, Kind
<1>6. TypeOK'
  BY <1>3, <1>5 DEF AllOK, TypeOK
<1>7. LockOK'
  <2>1. \A s \in Client \ {t} : pc'[s] = pc[s] \/ (pc[s] \notin DtorPc /\ pc'[s] = "deleted")
    BY <1>4, <1>5 DEF DtorPc
  <2> QED
    BY <1>3, <1>5, <2>1, LockDtor DEF AllOK, DtorPc
<1>8. /\ \A s \in Client, j \in Kind : InHand(s, j)' = InHand(s, j)
      /\ \A j \in Kind : InUse(j)' = InUse(j) /\ Taken(j)' = Taken(j)
      /\ \A v \in Thread, j \in Kind : On(v, j)' = On(v, j)
  BY <1>3, <1>4, <1>5 DEF InHand, InUse, Taken, On
<1>9. ListsOK'
  BY <1>3, <1>8, ListsSame DEF AllOK
<1>10. /\ \A s \in Client : Alive(s)' = Alive(s) /\ Own(s)' = Own(s) /\ (pc'[s] = "dying" <=> pc[s] = "dying")
       /\ \A j \in Kind : Orphan(j)' = Orphan(j)
  BY <1>3, <1>4, <1>5, <1>8, Constants DEF Alive, Own, Orphan
<1>11. ASSUME NEW j \in Kind PROVE OwnedBy(j)'
  <2>1. OwnedBy(j) /\ \A v \in Client : On(v, j)' => On(v, j)
    BY <1>8, Constants DEF AllOK, OwnedOK
  <2>2. \A s \in Client : pc[s] \in {"dtorSignal", "dtorClose"} /\ arg[s] = j =>
                               pc'[s] \in {"dtorSignal", "dtorClose"} /\ arg'[s] = j
    BY <1>3, <1>4, <1>5
  <2> QED
    BY <1>3, <1>10, <2>1, <2>2, OwnedSame
<1>12. SupOK'
  BY <1>3, <1>10 DEF AllOK, SupOK
<1>13. CountOK'
  BY <1>3, <1>4, <1>5, <1>10, CountSame DEF AllOK
<1>14. ToOK'
  <2>1. \A s \in Client : pc'[s] \in Busy => pc'[s] = pc[s] /\ to'[s] = to[s] /\ arg'[s] = arg[s]
    BY <1>3, <1>4, <1>5 DEF Busy
  <2>2. \A s \in Client : pc'[s] \notin Busy => pc[s] \notin Busy \/ s = t
    BY <1>3, <1>4, <1>5 DEF Busy
  <2> QED
    BY <1>3, <1>5, <2>1, <2>2 DEF AllOK, ToOK, Busy
<1>15. DeletedOK'
  <2>1. \A s \in Client : Free(s) => access'[s] = 0 /\ pc'[s] \in {"dead", "deleted"}
    BY <1>3, <1>4, <1>5 DEF Free
  <2>2. \A s \in Client : pc'[s] \in {"asyncDelete", "dtorFlash"} =>
               pc[s] \in {"asyncDelete", "dtorFlash"} /\ to'[s] = to[s]
    BY <1>4, <1>5
  <2>3. \A s \in Client : pc'[s] = "deleted" => pc[s] = "deleted" \/ access'[s] = 0
    BY <1>3, <1>4, <1>5
  <2>4. \A s \in Client : pc'[s] # "signal"
    BY <1>3, <1>4, <1>5, NoSignal
  <2> QED
    BY <1>3, <2>1, <2>2, <2>3, <2>4, DeletedStep
<1>16. StatusExact'
  <2>1. StatusExact
    BY DEF AllOK
  <2>2. \A s \in Client : Running(s)' => Running(s) /\ (pc'[s] = "woken" <=> pc[s] = "woken")
    BY <1>3, <1>4, <1>5 DEF Running
  <2>3. \A s, v \in Client : s \in Hands(v)' <=> s \in Hands(v)
    BY <1>3, <1>4, <1>5 DEF Hands
  <2> QED
    BY <1>3, <2>1, <2>2, <2>3, StatusSame
<1> QED
  BY <1>6, <1>7, <1>9, <1>11, <1>12, <1>13, <1>14, <1>15, <1>16 DEF OwnedOK

-----------------------------------------------------------------------------
\* What a step leaves that makes a request free and takes its callback off the list.
LEMMA MakeFreeKeeps ==
    ASSUME AllOK, NEW k \in Kind, MakeFree(k), InUse(k),
           UNCHANGED <<queue, waiting, pc, arg, to, sys, access, sv, victim, deleting, fault>>,
           \A v \in Thread : callbacks'[v] # Null => Inj(callbacks'[v]),
           \A v \in Thread : callbacks'[v] = Null <=> callbacks[v] = Null,
           Inj(cancelling'), sv # "cancel" => cancelling' = <<>>,
           \A v \in Thread, j \in Kind : On(v, j)' <=> On(v, j) /\ j # k,
           \A j \in Kind : Taken(j)' <=> Taken(j) /\ j # k,
           \A s \in Client : ~InHand(s, k)
    PROVE  /\ LockOK' /\ ListsOK' /\ OwnedOK' /\ SupOK' /\ CountOK' /\ ToOK' /\ DeletedOK'
           /\ request' \in [Kind -> {"null", "EFree", "EReady", "EInUse", "EClosing", "freed"}]
           /\ owner' \in [Kind -> Client \cup {Null}]
           /\ iResult' \in [Kind -> {"KRequestPending", "KErrNone", "KErrCancel"}]
<1> USE DEF Rest
<1>1. /\ request \in [Kind -> {"null", "EFree", "EReady", "EInUse", "EClosing", "freed"}]
      /\ owner \in [Kind -> Client \cup {Null}]
      /\ iResult \in [Kind -> {"KRequestPending", "KErrNone", "KErrCancel"}]
  BY DEF AllOK, TypeOK
<1>2. /\ request'[k] \in {"EFree", "freed"} /\ (request'[k] = "freed" => request[k] = "EClosing")
      /\ owner'[k] = Null /\ iResult'[k] = "KRequestPending"
      /\ \A j \in Kind \ {k} : /\ request'[j] = request[j] /\ owner'[j] = owner[j]
                               /\ iResult'[j] = iResult[j]
      /\ request' \in [Kind -> {"null", "EFree", "EReady", "EInUse", "EClosing", "freed"}]
      /\ owner' \in [Kind -> Client \cup {Null}]
      /\ iResult' \in [Kind -> {"KRequestPending", "KErrNone", "KErrCancel"}]
  BY <1>1 DEF MakeFree
<1>3. LockOK'
  <2>1. \A j \in Kind : request'[j] \in {"EClosing", "freed"} => request[j] \in {"EClosing", "freed"}
    BY <1>2
  <2> QED
    BY <2>1, LockSame DEF AllOK
<1>4. /\ \A s \in Client, j \in Kind : InHand(s, j)' = InHand(s, j)
      /\ ~InUse(k)' /\ \A j \in Kind \ {k} : InUse(j)' = InUse(j)
      /\ \A s \in Client : Alive(s)' = Alive(s) /\ Own(s)' = Own(s)
  BY <1>2 DEF InHand, InUse, Alive, Own
<1>5. \A j \in Kind : OnePlace(j) /\ OwnedBy(j)
  BY DEF AllOK, ListsOK, OwnedOK
<1>6. ASSUME NEW j \in Kind PROVE OnePlace(j)'
  <2>1. CASE j = k
    <3>1. (\A v \in Thread : ~On(v, k)') /\ ~Taken(k)' /\ \A s \in Client : ~InHand(s, k)'
      BY <1>4
    <3> QED
      BY <1>4, <2>1, <3>1 DEF OnePlace
  <2>2. CASE j # k
    <3>1. Taken(j)' = Taken(j) /\ \A v \in Thread : On(v, j)' = On(v, j)
      BY <2>2 DEF Taken, On
    <3>2. InUse(j)' = InUse(j) /\ \A s \in Client : InHand(s, j)' = InHand(s, j)
      BY <1>4, <2>2
    <3> QED
      BY <1>5, <3>1, <3>2, PlaceSame
  <2> QED
    BY <2>1, <2>2
<1>7. ListsOK'
  BY <1>6 DEF ListsOK
<1>8. ASSUME NEW j \in Kind PROVE OwnedBy(j)'
  <2>1. CASE j = k
    <3>1. (\A v \in Client : ~On(v, k)') /\ ~Orphan(k)'
      BY <1>4, Constants DEF Orphan
    <3>2. /\ queue' # "none"
          /\ fault' = "none" /\ waiting'[k] # Null =>
                 \E s \in Client : pc'[s] \in {"dtorSignal", "dtorClose"} /\ arg'[s] = k
      BY <1>5 DEF OwnedBy, InUse
    <3> QED
      BY <1>2, <1>4, <2>1, <3>1, <3>2 DEF OwnedBy
  <2>2. CASE j # k
    <3>1. Orphan(j)' => Orphan(j)
      BY <1>4, Constants DEF Orphan
    <3>2. \A v \in Client : On(v, j)' => On(v, j)
      BY Constants
    <3> QED
      BY <1>2, <1>4, <1>5, <2>2, <3>1, <3>2, OwnedSame
  <2> QED
    BY <2>1, <2>2
<1>9. SupOK'
  BY <1>4, Constants DEF AllOK, SupOK
<1>10. CountOK'
  BY <1>4, CountSame DEF AllOK
<1>11. ToOK'
  BY DEF AllOK, ToOK
<1>12. DeletedOK'
  <2>1. \A s \in Client : Free(s) => access'[s] = 0 /\ pc'[s] \in {"dead", "deleted"}
    BY DEF Free
  <2> QED
    BY <2>1, DeletedStep
<1> QED
  BY <1>2, <1>3, <1>7, <1>8, <1>9, <1>10, <1>11, <1>12 DEF OwnedOK

\* A thread runs its callback, which completes the request.
LEMMA CallbackKeeps ==
    ASSUME AllOK, NEW t \in Client, CallUserModeCallback(t)
    PROVE  Rest'
<1> USE DEF Rest
<1>1. /\ callbacks \in [Thread -> Seq(Kind) \cup {Null}]
      /\ iResult \in [Kind -> {"KRequestPending", "KErrNone", "KErrCancel"}]
      /\ status \in [Client -> [Kind -> {"unused", "KRequestPending", "KErrNone", "KErrCancel"}]]
      /\ t \in Thread
  BY Constants DEF AllOK, TypeOK
<1>2. /\ pc[t] \in {"run", "woken"} /\ ~killed[t] /\ callbacks[t] # <<>> /\ fault = "none"
      /\ Alive(t) /\ callbacks[t] # Null
  BY DEF CallUserModeCallback, Live, Alive, AllOK, SupOK
<1> DEFINE q == callbacks[t]
<1>3. q \in Seq(Kind) /\ Inj(q) /\ q # <<>>
  BY <1>1, <1>2 DEF AllOK, ListsOK
<1>4. PICK k \in Kind : k = Head(q)
  BY <1>3, PopQueue
<1>5. PICK r : r = Tail(q)
  OBVIOUS
<1>6. /\ k \in ToSet(q) /\ r \in Seq(Kind) /\ Inj(r) /\ ToSet(r) = ToSet(q) \ {k}
  BY <1>3, <1>4, <1>5, PopQueue
<1>7. On(t, k)
  BY <1>2, <1>6 DEF On
<1>8. OnePlace(k) /\ OwnedBy(k)
  BY DEF AllOK, ListsOK, OwnedOK
<1>9. /\ owner[k] = t /\ InUse(k) /\ iResult[k] \in {"KErrNone", "KErrCancel"} /\ ~Taken(k)
      /\ \A s \in Client : ~InHand(s, k)
      /\ \A v \in Thread : On(v, k) => v = t
  BY <1>1, <1>7, <1>8 DEF OnePlace, OwnedBy
<1>10. /\ MakeFree(k) /\ status' = [status EXCEPT ![t][k] = iResult[k]]
       /\ callbacks' = [callbacks EXCEPT ![t] = r]
       /\ UNCHANGED <<queue, iMsgPool, iFirstFreeSlot, iFirstFullSlot, iState, waiting>>
       /\ UNCHANGED <<access, pc, arg, to, killed, sem, sys, sv, victim, cancelling, cleanup, deleting, fault>>
  BY <1>4, <1>5, <1>9 DEF CallUserModeCallback, ring, supervisor
<1>11. /\ callbacks' \in [Thread -> Seq(Kind) \cup {Null}] /\ callbacks'[t] = r /\ r # Null
       /\ \A v \in Thread \ {t} : callbacks'[v] = callbacks[v]
  BY <1>1, <1>6, <1>10, Constants
<1>12. \A v \in Thread, j \in Kind : On(v, j)' <=> On(v, j) /\ j # k
  <2>1. \A j \in Kind : On(t, j)' <=> On(t, j) /\ j # k
    BY <1>2, <1>6, <1>11 DEF On
  <2>2. \A v \in Thread \ {t}, j \in Kind : On(v, j)' <=> On(v, j)
    BY <1>11 DEF On
  <2> QED
    BY <1>9, <2>1, <2>2
<1>13. \A j \in Kind : Taken(j)' <=> Taken(j) /\ j # k
  BY <1>9, <1>10 DEF Taken
<1>14. /\ \A v \in Thread : callbacks'[v] # Null => Inj(callbacks'[v])
       /\ \A v \in Thread : callbacks'[v] = Null <=> callbacks[v] = Null
       /\ Inj(cancelling') /\ (sv # "cancel" => cancelling' = <<>>)
  BY <1>2, <1>6, <1>10, <1>11 DEF AllOK, ListsOK, SupOK
<1>15. /\ LockOK' /\ ListsOK' /\ OwnedOK' /\ SupOK' /\ CountOK' /\ ToOK' /\ DeletedOK'
       /\ request' \in [Kind -> {"null", "EFree", "EReady", "EInUse", "EClosing", "freed"}]
       /\ owner' \in [Kind -> Client \cup {Null}]
       /\ iResult' \in [Kind -> {"KRequestPending", "KErrNone", "KErrCancel"}]
  BY <1>9, <1>10, <1>12, <1>13, <1>14, MakeFreeKeeps
<1>16. /\ status'[t][k] = iResult[k]
       /\ \A v \in Client, j \in Kind : v # t \/ j # k => status'[v][j] = status[v][j]
       /\ status' \in [Client -> [Kind -> {"unused", "KRequestPending", "KErrNone", "KErrCancel"}]]
  BY <1>1, <1>9, <1>10
<1>17. TypeOK'
  BY <1>10, <1>11, <1>15, <1>16 DEF AllOK, TypeOK
<1>18. StatusExact'
  <2> SUFFICES ASSUME fault' = "none", NEW v \in Client, Running(v)'
               PROVE  /\ \A j \in Kind : status'[v][j] = "KRequestPending" <=>
                             owner'[j] = v /\ request'[j] \in {"EReady", "EInUse", "EClosing"}
                      /\ sem'[v] + (IF pc'[v] = "woken" THEN 1 ELSE 0) + Cardinality(Hands(v)')
                         = Cardinality(Told(v)') + Cardinality(Coming(v)')
    BY DEF StatusExact, Hands
  <2>1. Running(v) /\ Running(t)
    BY <1>2, <1>10 DEF Running
  <2>2. \A j \in Kind, w \in Client : Running(w) =>
            (status[w][j] = "KRequestPending" <=>
                 owner[j] = w /\ request[j] \in {"EReady", "EInUse", "EClosing"})
    BY <1>2 DEF StatusExact, AllOK
  <2>3. /\ owner'[k] = Null /\ \A j \in Kind \ {k} : owner'[j] = owner[j] /\ request'[j] = request[j]
    <3>1. request \in [Kind -> {"null", "EFree", "EReady", "EInUse", "EClosing", "freed"}]
          /\ owner \in [Kind -> Client \cup {Null}]
      BY DEF AllOK, TypeOK
    <3> QED
      BY <1>10, <3>1 DEF MakeFree
  <2>4. \A j \in Kind : status'[v][j] = "KRequestPending" <=>
                           owner'[j] = v /\ request'[j] \in {"EReady", "EInUse", "EClosing"}
    <3>1. ASSUME NEW j \in Kind, j # k
          PROVE  status'[v][j] = "KRequestPending" <=>
                           owner'[j] = v /\ request'[j] \in {"EReady", "EInUse", "EClosing"}
      BY <1>16, <2>1, <2>2, <2>3, <3>1
    <3>2. status'[v][k] # "KRequestPending"
      <4>1. CASE v = t
        BY <1>9, <1>16, <4>1
      <4>2. CASE v # t
        BY <1>9, <1>16, <2>1, <2>2, <4>2
      <4> QED
        BY <4>1, <4>2
    <3>3. owner'[k] # v
      BY <2>3, Constants
    <3> QED
      BY <3>1, <3>2, <3>3
  <2>5. status[t][k] = "KRequestPending"
    BY <1>9, <2>1, <2>2 DEF InUse
  <2>6. /\ \A j \in Kind \ {k} : j \in Told(v)' <=> j \in Told(v)
        /\ v # t => (k \in Told(v)' <=> k \in Told(v))
        /\ v = t => k \in Told(v)' /\ k \notin Told(v)
    BY <1>9, <1>16, <2>5 DEF Told, Completed
  <2>7. /\ \A j \in Kind \ {k} : j \in Coming(v)' <=> j \in Coming(v)
        /\ v # t => (k \in Coming(v)' <=> k \in Coming(v))
        /\ v = t => k \notin Coming(v)' /\ k \in Coming(v)
    <3>1. v \in Thread
      BY Constants
    <3>2. \A j \in Kind : j \in Coming(v) <=> On(v, j)
      BY <3>1 DEF Coming, Queued, On
    <3>3. \A j \in Kind : j \in Coming(v)' <=> On(v, j)'
      BY <3>1 DEF Coming, Queued, On
    <3> QED
      BY <1>7, <1>9, <1>12, <3>1, <3>2, <3>3
  <2>8. /\ \A x \in Client \ {t} : x \in Hands(v)' <=> x \in Hands(v)
        /\ t \in Hands(v)' <=> t \in Hands(v)
    BY <1>10 DEF Hands
  <2>9. sem[v] \in Nat /\ sem'[v] = sem[v] /\ pc'[v] = pc[v]
    BY <1>10 DEF AllOK, TypeOK
  <2>10. sem'[v] + B(pc'[v] = "woken") + B(t \in Hands(v)') - B(t \in Hands(v))
         = sem[v] + B(pc[v] = "woken") + B(k \in Told(v)') - B(k \in Told(v))
             + B(k \in Coming(v)') - B(k \in Coming(v))
    BY <2>6, <2>7, <2>8, <2>9 DEF B
  <2> QED
    BY <1>2, <2>1, <2>4, <2>6, <2>7, <2>8, <2>9, <2>10, StatusStep
<1> QED
  BY <1>15, <1>17, <1>18

\* The supervisor cancels one of the callbacks it has taken.
LEMMA CancelCallbackKeeps ==
    ASSUME AllOK, CancelCallback
    PROVE  Rest'
<1> USE DEF Rest
<1>1. /\ cancelling \in Seq(Kind) /\ Inj(cancelling) /\ cancelling # <<>> /\ sv = "cancel"
  BY DEF AllOK, TypeOK, ListsOK, CancelCallback
<1>2. PICK k \in Kind : k = Head(cancelling)
  BY <1>1, PopQueue
<1>3. PICK r : r = Tail(cancelling)
  OBVIOUS
<1>4. k \in ToSet(cancelling) /\ r \in Seq(Kind) /\ Inj(r) /\ ToSet(r) = ToSet(cancelling) \ {k}
  BY <1>1, <1>2, <1>3, PopQueue
<1>5. /\ MakeFree(k) /\ cancelling' = r
      /\ UNCHANGED <<queue, iMsgPool, iFirstFreeSlot, iFirstFullSlot, iState, waiting>>
      /\ UNCHANGED <<callbacks, access, pc, arg, to, killed, status, sem, sys, sv, victim, cleanup,
                     deleting, fault>>
  BY <1>2, <1>3 DEF CancelCallback, ring, user
<1>6. Taken(k) /\ OnePlace(k) /\ OwnedBy(k)
  BY <1>4 DEF Taken, AllOK, ListsOK, OwnedOK
<1>7. /\ InUse(k) /\ owner[k] \in Client /\ ~Alive(owner[k])
      /\ \A s \in Client : ~InHand(s, k)
      /\ \A v \in Thread : ~On(v, k)
  BY <1>6 DEF OnePlace, OwnedBy, Orphan
<1>8. /\ \A v \in Thread, j \in Kind : On(v, j)' <=> On(v, j) /\ j # k
      /\ \A j \in Kind : Taken(j)' <=> Taken(j) /\ j # k
  BY <1>4, <1>5, <1>7 DEF On, Taken
<1>9. /\ \A v \in Thread : callbacks'[v] # Null => Inj(callbacks'[v])
      /\ \A v \in Thread : callbacks'[v] = Null <=> callbacks[v] = Null
      /\ Inj(cancelling') /\ (sv # "cancel" => cancelling' = <<>>)
  BY <1>1, <1>4, <1>5 DEF AllOK, ListsOK
<1>10. /\ LockOK' /\ ListsOK' /\ OwnedOK' /\ SupOK' /\ CountOK' /\ ToOK' /\ DeletedOK'
       /\ request' \in [Kind -> {"null", "EFree", "EReady", "EInUse", "EClosing", "freed"}]
       /\ owner' \in [Kind -> Client \cup {Null}]
       /\ iResult' \in [Kind -> {"KRequestPending", "KErrNone", "KErrCancel"}]
  BY <1>5, <1>7, <1>8, <1>9, MakeFreeKeeps
<1>11. TypeOK'
  BY <1>4, <1>5, <1>10 DEF AllOK, TypeOK
<1>12. StatusExact'
  <2>1. StatusExact
    BY DEF AllOK
  <2>2. \A s \in Client : Running(s)' => Running(s) /\ (pc'[s] = "woken" <=> pc[s] = "woken")
    BY <1>5 DEF Running
  <2>3. \A s, v \in Client : s \in Hands(v)' <=> s \in Hands(v)
    BY <1>5 DEF Hands
  <2>4. owner'[k] = Null /\ \A j \in Kind \ {k} : owner'[j] = owner[j] /\ request'[j] = request[j]
    <3>1. request \in [Kind -> {"null", "EFree", "EReady", "EInUse", "EClosing", "freed"}]
          /\ owner \in [Kind -> Client \cup {Null}]
      BY DEF AllOK, TypeOK
    <3> QED
      BY <1>5, <3>1 DEF MakeFree
  <2>5. \A v \in Client : Running(v) => v # owner[k] /\ v # Null
    BY <1>7, Constants DEF Running, Alive
  <2>6. \A v \in Client : Running(v)' => \A j \in Kind :
            owner'[j] = v /\ request'[j] \in {"EReady", "EInUse", "EClosing"}
            <=> owner[j] = v /\ request[j] \in {"EReady", "EInUse", "EClosing"}
    BY <2>2, <2>4, <2>5
  <2> QED
    BY <1>5, <2>1, <2>2, <2>3, <2>6, StatusSame
<1> QED
  BY <1>10, <1>11, <1>12

-----------------------------------------------------------------------------
\* The supervisor takes the callbacks that are left to it.
LEMMA TakeCallbacksKeeps ==
    ASSUME AllOK, TakeCallbacks
    PROVE  Rest'
<1> USE DEF Rest
<1>1. /\ callbacks \in [Thread -> Seq(Kind) \cup {Null}] /\ callbacks[Sup] # Null
      /\ sv = "take" /\ cancelling = <<>>
  BY DEF AllOK, TypeOK, SupOK, TakeCallbacks
<1>2. PICK q \in Seq(Kind) : q = callbacks[Sup] /\ Inj(q)
  BY <1>1, Constants DEF AllOK, ListsOK
<1>3. /\ cancelling' = q /\ callbacks' = [callbacks EXCEPT ![Sup] = <<>>] /\ sv' = "cancel"
      /\ UNCHANGED <<queue, iMsgPool, iFirstFreeSlot, iFirstFullSlot, iState, waiting,
                     request, owner, iResult>>
      /\ UNCHANGED <<access, pc, arg, to, killed, status, sem, sys, victim, cleanup,
                     deleting, fault>>
  BY <1>2 DEF TakeCallbacks, ring, requests, user
<1>4. <<>> \in Seq(Kind) /\ <<>> # Null /\ Inj(<<>>) /\ ToSet(<<>>) = {}
  <2>1. <<>> \in Seq(Kind) /\ DOMAIN <<>> = {}
    OBVIOUS
  <2>2. <<>> # Null
    BY <2>1, Constants
  <2> QED
    BY <2>1, <2>2 DEF Inj, ToSet
<1>5. /\ callbacks' \in [Thread -> Seq(Kind) \cup {Null}] /\ callbacks'[Sup] = <<>>
      /\ \A v \in Thread \ {Sup} : callbacks'[v] = callbacks[v]
  BY <1>1, <1>3, <1>4, Constants
<1>6. TypeOK'
  BY <1>3, <1>5 DEF AllOK, TypeOK
<1>7. LockOK'
  BY <1>3, LockSame DEF AllOK
<1>8. /\ \A v \in Thread \ {Sup}, j \in Kind : On(v, j)' = On(v, j)
      /\ \A j \in Kind : ~On(Sup, j)' /\ ~Taken(j)
      /\ \A j \in Kind : Taken(j)' <=> On(Sup, j)
  BY <1>1, <1>2, <1>3, <1>4, <1>5 DEF On, Taken
<1>9. /\ \A s \in Client, j \in Kind : InHand(s, j)' = InHand(s, j)
      /\ \A j \in Kind : InUse(j)' = InUse(j)
      /\ \A s \in Client : Alive(s)' = Alive(s) /\ Own(s)' = Own(s)
  BY <1>1, <1>3 DEF InHand, InUse, Alive, Own
<1>10. ASSUME NEW j \in Kind PROVE OnePlace(j)'
  <2>1. OnePlace(j)
    BY DEF AllOK, ListsOK
  <2>2. \A s \in Client : InHand(s, j)' => ~Taken(j)' /\ \A v \in Thread : ~On(v, j)'
    BY <1>8, <1>9, <2>1, Constants DEF OnePlace
  <2>3. \A v \in Thread : On(v, j)' => ~Taken(j)'
    BY <1>8, <2>1, Constants DEF OnePlace
  <2>4. \A v, w \in Thread : On(v, j)' /\ On(w, j)' => v = w
    BY <1>8, <2>1, Constants DEF OnePlace
  <2>5. InUse(j)' <=> \/ Taken(j)'
                      \/ \E v \in Thread : On(v, j)'
                      \/ \E s \in Client : InHand(s, j)'
    BY <1>8, <1>9, <2>1, Constants DEF OnePlace
  <2> QED
    BY <2>2, <2>3, <2>4, <2>5 DEF OnePlace
<1>11. ListsOK'
  <2>1. \A v \in Thread : callbacks'[v] # Null => Inj(callbacks'[v])
    BY <1>4, <1>5 DEF AllOK, ListsOK
  <2> QED
    BY <1>2, <1>3, <1>10, <2>1 DEF ListsOK
<1>12. ASSUME NEW j \in Kind PROVE OwnedBy(j)'
  <2>1. OwnedBy(j)
    BY DEF AllOK, OwnedOK
  <2>2. \A v \in Client : On(v, j)' => On(v, j)
    BY <1>8, Constants
  <2>3. Orphan(j)' => Orphan(j)
    BY <1>8, <1>9 DEF Orphan
  <2> QED
    BY <1>3, <1>9, <2>1, <2>2, <2>3, OwnedSame
<1>13. SupOK'
  BY <1>1, <1>3, <1>4, <1>5, <1>9, Constants DEF AllOK, SupOK
<1>14. CountOK'
  BY <1>3, <1>9, CountSame DEF AllOK
<1>15. ToOK'
  BY <1>3 DEF AllOK, ToOK
<1>16. DeletedOK'
  <2>1. \A s \in Client : Free(s) => access'[s] = 0 /\ pc'[s] \in {"dead", "deleted"}
    BY <1>3 DEF Free
  <2> QED
    BY <1>3, <2>1, DeletedStep
<1>17. StatusExact'
  <2>1. StatusExact
    BY DEF AllOK
  <2>2. \A s \in Client : Running(s)' => Running(s) /\ (pc'[s] = "woken" <=> pc[s] = "woken")
    BY <1>3 DEF Running
  <2>3. \A s, v \in Client : s \in Hands(v)' <=> s \in Hands(v)
    BY <1>3 DEF Hands
  <2>4. \A v \in Client : callbacks'[v] = callbacks[v]
    BY <1>5, Constants
  <2> QED
    BY <1>3, <2>1, <2>2, <2>3, <2>4, StatusSame
<1> QED
  BY <1>6, <1>7, <1>11, <1>12, <1>13, <1>14, <1>15, <1>16, <1>17 DEF OwnedOK

\* The supervisor takes over the callbacks of a thread that exits.
LEMMA SvKillKeeps ==
    ASSUME AllOK, NEW u \in Client, SvKill(u)
    PROVE  Rest'
<1> USE DEF Rest
<1>1. /\ callbacks \in [Thread -> Seq(Kind) \cup {Null}] /\ callbacks[Sup] # Null
      /\ pc \in [Client -> Pc] /\ sem \in [Client -> Nat]
      /\ status \in [Client -> [Kind -> {"unused", "KRequestPending", "KErrNone", "KErrCancel"}]]
      /\ sv = "idle" /\ victim = Null /\ pc[u] = "exit" /\ u \in Thread /\ u # Sup
  BY Constants DEF AllOK, TypeOK, SupOK, SvKill
<1>2. PICK p \in Seq(Kind) : p = callbacks[u] /\ Inj(p) /\ callbacks[u] # Null
  BY <1>1 DEF AllOK, ListsOK, SupOK, Alive
<1>3. PICK q \in Seq(Kind) : q = callbacks[Sup] /\ Inj(q)
  BY <1>1, Constants DEF AllOK, ListsOK
<1>4. ToSet(p) \cap ToSet(q) = {}
  <2>1. \A j \in Kind : On(u, j) /\ On(Sup, j) => u = Sup
    BY <1>1, Constants DEF AllOK, ListsOK, OnePlace
  <2>2. ToSet(p) \subseteq Kind
    BY DEF ToSet
  <2> QED
    BY <1>1, <1>2, <1>3, <2>1, <2>2 DEF On
<1>5. PICK r : r = p \o q
  OBVIOUS
<1>6. r \in Seq(Kind) /\ Inj(r) /\ ToSet(r) = ToSet(p) \cup ToSet(q) /\ r # Null
  <2>1. r \in Seq(Kind) /\ Inj(r) /\ ToSet(r) = ToSet(p) \cup ToSet(q)
    BY <1>2, <1>3, <1>4, <1>5, JoinLists
  <2> QED
    BY <2>1, Constants
<1>7. /\ callbacks' = [callbacks EXCEPT ![Sup] = r, ![u] = Null]
      /\ victim' = u /\ sv' = "take" /\ pc' = [pc EXCEPT ![u] = "dying"]
      /\ status' = [status EXCEPT ![u] = [k \in Kind |-> "unused"]]
      /\ sem' = [sem EXCEPT ![u] = 0]
      /\ UNCHANGED <<queue, iMsgPool, iFirstFreeSlot, iFirstFullSlot, iState, waiting,
                     request, owner, iResult>>
      /\ UNCHANGED <<access, arg, to, killed, sys, cancelling, cleanup, deleting, fault>>
  BY <1>1, <1>2, <1>3, <1>5 DEF SvKill, GoTo, ring, requests
<1>8. /\ callbacks' \in [Thread -> Seq(Kind) \cup {Null}] /\ callbacks'[Sup] = r /\ callbacks'[u] = Null
      /\ \A v \in Thread \ {Sup, u} : callbacks'[v] = callbacks[v]
      /\ pc'[u] = "dying" /\ pc' \in [Client -> Pc] /\ \A s \in Client \ {u} : pc'[s] = pc[s]
      /\ status' \in [Client -> [Kind -> {"unused", "KRequestPending", "KErrNone", "KErrCancel"}]]
      /\ sem' \in [Client -> Nat]
      /\ \A s \in Client \ {u} : status'[s] = status[s] /\ sem'[s] = sem[s]
  BY <1>1, <1>6, <1>7, Constants DEF Pc
<1>9. TypeOK'
  BY <1>7, <1>8 DEF AllOK, TypeOK
<1>10. LockOK'
  BY <1>1, <1>7, <1>8, LockSame DEF AllOK, DtorPc
<1>11. /\ \A v \in Thread \ {Sup, u}, j \in Kind : On(v, j)' = On(v, j)
       /\ \A j \in Kind : ~On(u, j)'
       /\ \A j \in Kind : On(Sup, j)' <=> On(Sup, j) \/ On(u, j)
       /\ \A j \in Kind : Taken(j)' = Taken(j)
  BY <1>1, <1>2, <1>3, <1>6, <1>7, <1>8 DEF On, Taken
<1>12. /\ \A s \in Client, j \in Kind : InHand(s, j)' = InHand(s, j)
       /\ \A j \in Kind : InUse(j)' = InUse(j)
       /\ \A s \in Client : Own(s)' = Own(s)
       /\ \A s \in Client : Alive(s)' <=> Alive(s) /\ s # u
       /\ Alive(u)
  BY <1>1, <1>7, <1>8 DEF InHand, InUse, Alive, Own
<1>13. ASSUME NEW j \in Kind PROVE OnePlace(j)'
  <2>1. OnePlace(j)
    BY DEF AllOK, ListsOK
  <2>2. \A s \in Client : InHand(s, j)' => ~Taken(j)' /\ \A v \in Thread : ~On(v, j)'
    BY <1>1, <1>11, <1>12, <2>1, Constants DEF OnePlace
  <2>3. \A v \in Thread : On(v, j)' => ~Taken(j)'
    BY <1>1, <1>11, <2>1, Constants DEF OnePlace
  <2>4. \A v, w \in Thread : On(v, j)' /\ On(w, j)' => v = w
    BY <1>1, <1>11, <2>1, Constants DEF OnePlace
  <2>5. (\E v \in Thread : On(v, j)') <=> \E v \in Thread : On(v, j)
    BY <1>1, <1>11, Constants
  <2>6. InUse(j)' <=> \/ Taken(j)'
                      \/ \E v \in Thread : On(v, j)'
                      \/ \E s \in Client : InHand(s, j)'
    BY <1>11, <1>12, <2>1, <2>5 DEF OnePlace
  <2> QED
    BY <2>2, <2>3, <2>4, <2>6 DEF OnePlace
<1>14. ListsOK'
  <2>1. \A v \in Thread : callbacks'[v] # Null => Inj(callbacks'[v])
    BY <1>6, <1>8 DEF AllOK, ListsOK
  <2>2. Inj(cancelling')
    BY <1>7 DEF AllOK, ListsOK
  <2> QED
    BY <1>13, <2>1, <2>2 DEF ListsOK
<1>15. ASSUME NEW j \in Kind PROVE OwnedBy(j)'
  <2>1. OwnedBy(j)
    BY DEF AllOK, OwnedOK
  <2>2. \A v \in Client : On(v, j)' => On(v, j)
    BY <1>11, Constants
  <2>3. \A s \in Client : pc[s] \in {"dtorSignal", "dtorClose"} /\ arg[s] = j =>
                               pc'[s] \in {"dtorSignal", "dtorClose"} /\ arg'[s] = j
    BY <1>1, <1>7, <1>8
  <2>4. CASE On(u, j)
    <3>1. owner'[j] = u /\ pc'[u] \in {"dying", "dead", "deleted"}
      BY <1>7, <1>8, <2>1, <2>4 DEF OwnedBy
    <3>2. \A v \in Client : ~On(v, j)'
      BY <1>1, <1>11, <2>4, Constants DEF AllOK, ListsOK, OnePlace
    <3>3. /\ InUse(j)' => iResult'[j] # "KRequestPending"
          /\ request'[j] = "EReady" => owner'[j] = waiting'[j] /\ waiting'[j] # Null
          /\ queue' = "none" => request'[j] = "null"
      BY <1>7, <1>12, <2>1 DEF OwnedBy
    <3>4. fault' = "none" /\ waiting'[j] # Null =>
             \/ request'[j] = "EReady"
             \/ \E s \in Client : pc'[s] \in {"dtorSignal", "dtorClose"} /\ arg'[s] = j
      BY <1>7, <2>1, <2>3 DEF OwnedBy
    <3> QED
      BY <3>1, <3>2, <3>3, <3>4 DEF OwnedBy, Alive
  <2>5. CASE ~On(u, j)
    <3>1. Orphan(j)' => Orphan(j)
      BY <1>11, <1>12, <2>5 DEF Orphan
    <3> QED
      BY <1>7, <1>12, <2>1, <2>2, <2>3, <3>1, OwnedSame
  <2> QED
    BY <2>4, <2>5
<1>16. SupOK'
  <2>1. \A s \in Client : callbacks'[s] = Null <=> ~Alive(s)'
    <3>1. ASSUME NEW s \in Client, s # u PROVE callbacks'[s] = Null <=> ~Alive(s)'
      BY <1>8, <1>12, <3>1, Constants DEF AllOK, SupOK
    <3> QED
      BY <1>8, <1>12, <3>1
  <2>2. \A s \in Client : pc'[s] = "dying" <=> victim' = s
    BY <1>1, <1>7, <1>8, Constants DEF AllOK, SupOK
  <2>3. callbacks'[Sup] # Null /\ cancelling' = <<>>
    BY <1>1, <1>6, <1>7, <1>8 DEF AllOK, SupOK
  <2> QED
    BY <1>7, <2>1, <2>2, <2>3 DEF SupOK, Alive
<1>17. CountOK'
  BY <1>1, <1>7, <1>8, <1>12, CountSame DEF AllOK
<1>18. ToOK'
  BY <1>1, <1>7, <1>8 DEF AllOK, ToOK, Busy
<1>19. DeletedOK'
  <2>1. \A s \in Client : Free(s) => access'[s] = 0 /\ pc'[s] \in {"dead", "deleted"}
    BY <1>1, <1>7, <1>8 DEF Free
  <2> QED
    BY <1>1, <1>7, <1>8, <2>1, DeletedStep
<1>20. StatusExact'
  <2>1. StatusExact
    BY DEF AllOK
  <2>2. \A s \in Client : Running(s)' => s # u /\ Running(s) /\ (pc'[s] = "woken" <=> pc[s] = "woken")
    BY <1>7, <1>8 DEF Running
  <2>3. \A s, v \in Client : s \in Hands(v)' <=> s \in Hands(v)
    BY <1>1, <1>7, <1>8 DEF Hands
  <2>4. \A v \in Client \ {u} : callbacks'[v] = callbacks[v]
    BY <1>8, Constants
  <2> QED
    BY <1>7, <1>8, <2>1, <2>2, <2>3, <2>4, StatusSame
<1> QED
  BY <1>9, <1>10, <1>14, <1>15, <1>16, <1>17, <1>18, <1>19, <1>20 DEF OwnedOK

-----------------------------------------------------------------------------
\* What a step of the supervisor leaves that takes no callback.
LEMMA SupStep ==
    ASSUME AllOK,
           UNCHANGED <<queue, iMsgPool, iFirstFreeSlot, iFirstFullSlot, iState, waiting,
                       request, owner, iResult>>,
           UNCHANGED <<callbacks, cancelling, arg, to, killed, status, sem, sys, cleanup, fault>>,
           \A s \in Client : \/ pc'[s] = pc[s]
                             \/ /\ pc[s] \in {"dying", "dead", "deleted"}
                                /\ pc'[s] \in {"dead", "deleted"}
    PROVE  LockOK' /\ ListsOK' /\ OwnedOK' /\ ToOK' /\ StatusExact'
<1> USE DEF Rest
<1>1. LockOK'
  BY LockSame DEF AllOK, DtorPc
<1>2. /\ \A s \in Client, j \in Kind : InHand(s, j)' = InHand(s, j)
      /\ \A j \in Kind : InUse(j)' = InUse(j) /\ Taken(j)' = Taken(j)
      /\ \A v \in Thread, j \in Kind : On(v, j)' = On(v, j)
      /\ \A s \in Client : Alive(s)' = Alive(s)
  BY DEF InHand, InUse, Taken, On, Alive
<1>3. ListsOK'
  BY <1>2, ListsSame DEF AllOK
<1>4. ASSUME NEW j \in Kind PROVE OwnedBy(j)'
  <2>1. OwnedBy(j) /\ \A v \in Client : On(v, j)' => On(v, j)
    BY <1>2, Constants DEF AllOK, OwnedOK
  <2>2. Orphan(j)' => Orphan(j)
    BY <1>2, Constants DEF Orphan
  <2> QED
    BY <1>2, <2>1, <2>2, OwnedSame
<1>5. ToOK'
  BY DEF AllOK, ToOK, Busy
<1>6. StatusExact'
  <2>1. StatusExact
    BY DEF AllOK
  <2>2. \A s \in Client : Running(s)' => Running(s) /\ (pc'[s] = "woken" <=> pc[s] = "woken")
    BY DEF Running
  <2>3. \A s, v \in Client : s \in Hands(v)' <=> s \in Hands(v)
    BY DEF Hands
  <2> QED
    BY <2>1, <2>2, <2>3, StatusSame
<1> QED
  BY <1>1, <1>3, <1>4, <1>5, <1>6 DEF OwnedOK

\* The supervisor has cancelled all callbacks and gives up its reference to the thread.
LEMMA CloseThreadKeeps ==
    ASSUME AllOK, CloseThread
    PROVE  Rest'
<1> USE DEF Rest
<1>1. /\ pc \in [Client -> Pc] /\ access \in [Client -> Nat]
      /\ victim \in Client \cup {Null} /\ sv = "cancel" /\ cancelling = <<>>
      /\ UNCHANGED <<queue, iMsgPool, iFirstFreeSlot, iFirstFullSlot, iState, waiting,
                     request, owner, iResult>>
      /\ UNCHANGED <<callbacks, cancelling, arg, to, killed, status, sem, sys, cleanup,
                     deleting, fault>>
  BY DEF AllOK, TypeOK, CloseThread, ring, requests, user
<1>2. CASE victim = Null
  <2>1. sv' = "idle" /\ UNCHANGED <<access, pc, victim>>
    BY <1>2 DEF CloseThread
  <2>2. \A s \in Client : Alive(s)' = Alive(s) /\ Own(s)' = Own(s)
    BY <1>1, <2>1 DEF Alive, Own
  <2>3. TypeOK' /\ SupOK'
    BY <1>1, <1>2, <2>1, <2>2 DEF AllOK, TypeOK, SupOK
  <2>4. CountOK'
    BY <1>1, <2>1, <2>2, CountSame DEF AllOK
  <2>5. DeletedOK'
    <3>1. \A s \in Client : Free(s) => access'[s] = 0 /\ pc'[s] \in {"dead", "deleted"}
      BY <2>1 DEF Free
    <3> QED
      BY <1>1, <2>1, <3>1, DeletedStep
  <2> QED
    BY <1>1, <2>1, <2>3, <2>4, <2>5, SupStep
<1>3. CASE victim # Null
  <2>1. PICK w \in Client : w = victim
    BY <1>1, <1>3
  <2>2. /\ pc[w] = "dying" /\ \A s \in Client \ {w} : pc[s] # "dying"
    BY <2>1 DEF AllOK, SupOK
  <2>3. access[w] \in Nat \ {0}
    <3>1. Own(w)
      BY <1>1, <2>2 DEF Own
    <3>2. access[w] = B(Own(w)) + Cardinality(Waits(w)) + Cardinality(Closing(w))
          /\ Cardinality(Waits(w)) \in Nat /\ Cardinality(Closing(w)) \in Nat
      BY RefsSplit DEF AllOK, CountOK
    <3> QED
      BY <3>1, <3>2 DEF B
  <2>4. /\ access' = [access EXCEPT ![w] = access[w] - 1]
        /\ \/ access[w] = 1 /\ sv' = "flash" /\ pc' = pc /\ victim' = victim
           \/ access[w] # 1 /\ sv' = "idle" /\ pc' = [pc EXCEPT ![w] = "dead"] /\ victim' = Null
    BY <1>3, <2>1 DEF CloseThread, GoTo
  <2>5. /\ access' \in [Client -> Nat] /\ access'[w] = access[w] - 1
        /\ \A s \in Client \ {w} : access'[s] = access[s]
        /\ pc' \in [Client -> Pc] /\ \A s \in Client \ {w} : pc'[s] = pc[s]
        /\ pc'[w] \in {"dying", "dead"}
        /\ sv' = "flash" => pc'[w] = "dying" /\ access'[w] = 0 /\ victim' = w
        /\ sv' # "flash" => sv' = "idle" /\ pc'[w] = "dead" /\ victim' = Null
    BY <1>1, <2>1, <2>2, <2>3, <2>4 DEF Pc
  <2>6. /\ \A s \in Client : Alive(s)' = Alive(s)
        /\ \A s \in Client \ {w} : Own(s)' = Own(s)
        /\ Own(w) /\ ~Own(w)'
    BY <1>1, <2>1, <2>2, <2>5, Constants DEF Alive, Own
  <2>7. TypeOK'
    BY <1>1, <2>1, <2>4, <2>5 DEF AllOK, TypeOK
  <2>8. SupOK'
    BY <1>1, <2>1, <2>2, <2>5, <2>6, Constants DEF AllOK, SupOK
  <2>9. CountOK'
    <3>1. /\ \A s \in Client, k \in Kind : k \in Waits(s)' <=> k \in Waits(s)
          /\ \A s, v \in Client : v \in Closing(s)' <=> v \in Closing(s)
      BY <1>1, <2>2, <2>5 DEF Waits, Closing
    <3>2. "data" \in Kind
      BY DEF Kind
    <3>3. ASSUME NEW s \in Client
          PROVE access'[s] = access[s] + B(Own(s)') - B(Own(s))
                     + B("data" \in Waits(s)') - B("data" \in Waits(s))
                     + B(w \in Closing(s)') - B(w \in Closing(s))
      <4>1. /\ B("data" \in Waits(s)') = B("data" \in Waits(s))
            /\ B(w \in Closing(s)') = B(w \in Closing(s))
            /\ B("data" \in Waits(s)) \in {0, 1} /\ B(w \in Closing(s)) \in {0, 1}
        BY <3>1, <3>2 DEF B
      <4>2. s = w => B(Own(s)') = 0 /\ B(Own(s)) = 1
        BY <2>6 DEF B
      <4>3. s # w => B(Own(s)') = B(Own(s)) /\ B(Own(s)) \in {0, 1}
        BY <2>6 DEF B
      <4>4. access[s] \in Nat
        BY <1>1
      <4> QED
        BY <2>3, <2>5, <4>1, <4>2, <4>3, <4>4
    <3>4. \A x \in Client \ {w} : pc'[x] = "asyncClose" \/ pc[x] = "asyncClose" =>
                                       pc'[x] = pc[x] /\ to'[x] = to[x]
      BY <1>1, <2>5
    <3> QED
      BY <1>1, <3>3, <3>4, CountStep DEF AllOK
  <2>10. DeletedOK'
    <3>1. \A s \in Client : Free(s) => access'[s] = 0 /\ pc'[s] \in {"dead", "deleted"}
      BY <2>2, <2>5 DEF Free
    <3>2. \A s \in Client : pc'[s] \notin {"dying", "dead"} => pc'[s] = pc[s]
      BY <2>5
    <3> QED
      BY <1>1, <2>5, <3>1, <3>2, DeletedStep
  <2> QED
    BY <1>1, <2>2, <2>5, <2>7, <2>8, <2>9, <2>10, SupStep
<1> QED
  BY <1>2, <1>3

\* It deletes the thread, ...
LEMMA FlashThreadKeeps ==
    ASSUME AllOK, FlashThread
    PROVE  Rest'
<1> USE DEF Rest
<1>1. /\ pc \in [Client -> Pc] /\ access \in [Client -> Nat]
      /\ victim \in Client \cup {Null} /\ sv = "flash" /\ sys = Null
      /\ UNCHANGED <<queue, iMsgPool, iFirstFreeSlot, iFirstFullSlot, iState, waiting,
                     request, owner, iResult>>
      /\ UNCHANGED <<callbacks, cancelling, arg, to, killed, status, sem, sys, cleanup, access,
                     deleting, fault>>
  BY DEF AllOK, TypeOK, FlashThread, ring, requests, user
<1>2. PICK w \in Client : w = victim
  BY <1>1 DEF AllOK, SupOK
<1>3. /\ access[w] = 0 /\ pc[w] = "dying" /\ \A s \in Client \ {w} : pc[s] # "dying"
  BY <1>1, <1>2 DEF AllOK, SupOK
<1>4. pc' = [pc EXCEPT ![w] = "deleted"] /\ sv' = "idle" /\ victim' = Null
  BY <1>2 DEF FlashThread, GoTo
<1>5. pc' \in [Client -> Pc] /\ pc'[w] = "deleted" /\ \A s \in Client \ {w} : pc'[s] = pc[s]
  BY <1>1, <1>4 DEF Pc
<1>6. \A s \in Client : Alive(s)' = Alive(s) /\ Own(s)' = Own(s)
  BY <1>1, <1>2, <1>3, <1>4, <1>5 DEF Alive, Own
<1>7. TypeOK'
  BY <1>1, <1>4, <1>5 DEF AllOK, TypeOK
<1>8. SupOK'
  BY <1>1, <1>3, <1>4, <1>5, <1>6, Constants DEF AllOK, SupOK
<1>9. CountOK'
  BY <1>1, <1>3, <1>5, <1>6, CountSame DEF AllOK
<1>10. DeletedOK'
  <2>1. \A s \in Client : Free(s) => access'[s] = 0 /\ pc'[s] \in {"dead", "deleted"}
    BY <1>1, <1>3, <1>5 DEF Free
  <2>2. \A s \in Client : pc'[s] # "signal"
    BY <1>1, <1>2, <1>3, <1>5, NoSignal
  <2>3. \A s \in Client : pc'[s] # "deleted" => pc'[s] = pc[s]
    BY <1>5
  <2>4. \A s \in Client : pc'[s] = "deleted" => pc[s] = "deleted" \/ access'[s] = 0
    BY <1>1, <1>3, <1>5
  <2> QED
    BY <1>1, <2>1, <2>2, <2>3, <2>4, DeletedStep
<1> QED
  BY <1>1, <1>3, <1>5, <1>7, <1>8, <1>9, <1>10, SupStep

\* ... and those that it was asked to delete.
LEMMA DoAsyncFreeKeeps ==
    ASSUME AllOK, DoAsyncFree
    PROVE  Rest'
<1> USE DEF Rest
<1>1. /\ pc \in [Client -> Pc] /\ deleting \subseteq Client /\ sys = Null /\ sv = "idle" /\ deleting' = {}
      /\ UNCHANGED <<queue, iMsgPool, iFirstFreeSlot, iFirstFullSlot, iState, waiting,
                     request, owner, iResult>>
      /\ UNCHANGED <<callbacks, cancelling, arg, to, killed, status, sem, sys, cleanup, access,
                     sv, victim, fault>>
  BY DEF AllOK, TypeOK, DoAsyncFree, ring, requests, user
<1>2. \A s \in deleting : access[s] = 0 /\ pc[s] \in {"dead", "deleted"}
  BY DEF AllOK, DeletedOK, Free
<1>3. /\ pc' \in [Client -> Pc] /\ \A s \in deleting : pc'[s] = "deleted"
      /\ \A s \in Client \ deleting : pc'[s] = pc[s]
  BY <1>1 DEF DoAsyncFree, Pc
<1>4. \A s \in Client : /\ Alive(s)' = Alive(s) /\ Own(s)' = Own(s)
                        /\ pc'[s] = "dying" <=> pc[s] = "dying"
  BY <1>1, <1>2, <1>3 DEF Alive, Own
<1>5. TypeOK'
  BY <1>1, <1>3 DEF AllOK, TypeOK
<1>6. SupOK'
  BY <1>1, <1>4 DEF AllOK, SupOK
<1>7. CountOK'
  BY <1>1, <1>2, <1>3, <1>4, CountSame DEF AllOK
<1>8. DeletedOK'
  <2>1. \A s \in Client : Free(s) => access'[s] = 0 /\ pc'[s] \in {"dead", "deleted"}
    BY <1>1, <1>2, <1>3 DEF Free
  <2>2. \A s \in Client : pc'[s] # "signal"
    <3>1. \A s \in Client : pc[s] # "signal"
      BY <1>1, Constants DEF AllOK, LockOK
    <3> QED
      BY <1>3, <3>1
  <2>3. \A s \in Client : pc'[s] # "deleted" => pc'[s] = pc[s]
    BY <1>3
  <2>4. \A s \in Client : pc'[s] = "deleted" => pc[s] = "deleted" \/ access'[s] = 0
    BY <1>1, <1>2, <1>3
  <2> QED
    BY <1>1, <2>1, <2>2, <2>3, <2>4, DeletedStep
<1> QED
  <2>1. \A s \in Client : \/ pc'[s] = pc[s]
                          \/ /\ pc[s] \in {"dying", "dead", "deleted"}
                             /\ pc'[s] \in {"dead", "deleted"}
    BY <1>2, <1>3
  <2> QED
    BY <1>1, <1>5, <1>6, <1>7, <1>8, <2>1, SupStep

-----------------------------------------------------------------------------
\* A thread asks to be told: it is told at once, or waits, or finds the request in use.
LEMMA NotifyKeeps ==
    ASSUME AllOK, NEW t \in Client, NEW k \in Kind, Notify(t, k)
    PROVE  Rest'
<1> USE DEF Rest
<1>1. /\ pc \in [Client -> Pc] /\ to \in [Client -> Client \cup {Null}]
      /\ access \in [Client -> Nat] /\ sem \in [Client -> Nat]
      /\ waiting \in [Kind -> Client \cup {Null}]
      /\ request \in [Kind -> {"null", "EFree", "EReady", "EInUse", "EClosing", "freed"}]
      /\ owner \in [Kind -> Client \cup {Null}]
      /\ status \in [Client -> [Kind -> {"unused", "KRequestPending", "KErrNone", "KErrCancel"}]]
      /\ fault \in {"none", "null request", "system unlocked"}
  BY DEF AllOK, TypeOK
<1>2. /\ pc[t] = "call" /\ sys = Null /\ queue = "open" /\ fault = "none" /\ status[t][k] = "unused"
      /\ UNCHANGED <<queue, iMsgPool, iFirstFreeSlot, iFirstFullSlot, iState, iResult>>
      /\ UNCHANGED <<callbacks, cancelling, arg, killed, sys, sv, victim, cleanup, deleting>>
  BY DEF Notify, Enter, Live, ring, supervisor
<1>3. /\ \A s \in Client : pc[s] \notin DtorPc
      /\ request[k] \notin {"EClosing", "freed"}
      /\ OwnedBy(k) /\ OnePlace(k)
  BY <1>2, NoDtor DEF AllOK, OwnedOK, ListsOK
<1>4. waiting[k] # Null <=> request[k] = "EReady"
  BY <1>2, <1>3 DEF OwnedBy, DtorPc
<1>5. PICK w \in Client \cup {Null} : w = waiting[k]
  BY <1>1
<1>6. /\ w # Null <=> request[k] = "EReady"
      /\ w # Null => killed[w] /\ owner[k] = w
  BY <1>3, <1>4, <1>5 DEF Notify, OwnedBy
<1>7. /\ pc' \in [Client -> Pc] /\ to' \in [Client -> Client \cup {Null}]
      /\ pc'[t] \in {"asyncClose", "run", "exit"} /\ (pc'[t] = "asyncClose" <=> w # Null)
      /\ to'[t] = w
      /\ \A s \in Client \ {t} : pc'[s] = pc[s] /\ to'[s] = to[s]
  <2>1. CASE w # Null
    <3>1. to' = [to EXCEPT ![t] = w] /\ pc' = [pc EXCEPT ![t] = "asyncClose"]
      BY <1>5, <1>6, <2>1 DEF Notify, GoTo
    <3> QED
      BY <1>1, <2>1, <3>1 DEF Pc
  <2>2. CASE w = Null
    <3>1. to' = to /\ (pc' = [pc EXCEPT ![t] = "run"] \/ pc' = [pc EXCEPT ![t] = "exit"])
      BY <1>6, <2>2 DEF Notify, GoTo, Return
    <3>2. to[t] = Null
      BY <1>2 DEF AllOK, ToOK, Busy
    <3> QED
      BY <1>1, <2>2, <3>1, <3>2 DEF Pc
  <2> QED
    BY <2>1, <2>2
<1>8. PICK ready \in BOOLEAN :
         ready <=> IF k = "space" THEN iState # "EFull" ELSE iState # "EEmpty"
  OBVIOUS
<1>9. CASE ready
  <2>1. /\ status' = [status EXCEPT ![t][k] = "KErrNone"] /\ sem' = [sem EXCEPT ![t] = @ + 1]
        /\ waiting' = [waiting EXCEPT ![k] = Null] /\ access' = access /\ fault' = fault
        /\ request' = [request EXCEPT ![k] = IF w # Null THEN "EFree" ELSE @]
        /\ owner' = [owner EXCEPT ![k] = IF w # Null THEN Null ELSE @]
    BY <1>6, <1>8, <1>9 DEF Notify
  <2>2. /\ status' \in [Client -> [Kind -> {"unused", "KRequestPending", "KErrNone", "KErrCancel"}]]
        /\ status'[t][k] = "KErrNone"
        /\ \A v \in Client, j \in Kind : v # t \/ j # k => status'[v][j] = status[v][j]
    BY <1>1, <2>1
  <2>3. /\ sem' \in [Client -> Nat] /\ sem'[t] = sem[t] + 1
        /\ \A s \in Client \ {t} : sem'[s] = sem[s]
        /\ waiting' \in [Kind -> Client \cup {Null}] /\ waiting'[k] = Null
        /\ \A j \in Kind \ {k} : waiting'[j] = waiting[j] /\ request'[j] = request[j] /\ owner'[j] = owner[j]
    <3>1. sem[t] + 1 \in Nat
      <4>1. sem[t] \in Nat
        BY <1>1
      <4> QED
        BY <4>1
    <3>2. sem' \in [Client -> Nat] /\ sem'[t] = sem[t] + 1 /\ \A s \in Client \ {t} : sem'[s] = sem[s]
      BY <1>1, <2>1, <3>1
    <3>3. waiting' \in [Kind -> Client \cup {Null}] /\ waiting'[k] = Null
      BY <1>1, <2>1
    <3>4. \A j \in Kind \ {k} : waiting'[j] = waiting[j] /\ request'[j] = request[j] /\ owner'[j] = owner[j]
      BY <1>1, <2>1
    <3> QED
      BY <3>2, <3>3, <3>4
  <2>4. /\ request' \in [Kind -> {"null", "EFree", "EReady", "EInUse", "EClosing", "freed"}]
        /\ owner' \in [Kind -> Client \cup {Null}]
        /\ w # Null => request'[k] = "EFree" /\ owner'[k] = Null
        /\ w = Null => request'[k] = request[k] /\ owner'[k] = owner[k]
    BY <1>1, <2>1
  <2>5. TypeOK'
    BY <1>2, <1>7, <2>1, <2>2, <2>3, <2>4 DEF AllOK, TypeOK
  <2>6. LockOK'
    <3>1. \A j \in Kind : request'[j] \in {"EClosing", "freed"} => request[j] \in {"EClosing", "freed"}
      BY <2>3, <2>4
    <3> QED
      BY <1>2, <1>7, <3>1, LockSame DEF AllOK, DtorPc
  <2>7. /\ \A s \in Client, j \in Kind : InHand(s, j)' = InHand(s, j)
        /\ \A j \in Kind : InUse(j)' = InUse(j) /\ Taken(j)' = Taken(j)
        /\ \A v \in Thread, j \in Kind : On(v, j)' = On(v, j)
        /\ \A s \in Client : Alive(s)' = Alive(s) /\ Own(s)' = Own(s)
    <3>1. \A s \in Client, j \in Kind : InHand(s, j)' = InHand(s, j)
      BY <1>2, <1>7 DEF InHand
    <3>2. \A j \in Kind : InUse(j)' = InUse(j)
      BY <1>6, <2>3, <2>4 DEF InUse
    <3>3. \A s \in Client : Alive(s)' = Alive(s) /\ Own(s)' = Own(s)
      BY <1>2, <1>7 DEF Alive, Own
    <3> QED
      BY <1>2, <3>1, <3>2, <3>3 DEF Taken, On
  <2>8. ListsOK'
    BY <1>2, <2>7, ListsSame DEF AllOK
  <2>9. ASSUME NEW j \in Kind PROVE OwnedBy(j)'
    <3>1. Orphan(j)' => Orphan(j)
      BY <2>7, Constants DEF Orphan
    <3>2. \A v \in Client : On(v, j)' => On(v, j)
      BY <2>7, Constants
    <3>3. OwnedBy(j) /\ OnePlace(j)
      BY DEF AllOK, OwnedOK, ListsOK
    <3>4. CASE j # k
      <4>1. \A s \in Client : pc[s] \notin {"dtorSignal", "dtorClose"}
        BY <1>3 DEF DtorPc
      <4>2. owner'[j] = owner[j] /\ iResult'[j] = iResult[j] /\ request'[j] = request[j] /\ waiting'[j] = waiting[j]
        BY <1>2, <2>3, <3>4
      <4> QED
        BY <1>2, <2>1, <2>7, <3>1, <3>2, <3>3, <4>1, <4>2, OwnedSame
    <3>5. CASE j = k
      <4>1. InUse(k) => w = Null
        BY <1>6 DEF InUse
      <4>2. \A v \in Client : On(v, k)' => owner'[k] = v
        BY <2>4, <3>2, <3>3, <3>5, <4>1, Constants DEF OwnedBy, OnePlace
      <4>3. Orphan(k)' => owner'[k] \in Client /\ pc'[owner'[k]] \in {"dying", "dead", "deleted"}
        <5>1. Orphan(k)' => InUse(k)
          BY <3>1, <3>3, <3>5, Constants DEF Orphan, OnePlace
        <5>2. Orphan(k)' => owner'[k] = owner[k] /\ owner[k] \in Client /\ ~Alive(owner[k])
          BY <2>4, <3>1, <3>3, <3>5, <4>1, <5>1 DEF OwnedBy
        <5>3. \A s \in Client : ~Alive(s) => pc'[s] \in {"dying", "dead", "deleted"}
          BY <1>2, <1>7 DEF Alive
        <5> QED
          BY <5>2, <5>3
      <4>4. InUse(k)' => iResult'[k] # "KRequestPending"
        BY <1>2, <2>7, <3>3, <3>5 DEF OwnedBy
      <4>5. request'[k] # "EReady" /\ waiting'[k] = Null /\ queue' # "none"
        BY <1>2, <1>6, <2>3, <2>4
      <4> QED
        BY <3>5, <4>2, <4>3, <4>4, <4>5 DEF OwnedBy, Alive
    <3> QED
      BY <3>4, <3>5
  <2>10. SupOK'
    BY <1>2, <1>7, <2>1, <2>7 DEF AllOK, SupOK
  <2>11. CountOK'
    <3>1. ASSUME NEW v \in Client
          PROVE access'[v] = access[v] + B(Own(v)') - B(Own(v))
                     + B(k \in Waits(v)') - B(k \in Waits(v))
                     + B(t \in Closing(v)') - B(t \in Closing(v))
      <4>1. /\ k \notin Waits(v)' /\ (k \in Waits(v) <=> v = w)
            /\ t \notin Closing(v) /\ (t \in Closing(v)' <=> v = w)
        BY <1>2, <1>5, <1>7, <2>3, Constants DEF Waits, Closing
      <4>2. B(Own(v)') = B(Own(v)) /\ B(Own(v)) \in {0, 1}
        BY <2>7 DEF B
      <4>3. access[v] \in Nat /\ access'[v] = access[v]
        BY <1>1, <2>1
      <4>4. B(k \in Waits(v)') = 0 /\ B(t \in Closing(v)) = 0
            /\ B(k \in Waits(v)) = B(t \in Closing(v)') /\ B(k \in Waits(v)) \in {0, 1}
        BY <4>1 DEF B
      <4> QED
        BY <4>2, <4>3, <4>4
    <3>2. \A x \in Client \ {t} : pc'[x] = "asyncClose" \/ pc[x] = "asyncClose" =>
                                       pc'[x] = pc[x] /\ to'[x] = to[x]
      BY <1>7
    <3> QED
      BY <2>3, <3>1, <3>2, CountStep DEF AllOK
  <2>12. ToOK'
    <3>1. \A s \in Client : pc'[s] \notin {"dtorSignal", "dtorClose"}
      BY <1>3, <1>7 DEF DtorPc
    <3> QED
      BY <1>2, <1>7, <3>1 DEF AllOK, ToOK, Busy
  <2>13. DeletedOK'
    <3>1. \A s \in Client : Free(s) => access'[s] = 0 /\ pc'[s] \in {"dead", "deleted"}
      BY <1>2, <1>7, <2>1 DEF Free
    <3>2. \A s \in Client : pc'[s] # "signal"
      BY <1>2, <1>7, Constants DEF AllOK, LockOK
    <3> QED
      BY <1>2, <1>7, <3>1, <3>2, DeletedStep
  <2>14. StatusExact'
    <3> SUFFICES ASSUME fault' = "none", NEW v \in Client, Running(v)'
                 PROVE  /\ \A j \in Kind : status'[v][j] = "KRequestPending" <=>
                             owner'[j] = v /\ request'[j] \in {"EReady", "EInUse", "EClosing"}
                        /\ sem'[v] + (IF pc'[v] = "woken" THEN 1 ELSE 0) + Cardinality(Hands(v)')
                           = Cardinality(Told(v)') + Cardinality(Coming(v)')
      BY DEF StatusExact, Hands
    <3>1. Running(v) /\ (pc'[v] = "woken" <=> pc[v] = "woken") /\ v # w
      BY <1>2, <1>6, <1>7, Constants DEF Running
    <3>2. \A j \in Kind : status[v][j] = "KRequestPending" <=>
                             owner[j] = v /\ request[j] \in {"EReady", "EInUse", "EClosing"}
      BY <1>2, <3>1 DEF StatusExact, AllOK
    <3>3. \A j \in Kind : status'[v][j] = "KRequestPending" <=>
                             owner'[j] = v /\ request'[j] \in {"EReady", "EInUse", "EClosing"}
      <4>1. ASSUME NEW j \in Kind, j # k
            PROVE status'[v][j] = "KRequestPending" <=>
                             owner'[j] = v /\ request'[j] \in {"EReady", "EInUse", "EClosing"}
        BY <2>2, <2>3, <3>2, <4>1
      <4>2. ~(owner'[k] = v /\ request'[k] \in {"EReady", "EInUse", "EClosing"})
            <=> ~(owner[k] = v /\ request[k] \in {"EReady", "EInUse", "EClosing"})
        BY <1>6, <2>4, <3>1, Constants
      <4>3. status'[v][k] = "KRequestPending" <=> status[v][k] = "KRequestPending"
        BY <1>2, <2>2
      <4> QED
        BY <3>2, <4>1, <4>2, <4>3
    <3>4. /\ \A j \in Kind \ {k} : j \in Told(v)' <=> j \in Told(v)
          /\ v # t => (k \in Told(v)' <=> k \in Told(v))
          /\ v = t => k \in Told(v)' /\ k \notin Told(v)
      BY <1>2, <2>2 DEF Told, Completed
    <3>5. Coming(v)' = Coming(v)
      BY <1>2 DEF Coming, Queued
    <3>6. /\ \A x \in Client \ {t} : x \in Hands(v)' <=> x \in Hands(v)
          /\ t \notin Hands(v)' /\ t \notin Hands(v)
      BY <1>2, <1>7 DEF Hands
    <3>7. sem[v] \in Nat /\ sem'[v] \in Nat /\ sem'[v] = sem[v] + B(v = t)
      <4>1. sem[v] \in Nat
        BY <1>1
      <4>2. CASE v = t
        BY <2>3, <4>1, <4>2 DEF B
      <4>3. CASE v # t
        BY <2>3, <4>1, <4>3 DEF B
      <4> QED
        BY <4>1, <4>2, <4>3
    <3>8. sem'[v] + B(pc'[v] = "woken") + B(t \in Hands(v)') - B(t \in Hands(v))
          = sem[v] + B(pc[v] = "woken") + B(k \in Told(v)') - B(k \in Told(v))
             + B(k \in Coming(v)') - B(k \in Coming(v))
      BY <3>1, <3>4, <3>5, <3>6, <3>7 DEF B
    <3> QED
      BY <1>2, <3>1, <3>3, <3>4, <3>5, <3>6, <3>7, <3>8, StatusStep
  <2> QED
    BY <2>5, <2>6, <2>8, <2>9, <2>10, <2>11, <2>12, <2>13, <2>14 DEF OwnedOK
<1>10. CASE ~ready
  <2>1. /\ status' = [status EXCEPT ![t][k] = "KRequestPending"] /\ sem' = sem
        /\ waiting' = [waiting EXCEPT ![k] = t] /\ access' = [access EXCEPT ![t] = @ + 1]
    BY <1>8, <1>10 DEF Notify
  <2>2. /\ status' \in [Client -> [Kind -> {"unused", "KRequestPending", "KErrNone", "KErrCancel"}]]
        /\ status'[t][k] = "KRequestPending"
        /\ \A v \in Client, j \in Kind : v # t \/ j # k => status'[v][j] = status[v][j]
    BY <1>1, <2>1
  <2>3. /\ waiting' \in [Kind -> Client \cup {Null}] /\ waiting'[k] = t
        /\ \A j \in Kind \ {k} : waiting'[j] = waiting[j]
        /\ access' \in [Client -> Nat] /\ access'[t] = access[t] + 1
        /\ \A s \in Client \ {t} : access'[s] = access[s]
    <3>1. access[t] + 1 \in Nat
      <4>1. access[t] \in Nat
        BY <1>1
      <4> QED
        BY <4>1
    <3>2. access' \in [Client -> Nat] /\ access'[t] = access[t] + 1
          /\ \A s \in Client \ {t} : access'[s] = access[s]
      BY <1>1, <2>1, <3>1
    <3>3. waiting' \in [Kind -> Client \cup {Null}] /\ waiting'[k] = t
          /\ \A j \in Kind \ {k} : waiting'[j] = waiting[j]
      BY <1>1, <2>1
    <3> QED
      BY <3>2, <3>3
  <2>4. /\ request' \in [Kind -> {"null", "EFree", "EReady", "EInUse", "EClosing", "freed"}]
        /\ owner' \in [Kind -> Client \cup {Null}]
        /\ fault' \in {"none", "null request", "system unlocked"}
        /\ \A j \in Kind \ {k} : request'[j] = request[j] /\ owner'[j] = owner[j]
        /\ \/ /\ w # Null \/ request[k] = "EFree"
              /\ request'[k] = "EReady" /\ owner'[k] = t /\ fault' = "none"
           \/ /\ w = Null /\ request[k] # "EFree" /\ fault' # "none"
              /\ request'[k] = request[k] /\ owner'[k] = owner[k]
    <3>1. CASE w # Null \/ request[k] = "EFree"
      <4>1. /\ request' = [request EXCEPT ![k] = "EReady"] /\ owner' = [owner EXCEPT ![k] = t]
            /\ fault' = "none"
        BY <1>2, <1>6, <1>8, <1>10, <3>1 DEF Notify
      <4> QED
        BY <1>1, <3>1, <4>1
    <3>2. CASE w = Null /\ request[k] # "EFree"
      <4>1. request' = request /\ owner' = owner /\ fault' = "system unlocked"
        BY <1>6, <1>8, <1>10, <3>2 DEF Notify
      <4> QED
        BY <1>1, <3>2, <4>1
    <3> QED
      BY <3>1, <3>2
  <2>5. TypeOK'
    BY <1>2, <1>7, <2>1, <2>2, <2>3, <2>4 DEF AllOK, TypeOK
  <2>6. LockOK'
    <3>1. \A j \in Kind : request'[j] \in {"EClosing", "freed"} => request[j] \in {"EClosing", "freed"}
      BY <2>4
    <3> QED
      BY <1>2, <1>7, <3>1, LockSame DEF AllOK, DtorPc
  <2>7. /\ \A s \in Client, j \in Kind : InHand(s, j)' = InHand(s, j)
        /\ \A j \in Kind : InUse(j)' = InUse(j) /\ Taken(j)' = Taken(j)
        /\ \A v \in Thread, j \in Kind : On(v, j)' = On(v, j)
        /\ \A s \in Client : Alive(s)' = Alive(s) /\ Own(s)' = Own(s)
    <3>1. \A s \in Client, j \in Kind : InHand(s, j)' = InHand(s, j)
      BY <1>2, <1>7 DEF InHand
    <3>2. \A j \in Kind : InUse(j)' = InUse(j)
      <4>1. InUse(k)' <=> InUse(k)
        BY <1>6, <2>4 DEF InUse
      <4>2. \A j \in Kind \ {k} : InUse(j)' <=> InUse(j)
        BY <2>4 DEF InUse
      <4> QED
        BY <4>1, <4>2 DEF InUse
    <3>3. \A s \in Client : Alive(s)' = Alive(s) /\ Own(s)' = Own(s)
      BY <1>2, <1>7 DEF Alive, Own
    <3> QED
      BY <1>2, <3>1, <3>2, <3>3 DEF Taken, On
  <2>8. ListsOK'
    BY <1>2, <2>7, ListsSame DEF AllOK
  <2>9. ASSUME NEW j \in Kind PROVE OwnedBy(j)'
    <3>1. Orphan(j)' => Orphan(j)
      BY <2>7, Constants DEF Orphan
    <3>2. \A v \in Client : On(v, j)' => On(v, j)
      BY <2>7, Constants
    <3>3. OwnedBy(j) /\ OnePlace(j)
      BY DEF AllOK, OwnedOK, ListsOK
    <3>4. \A v \in Client : On(v, j)' => owner'[j] = v
      <4>1. \A v \in Client : On(v, j)' => InUse(j) /\ owner[j] = v
        BY <3>2, <3>3, Constants DEF OwnedBy, OnePlace
      <4>2. InUse(j) => owner'[j] = owner[j]
        BY <1>6, <2>4 DEF InUse
      <4> QED
        BY <4>1, <4>2
    <3>5. Orphan(j)' => owner'[j] \in Client /\ pc'[owner'[j]] \in {"dying", "dead", "deleted"}
      <4>1. Orphan(j)' => InUse(j)
        BY <3>1, <3>3, Constants DEF Orphan, OnePlace
      <4>2. InUse(j) => owner'[j] = owner[j]
        BY <1>6, <2>4 DEF InUse
      <4>3. Orphan(j)' => owner'[j] = owner[j] /\ owner[j] \in Client /\ ~Alive(owner[j])
        BY <3>1, <3>3, <4>1, <4>2 DEF OwnedBy
      <4>4. \A s \in Client : ~Alive(s) => pc'[s] \in {"dying", "dead", "deleted"}
        BY <1>2, <1>7 DEF Alive
      <4> QED
        BY <4>3, <4>4
    <3>6. InUse(j)' => iResult'[j] # "KRequestPending"
      BY <1>2, <2>7, <3>3 DEF OwnedBy
    <3>7. request'[j] = "EReady" => owner'[j] = waiting'[j] /\ waiting'[j] # Null
      <4>1. CASE j = k
        BY <1>6, <2>3, <2>4, <4>1, Constants
      <4>2. CASE j # k
        BY <2>3, <2>4, <3>3, <4>2 DEF OwnedBy
      <4> QED
        BY <4>1, <4>2
    <3>8. fault' = "none" /\ waiting'[j] # Null => request'[j] = "EReady"
      <4>1. CASE j = k
        BY <2>4, <4>1
      <4>2. CASE j # k
        BY <1>2, <1>3, <2>3, <2>4, <3>3, <4>2 DEF OwnedBy, DtorPc
      <4> QED
        BY <4>1, <4>2
    <3> QED
      BY <1>2, <3>4, <3>5, <3>6, <3>7, <3>8 DEF OwnedBy, Alive
  <2>10. SupOK'
    <3>1. \A s \in Client : pc'[s] = "dying" <=> pc[s] = "dying"
      BY <1>2, <1>7
    <3>2. sv = "flash" => victim \in Client /\ pc[victim] = "dying" /\ access[victim] = 0
      BY DEF AllOK, SupOK, TypeOK
    <3>3. sv = "flash" => access'[victim] = 0
      BY <1>2, <2>3, <3>2
    <3> QED
      BY <1>2, <2>7, <3>1, <3>3 DEF AllOK, SupOK
  <2>11. CountOK'
    <3>1. ASSUME NEW v \in Client
          PROVE access'[v] = access[v] + B(Own(v)') - B(Own(v))
                     + B(k \in Waits(v)') - B(k \in Waits(v))
                     + B(t \in Closing(v)') - B(t \in Closing(v))
      <4>1. /\ (k \in Waits(v)' <=> v = t) /\ (k \in Waits(v) <=> v = w)
            /\ t \notin Closing(v) /\ (t \in Closing(v)' <=> v = w)
        BY <1>2, <1>5, <1>7, <2>3, Constants DEF Waits, Closing
      <4>2. B(Own(v)') = B(Own(v)) /\ B(Own(v)) \in {0, 1}
        BY <2>7 DEF B
      <4>3. access[v] \in Nat /\ access'[v] = access[v] + B(v = t) /\ B(v = t) \in {0, 1}
        <5>1. access[v] \in Nat
          BY <1>1
        <5>2. CASE v = t
          BY <2>3, <5>1, <5>2 DEF B
        <5>3. CASE v # t
          BY <2>3, <5>1, <5>3 DEF B
        <5> QED
          BY <5>1, <5>2, <5>3
      <4>4. B(k \in Waits(v)') = B(v = t) /\ B(t \in Closing(v)) = 0
            /\ B(k \in Waits(v)) = B(t \in Closing(v)') /\ B(k \in Waits(v)) \in {0, 1}
        BY <4>1 DEF B
      <4> QED
        BY <4>2, <4>3, <4>4
    <3>2. \A x \in Client \ {t} : pc'[x] = "asyncClose" \/ pc[x] = "asyncClose" =>
                                       pc'[x] = pc[x] /\ to'[x] = to[x]
      BY <1>7
    <3> QED
      BY <2>3, <3>1, <3>2, CountStep DEF AllOK
  <2>12. ToOK'
    <3>1. \A s \in Client : pc'[s] \notin {"dtorSignal", "dtorClose"}
      BY <1>3, <1>7 DEF DtorPc
    <3> QED
      BY <1>2, <1>7, <3>1 DEF AllOK, ToOK, Busy
  <2>13. DeletedOK'
    <3>1. \A s \in Client : Free(s) => access'[s] = 0 /\ pc'[s] \in {"dead", "deleted"}
      BY <1>2, <1>7, <2>3 DEF Free
    <3>2. \A s \in Client : pc'[s] # "signal"
      BY <1>2, <1>7, Constants DEF AllOK, LockOK
    <3>3. \A s \in Client : pc'[s] = "deleted" => pc[s] = "deleted"
      BY <1>7
    <3> QED
      BY <1>2, <1>7, <3>1, <3>2, <3>3, DeletedStep
  <2>14. StatusExact'
    <3> SUFFICES ASSUME fault' = "none", NEW v \in Client, Running(v)'
                 PROVE  /\ \A j \in Kind : status'[v][j] = "KRequestPending" <=>
                             owner'[j] = v /\ request'[j] \in {"EReady", "EInUse", "EClosing"}
                        /\ sem'[v] + (IF pc'[v] = "woken" THEN 1 ELSE 0) + Cardinality(Hands(v)')
                           = Cardinality(Told(v)') + Cardinality(Coming(v)')
      BY DEF StatusExact, Hands
    <3>1. Running(v) /\ (pc'[v] = "woken" <=> pc[v] = "woken") /\ v # w
      BY <1>2, <1>6, <1>7, Constants DEF Running
    <3>2. \A j \in Kind : status[v][j] = "KRequestPending" <=>
                             owner[j] = v /\ request[j] \in {"EReady", "EInUse", "EClosing"}
      BY <1>2, <3>1 DEF StatusExact, AllOK
    <3>3. /\ w # Null \/ request[k] = "EFree"
          /\ request'[k] = "EReady" /\ owner'[k] = t
      BY <2>4
    <3>4. \A j \in Kind : status'[v][j] = "KRequestPending" <=>
                             owner'[j] = v /\ request'[j] \in {"EReady", "EInUse", "EClosing"}
      <4>1. ASSUME NEW j \in Kind, j # k
            PROVE status'[v][j] = "KRequestPending" <=>
                             owner'[j] = v /\ request'[j] \in {"EReady", "EInUse", "EClosing"}
        BY <2>2, <2>4, <3>2, <4>1
      <4>2. status'[v][k] = "KRequestPending" <=>
                             owner'[k] = v /\ request'[k] \in {"EReady", "EInUse", "EClosing"}
        <5>1. CASE v = t
          BY <2>2, <3>3, <5>1
        <5>2. CASE v # t
          BY <1>6, <2>2, <3>1, <3>2, <3>3, <5>2
        <5> QED
          BY <5>1, <5>2
      <4> QED
        BY <4>1, <4>2
    <3>5. \A j \in Kind : j \in Told(v)' <=> j \in Told(v)
      BY <1>2, <2>2 DEF Told, Completed
    <3>6. Coming(v)' = Coming(v)
      BY <1>2 DEF Coming, Queued
    <3>7. /\ \A x \in Client \ {t} : x \in Hands(v)' <=> x \in Hands(v)
          /\ t \notin Hands(v)' /\ t \notin Hands(v)
      BY <1>2, <1>7 DEF Hands
    <3>8. sem[v] \in Nat /\ sem'[v] = sem[v]
      BY <1>1, <2>1
    <3>9. sem'[v] + B(pc'[v] = "woken") + B(t \in Hands(v)') - B(t \in Hands(v))
          = sem[v] + B(pc[v] = "woken") + B(k \in Told(v)') - B(k \in Told(v))
             + B(k \in Coming(v)') - B(k \in Coming(v))
      BY <3>1, <3>5, <3>6, <3>7, <3>8 DEF B
    <3> QED
      BY <1>2, <3>1, <3>4, <3>5, <3>6, <3>7, <3>8, <3>9, StatusStep
  <2> QED
    BY <2>5, <2>6, <2>8, <2>9, <2>10, <2>11, <2>12, <2>13, <2>14 DEF OwnedOK
<1> QED
  BY <1>9, <1>10

-----------------------------------------------------------------------------
\* At first there is no request.
LEMMA InitAll == Init => AllOK
<1> SUFFICES ASSUME Init PROVE AllOK
  OBVIOUS
<1>1. IInv
  BY InitOK
<1>2. <<>> \in Seq(Kind) /\ DOMAIN <<>> = {}
  OBVIOUS
<1>3. <<>> # Null /\ Inj(<<>>) /\ ToSet(<<>>) = {}
  BY <1>2, Constants DEF Inj, ToSet
<1>4. TypeOK
  <2>1. callbacks \in [Thread -> Seq(Kind) \cup {Null}] /\ cancelling \in Seq(Kind)
    BY <1>2 DEF Init
  <2>2. iMsgPool \in [Slot -> Msg \cup {Null}] /\ iFirstFreeSlot \in Slot /\ iFirstFullSlot \in Slot
    BY MsgQueueAssumption DEF Init, Slot
  <2> QED
    BY <2>1, <2>2 DEF Init, TypeOK, Pc, Kind
<1>5. /\ \A t \in Thread, k \in Kind : ~On(t, k)
      /\ \A k \in Kind : ~Taken(k) /\ ~InUse(k) /\ ~Orphan(k)
      /\ \A s \in Client, k \in Kind : ~InHand(s, k)
  <2>1. \A t \in Thread, k \in Kind : ~On(t, k)
    BY <1>3 DEF Init, On
  <2>2. \A k \in Kind : ~Taken(k) /\ ~InUse(k)
    BY <1>3 DEF Init, Taken, InUse
  <2>3. \A s \in Client, k \in Kind : ~InHand(s, k)
    BY DEF Init, InHand
  <2> QED
    BY <2>1, <2>2, <2>3, Constants DEF Orphan
<1>6. LockOK
  BY Constants DEF Init, LockOK, DtorPc
<1>7. ListsOK
  BY <1>3, <1>5 DEF Init, ListsOK, OnePlace
<1>8. OwnedOK
  BY <1>5, Constants DEF Init, OwnedOK, OwnedBy
<1>9. SupOK
  BY <1>3, Constants DEF Init, SupOK, Alive
<1>10. CountOK
  <2>1. ASSUME NEW t \in Client PROVE access[t] = References(t)
    <3>1. Waits(t) = {} /\ Closing(t) = {} /\ B(Own(t)) = 1
      BY Constants DEF Init, Waits, Closing, Own, B
    <3>2. References(t) = B(Own(t)) + Cardinality(Waits(t)) + Cardinality(Closing(t))
      BY RefsSplit
    <3>3. Cardinality(Waits(t)) = 0 /\ Cardinality(Closing(t)) = 0
      BY <3>1, FS_EmptySet
    <3>4. access[t] = 1
      BY DEF Init
    <3> QED
      BY <3>1, <3>2, <3>3, <3>4
  <2> QED
    BY <2>1 DEF CountOK
<1>11. ToOK /\ DeletedOK
  BY DEF Init, ToOK, DeletedOK
<1>12. StatusExact
  <2>1. ASSUME NEW t \in Client
        PROVE  /\ \A k \in Kind : status[t][k] = "KRequestPending" <=>
                           owner[k] = t /\ request[k] \in {"EReady", "EInUse", "EClosing"}
               /\ sem[t] + (IF pc[t] = "woken" THEN 1 ELSE 0) + Cardinality(Hands(t))
                  = Cardinality(Told(t)) + Cardinality(Coming(t))
    <3>1. Hands(t) = {} /\ Told(t) = {}
      BY DEF Init, Hands, Told, Completed
    <3>2. Coming(t) = {}
      BY <1>5 DEF Coming, Queued, On
    <3>3. sem[t] = 0 /\ pc[t] # "woken"
      BY DEF Init
    <3>4. \A k \in Kind : status[t][k] = "unused" /\ request[k] = "null"
      BY DEF Init
    <3> QED
      BY <3>1, <3>2, <3>3, <3>4, FS_EmptySet
  <2> QED
    BY <2>1 DEF StatusExact, Hands
<1> QED
  BY <1>1, <1>4, <1>6, <1>7, <1>8, <1>9, <1>10, <1>11, <1>12 DEF AllOK, Rest

\* Every step keeps the invariant.
LEMMA NextAll == AllOK /\ [Next]_vars => AllOK'
<1> SUFFICES ASSUME AllOK, [Next]_vars PROVE AllOK'
  OBVIOUS
<1>1. IInv' /\ RingOK'
  BY NextOK DEF AllOK, IInv
<1>2. ASSUME NEW t \in Client, Operation(t) PROVE Rest'
  <2>1. CASE Send(t) \/ Receive(t) \/ \E k \in Kind : Cancel(t, k)
    BY <1>1, <2>1, QueueSteps
  <2>2. CASE BadHandle(t) \/ (\E k \in Kind : NotifyPanics(t, k)) \/ \E u \in Client : Kill(t, u)
    BY <2>2, WalkSteps
  <2>3. CASE \E k \in Kind : Notify(t, k)
    BY <2>3, NotifyKeeps
  <2> QED
    BY <1>2, <2>1, <2>2, <2>3 DEF Operation
<1>3. ASSUME NEW t \in Client, Run(t) PROVE Rest'
  <2>1. CASE Operation(t)
    BY <1>2, <2>1
  <2>2. CASE CallUserModeCallback(t) \/ Wake(t) \/ Exit(t)
    BY <2>2, CallbackKeeps, WakeKeeps, WalkSteps
  <2>3. CASE Signal(t) \/ AsyncDelete(t) \/ AsyncClose(t)
    BY <2>3, SignalKeeps, AsyncDeleteKeeps, AsyncCloseKeeps
  <2>4. CASE FlashQueue(t) \/ DtorComplete(t)
    BY <2>4, DtorWalks, DtorCompletes
  <2>5. CASE DtorSignal(t) \/ DtorClose(t) \/ DtorFlash(t)
    BY <2>5, DtorSignals, DtorCloses, DtorFlashes
  <2>6. CASE DtorFree(t)
    BY <1>1, <2>6, DtorFrees
  <2> QED
    BY <1>3, <2>1, <2>2, <2>3, <2>4, <2>5, <2>6 DEF Run
<1>4. ASSUME NEW t \in Client, User(t) PROVE Rest'
  <2>1. CASE Call(t) \/ WaitForRequest(t) \/ Exit(t)
    BY <2>1, WalkSteps
  <2>2. CASE HandleRequest(t)
    BY <2>2, HandleRequestKeeps
  <2>3. CASE Create(t) \/ HandleClose(t)
    BY <2>3, HandlesKeep
  <2> QED
    BY <1>4, <2>1, <2>2, <2>3 DEF User
<1>5. ASSUME Supervise PROVE Rest'
  <2>1. CASE \E u \in Client : SvKill(u)
    BY <2>1, SvKillKeeps
  <2>2. CASE DoDeadClientCleanup
    BY <2>2, IdleSteps
  <2>3. CASE TakeCallbacks \/ CancelCallback
    BY <2>3, TakeCallbacksKeeps, CancelCallbackKeeps
  <2>4. CASE CloseThread \/ FlashThread \/ DoAsyncFree
    BY <2>4, CloseThreadKeeps, FlashThreadKeeps, DoAsyncFreeKeeps
  <2> QED
    BY <1>5, <2>1, <2>2, <2>3, <2>4 DEF Supervise
<1>6. ASSUME UNCHANGED vars PROVE Rest'
  BY <1>6, IdleSteps
<1> QED
  BY <1>1, <1>3, <1>4, <1>5, <1>6 DEF Next, AllOK

\* What the callbacks are for, as RequestsExact puts it.
LEMMA OwnedExactly ==
    ASSUME AllOK, WaitsFit
    PROVE  RequestsOwned
<1> USE DEF Rest
<1> SUFFICES ASSUME NEW k \in Kind
             PROVE  /\ Cardinality(Queued(k)) + (IF Orphaned(k) THEN 1 ELSE 0)
                          = (IF request[k] \in {"EInUse", "EClosing"} THEN 1 ELSE 0)
                    /\ \A t \in Client : Queued(k) = {t} =>
                           owner[k] = t /\ pc[t] \notin {"dying", "dead", "deleted"}
                    /\ fault = "none" => (request[k] = "EReady" <=> waiting[k] # Null)
                                         \/ \E t \in Client : pc[t] \in {"dtorSignal", "dtorClose"}
                    /\ request[k] = "EReady" =>
                           /\ owner[k] = waiting[k]
                           /\ queue = "open" => iState = IF k = "data" THEN "EEmpty" ELSE "EFull"
  BY DEF RequestsOwned
<1>1. OnePlace(k) /\ OwnedBy(k)
  BY DEF AllOK, ListsOK, OwnedOK
<1>2. /\ Queued(k) = {t \in Thread : On(t, k)}
      /\ Orphaned(k) <=> Taken(k) \/ \E s \in Client : InHand(s, k)
      /\ InUse(k) <=> request[k] \in {"EInUse", "EClosing"}
  BY DEF Queued, On, Orphaned, Taken, InHand, InUse
<1>3. Cardinality(Queued(k)) + (IF Orphaned(k) THEN 1 ELSE 0)
          = (IF request[k] \in {"EInUse", "EClosing"} THEN 1 ELSE 0)
  <2>1. CASE \E t \in Thread : On(t, k)
    <3>1. PICK t \in Thread : On(t, k)
      BY <2>1
    <3>2. Queued(k) = {t} /\ ~Orphaned(k) /\ InUse(k)
      BY <1>1, <1>2, <3>1 DEF OnePlace
    <3>3. Cardinality({t}) = 1
      BY FS_Singleton
    <3> QED
      BY <1>2, <3>2, <3>3
  <2>2. CASE ~\E t \in Thread : On(t, k)
    <3>1. Queued(k) = {} /\ (Orphaned(k) <=> InUse(k))
      BY <1>1, <1>2, <2>2 DEF OnePlace
    <3>2. Cardinality({}) = 0
      BY FS_EmptySet
    <3> QED
      BY <1>2, <3>1, <3>2
  <2> QED
    BY <2>1, <2>2
<1>4. ASSUME NEW t \in Client, Queued(k) = {t}
      PROVE  owner[k] = t /\ pc[t] \notin {"dying", "dead", "deleted"}
  <2>1. On(t, k)
    BY <1>2, <1>4
  <2>2. callbacks[t] # Null
    BY <2>1 DEF On
  <2> QED
    BY <1>1, <2>1, <2>2 DEF OwnedBy, AllOK, SupOK, Alive
<1>5. fault = "none" => (request[k] = "EReady" <=> waiting[k] # Null)
                         \/ \E t \in Client : pc[t] \in {"dtorSignal", "dtorClose"}
  BY <1>1 DEF OwnedBy
<1>6. request[k] = "EReady" =>
          /\ owner[k] = waiting[k]
          /\ queue = "open" => iState = IF k = "data" THEN "EEmpty" ELSE "EFull"
  BY <1>1 DEF OwnedBy, WaitsFit, Kind
<1> QED
  BY <1>3, <1>4, <1>5, <1>6

\* No thread that is deleted is still to be signalled.
LEMMA KeptExactly ==
    ASSUME AllOK
    PROVE  ThreadsKept
<1> USE DEF Rest
<1>1. ASSUME NEW t \in Client, pc[t] = "deleted", NEW s \in Client, pc[s] \in {"signal", "dtorSignal"}
      PROVE  to[s] # t
  <2>1. CASE pc[s] = "signal"
    BY <1>1, <2>1 DEF AllOK, DeletedOK
  <2>2. CASE pc[s] = "dtorSignal"
    <3>1. arg[s] \in Kind /\ to[s] \in {Null, waiting[arg[s]]}
      BY <2>2 DEF AllOK, ToOK, TypeOK
    <3>2. \A k \in Kind : waiting[k] # t
      BY <1>1, LastRef
    <3> QED
      BY <3>1, <3>2, Constants
  <2> QED
    BY <1>1, <2>1, <2>2
<1>2. \A t \in Client : access[t] = References(t)
  BY DEF AllOK, CountOK
<1> QED
  BY <1>1, <1>2 DEF ThreadsKept

\* A request in use is on one list of callbacks, its owner's while that thread lives; a
\* TRequestStatus is pending just while its request is out; a thread is signalled as often
\* as it has something to look at; and it is kept while somebody has a reference to it
\* (TClientRequest, DMsgQueue and DObject, whatever threads die and in whatever order).
THEOREM RequestsAreExact == Spec => []RequestsExact
<1>1. Init => AllOK
  BY InitAll
<1>2. AllOK /\ [Next]_vars => AllOK'
  BY NextAll
<1>3. Spec => []AllOK
  BY <1>1, <1>2, PTL DEF Spec
<1>4. AllOK /\ WaitsFit => RequestsExact
  BY OwnedExactly, KeptExactly DEF RequestsExact, AllOK, Rest
<1> QED
  BY <1>3, <1>4, WaitsAreFit, PTL
=============================================================================
