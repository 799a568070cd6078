---------------------------- MODULE KMessageProofs ----------------------------
(***************************************************************************)
(* Kernel messages are in one place, answered once, and what somebody      *)
(* points to exists, for any number of clients, whichever of them are      *)
(* killed and whichever open and close the channel, of either kind.        *)
(***************************************************************************)
EXTENDS KMessage, QueueProofs, FiniteSetTheorems

-----------------------------------------------------------------------------
\* The inductive invariant.

\* What has been accepted is in one pair of hands.
Held == {iMessage, req, pM, iCurrentReq, current} \ {Null}
OneHolder ==
    /\ \A t \in Thread : iState[t] = "EAccepted" <=> t \in Held
    /\ iMessage # Null => iMessage \notin {req, pM, iCurrentReq, current}
    /\ req # Null => req \notin {pM, iCurrentReq, current}
    /\ pM # Null => pM \notin {iCurrentReq, current}
    /\ iCurrentReq # Null => iCurrentReq # current

\* What has been delivered is on the queue it names.
OneQueue ==
    /\ \A w \in Que : Inj(iQ[w])
    /\ \A t \in Thread, w \in Que :
          t \in Range(iQ[w]) <=> iState[t] = "EDelivered" /\ iQueue[t] = w
    /\ \A t \in Thread : iState[t] = "EDelivered" => iQueue[t] # Null

\* Who may receive from iMsgQ: the driver while it handles a message of it.
InMain == at \in {"handle", "panic", "loop", "receive"} \/ back = "loop"

\* That, or the DFC is queued, or iMsgQ is ready; and the driver is where it has
\* the requests that it has.
DriverOK ==
    /\ queued <=> iMessage # Null
    /\ iReady => iQ["main"] = <<>> /\ ~queued /\ ~InMain
    /\ InMain => ~queued
    /\ req # Null <=> at \in {"handle", "panic"}
    /\ pM # Null <=> at \in {"rerun", "completing"}
    /\ at \in {"idle", "handle", "panic", "loop", "receive", "opened"} => back = "idle"
    /\ at \in {"completeAll", "completing", "closeDrivers"} => back # "opened"
    /\ at = "panic" => ~closing[req]

\* A request waits for the media that opens, and has been started when it is ready.
MediaOK ==
    /\ ~localDrive => at \in {"idle", "handle", "panic"} /\ mState = "EClosed"
    /\ localDrive => at # "panic"
    /\ iCurrentReq # Null => mState = "EOpening"
    /\ mState = "EOpening" => iCurrentReq # Null \/ at \in {"completeAll", "completing"}
    /\ current # Null => mState = "EReady" \/ at = "closeDrivers"
    /\ at = "closeDrivers" => current # Null
    /\ at = "opened" => mState # "EClosed"
    /\ at \in {"runDeferred", "drain", "rerun"} => mState = "EReady"

\* Where a thread is that has been killed, and one that uses the channel.
Dying == {"exit", "cancelled", "dead", "released", "deleted"}
Calling == {"send", "FSWait", "blocked", "sent"}

\* A thread that connects the channel or closes it.
Asks(t) == closing[t] \/ creating = t

\* Semaphores fit the messages.
SemOK ==
    \A t \in Thread :
        /\ iState[t] # "EFree" => iSem[t] < 1
        /\ pc[t] = "FSWait" => iSem[t] = One(iState[t] = "EFree")
        /\ pc[t] = "blocked" => iSem[t] = -1 /\ iState[t] # "EFree"
        /\ pc[t] \in {"FSWait", "blocked", "sent"} /\ iState[t] = "EFree" =>
              iValue[t] \in {"result", "KErrDied"}
        /\ pc[t] \in {"run", "send", "sent", "close", "cancelled"} => iState[t] = "EFree"

\* A thread that sends a message has a reference to the channel, or it connects or
\* closes it.
PcOK ==
    /\ \A t \in Thread :
        /\ pc[t] \in Calling => iTempObj[t] \/ Asks(t)
        /\ iTempObj[t] => ~Asks(t)
        /\ pc[t] \in {"run", "close"} => ~iTempObj[t]
        /\ Asks(t) => pc[t] \in Calling
        /\ pc[t] = "send" => Asks(t) \/ iValue[t] = "request"
        /\ (pc[t] \in Dying => killed[t]) /\ (killed[t] => t \in Client)
        /\ iState[t] = "EDelivered" /\ iQueue[t] = "main" =>
              /\ iTempObj[t] \/ Asks(t)
              /\ pc[t] \in {"FSWait", "blocked", "exit"}
    /\ victim # Null => pc[victim] = "dead"

\* A channel with a queue of its own has been closed: nothing is left to do.
Idle == ~iReady /\ ~queued /\ at = "idle" /\ iQ["main"] = <<>>
Quiet == localDrive \/ Idle

\* A message that connects the channel is the only one, one that closes it the last.
CloseOK ==
    /\ \A t \in Thread : Asks(t) =>
        /\ t \notin {pM, iCurrentReq, current}
        /\ ~(iState[t] = "EDelivered" /\ iQueue[t] = "deferred")
        /\ pc[t] = "send" \/ iState[t] # "EFree" => iValue[t] \in Connection
    /\ \A t \in Thread : closing[t] =>
        /\ chan = 0
        /\ \A u \in Thread : closing[u] => u = t
        /\ pc[t] # "send" /\ iState[t] = "EFree" => Quiet
    /\ \A t \in Thread : iState[t] # "EFree" /\ iValue[t] \in Connection => Asks(t)
    /\ creating # Null => localDrive /\ ~handle
    /\ chan = Null => Quiet
    /\ \A t \in Thread : iValue[t] = "ECloseMsg" => ~localDrive
    /\ \A t \in Thread : iValue[t] \in {"EConnect", "EDisconnect"} => localDrive

\* The counts are those of the users of the channel and of the pointers to a thread.
ChanOK ==
    /\ chan # Null => chan = One(handle) + One(creating # Null)
                            + Cardinality({t \in Thread : iTempObj[t]})
                            + Cardinality({t \in Thread : pc[t] = "close"})
    /\ chan = Null => /\ ~handle /\ creating = Null
                      /\ \A t \in Thread : ~iTempObj[t] /\ pc[t] # "close"

AccessOK ==
    \A t \in Thread :
        /\ access[t] = References(t)
        /\ t \in deleting <=> access[t] = 0 /\ pc[t] = "released"
        /\ pc[t] = "deleted" => access[t] = 0

IInv ==
    /\ TypeOK /\ OneHolder /\ OneQueue /\ DriverOK /\ MediaOK
    /\ SemOK /\ PcOK /\ CloseOK /\ ChanOK /\ AccessOK

-----------------------------------------------------------------------------
LEMMA Constants ==
    /\ Sup \in Thread /\ Null \notin Thread /\ Client \subseteq Thread
    /\ IsFiniteSet(Thread)
BY MessageAssumption, FS_AddElement DEF Thread

\* The channel that has lost its last reference has no user.
LEMMA NoUsers ==
    ASSUME TypeOK, ChanOK, chan = 0 \/ chan = Null
    PROVE  ~handle /\ creating = Null /\ \A t \in Thread : ~iTempObj[t] /\ pc[t] # "close"
<1>1. CASE chan = Null
  BY <1>1 DEF ChanOK
<1>2. CASE chan = 0
  <2> DEFINE S == {t \in Thread : iTempObj[t]}
             T == {t \in Thread : pc[t] = "close"}
  <2>1. IsFiniteSet(S) /\ IsFiniteSet(T)
    BY Constants, FS_Subset
  <2>2. Cardinality(S) \in Nat /\ Cardinality(T) \in Nat
    BY <2>1, FS_CardinalityType
  <2>3. 0 = One(handle) + One(creating # Null) + Cardinality(S) + Cardinality(T)
    <3>1. chan # Null
      BY <1>2, MessageAssumption DEF TypeOK, ChanOK
    <3> QED
      BY <1>2, <3>1 DEF ChanOK
  <2>4. ~handle /\ creating = Null /\ Cardinality(S) = 0 /\ Cardinality(T) = 0
    BY <2>2, <2>3 DEF One
  <2>5. S = {} /\ T = {}
    BY <2>1, <2>4, FS_EmptySet
  <2> QED
    BY <2>4, <2>5
<1> QED
  BY <1>1, <1>2

\* What is the same for every way to complete a message that somebody has.
LEMMA CompleteSide ==
    ASSUME IInv, NEW x \in Thread, iState[x] = "EAccepted", pT = Null,
           NEW r \in {"result", "KErrDied"},
           iValue' = [iValue EXCEPT ![x] = r],
           iQueue' = [iQueue EXCEPT ![x] = Null],
           iSem' = [iSem EXCEPT ![x] = @ + 1],
           pc' = IF pc[x] = "blocked" THEN [pc EXCEPT ![x] = "sent"] ELSE pc,
           pT' = x,
           iState'[x] = "EFree",
           \A t \in Thread \ {x} : /\ iState'[t] = "EFree" <=> iState[t] = "EFree"
                                   /\ iState'[t] = "EDelivered" => iState[t] = "EDelivered",
           UNCHANGED <<access, closing, killed, channel, supervisor>>
    PROVE  SemOK' /\ PcOK' /\ ChanOK' /\ AccessOK'
<1>1. SemOK'
  BY DEF IInv, TypeOK, SemOK, One
<1>2. PcOK'
  BY DEF IInv, TypeOK, PcOK, Asks, SemOK, channel, supervisor, Calling, Dying
<1>3. ChanOK'
  <2>1. \A t \in Thread : pc'[t] = "close" <=> pc[t] = "close"
    BY DEF IInv, TypeOK
  <2>2. {t \in Thread : pc'[t] = "close"} = {t \in Thread : pc[t] = "close"}
    BY <2>1
  <2> QED
    BY <2>1, <2>2 DEF IInv, ChanOK, channel
<1>4. AccessOK'
  <2>1. \A t \in Thread : pc'[t] = "released" <=> pc[t] = "released"
    BY DEF IInv, TypeOK
  <2>2. \A t \in Thread : pc'[t] = "deleted" <=> pc[t] = "deleted"
    BY DEF IInv, TypeOK
  <2>3. \A t \in Thread : pc'[t] = "cancelled" <=> pc[t] = "cancelled"
    BY DEF IInv, TypeOK
  <2>4. \A t \in Thread : References(t)' = References(t)
    BY <2>1, <2>2, <2>3, Constants DEF References, One, IInv, TypeOK
  <2> QED
    BY <2>1, <2>2, <2>4 DEF IInv, AccessOK, supervisor
<1> QED
  BY <1>1, <1>2, <1>3, <1>4

\* A message that has been accepted is completed and nothing is received.
LEMMA CompleteOnly ==
    ASSUME IInv, NEW x \in Thread, iState[x] = "EAccepted", pT = Null,
           NEW r \in {"result", "KErrDied"}, Complete(x, r, FALSE)
    PROVE  /\ SemOK' /\ PcOK' /\ ChanOK' /\ AccessOK' /\ OneQueue'
           /\ iState' = [iState EXCEPT ![x] = "EFree"]
           /\ UNCHANGED <<access, closing, killed, channel, supervisor, queues>>
           /\ iState' \in [Thread -> {"EFree", "EDelivered", "EAccepted"}]
           /\ iQueue' \in [Thread -> Que \cup {Null}]
           /\ iSem' \in [Thread -> -1..1]
           /\ iValue' \in [Thread -> Connection \cup {"request", "result", "KErrDied"}]
           /\ pc' \in [Thread -> Pc] /\ pT' \in Thread
<1>1. /\ iState' = [iState EXCEPT ![x] = "EFree"]
      /\ UNCHANGED <<access, closing, killed, channel, supervisor, queues>>
  BY DEF Complete
<1>2. SemOK' /\ PcOK' /\ ChanOK' /\ AccessOK'
  BY <1>1, CompleteSide DEF Complete, IInv, TypeOK
<1>3. OneQueue'
  BY <1>1 DEF Complete, IInv, TypeOK, OneQueue, queues
<1>4. /\ iState' \in [Thread -> {"EFree", "EDelivered", "EAccepted"}]
      /\ iQueue' \in [Thread -> Que \cup {Null}]
      /\ iValue' \in [Thread -> Connection \cup {"request", "result", "KErrDied"}]
      /\ pc' \in [Thread -> Pc] /\ pT' \in Thread
  BY DEF Complete, IInv, TypeOK, Pc
<1>5. iSem' \in [Thread -> -1..1]
  <2>1. iSem \in [Thread -> -1..1] /\ iSem[x] < 1 /\ iSem' = [iSem EXCEPT ![x] = @ + 1]
    BY DEF Complete, IInv, TypeOK, SemOK
  <2>2. iSem[x] + 1 \in -1..1
    BY <2>1
  <2> QED
    BY <2>1, <2>2
<1> QED
  BY <1>1, <1>2, <1>3, <1>4, <1>5

\* A step of a driver that is not done, and that leaves the messages that connect
\* and close a channel alone, or is that of a media and completes one.
LEMMA CloseKept ==
    ASSUME IInv, localDrive \/ ~Idle, UNCHANGED <<closing, channel>>,
           \A t \in Thread : Asks(t) =>
               /\ t \notin {pM', iCurrentReq', current'}
               /\ ~(iState'[t] = "EDelivered" /\ iQueue'[t] = "deferred")
               /\ iState'[t] # "EFree" => iState[t] # "EFree"
               /\ pc'[t] = "send" => pc[t] = "send"
               /\ pc'[t] = "send" \/ iState'[t] # "EFree" => iValue'[t] = iValue[t]
               /\ localDrive \/ (pc[t] = "send" => pc'[t] = "send")
               /\ localDrive \/ (iState'[t] = "EFree" => iState[t] = "EFree"),
           \A t \in Thread : iState'[t] # "EFree" /\ iValue'[t] \in Connection =>
                             iState[t] # "EFree" /\ iValue[t] \in Connection,
           \A t \in Thread : iValue'[t] \in Connection => iValue'[t] = iValue[t]
    PROVE  CloseOK'
<1>1. \A t \in Thread : Asks(t)' <=> Asks(t)
  BY DEF Asks, channel
<1>2. \A t \in Thread : Asks(t)' =>
        /\ t \notin {pM', iCurrentReq', current'}
        /\ ~(iState'[t] = "EDelivered" /\ iQueue'[t] = "deferred")
        /\ pc'[t] = "send" \/ iState'[t] # "EFree" => iValue'[t] \in Connection
  BY <1>1 DEF IInv, CloseOK
<1>3. \A t \in Thread : closing'[t] =>
        /\ chan' = 0
        /\ \A u \in Thread : closing'[u] => u = t
        /\ pc'[t] # "send" /\ iState'[t] = "EFree" => Quiet'
  <2>1. UNCHANGED <<closing, chan, localDrive>>
    BY DEF channel
  <2>2. CASE localDrive
    BY <2>1, <2>2 DEF IInv, CloseOK, Quiet
  <2>3. CASE ~localDrive /\ ~Idle
    <3>1. \A t \in Thread : closing[t] => pc[t] = "send" \/ iState[t] # "EFree"
      BY <2>3 DEF IInv, CloseOK, Quiet
    <3>2. \A t \in Thread : closing[t] /\ iState'[t] = "EFree" => iState[t] = "EFree"
      BY <2>3 DEF Asks
    <3>3. \A t \in Thread : closing[t] /\ iState[t] = "EFree" => pc'[t] = "send"
      BY <2>3, <3>1 DEF Asks
    <3> QED
      BY <2>1, <3>1, <3>2, <3>3 DEF IInv, CloseOK
  <2> QED
    BY <2>2, <2>3
<1>4. \A t \in Thread : iState'[t] # "EFree" /\ iValue'[t] \in Connection => Asks(t)'
  BY <1>1 DEF IInv, CloseOK
<1>5. /\ creating' # Null => localDrive' /\ ~handle'
      /\ chan' = Null => Quiet'
  BY DEF IInv, CloseOK, Quiet, channel
<1>6. /\ \A t \in Thread : iValue'[t] = "ECloseMsg" => ~localDrive'
      /\ \A t \in Thread : iValue'[t] \in {"EConnect", "EDisconnect"} => localDrive'
  BY DEF IInv, CloseOK, channel, Connection, Disconnect
<1> QED
  BY <1>2, <1>3, <1>4, <1>5, <1>6 DEF CloseOK

\* Only the DFC and the handler have a message that connects or closes a channel.
LEMMA NotAsking ==
    ASSUME IInv
    PROVE  /\ pM # Null => ~Asks(pM)
           /\ current # Null => ~Asks(current)
           /\ iCurrentReq # Null => ~Asks(iCurrentReq)
           /\ req # Null /\ iValue[req] \notin Connection => ~Asks(req)
           /\ \A t \in Thread : t \in Range(iQ["deferred"]) => ~Asks(t)
<1>1. /\ pM # Null => ~Asks(pM)
      /\ current # Null => ~Asks(current)
      /\ iCurrentReq # Null => ~Asks(iCurrentReq)
  BY Constants DEF IInv, TypeOK, CloseOK
<1>2. req # Null => req \in Thread /\ iState[req] = "EAccepted"
  BY DEF IInv, TypeOK, OneHolder, Held
<1>3. req # Null /\ iValue[req] \notin Connection => ~Asks(req)
  BY <1>2 DEF IInv, CloseOK
<1>4. \A t \in Thread : t \in Range(iQ["deferred"]) => ~Asks(t)
  BY DEF IInv, OneQueue, CloseOK, Que
<1> QED
  BY <1>1, <1>3, <1>4

-----------------------------------------------------------------------------
\* The driver moves on, and with it at most the hands that hold a message.
LEMMA DriverMoves ==
    ASSUME IInv, UNCHANGED <<message, access, pc, closing, killed, iQ, channel, pT, supervisor>>
    PROVE  OneQueue' /\ SemOK' /\ PcOK' /\ ChanOK' /\ AccessOK'
<1>1. OneQueue' /\ SemOK' /\ PcOK'
  BY DEF IInv, OneQueue, SemOK, PcOK, Asks, message, channel, supervisor, One
<1>2. ChanOK'
  <2>1. {t \in Thread : iTempObj'[t]} = {t \in Thread : iTempObj[t]}
        /\ {t \in Thread : pc'[t] = "close"} = {t \in Thread : pc[t] = "close"}
    BY DEF channel
  <2> QED
    BY <2>1 DEF IInv, ChanOK, channel
<1>3. AccessOK'
  BY DEF IInv, AccessOK, References, One, message, supervisor
<1> QED
  BY <1>1, <1>2, <1>3

\* No message of a thread that connects or closes the channel gets to a media.
LEMMA MovesOK ==
    ASSUME IInv, localDrive \/ ~Idle,
           UNCHANGED <<message, access, pc, closing, killed, iQ, channel, pT, supervisor>>,
           \A t \in Thread : Asks(t) => t \notin {pM', iCurrentReq', current'},
           TypeOK', OneHolder', DriverOK', MediaOK'
    PROVE  IInv'
<1>1. OneQueue' /\ SemOK' /\ PcOK' /\ ChanOK' /\ AccessOK'
  BY DriverMoves
<1>2. CloseOK'
  BY CloseKept DEF IInv, CloseOK, message
<1> QED
  BY <1>1, <1>2 DEF IInv

\* The driver goes on elsewhere, and its media gets ready or closes.
LEMMA GoToOK ==
    ASSUME IInv, localDrive, at' \in At, back' \in {"idle", "loop", "opened"},
           pL' \in Thread \cup {Null}, mState' \in {"EClosed", "EOpening", "EReady"},
           UNCHANGED <<message, access, pc, closing, killed, queues, channel, req, pM,
                       iCurrentReq, current, pT, supervisor>>,
           DriverOK', MediaOK'
    PROVE  IInv'
<1>1. TypeOK' /\ OneHolder'
  BY DEF IInv, TypeOK, OneHolder, Held, message, queues, channel, supervisor
<1>2. \A t \in Thread : Asks(t) => t \notin {pM', iCurrentReq', current'}
  BY DEF IInv, CloseOK
<1> QED
  BY <1>1, <1>2, MovesOK DEF queues

LEMMA RunMsgDfcOK ==
    ASSUME IInv, RunMsgDfc
    PROVE  IInv'
<1>1. /\ at = "idle" /\ pT = Null /\ queued /\ iMessage \in Thread /\ ~Idle
      /\ iMessage # Null /\ req = Null /\ back = "idle"
      /\ req' = iMessage /\ iMessage' = Null /\ queued' = FALSE /\ at' = "handle"
      /\ UNCHANGED <<message, access, pc, closing, killed, iQ, iReady, channel,
                     back, pM, pL, mState, iCurrentReq, current, pT, supervisor>>
  BY DEF RunMsgDfc, At1, Idle, media, IInv, TypeOK, DriverOK
<1>2. TypeOK'
  <2>1. queued' \in BOOLEAN
    BY <1>1
  <2> QED
    BY <1>1, <2>1 DEF IInv, TypeOK, At, message, channel, supervisor
<1>3. OneHolder'
  BY <1>1, Constants DEF IInv, OneHolder, Held, message
<1>4. DriverOK'
  BY <1>1 DEF IInv, DriverOK, InMain
<1>5. MediaOK'
  BY <1>1 DEF IInv, MediaOK, channel
<1>6. \A t \in Thread : Asks(t) => t \notin {pM', iCurrentReq', current'}
  BY <1>1 DEF IInv, CloseOK
<1> QED
  BY <1>1, <1>2, <1>3, <1>4, <1>5, <1>6, MovesOK

\* The driver starts a request that it has.
LEMMA StartsOK ==
    ASSUME IInv, localDrive, NEW x \in Thread, x # Null, ~Asks(x),
           UNCHANGED <<message, access, pc, closing, killed, queues, channel, pT, supervisor>>,
           current = Null, current' = x,
           at' \in At, back' \in {"idle", "loop", "opened"}, pL' \in Thread \cup {Null},
           mState' \in {"EClosed", "EOpening", "EReady"},
           \/ x = req /\ req' = Null /\ UNCHANGED <<pM, iCurrentReq>>
           \/ x = pM /\ pM' = Null /\ UNCHANGED <<req, iCurrentReq>>
           \/ x = iCurrentReq /\ iCurrentReq' = Null /\ UNCHANGED <<req, pM>>,
           DriverOK', MediaOK'
    PROVE  IInv'
<1>1. TypeOK'
  BY DEF IInv, TypeOK, message, queues, channel, supervisor
<1>2. OneHolder'
  BY Constants DEF IInv, OneHolder, Held, message, queues
<1>3. \A t \in Thread : Asks(t) => t \notin {pM', iCurrentReq', current'}
  BY Constants DEF IInv, CloseOK
<1> QED
  BY <1>1, <1>2, <1>3, MovesOK DEF queues

-----------------------------------------------------------------------------
\* The driver completes a message and goes on; one that connects or closes a channel
\* only if it is that of a media, which goes on to exist.
LEMMA CompletesOK ==
    ASSUME IInv, localDrive, NEW x \in Thread, iState[x] = "EAccepted", pT = Null,
           Complete(x, "result", FALSE),
           at' \in At, back' \in {"idle", "loop", "opened"}, pL' \in Thread \cup {Null},
           mState' \in {"EClosed", "EOpening", "EReady"},
           \/ x = req /\ req' = Null /\ UNCHANGED <<pM, iCurrentReq, current>>
           \/ x = pM /\ pM' = Null /\ UNCHANGED <<req, iCurrentReq, current>>
           \/ x = iCurrentReq /\ iCurrentReq' = Null /\ UNCHANGED <<req, pM, current>>
           \/ x = current /\ current' = Null /\ UNCHANGED <<req, pM, iCurrentReq>>,
           DriverOK', MediaOK'
    PROVE  IInv'
<1>1. /\ SemOK' /\ PcOK' /\ ChanOK' /\ AccessOK' /\ OneQueue'
      /\ iState' = [iState EXCEPT ![x] = "EFree"]
      /\ UNCHANGED <<access, closing, killed, channel, supervisor, queues>>
      /\ iState' \in [Thread -> {"EFree", "EDelivered", "EAccepted"}]
      /\ iQueue' \in [Thread -> Que \cup {Null}]
      /\ iSem' \in [Thread -> -1..1]
      /\ iValue' \in [Thread -> Connection \cup {"request", "result", "KErrDied"}]
      /\ pc' \in [Thread -> Pc] /\ pT' \in Thread
  BY CompleteOnly
<1>2. TypeOK'
  BY <1>1 DEF IInv, TypeOK, queues, channel, supervisor
<1>3. OneHolder'
  BY <1>1, Constants DEF IInv, TypeOK, OneHolder, Held, queues
<1>4. CloseOK'
  <2>1. /\ iQueue' = [iQueue EXCEPT ![x] = Null]
        /\ iValue' = [iValue EXCEPT ![x] = "result"]
        /\ pc' = IF pc[x] = "blocked" THEN [pc EXCEPT ![x] = "sent"] ELSE pc
    BY DEF Complete
  <2>2. /\ pc[x] # "send"
        /\ pM' \in {pM, Null} /\ current' \in {current, Null} /\ iCurrentReq' \in {iCurrentReq, Null}
    BY DEF IInv, SemOK
  <2>3. \A t \in Thread : /\ pc'[t] = "send" <=> pc[t] = "send"
                          /\ iState'[t] = IF t = x THEN "EFree" ELSE iState[t]
                          /\ iQueue'[t] = IF t = x THEN Null ELSE iQueue[t]
                          /\ iValue'[t] = IF t = x THEN "result" ELSE iValue[t]
    BY <1>1, <2>1, <2>2 DEF IInv, TypeOK
  <2>4. \A t \in Thread : Asks(t) =>
               /\ t \notin {pM', iCurrentReq', current'}
               /\ ~(iState'[t] = "EDelivered" /\ iQueue'[t] = "deferred")
               /\ iState'[t] # "EFree" => iState[t] # "EFree"
               /\ pc'[t] = "send" => pc[t] = "send"
               /\ pc'[t] = "send" \/ iState'[t] # "EFree" => iValue'[t] = iValue[t]
    BY <2>2, <2>3, Constants DEF IInv, CloseOK
  <2>5. "result" \notin Connection
    BY DEF Connection, Disconnect
  <2> QED
    BY <1>1, <2>3, <2>4, <2>5, CloseKept
<1> QED
  BY <1>1, <1>2, <1>3, <1>4 DEF IInv

\* The driver defers a request that it has.
LEMMA DefersOK ==
    ASSUME IInv, localDrive, NEW x \in Thread, iState[x] = "EAccepted", ~Asks(x),
           Give(x, "deferred"),
           UNCHANGED <<iSem, iValue, access, pc, closing, killed, channel, media, pT, supervisor>>,
           at' \in At, back' \in {"idle", "loop", "opened"}, pL' \in Thread \cup {Null},
           \/ x = req /\ req' = Null /\ UNCHANGED pM
           \/ x = pM /\ pM' = Null /\ UNCHANGED req,
           DriverOK', MediaOK'
    PROVE  IInv'
<1>1. /\ iState' = [iState EXCEPT ![x] = "EDelivered"]
      /\ iQueue' = [iQueue EXCEPT ![x] = "deferred"]
      /\ iQ' = [iQ EXCEPT !["deferred"] = Append(@, x)]
      /\ UNCHANGED <<iMessage, iReady, queued>>
  BY DEF Give
<1>2. /\ Append(iQ["deferred"], x) \in Seq(Thread)
      /\ Inj(Append(iQ["deferred"], x))
      /\ Range(Append(iQ["deferred"], x)) = Range(iQ["deferred"]) \cup {x}
  <2>1. iQ["deferred"] \in Seq(Thread) /\ Inj(iQ["deferred"]) /\ x \notin Range(iQ["deferred"])
    BY DEF IInv, TypeOK, OneQueue, Que
  <2> QED
    BY <2>1, AppendQueue
<1>3. TypeOK'
  BY <1>1, <1>2 DEF IInv, TypeOK, Que, channel, media, supervisor
<1>4. OneHolder'
  BY <1>1, Constants DEF IInv, TypeOK, OneHolder, Held, media
<1>5. OneQueue'
  <2>1. iQ'["main"] = iQ["main"] /\ iQ'["deferred"] = Append(iQ["deferred"], x)
    BY <1>1 DEF IInv, TypeOK, Que
  <2>2. \A t \in Thread : t \in Range(iQ'["main"]) <=> iState'[t] = "EDelivered" /\ iQueue'[t] = "main"
    BY <1>1, <2>1 DEF IInv, TypeOK, OneQueue, Que
  <2>3. \A t \in Thread : t \in Range(iQ'["deferred"]) <=>
            iState'[t] = "EDelivered" /\ iQueue'[t] = "deferred"
    BY <1>1, <1>2, <2>1 DEF IInv, TypeOK, OneQueue, Que
  <2>4. \A t \in Thread : iState'[t] = "EDelivered" => iQueue'[t] # Null
    BY <1>3, <2>2, <2>3, <1>1, MessageAssumption DEF IInv, TypeOK, OneQueue, Que
  <2>5. \A w \in Que : Inj(iQ'[w])
    BY <1>2, <2>1 DEF IInv, OneQueue, Que
  <2> QED
    BY <2>2, <2>3, <2>4, <2>5 DEF OneQueue, Que
<1>6. SemOK' /\ PcOK'
  BY <1>1 DEF IInv, TypeOK, SemOK, PcOK, Asks, One, channel, supervisor
<1>7. CloseOK'
  BY <1>1, CloseKept, Constants DEF IInv, TypeOK, CloseOK, media
<1>8. ChanOK'
  BY DEF IInv, ChanOK, channel
<1>9. AccessOK'
  <2>1. \A t \in Thread : iState'[t] = "EFree" <=> iState[t] = "EFree"
    BY <1>1 DEF IInv, TypeOK
  <2> QED
    BY <2>1 DEF IInv, AccessOK, References, One, supervisor
<1> QED
  BY <1>3, <1>4, <1>5, <1>6, <1>7, <1>8, <1>9 DEF IInv

-----------------------------------------------------------------------------
\* The actions of the thread of a media.  The handler has the request that it handles.
LEMMA Handles ==
    ASSUME IInv, At1("handle")
    PROVE  /\ pT = Null /\ req # Null /\ req \in Thread /\ iState[req] = "EAccepted"
           /\ back = "idle" /\ pM = Null /\ ~queued /\ ~iReady /\ ~Idle
           /\ iValue[req] = "request" => ~Asks(req)
BY NotAsking DEF At1, Idle, Connection, Disconnect, IInv, TypeOK, DriverOK, InMain, OneHolder, Held

LEMMA HandleConnectionOK ==
    ASSUME IInv, HandleConnection
    PROVE  IInv'
<1>1. /\ at = "handle" /\ pT = Null /\ req # Null /\ req \in Thread
      /\ iState[req] = "EAccepted" /\ back = "idle" /\ pM = Null /\ ~queued /\ ~iReady
  BY Handles DEF HandleConnection, At1
<1>2. /\ localDrive /\ Complete(req, "result", FALSE) /\ at' = "loop" /\ req' = Null
      /\ UNCHANGED <<back, pM, pL, mState, iCurrentReq, current>>
  BY <1>1 DEF HandleConnection, Finish, media, IInv, CloseOK
<1>3. UNCHANGED <<closing, localDrive, queues>>
  BY <1>2 DEF Complete, channel
<1>4. DriverOK' /\ MediaOK'
  BY <1>1, <1>2, <1>3 DEF IInv, DriverOK, InMain, MediaOK, queues
<1> QED
  BY <1>1, <1>2, <1>4, CompletesOK DEF IInv, TypeOK, At

LEMMA HandleMsgOK ==
    ASSUME IInv, HandleMsg
    PROVE  IInv'
<1>1. /\ at = "handle" /\ pT = Null /\ req # Null /\ req \in Thread /\ ~Asks(req)
      /\ iState[req] = "EAccepted" /\ back = "idle" /\ pM = Null /\ ~queued /\ ~iReady
      /\ localDrive /\ mState = "EReady" /\ req' = Null /\ UNCHANGED <<pM, pL>>
  BY Handles DEF HandleMsg, At1
<1>2. at' \in At /\ \/ at' = "loop" /\ back' = "idle"
                    \/ at' = "runDeferred" /\ back' = "loop"
  BY <1>1 DEF HandleMsg, GoOn, CallRunDeferred, At
<1>3. CASE Finish(req)
  <2>1. Complete(req, "result", FALSE) /\ UNCHANGED <<mState, iCurrentReq, current>>
    BY <1>3 DEF Finish, media
  <2>2. UNCHANGED <<closing, localDrive, queues>>
    BY <2>1 DEF Complete, channel
  <2>3. DriverOK' /\ MediaOK'
    BY <1>1, <1>2, <2>1, <2>2 DEF IInv, DriverOK, InMain, MediaOK, queues
  <2> QED
    BY <1>1, <1>2, <2>1, <2>3, CompletesOK DEF IInv, TypeOK
<1>4. CASE GoOn("loop") /\ Start(req)
  <2>1. /\ current = Null /\ current' = req /\ at' = "loop" /\ back' = "idle"
        /\ UNCHANGED <<message, access, pc, closing, killed, queues, channel, mState,
                       iCurrentReq, pT, supervisor>>
    BY <1>1, <1>4 DEF Start, GoOn
  <2>2. DriverOK' /\ MediaOK'
    BY <1>1, <2>1 DEF IInv, DriverOK, InMain, MediaOK, queues, channel
  <2> QED
    BY <1>1, <1>2, <2>1, <2>2, StartsOK DEF IInv, TypeOK
<1>5. CASE GoOn("loop") /\ Defer(req)
  <2>1. /\ Give(req, "deferred") /\ at' = "loop" /\ back' = "idle"
        /\ UNCHANGED <<iSem, iValue, access, pc, closing, killed, channel, media, pT, supervisor>>
    BY <1>1, <1>5 DEF Defer, GoOn
  <2>2. UNCHANGED <<iMessage, iReady, queued>> /\ iQ'["main"] = iQ["main"]
    BY <2>1 DEF Give, IInv, TypeOK, Que
  <2>3. DriverOK' /\ MediaOK'
    BY <1>1, <2>1, <2>2 DEF IInv, DriverOK, InMain, MediaOK, media, channel
  <2> QED
    BY <1>1, <1>2, <2>1, <2>3, DefersOK DEF IInv, TypeOK
<1> QED
  BY <1>3, <1>4, <1>5 DEF HandleMsg

LEMMA HandleWhileOpeningOK ==
    ASSUME IInv, HandleWhileOpening
    PROVE  IInv'
<1>1. /\ at = "handle" /\ pT = Null /\ req # Null /\ req \in Thread /\ ~Asks(req)
      /\ iState[req] = "EAccepted" /\ back = "idle" /\ pM = Null /\ ~queued /\ ~iReady
      /\ localDrive /\ Give(req, "deferred") /\ at' = "loop" /\ req' = Null
      /\ UNCHANGED <<iSem, iValue, access, pc, closing, killed, channel, back, pM, pL, media,
                     pT, supervisor>>
  BY Handles DEF HandleWhileOpening, At1
<1>2. UNCHANGED <<iMessage, iReady, queued>> /\ iQ'["main"] = iQ["main"]
  BY <1>1 DEF Give, IInv, TypeOK, Que
<1>3. DriverOK' /\ MediaOK'
  BY <1>1, <1>2, Handles DEF IInv, DriverOK, InMain, MediaOK, HandleWhileOpening, media, channel
<1> QED
  BY <1>1, <1>3, DefersOK DEF IInv, TypeOK, At

\* The first request waits for the media to open.
LEMMA OpenOK ==
    ASSUME IInv, Open
    PROVE  IInv'
<1>1. /\ at = "handle" /\ pT = Null /\ req # Null /\ req \in Thread /\ ~Asks(req)
      /\ back = "idle" /\ pM = Null /\ ~queued /\ ~iReady
      /\ localDrive /\ mState = "EClosed" /\ mState' = "EOpening"
      /\ iCurrentReq' = req /\ req' = Null /\ at' \in {"loop", "opened"}
      /\ UNCHANGED <<message, access, pc, closing, killed, queues, channel, back, pM, pL,
                     current, pT, supervisor>>
  BY Handles DEF Open, At1
<1>2. iCurrentReq = Null /\ current = Null
  BY <1>1 DEF IInv, MediaOK
<1>3. TypeOK'
  BY <1>1 DEF IInv, TypeOK, At, message, queues, channel, supervisor
<1>4. OneHolder'
  BY <1>1, <1>2, Constants DEF IInv, OneHolder, Held, message, queues
<1>5. DriverOK' /\ MediaOK'
  BY <1>1, <1>2 DEF IInv, DriverOK, InMain, MediaOK, queues, channel
<1>6. \A t \in Thread : Asks(t) => t \notin {pM', iCurrentReq', current'}
  BY <1>1 DEF IInv, CloseOK
<1> QED
  BY <1>1, <1>3, <1>4, <1>5, <1>6, MovesOK DEF queues

\* The media is ready, or closes.
LEMMA OpensOrClosesOK ==
    ASSUME IInv, OpenCompletes \/ PowerUpFails \/ SetClosed
    PROVE  IInv'
<1>1. /\ localDrive /\ at \in {"idle", "opened"} /\ back = "idle"
      /\ back' = "idle" \/ (back' = "loop" /\ ~iReady /\ ~queued)
      /\ \/ at' = "opened" /\ mState = "EOpening" /\ back' = "idle"
         \/ at' = "completeAll"
      /\ UNCHANGED <<message, access, pc, closing, killed, queues, channel, req, pM, pL,
                     media, pT, supervisor>>
  BY DEF OpenCompletes, PowerUpFails, SetClosed, Caller, At1, IInv, DriverOK, MediaOK
<1>2. DriverOK' /\ MediaOK'
  BY <1>1 DEF IInv, DriverOK, InMain, MediaOK, queues, channel, media
<1> QED
  BY <1>1, <1>2, GoToOK DEF IInv, TypeOK, At, media

\* The request that the media was opened for is given to its driver.
LEMMA MediaReadyOK ==
    ASSUME IInv, MediaReady
    PROVE  IInv'
<1>1. /\ at = "opened" /\ back = "idle" /\ pT = Null /\ localDrive /\ req = Null /\ pM = Null
      /\ UNCHANGED <<req, pM, pL>>
  BY DEF MediaReady, At1, IInv, DriverOK, MediaOK
<1>2. CASE iCurrentReq # Null
  <2>1. /\ iCurrentReq \in Thread /\ iState[iCurrentReq] = "EAccepted" /\ ~Asks(iCurrentReq)
        /\ mState = "EOpening" /\ current = Null
        /\ mState' = "EReady" /\ iCurrentReq' = Null
    BY <1>1, <1>2, NotAsking DEF MediaReady, IInv, TypeOK, OneHolder, Held, MediaOK
  <2>2. CASE Complete(iCurrentReq, "result", FALSE) /\ UNCHANGED current
             /\ (CallRunDeferred("opened") \/ UNCHANGED <<at, back>>)
    <3>1. \/ at' = "runDeferred" /\ back' = "opened"
          \/ at' = "opened" /\ back' = "idle"
      BY <1>1, <2>2 DEF CallRunDeferred
    <3>2. UNCHANGED <<closing, localDrive, queues>>
      BY <2>2 DEF Complete, channel
    <3>3. DriverOK' /\ MediaOK'
      BY <1>1, <2>1, <2>2, <3>1, <3>2 DEF IInv, DriverOK, InMain, MediaOK, queues
    <3> QED
      BY <1>1, <2>1, <2>2, <3>1, <3>3, CompletesOK DEF IInv, TypeOK, At
  <2>3. CASE /\ current' = iCurrentReq
             /\ UNCHANGED <<message, access, pc, closing, killed, queues, channel, at, back, pT,
                            supervisor>>
    <3>1. DriverOK' /\ MediaOK'
      BY <1>1, <2>1, <2>3 DEF IInv, DriverOK, InMain, MediaOK, queues, channel
    <3> QED
      BY <1>1, <1>2, <2>1, <2>3, <3>1, StartsOK DEF IInv, TypeOK
  <2> QED
    BY <1>2, <2>2, <2>3 DEF MediaReady
<1>3. CASE iCurrentReq = Null
  <2>1. /\ at' = "runDeferred" /\ mState = "EReady"
        /\ back' = "idle" \/ (back' = "loop" /\ ~iReady /\ ~queued)
        /\ UNCHANGED <<message, access, pc, closing, killed, queues, channel, media, pT,
                       supervisor>>
    BY <1>1, <1>3 DEF MediaReady, CallRunDeferred, Caller, IInv, TypeOK, MediaOK
  <2>2. DriverOK' /\ MediaOK'
    BY <1>1, <2>1 DEF IInv, DriverOK, InMain, MediaOK, queues, channel, media
  <2> QED
    BY <1>1, <1>3, <2>1, <2>2, GoToOK DEF IInv, TypeOK, At, media
<1> QED
  BY <1>2, <1>3

LEMMA CurrentCompletesOK ==
    ASSUME IInv, CurrentCompletes
    PROVE  IInv'
<1>1. /\ at = "idle" /\ back = "idle" /\ pT = Null /\ current \in Thread /\ current # Null
      /\ iState[current] = "EAccepted" /\ mState = "EReady" /\ localDrive
      /\ Complete(current, "result", FALSE) /\ current' = Null
      /\ at' = "runDeferred" /\ back' = "idle" /\ UNCHANGED <<req, pM, pL, mState, iCurrentReq>>
  BY DEF CurrentCompletes, CallRunDeferred, At1, IInv, TypeOK, DriverOK, MediaOK, OneHolder, Held
<1>2. UNCHANGED <<closing, localDrive, queues>>
  BY <1>1 DEF Complete, channel
<1>3. DriverOK' /\ MediaOK'
  BY <1>1, <1>2 DEF IInv, DriverOK, InMain, MediaOK, queues
<1> QED
  BY <1>1, <1>3, CompletesOK DEF IInv, TypeOK, At

LEMMA CompleteOneOK ==
    ASSUME IInv, CompleteOne
    PROVE  IInv'
<1>1. /\ at = "completing" /\ pT = Null /\ pM \in Thread /\ pM # Null
      /\ iState[pM] = "EAccepted" /\ localDrive
      /\ Complete(pM, "result", FALSE) /\ pM' = Null
      /\ at' = "completeAll" /\ UNCHANGED <<back, req, pL, mState, iCurrentReq, current>>
  BY DEF CompleteOne, At1, media, IInv, TypeOK, DriverOK, MediaOK, OneHolder, Held
<1>2. UNCHANGED <<closing, localDrive, queues>>
  BY <1>1 DEF Complete, channel
<1>3. DriverOK' /\ MediaOK'
  BY <1>1, <1>2 DEF IInv, DriverOK, InMain, MediaOK, queues
<1> QED
  BY <1>1, <1>3, CompletesOK DEF IInv, TypeOK, At

\* The drivers of a media that is closed complete what they have started.
LEMMA CloseMediaDriversOK ==
    ASSUME IInv, CloseMediaDrivers
    PROVE  IInv'
<1>1. /\ at = "closeDrivers" /\ pT = Null /\ current \in Thread /\ current # Null
      /\ iState[current] = "EAccepted" /\ localDrive /\ back \in {"idle", "loop"}
      /\ Complete(current, "result", FALSE) /\ current' = Null
      /\ at' = back /\ back' = "idle" /\ UNCHANGED <<req, pM, pL, mState, iCurrentReq>>
  BY DEF CloseMediaDrivers, GoOn, At1, IInv, TypeOK, DriverOK, MediaOK, OneHolder, Held
<1>2. UNCHANGED <<closing, localDrive, queues>>
  BY <1>1 DEF Complete, channel
<1>3. DriverOK' /\ MediaOK'
  BY <1>1, <1>2 DEF IInv, DriverOK, InMain, MediaOK, queues
<1> QED
  BY <1>1, <1>3, CompletesOK DEF IInv, TypeOK, At

\* RunDeferred, the loops that find no message, and what they go back to.
LEMMA LoopsOK ==
    ASSUME IInv,
           \/ RunDeferred
           \/ At1("loop") /\ iQ["main"] = <<>> /\ GoTo("receive") /\ UNCHANGED <<pL, mState>>
           \/ At1("drain") /\ iQ["deferred"] = <<>> /\ GoTo(back) /\ pL' = Null /\ UNCHANGED mState
           \/ At1("completeAll") /\ iQ["deferred"] = <<>> /\ iCurrentReq = Null
              /\ GoTo(IF current = Null THEN back ELSE "closeDrivers")
              /\ mState' = "EClosed" /\ UNCHANGED pL
    PROVE  IInv'
<1>1. /\ at \in {"runDeferred", "loop", "drain", "completeAll"} /\ pT = Null /\ localDrive
      /\ back \in {"idle", "loop", "opened"}
      /\ UNCHANGED <<message, access, pc, closing, killed, queues, channel, req, pM,
                     iCurrentReq, current, pT, supervisor>>
  BY DEF RunDeferred, GoTo, At1, IInv, TypeOK, MediaOK
<1>2. CASE at = "loop" /\ GoTo("receive") /\ UNCHANGED <<pL, mState>>
  <2>1. at' = "receive" /\ back = "idle" /\ back' = "idle"
    BY <1>2 DEF GoTo, GoOn, IInv, DriverOK
  <2>2. DriverOK' /\ MediaOK'
    BY <1>1, <1>2, <2>1 DEF IInv, DriverOK, InMain, MediaOK, queues, channel
  <2> QED
    BY <1>1, <1>2, <2>1, <2>2, GoToOK DEF IInv, TypeOK, At
<1>3. CASE /\ at \in {"runDeferred", "drain"} /\ GoTo(back)
           /\ pL' \in Thread \cup {Null} /\ UNCHANGED mState
  <2>1. at' = back /\ back' = "idle"
    BY <1>3 DEF GoTo, GoOn
  <2>2. DriverOK' /\ MediaOK'
    BY <1>1, <1>3, <2>1 DEF IInv, DriverOK, InMain, MediaOK, queues, channel
  <2> QED
    BY <1>1, <1>3, <2>1, <2>2, GoToOK DEF IInv, TypeOK, At
<1>4. CASE at = "runDeferred" /\ RunDeferred /\ iQ["deferred"] # <<>>
  <2>1. /\ at' = "drain" /\ back' = back
        /\ pL' = Last(iQ["deferred"]) /\ UNCHANGED mState
    BY <1>1, <1>4 DEF RunDeferred, GoTo, GoOn
  <2>2. DriverOK' /\ MediaOK'
    BY <1>1, <1>4, <2>1 DEF IInv, DriverOK, InMain, MediaOK, queues, channel
  <2>3. pL' \in Thread \cup {Null}
    <3>1. iQ["deferred"] \in Seq(Thread)
      BY DEF IInv, TypeOK, Que
    <3> QED
      BY <1>4, <2>1, <3>1 DEF Last
  <2> QED
    BY <1>1, <2>1, <2>2, <2>3, GoToOK DEF IInv, TypeOK, At
<1>5. CASE /\ at = "completeAll" /\ iCurrentReq = Null
           /\ GoTo(IF current = Null THEN back ELSE "closeDrivers")
           /\ mState' = "EClosed" /\ UNCHANGED pL
  <2>1. /\ back \in {"idle", "loop"}
        /\ \/ current = Null /\ at' = back /\ back' = "idle"
           \/ current # Null /\ at' = "closeDrivers" /\ back' = back
    BY <1>1, <1>5 DEF GoTo, GoOn, IInv, DriverOK
  <2>2. DriverOK' /\ MediaOK'
    BY <1>1, <1>5, <2>1 DEF IInv, DriverOK, InMain, MediaOK, queues, channel
  <2> QED
    BY <1>1, <1>5, <2>1, <2>2, GoToOK DEF IInv, TypeOK, At
<1> QED
  BY <1>1, <1>2, <1>3, <1>4, <1>5 DEF RunDeferred, At1, IInv, TypeOK

\* Where RunDeferred goes on after a request.
LEMMA RerunGoesOn ==
    ASSUME IInv, at = "rerun", NEW p \in {back, "drain"}, GoOn(p)
    PROVE  /\ at' \in At /\ {back, back'} \subseteq {"idle", "loop", "opened"}
           /\ \/ at' = back /\ back' = "idle"
              \/ at' = "drain" /\ back' = back
<1>1. at' = p /\ back' = (IF p = back THEN "idle" ELSE back) /\ back \in {"idle", "loop", "opened"}
  BY DEF GoOn, IInv, TypeOK
<1> QED
  BY <1>1 DEF At

LEMMA RunOneDeferredOK ==
    ASSUME IInv, RunOneDeferred
    PROVE  IInv'
<1> DEFINE p == IF pM = pL THEN back ELSE "drain"
<1>1. /\ at = "rerun" /\ pT = Null /\ pM \in Thread /\ pM # Null /\ req = Null /\ ~Asks(pM)
      /\ iState[pM] = "EAccepted" /\ mState = "EReady" /\ localDrive
      /\ GoOn(p) /\ pL' = (IF p = "drain" THEN pL ELSE Null) /\ pM' = Null /\ UNCHANGED req
      /\ Finish(pM) \/ Start(pM) \/ Defer(pM)
  BY NotAsking DEF RunOneDeferred, At1, IInv, TypeOK, DriverOK, MediaOK, OneHolder, Held
<1>2. p \in {back, "drain"} /\ pL' \in Thread \cup {Null}
  BY <1>1 DEF IInv, TypeOK
<1> HIDE DEF p
<1>3. /\ at' \in At /\ {back, back'} \subseteq {"idle", "loop", "opened"}
      /\ \/ at' = back /\ back' = "idle"
         \/ at' = "drain" /\ back' = back
  BY <1>1, <1>2, RerunGoesOn
<1>4. CASE Finish(pM)
  <2>1. Complete(pM, "result", FALSE) /\ UNCHANGED <<mState, iCurrentReq, current>>
    BY <1>4 DEF Finish, media
  <2>2. UNCHANGED <<closing, localDrive, queues>>
    BY <2>1 DEF Complete, channel
  <2>3. DriverOK' /\ MediaOK'
    BY <1>1, <1>3, <2>1, <2>2 DEF IInv, DriverOK, InMain, MediaOK, queues
  <2> QED
    BY <1>1, <1>2, <1>3, <2>1, <2>3, CompletesOK DEF IInv, TypeOK
<1>5. CASE Start(pM)
  <2>1. /\ current = Null /\ current' = pM
        /\ UNCHANGED <<message, access, pc, closing, killed, queues, channel, mState,
                       iCurrentReq, pT, supervisor>>
    BY <1>5 DEF Start
  <2>2. DriverOK' /\ MediaOK'
    BY <1>1, <1>3, <2>1 DEF IInv, DriverOK, InMain, MediaOK, queues, channel
  <2> QED
    BY <1>1, <1>2, <1>3, <2>1, <2>2, StartsOK DEF IInv, TypeOK
<1>6. CASE Defer(pM)
  <2>1. /\ Give(pM, "deferred")
        /\ UNCHANGED <<iSem, iValue, access, pc, closing, killed, channel, media, pT, supervisor>>
    BY <1>6 DEF Defer
  <2>2. UNCHANGED <<iMessage, iReady, queued>> /\ iQ'["main"] = iQ["main"]
    BY <2>1 DEF Give, IInv, TypeOK, Que
  <2>3. DriverOK' /\ MediaOK'
    BY <1>1, <1>3, <2>1, <2>2 DEF IInv, DriverOK, InMain, MediaOK, media, channel
  <2> QED
    BY <1>1, <1>2, <1>3, <2>1, <2>3, DefersOK
<1> QED
  BY <1>1, <1>4, <1>5, <1>6

\* The driver takes the first message of a queue.
LEMMA PollsOK ==
    ASSUME IInv, NEW w \in Que, Poll(w), localDrive, NEW x \in Thread, x = Head(iQ[w]),
           at' \in At, pT = Null,
           \/ w = "main" /\ req = Null /\ req' = x /\ UNCHANGED pM
           \/ w = "deferred" /\ pM = Null /\ pM' = x /\ UNCHANGED req,
           DriverOK', MediaOK'
    PROVE  IInv'
<1>1. /\ iState' = [iState EXCEPT ![x] = "EAccepted"] /\ iQ' = [iQ EXCEPT ![w] = Tail(@)]
      /\ UNCHANGED <<iQueue, iSem, iValue, access, pc, closing, killed, iReady, iMessage,
                     queued, channel, back, pL, media, pT, supervisor>>
  BY DEF Poll
<1>2. iQ[w] \in Seq(Thread) /\ Inj(iQ[w]) /\ iQ[w] # <<>>
  BY DEF Poll, IInv, TypeOK, OneQueue
<1>3. /\ x \in Range(iQ[w]) /\ Tail(iQ[w]) \in Seq(Thread)
      /\ Inj(Tail(iQ[w])) /\ Range(Tail(iQ[w])) = Range(iQ[w]) \ {x}
  BY <1>2, TailQueue
<1>4. iState[x] = "EDelivered" /\ iQueue[x] = w
  BY <1>3 DEF IInv, OneQueue
<1>5. TypeOK'
  BY <1>1, <1>3 DEF IInv, TypeOK, channel, media, supervisor
<1>6. OneHolder'
  <2>1. x \notin Held
    BY <1>4 DEF IInv, OneHolder
  <2> QED
    BY <1>1, <2>1, Constants DEF IInv, TypeOK, OneHolder, Held, media
<1>7. OneQueue'
  <2>1. \A v \in Que : iQ'[v] = IF v = w THEN Tail(iQ[w]) ELSE iQ[v]
    BY <1>1 DEF IInv, TypeOK
  <2>2. \A v \in Que : Inj(iQ'[v])
    BY <1>3, <2>1 DEF IInv, OneQueue
  <2>3. \A t \in Thread, v \in Que :
            t \in Range(iQ'[v]) <=> t \in Range(iQ[v]) /\ t # x
    BY <1>3, <1>4, <2>1 DEF IInv, OneQueue
  <2>4. \A t \in Thread, v \in Que :
            iState'[t] = "EDelivered" /\ iQueue'[t] = v <=>
            iState[t] = "EDelivered" /\ iQueue[t] = v /\ t # x
    BY <1>1 DEF IInv, TypeOK
  <2>5. \A t \in Thread : iState'[t] = "EDelivered" => iQueue'[t] # Null
    BY <1>1 DEF IInv, TypeOK, OneQueue
  <2> QED
    BY <2>2, <2>3, <2>4, <2>5 DEF IInv, OneQueue
<1>8. SemOK' /\ PcOK'
  BY <1>1, <1>4 DEF IInv, TypeOK, SemOK, PcOK, Asks, One, channel, supervisor
<1>9. CloseOK'
  <2>1. w = "deferred" => ~Asks(x)
    BY <1>3, NotAsking
  <2> QED
    BY <1>1, <1>4, <2>1, CloseKept DEF IInv, TypeOK, CloseOK, media
<1>10. ChanOK'
  BY <1>1 DEF IInv, ChanOK, channel
<1>11. AccessOK'
  <2>1. \A t \in Thread : iState'[t] = "EFree" <=> iState[t] = "EFree"
    BY <1>1, <1>4 DEF IInv, TypeOK
  <2> QED
    BY <1>1, <2>1 DEF IInv, AccessOK, References, One, supervisor
<1> QED
  BY <1>5, <1>6, <1>7, <1>8, <1>9, <1>10, <1>11 DEF IInv

LEMMA DriverPolls ==
    ASSUME IInv,
           \/ /\ At1("loop") /\ Poll("main") /\ req' = Head(iQ["main"]) /\ at' = "handle"
              /\ UNCHANGED pM
           \/ /\ \/ At1("drain") /\ at' = "rerun"
                 \/ At1("completeAll") /\ at' = "completing"
              /\ Poll("deferred") /\ pM' = Head(iQ["deferred"]) /\ UNCHANGED req
    PROVE  IInv'
<1>1. CASE At1("loop") /\ Poll("main") /\ req' = Head(iQ["main"]) /\ at' = "handle"
           /\ UNCHANGED pM
  <2>1. iQ["main"] \in Seq(Thread) /\ iQ["main"] # <<>> /\ Inj(iQ["main"])
    BY <1>1 DEF Poll, IInv, TypeOK, OneQueue, Que
  <2>2. /\ at = "loop" /\ pT = Null /\ req = Null /\ back = "idle" /\ ~iReady /\ ~queued
        /\ pM = Null /\ Head(iQ["main"]) \in Thread /\ Head(iQ["main"]) # Null /\ localDrive
    BY <1>1, <2>1, TailQueue, Constants DEF At1, IInv, TypeOK, DriverOK, InMain, MediaOK
  <2>3. UNCHANGED <<iReady, iMessage, queued, back, closing, localDrive, media>>
    BY <1>1 DEF Poll, channel
  <2>4. DriverOK' /\ MediaOK'
    BY <1>1, <2>2, <2>3 DEF IInv, DriverOK, InMain, MediaOK, media
  <2> QED
    BY <1>1, <2>2, <2>4, PollsOK DEF At, Que
<1>2. CASE /\ \/ at = "drain" /\ at' = "rerun"
              \/ at = "completeAll" /\ at' = "completing"
           /\ pT = Null
           /\ Poll("deferred") /\ pM' = Head(iQ["deferred"]) /\ UNCHANGED req
  <2>1. iQ["deferred"] \in Seq(Thread) /\ iQ["deferred"] # <<>> /\ Inj(iQ["deferred"])
    BY <1>2 DEF Poll, IInv, TypeOK, OneQueue, Que
  <2>2. /\ pM = Null /\ localDrive
        /\ Head(iQ["deferred"]) \in Thread /\ Head(iQ["deferred"]) # Null
    BY <1>2, <2>1, TailQueue, Constants DEF IInv, DriverOK, MediaOK
  <2>3. UNCHANGED <<iReady, iMessage, queued, back, closing, localDrive, media>>
        /\ iQ'["main"] = iQ["main"]
    BY <1>2 DEF Poll, IInv, TypeOK, Que, channel
  <2>4. DriverOK' /\ MediaOK'
    BY <1>2, <2>2, <2>3 DEF IInv, DriverOK, InMain, MediaOK, media
  <2> QED
    BY <1>2, <2>2, <2>4, PollsOK DEF At, Que
<1> QED
  BY <1>1, <1>2 DEF At1

\* The end of CompleteAll: the request that waits for the media is completed.
LEMMA CompleteAllOK ==
    ASSUME IInv, CompleteAll
    PROVE  IInv'
<1>1. CASE At1("completeAll") /\ iCurrentReq # Null /\ Complete(iCurrentReq, "result", FALSE)
           /\ iCurrentReq' = Null /\ UNCHANGED <<place, mState, current>>
  <2>1. /\ pT = Null /\ iCurrentReq \in Thread /\ at = "completeAll"
        /\ iState[iCurrentReq] = "EAccepted" /\ localDrive
    BY <1>1 DEF At1, IInv, TypeOK, MediaOK, OneHolder, Held
  <2>2. UNCHANGED <<closing, localDrive, queues, at, back, req, pM, pL>>
    BY <1>1 DEF Complete, channel, place
  <2>3. DriverOK' /\ MediaOK'
    BY <1>1, <2>1, <2>2 DEF IInv, DriverOK, InMain, MediaOK, queues
  <2> QED
    BY <1>1, <2>1, <2>2, <2>3, CompletesOK DEF IInv, TypeOK
<1> QED
  BY <1>1, LoopsOK, DriverPolls DEF CompleteAll

LEMMA PollMainOK ==
    ASSUME IInv, PollMain
    PROVE  IInv'
BY LoopsOK, DriverPolls DEF PollMain

LEMMA PollDeferredOK ==
    ASSUME IInv, PollDeferred
    PROVE  IInv'
BY LoopsOK, DriverPolls DEF PollDeferred

\* The next message of iMsgQ is received, or the driver waits for it.
LEMMA ReceivesNext ==
    ASSUME IInv, NEW s \in [Thread -> {"EFree", "EDelivered", "EAccepted"}],
           \A t \in Thread : s[t] = "EDelivered" <=> iState[t] = "EDelivered",
           \A t \in Thread : iState[t] = "EDelivered" => iQueue'[t] = iQueue[t],
           ReceiveNext(s)
    PROVE  /\ OneQueue'
           /\ iState' \in [Thread -> {"EFree", "EDelivered", "EAccepted"}]
           /\ iQ' \in [Que -> Seq(Thread)]
           /\ \/ /\ iState' = s /\ iQ["main"] = <<>>
                 /\ iReady' = TRUE /\ iMessage' = Null /\ UNCHANGED <<iQ, queued>>
              \/ \E x \in Thread : /\ iState[x] = "EDelivered" /\ iQueue[x] = "main"
                                   /\ iState' = [s EXCEPT ![x] = "EAccepted"]
                                   /\ iMessage' = x /\ queued' = TRUE /\ UNCHANGED iReady
                                   /\ iQ["main"] # <<>>
<1>1. CASE iQ["main"] = <<>>
  <2>1. iState' = s /\ iReady' = TRUE /\ iMessage' = Null /\ UNCHANGED <<iQ, queued>>
    BY <1>1 DEF ReceiveNext
  <2> QED
    BY <1>1, <2>1 DEF IInv, TypeOK, OneQueue
<1>2. CASE iQ["main"] # <<>>
  <2> DEFINE x == Head(iQ["main"])
  <2>1. iQ["main"] \in Seq(Thread) /\ Inj(iQ["main"])
    BY DEF IInv, TypeOK, OneQueue, Que
  <2>2. /\ x \in Range(iQ["main"]) /\ x \in Thread /\ Tail(iQ["main"]) \in Seq(Thread)
        /\ Inj(Tail(iQ["main"])) /\ Range(Tail(iQ["main"])) = Range(iQ["main"]) \ {x}
    BY <1>2, <2>1, TailQueue
  <2>3. /\ iState' = [s EXCEPT ![x] = "EAccepted"] /\ iMessage' = x /\ queued' = TRUE
        /\ iQ' = [iQ EXCEPT !["main"] = Tail(@)] /\ UNCHANGED iReady
    BY <1>2 DEF ReceiveNext
  <2> HIDE DEF x
  <2>4. iState[x] = "EDelivered" /\ iQueue[x] = "main"
    BY <2>2 DEF IInv, OneQueue, Que
  <2>5. \A v \in Que : iQ'[v] = IF v = "main" THEN Tail(iQ["main"]) ELSE iQ[v]
    BY <2>3 DEF IInv, TypeOK, Que
  <2>6. \A t \in Thread, v \in Que : t \in Range(iQ'[v]) <=> t \in Range(iQ[v]) /\ t # x
    BY <2>2, <2>4, <2>5 DEF IInv, OneQueue, Que
  <2>7. \A t \in Thread : iState'[t] = "EDelivered" <=> iState[t] = "EDelivered" /\ t # x
    BY <2>2, <2>3
  <2>8. \A v \in Que : Inj(iQ'[v])
    BY <2>2, <2>5 DEF IInv, OneQueue
  <2>9. OneQueue'
    BY <2>6, <2>7, <2>8 DEF IInv, OneQueue
  <2>10. iQ' \in [Que -> Seq(Thread)]
    BY <2>2, <2>3 DEF IInv, TypeOK, Que
  <2>11. iState' \in [Thread -> {"EFree", "EDelivered", "EAccepted"}]
    BY <2>2, <2>3
  <2> QED
    BY <1>2, <2>2, <2>3, <2>4, <2>9, <2>10, <2>11
<1> QED
  BY <1>1, <1>2

LEMMA ReceiveOK ==
    ASSUME IInv, Receive
    PROVE  IInv'
<1>1. /\ at = "receive" /\ pT = Null /\ back = "idle" /\ ~iReady /\ ~queued
      /\ iMessage = Null /\ req = Null /\ pM = Null /\ at' = "idle" /\ localDrive
      /\ UNCHANGED <<iQueue, iSem, iValue, access, pc, closing, killed, channel, back, req,
                     pM, pL, mState, iCurrentReq, current, pT, supervisor>>
      /\ ReceiveNext(iState)
  BY DEF Receive, At1, media, IInv, TypeOK, DriverOK, InMain, MediaOK
<1>2. /\ OneQueue'
      /\ iState' \in [Thread -> {"EFree", "EDelivered", "EAccepted"}]
      /\ iQ' \in [Que -> Seq(Thread)]
      /\ \/ /\ iState' = iState /\ iQ["main"] = <<>>
            /\ iReady' = TRUE /\ iMessage' = Null /\ UNCHANGED <<iQ, queued>>
         \/ \E x \in Thread : /\ iState[x] = "EDelivered" /\ iQueue[x] = "main"
                              /\ iState' = [iState EXCEPT ![x] = "EAccepted"]
                              /\ iMessage' = x /\ queued' = TRUE /\ UNCHANGED iReady
                              /\ iQ["main"] # <<>>
  BY <1>1, ReceivesNext DEF IInv, TypeOK
<1>3. UNCHANGED <<closing, localDrive>> /\ MediaOK'
  BY <1>1 DEF IInv, MediaOK, channel
<1>4. CASE iState' = iState /\ iQ["main"] = <<>> /\ iReady' = TRUE /\ iMessage' = Null
           /\ UNCHANGED <<iQ, queued>>
  <2>1. SemOK' /\ PcOK' /\ ChanOK' /\ AccessOK'
    BY <1>1, <1>4, DriverMoves DEF message
  <2>2. TypeOK'
    BY <1>1, <1>4 DEF IInv, TypeOK, At, channel, supervisor
  <2>3. OneHolder' /\ DriverOK'
    BY <1>1, <1>4 DEF IInv, OneHolder, Held, DriverOK, InMain
  <2>4. CloseOK'
    BY <1>1, <1>3, <1>4, CloseKept DEF IInv, CloseOK
  <2> QED
    BY <1>2, <1>3, <2>1, <2>2, <2>3, <2>4 DEF IInv
<1>5. ASSUME NEW x \in Thread, iState[x] = "EDelivered", iQueue[x] = "main",
             iState' = [iState EXCEPT ![x] = "EAccepted"], iMessage' = x, queued' = TRUE,
             UNCHANGED iReady
      PROVE  IInv'
  <2>1. \A t \in Thread : iState'[t] = "EFree" <=> iState[t] = "EFree"
    BY <1>5 DEF IInv, TypeOK
  <2>2. SemOK' /\ PcOK'
    BY <1>1, <1>5 DEF IInv, TypeOK, SemOK, PcOK, Asks, One, channel, supervisor
  <2>3. ChanOK' /\ AccessOK'
    BY <1>1, <2>1 DEF IInv, ChanOK, AccessOK, References, One, channel, supervisor
  <2>4. TypeOK'
    BY <1>1, <1>2, <1>5 DEF IInv, TypeOK, At, channel, supervisor
  <2>5. OneHolder'
    BY <1>1, <1>5, Constants DEF IInv, TypeOK, OneHolder, Held
  <2>6. DriverOK'
    BY <1>1, <1>5, Constants DEF IInv, DriverOK, InMain
  <2>7. CloseOK'
    BY <1>1, <1>3, <1>5, <2>1, CloseKept DEF IInv, TypeOK, CloseOK
  <2> QED
    BY <1>2, <1>3, <2>2, <2>3, <2>4, <2>5, <2>6, <2>7 DEF IInv
<1> QED
  BY <1>2, <1>4, <1>5

-----------------------------------------------------------------------------
\* The message that is being handled is completed and the next one is received.
LEMMA CompletesAndReceives ==
    ASSUME IInv, at \in {"handle", "panic"}, pT = Null, ~localDrive, ~Asks(req),
           NEW r \in {"result", "KErrDied"}, Complete(req, r, TRUE),
           at' = "idle", req' = Null, UNCHANGED <<back, pM, pL, media>>
    PROVE  IInv'
<1> DEFINE s == [iState EXCEPT ![req] = "EFree"]
<1>1. /\ req # Null /\ req \in Thread /\ iState[req] = "EAccepted" /\ back = "idle"
      /\ ~iReady /\ ~queued /\ iMessage = Null /\ pM = Null
      /\ mState = "EClosed" /\ iCurrentReq = Null /\ current = Null /\ ~Idle
      /\ UNCHANGED <<mState, iCurrentReq, current>>
  BY DEF Idle, media, IInv, TypeOK, DriverOK, InMain, MediaOK, OneHolder, Held
<1>2. /\ iValue' = [iValue EXCEPT ![req] = r]
      /\ iQueue' = [iQueue EXCEPT ![req] = Null]
      /\ iSem' = [iSem EXCEPT ![req] = @ + 1]
      /\ pc' = IF pc[req] = "blocked" THEN [pc EXCEPT ![req] = "sent"] ELSE pc
      /\ pT' = req
      /\ ReceiveNext(s)
      /\ UNCHANGED <<access, closing, killed, channel, supervisor>>
  BY DEF Complete
<1>3. /\ s \in [Thread -> {"EFree", "EDelivered", "EAccepted"}] /\ s[req] = "EFree"
      /\ \A t \in Thread \ {req} : s[t] = iState[t]
      /\ \A t \in Thread : s[t] = "EDelivered" <=> iState[t] = "EDelivered"
      /\ \A t \in Thread : iState[t] = "EDelivered" => iQueue'[t] = iQueue[t]
  BY <1>1, <1>2 DEF IInv, TypeOK
<1> HIDE DEF s
<1>4. /\ OneQueue'
      /\ iState' \in [Thread -> {"EFree", "EDelivered", "EAccepted"}]
      /\ iQ' \in [Que -> Seq(Thread)]
      /\ \/ /\ iState' = s /\ iQ["main"] = <<>>
            /\ iReady' = TRUE /\ iMessage' = Null /\ UNCHANGED <<iQ, queued>>
         \/ \E x \in Thread : /\ iState[x] = "EDelivered" /\ iQueue[x] = "main"
                              /\ iState' = [s EXCEPT ![x] = "EAccepted"]
                              /\ iMessage' = x /\ queued' = TRUE /\ UNCHANGED iReady
                              /\ iQ["main"] # <<>>
  BY <1>2, <1>3, ReceivesNext
<1>5. /\ iState'[req] = "EFree"
      /\ \A t \in Thread \ {req} : /\ iState'[t] = "EFree" <=> iState[t] = "EFree"
                                   /\ iState'[t] = "EDelivered" => iState[t] = "EDelivered"
  BY <1>1, <1>3, <1>4
<1>6. SemOK' /\ PcOK' /\ ChanOK' /\ AccessOK'
  BY <1>1, <1>2, <1>5, CompleteSide
<1>7. TypeOK'
  <2>1. iSem' \in [Thread -> -1..1]
    <3>1. iSem \in [Thread -> -1..1] /\ iSem[req] < 1 /\ iSem' = [iSem EXCEPT ![req] = @ + 1]
      BY <1>1, <1>2 DEF IInv, TypeOK, SemOK
    <3>2. iSem[req] + 1 \in -1..1
      BY <1>1, <3>1
    <3> QED
      BY <3>1, <3>2
  <2>2. iValue' \in [Thread -> Connection \cup {"request", "result", "KErrDied"}]
        /\ iQueue' \in [Thread -> Que \cup {Null}] /\ pc' \in [Thread -> Pc]
    BY <1>1, <1>2 DEF IInv, TypeOK, Pc
  <2>3. iReady' \in BOOLEAN /\ queued' \in BOOLEAN /\ iMessage' \in Thread \cup {Null}
    BY <1>4 DEF IInv, TypeOK
  <2> QED
    BY <1>1, <1>2, <1>4, <2>1, <2>2, <2>3 DEF IInv, TypeOK, At, channel, supervisor
<1>8. OneHolder'
  <2>1. CASE iState' = s /\ iMessage' = Null
    BY <1>1, <1>3, <2>1, Constants DEF IInv, TypeOK, OneHolder, Held
  <2>2. ASSUME NEW x \in Thread, iState[x] = "EDelivered",
               iState' = [s EXCEPT ![x] = "EAccepted"], iMessage' = x
        PROVE  OneHolder'
    <3>1. x \notin Held
      BY <2>2 DEF IInv, OneHolder
    <3>2. iState'[x] = "EAccepted" /\ \A t \in Thread \ {x} : iState'[t] = s[t]
      BY <1>3, <2>2
    <3>3. x \notin {req, pM, iCurrentReq, current} /\ x # Null
      BY <3>1, Constants DEF Held
    <3>4. \A t \in Thread : iState'[t] = "EAccepted" <=> t \in Held'
      BY <1>1, <1>3, <2>2, <3>2, <3>3, Constants DEF IInv, TypeOK, OneHolder, Held
    <3> QED
      BY <1>1, <2>2, <3>3, <3>4 DEF IInv, OneHolder
  <2> QED
    BY <1>4, <2>1, <2>2
<1>9. DriverOK'
  BY <1>1, <1>4, Constants DEF IInv, DriverOK, InMain
<1>10. CloseOK'
  <2>1. UNCHANGED <<closing, channel>>
    BY <1>2
  <2>2. \A t \in Thread : Asks(t) => /\ t # req /\ t \notin {pM', iCurrentReq', current'}
                                     /\ iState'[t] = "EFree" <=> iState[t] = "EFree"
                                     /\ iValue'[t] = iValue[t] /\ pc'[t] = pc[t]
                                     /\ iQueue'[t] = iQueue[t]
    BY <1>1, <1>2, <1>5, NotAsking, Constants DEF IInv, TypeOK
  <2>3. \A t \in Thread : Asks(t) =>
               ~(iState'[t] = "EDelivered" /\ iQueue'[t] = "deferred")
    BY <1>5, <2>2 DEF IInv, CloseOK
  <2>4. \A t \in Thread : iState'[t] # "EFree" /\ iValue'[t] \in Connection =>
                          iState[t] # "EFree" /\ iValue[t] \in Connection
    BY <1>2, <1>5 DEF IInv, TypeOK
  <2>5. \A t \in Thread : iValue'[t] \in Connection => iValue'[t] = iValue[t]
    BY <1>1, <1>2 DEF IInv, TypeOK, Connection, Disconnect
  <2> QED
    BY <1>1, <2>1, <2>2, <2>3, <2>4, <2>5, CloseKept
<1>11. MediaOK'
  BY <1>1, <1>2 DEF IInv, MediaOK, channel
<1> QED
  BY <1>4, <1>6, <1>7, <1>8, <1>9, <1>10, <1>11 DEF IInv

LEMMA CompleteAndReceiveOK ==
    ASSUME IInv, CompleteAndReceive \/ PanicCompletes
    PROVE  IInv'
<1>1. CASE CompleteAndReceive
  <2>1. at = "handle" /\ pT = Null /\ ~localDrive /\ ~Asks(req)
    BY <1>1, Handles DEF CompleteAndReceive, At1
  <2> QED
    BY <1>1, <2>1, CompletesAndReceives DEF CompleteAndReceive
<1>2. CASE PanicCompletes
  <2>1. at = "panic" /\ pT = Null /\ ~localDrive /\ ~closing[req] /\ req \in Thread
    BY <1>2 DEF PanicCompletes, At1, IInv, TypeOK, DriverOK, MediaOK
  <2>2. ~Asks(req)
    BY <2>1, Constants DEF Asks, IInv, CloseOK
  <2> QED
    BY <1>2, <2>1, <2>2, CompletesAndReceives DEF PanicCompletes
<1> QED
  BY <1>1, <1>2

\* When the close message is handled no other is on the queue: whoever sent one has
\* a reference to the channel.
LEMMA HandleCloseMsgOK ==
    ASSUME IInv, HandleCloseMsg
    PROVE  IInv'
<1>1. /\ at = "handle" /\ pT = Null /\ iValue[req] = "ECloseMsg" /\ req # Null
      /\ req \in Thread /\ iState[req] = "EAccepted" /\ back = "idle" /\ pM = Null
      /\ ~iReady /\ ~queued /\ ~localDrive /\ Complete(req, "result", FALSE)
      /\ at' = "idle" /\ req' = Null
      /\ UNCHANGED <<back, pM, pL, mState, iCurrentReq, current>>
  BY Handles DEF HandleCloseMsg, At1, media, IInv, CloseOK
<1>2. /\ closing[req] /\ chan = 0 /\ creating = Null
      /\ \A t \in Thread : Asks(t) => t = req
  <2>1. creating = Null /\ Asks(req)
    BY <1>1 DEF IInv, CloseOK, Connection, Disconnect
  <2>2. closing[req] /\ \A t \in Thread : Asks(t) => closing[t]
    BY <1>1, <2>1, Constants DEF Asks
  <2> QED
    BY <1>1, <2>1, <2>2 DEF IInv, CloseOK
<1>3. /\ SemOK' /\ PcOK' /\ ChanOK' /\ AccessOK' /\ OneQueue'
      /\ iState' = [iState EXCEPT ![req] = "EFree"]
      /\ UNCHANGED <<access, closing, killed, channel, supervisor, queues>>
      /\ iState' \in [Thread -> {"EFree", "EDelivered", "EAccepted"}]
      /\ iQueue' \in [Thread -> Que \cup {Null}]
      /\ iSem' \in [Thread -> -1..1]
      /\ iValue' \in [Thread -> Connection \cup {"request", "result", "KErrDied"}]
      /\ pc' \in [Thread -> Pc] /\ pT' \in Thread
  BY <1>1, CompleteOnly
<1>4. iQ["main"] = <<>>
  <2>1. SUFFICES ASSUME iQ["main"] # <<>> PROVE FALSE
    OBVIOUS
  <2>2. PICK t \in Thread : t \in Range(iQ["main"])
    BY <2>1, TailQueue DEF IInv, TypeOK, OneQueue, Que
  <2>3. iState[t] = "EDelivered" /\ iQueue[t] = "main"
    BY <2>2 DEF IInv, OneQueue, Que
  <2>4. ~iTempObj[t] /\ ~Asks(t)
    BY <1>1, <1>2, <2>3, NoUsers DEF IInv
  <2> QED
    BY <2>3, <2>4 DEF IInv, PcOK
<1>5. TypeOK'
  BY <1>1, <1>3 DEF IInv, TypeOK, At, queues, channel, supervisor
<1>6. OneHolder'
  BY <1>1, <1>3, Constants DEF IInv, TypeOK, OneHolder, Held, queues
<1>7. DriverOK' /\ MediaOK'
  BY <1>1, <1>3 DEF IInv, DriverOK, InMain, MediaOK, queues, channel
<1>8. Quiet'
  BY <1>1, <1>3, <1>4 DEF Quiet, Idle, queues
<1>9. CloseOK'
  <2>1. /\ iValue' = [iValue EXCEPT ![req] = "result"]
        /\ pc' = IF pc[req] = "blocked" THEN [pc EXCEPT ![req] = "sent"] ELSE pc
        /\ pc[req] # "send"
    BY <1>1 DEF Complete, IInv, SemOK
  <2>2. \A t \in Thread : Asks(t)' <=> Asks(t)
    BY <1>3 DEF Asks, channel
  <2>3. \A t \in Thread : Asks(t)' =>
          /\ t = req /\ chan' = 0 /\ t \notin {pM', iCurrentReq', current'}
          /\ iState'[t] = "EFree" /\ pc'[t] # "send"
    BY <1>1, <1>2, <1>3, <2>1, <2>2, Constants DEF IInv, TypeOK, CloseOK, channel
  <2>4. \A t \in Thread : iState'[t] # "EFree" /\ iValue'[t] \in Connection => Asks(t)'
    BY <1>1, <1>3, <2>1, <2>2 DEF IInv, TypeOK, CloseOK, Connection, Disconnect
  <2>5. /\ \A t \in Thread : iValue'[t] = "ECloseMsg" => ~localDrive'
        /\ \A t \in Thread : iValue'[t] \in {"EConnect", "EDisconnect"} => localDrive'
        /\ creating' # Null => localDrive' /\ ~handle'
    BY <1>1, <1>3, <2>1 DEF IInv, TypeOK, CloseOK, channel
  <2>6. \A t \in Thread : closing'[t] => Asks(t)'
    BY DEF Asks
  <2> QED
    BY <1>8, <2>3, <2>4, <2>5, <2>6 DEF CloseOK
<1> QED
  BY <1>3, <1>5, <1>6, <1>7, <1>9 DEF IInv


-----------------------------------------------------------------------------
\* A thread goes on while the messages, the queues and the driver stay as they are.
LEMMA SameDriver ==
    ASSUME IInv, UNCHANGED <<iState, iQueue, queues, driver, localDrive>>,
           \A t \in Thread : iState[t] # "EFree" => closing'[t] = closing[t]
    PROVE  OneHolder' /\ OneQueue' /\ DriverOK' /\ MediaOK' /\ Quiet' = Quiet
<1>1. at = "panic" => req \in Thread /\ iState[req] = "EAccepted"
  BY DEF IInv, TypeOK, OneHolder, Held, DriverOK
<1>2. OneHolder' /\ OneQueue'
  BY DEF IInv, OneHolder, Held, OneQueue, queues, driver, place, media
<1>3. DriverOK'
  BY <1>1 DEF IInv, DriverOK, InMain, queues, driver, place, media
<1>4. Quiet' = Quiet
  BY DEF Quiet, Idle, queues, driver, place, media
<1>5. MediaOK'
  BY DEF IInv, MediaOK, driver, place, media
<1> QED
  BY <1>2, <1>3, <1>4, <1>5

LEMMA KillOK ==
    ASSUME IInv, NEW x \in Client, Kill(x),
           UNCHANGED <<iState, iQueue, iValue, access, closing, queues, channel, pT, supervisor>>
    PROVE  /\ OneQueue' /\ SemOK' /\ PcOK' /\ ChanOK' /\ AccessOK'
           /\ pc' \in [Thread -> Pc] /\ iSem' \in [Thread -> -1..1]
           /\ killed' \in [Thread -> BOOLEAN]
           /\ \A t \in Thread : Asks(t) => pc'[t] = pc[t]
<1>1. x \in Thread
  BY Constants
<1>2. /\ killed' \in [Thread -> BOOLEAN] /\ killed'[x] = TRUE
      /\ \A t \in Thread \ {x} : killed'[t] = killed[t]
  BY <1>1 DEF Kill, IInv, TypeOK
<1>3. OneQueue'
  BY DEF IInv, OneQueue, queues
<1>4. CASE InCS(x) \/ killed[x]
  <2>1. UNCHANGED <<pc, iSem>>
    BY <1>4 DEF Kill
  <2>2. SemOK' /\ PcOK'
    BY <1>1, <1>2, <2>1 DEF IInv, SemOK, PcOK, Asks, One, channel, supervisor
  <2>3. ChanOK' /\ AccessOK'
    BY <2>1 DEF IInv, ChanOK, AccessOK, References, One, channel, supervisor
  <2> QED
    BY <1>2, <1>3, <2>1, <2>2, <2>3 DEF IInv, TypeOK
<1>5. CASE ~InCS(x) /\ ~killed[x]
  <2>1. /\ pc' = [pc EXCEPT ![x] = "exit"]
        /\ iSem' = IF pc[x] = "blocked" THEN [iSem EXCEPT ![x] = 0] ELSE iSem
    BY <1>5 DEF Kill
  <2>2. ~Asks(x) /\ pc[x] # "close" /\ pc[x] \notin Dying
    BY <1>1, <1>5 DEF InCS, IInv, PcOK, Asks
  <2>3. \A t \in Thread : pc'[t] = IF t = x THEN "exit" ELSE pc[t]
    BY <1>1, <2>1 DEF IInv, TypeOK
  <2>4. SemOK'
    BY <1>1, <2>1, <2>3 DEF IInv, TypeOK, SemOK, One
  <2>5. PcOK'
    <3>1. victim # Null => victim # x /\ victim \in Thread
      BY <1>1, <2>2, Constants DEF IInv, TypeOK, PcOK, Asks, Dying
    <3>2. victim' # Null => pc'[victim'] = "dead"
      BY <2>3, <3>1 DEF IInv, PcOK, Asks, supervisor
    <3> QED
      BY <1>1, <1>2, <2>2, <2>3, <3>2 DEF IInv, PcOK, Asks, channel, supervisor, Calling, Dying
  <2>6. ChanOK'
    <3>1. {t \in Thread : pc'[t] = "close"} = {t \in Thread : pc[t] = "close"}
      BY <2>2, <2>3
    <3>2. (\A t \in Thread : pc[t] # "close") => \A t \in Thread : pc'[t] # "close"
      BY <2>3
    <3> QED
      BY <3>1, <3>2 DEF IInv, ChanOK, channel
  <2>7. AccessOK'
    <3>1. \A t \in Thread : pc'[t] \in {"released", "deleted", "cancelled"} \/
                            pc[t] \in {"released", "deleted", "cancelled"} => pc'[t] = pc[t]
      BY <2>2, <2>3 DEF Dying
    <3> QED
      BY <3>1 DEF IInv, AccessOK, References, One, supervisor
  <2>8. pc' \in [Thread -> Pc] /\ iSem' \in [Thread -> -1..1]
    BY <1>1, <2>1 DEF IInv, TypeOK, Pc
  <2> QED
    BY <1>2, <1>3, <2>2, <2>3, <2>4, <2>5, <2>6, <2>7, <2>8
<1> QED
  BY <1>4, <1>5

LEMMA ThreadKillOK ==
    ASSUME IInv, NEW x \in Client, ThreadKill(x)
    PROVE  IInv'
<1>1. /\ Kill(x)
      /\ UNCHANGED <<iState, iQueue, iValue, access, closing, queues, channel, driver, pT, supervisor>>
  BY DEF ThreadKill
<1>2. /\ OneQueue' /\ SemOK' /\ PcOK' /\ ChanOK' /\ AccessOK'
      /\ pc' \in [Thread -> Pc] /\ iSem' \in [Thread -> -1..1]
      /\ killed' \in [Thread -> BOOLEAN]
      /\ \A t \in Thread : Asks(t) => pc'[t] = pc[t]
  BY <1>1, KillOK
<1>3. OneHolder' /\ DriverOK' /\ MediaOK' /\ Quiet' = Quiet
  BY <1>1, SameDriver DEF channel
<1>4. TypeOK'
  BY <1>1, <1>2 DEF IInv, TypeOK, queues, channel, driver, place, media, supervisor
<1>5. CloseOK'
  BY <1>1, <1>2, <1>3 DEF IInv, CloseOK, Asks, channel, driver, place, media
<1> QED
  BY <1>2, <1>3, <1>4, <1>5 DEF IInv

LEMMA PanicClientOK ==
    ASSUME IInv, PanicClient
    PROVE  IInv'
<1>1. /\ at = "handle" /\ at' = "panic" /\ back = "idle" /\ req # Null /\ req \in Client
      /\ ~Asks(req) /\ ~Idle /\ Kill(req) /\ ~localDrive
      /\ UNCHANGED <<iState, iQueue, iValue, access, closing, queues, channel, back, req, pM, pL,
                     mState, iCurrentReq, current, pT, supervisor>>
  BY MessageAssumption, Handles DEF PanicClient, At1, media
<1>2. /\ OneQueue' /\ SemOK' /\ PcOK' /\ ChanOK' /\ AccessOK'
      /\ pc' \in [Thread -> Pc] /\ iSem' \in [Thread -> -1..1]
      /\ killed' \in [Thread -> BOOLEAN]
      /\ \A t \in Thread : Asks(t) => pc'[t] = pc[t]
  BY <1>1, KillOK
<1>3. OneHolder' /\ DriverOK' /\ MediaOK'
  BY <1>1 DEF IInv, OneHolder, Held, DriverOK, InMain, MediaOK, Asks, queues, channel
<1>4. TypeOK'
  BY <1>1, <1>2 DEF IInv, TypeOK, At, queues, channel, supervisor
<1>5. CloseOK'
  BY <1>1, <1>2, CloseKept DEF IInv, CloseOK
<1> QED
  BY <1>2, <1>3, <1>4, <1>5 DEF IInv

\* What AsyncClose does to the counts, where a reference goes.
LEMMA AsyncCloseOK ==
    ASSUME IInv, NEW x \in Thread, AsyncClose(x), UNCHANGED iState,
           \A t \in Thread \ {x} : References(t)' = References(t),
           References(x)' = References(x) - 1, References(x) > 0,
           \A t \in Thread : (pc'[t] = "released" <=> pc[t] = "released")
                             /\ (pc'[t] = "deleted" <=> pc[t] = "deleted"),
           pc[x] \in {"released", "deleted"} \/ References(x) > 1
    PROVE  AccessOK' /\ access' \in [Thread -> Nat] /\ deleting' \in SUBSET Client
<1>1. access[x] = References(x) /\ access[x] \in Nat /\ access \in [Thread -> Nat]
  BY DEF IInv, TypeOK, AccessOK
<1>2. /\ access' = [access EXCEPT ![x] = @ - 1] /\ access[x] > 0
      /\ deleting' = IF access[x] = 1 THEN deleting \cup {x} ELSE deleting
      /\ x \notin deleting /\ pc[x] # "deleted"
  BY <1>1 DEF AsyncClose, IInv, AccessOK
<1>3. /\ access' \in [Thread -> Nat] /\ access'[x] = access[x] - 1
      /\ \A t \in Thread \ {x} : access'[t] = access[t]
  BY <1>1, <1>2
<1>7. access[x] = 1 => pc[x] = "released" /\ x \in Client
  <2>1. access[x] = 1 => pc[x] = "released"
    BY <1>1, <1>2
  <2>2. pc[x] = "released" => x \in Client
    BY DEF IInv, PcOK, Asks, Dying
  <2> QED
    BY <2>1, <2>2
<1>4. deleting' \in SUBSET Client
  BY <1>2, <1>7 DEF IInv, TypeOK
<1>5. \A t \in Thread : access'[t] = References(t)'
  BY <1>1, <1>3 DEF IInv, AccessOK
<1>6. \A t \in Thread : (t \in deleting' <=> access'[t] = 0 /\ pc'[t] = "released")
                        /\ (pc'[t] = "deleted" => access'[t] = 0)
  <2> TAKE t \in Thread
  <2>1. CASE t = x
    BY <1>1, <1>2, <1>3, <1>7, <2>1
  <2>2. CASE t # x
    BY <1>2, <1>3, <2>2 DEF IInv, AccessOK
  <2> QED
    BY <2>1, <2>2
<1> QED
  BY <1>3, <1>4, <1>5, <1>6 DEF AccessOK

LEMMA CompleteClosesOK ==
    ASSUME IInv, CompleteCloses
    PROVE  IInv'
<1> PICK x \in Thread : x = pT
  BY DEF CompleteCloses, IInv, TypeOK
<1>1. /\ AsyncClose(x) /\ pT' = Null
      /\ UNCHANGED <<message, pc, closing, killed, queues, channel, driver, victim>>
  BY DEF CompleteCloses
<1>2. OneHolder' /\ OneQueue' /\ DriverOK' /\ MediaOK' /\ Quiet' = Quiet
  BY <1>1, SameDriver DEF message, channel
<1>3. AccessOK' /\ access' \in [Thread -> Nat] /\ deleting' \in SUBSET Client
  <2>1. \A t \in Thread \ {x} : References(t)' = References(t)
    BY <1>1, Constants DEF References, message
  <2>2. References(x) = One(pc[x] \notin {"released", "deleted"}) + One(iState[x] # "EFree")
                         + 1 + One(pc[x] = "cancelled")
    BY DEF References, One
  <2>3. \A t \in Thread : References(t)' =
            One(pc[t] \notin {"released", "deleted"}) + One(iState[t] # "EFree")
            + 0 + One(pc[t] = "cancelled")
    BY <1>1, Constants DEF References, One, message
  <2>4. /\ References(x)' = References(x) - 1 /\ References(x) > 0
        /\ pc[x] \in {"released", "deleted"} \/ References(x) > 1
    <3>1. One(pc[x] = "cancelled") \in {0, 1} /\ One(iState[x] # "EFree") \in {0, 1}
      BY DEF One
    <3>2. CASE pc[x] \in {"released", "deleted"}
      <4>1. One(pc[x] \notin {"released", "deleted"}) = 0
        BY <3>2 DEF One
      <4> QED
        BY <1>1, <2>2, <2>3, <3>1, <3>2, <4>1
    <3>3. CASE pc[x] \notin {"released", "deleted"}
      <4>1. One(pc[x] \notin {"released", "deleted"}) = 1
        BY <3>3 DEF One
      <4> QED
        BY <1>1, <2>2, <2>3, <3>1, <3>3, <4>1
    <3> QED
      BY <3>2, <3>3
  <2> QED
    BY <1>1, <2>1, <2>4, AsyncCloseOK DEF message
<1>4. SemOK' /\ PcOK' /\ ChanOK'
  BY <1>1 DEF IInv, SemOK, PcOK, Asks, ChanOK, One, message, channel
<1>5. TypeOK'
  <2>1. UNCHANGED <<message, pc, closing, killed, queues, channel, place, media, victim>>
    BY <1>1 DEF driver
  <2>2. pT' \in Thread \cup {Null}
    BY <1>1
  <2>3. access' \in [Thread -> Nat] /\ deleting' \in SUBSET Client
    BY <1>3
  <2>4. pc' \in [Thread -> Pc]
    BY <2>1 DEF IInv, TypeOK
  <2>5. /\ iState' \in [Thread -> {"EFree", "EDelivered", "EAccepted"}]
        /\ iQueue' \in [Thread -> Que \cup {Null}]
        /\ iSem' \in [Thread -> -1..1]
        /\ iValue' \in [Thread -> Connection \cup {"request", "result", "KErrDied"}]
    BY <2>1 DEF IInv, TypeOK, message
  <2>6. /\ closing' \in [Thread -> BOOLEAN]
        /\ killed' \in [Thread -> BOOLEAN]
        /\ iQ' \in [Que -> Seq(Thread)]
        /\ iReady' \in BOOLEAN
        /\ iMessage' \in Thread \cup {Null}
        /\ queued' \in BOOLEAN
    BY <2>1 DEF IInv, TypeOK, queues
  <2>7. /\ localDrive' \in BOOLEAN
        /\ handle' \in BOOLEAN
        /\ creating' \in Thread \cup {Null}
        /\ chan' \in Nat \cup {Null}
        /\ iTempObj' \in [Thread -> BOOLEAN]
    BY <2>1 DEF IInv, TypeOK, channel
  <2>8. /\ at' \in At
        /\ back' \in {"idle", "loop", "opened"}
        /\ req' \in Thread \cup {Null}
        /\ pM' \in Thread \cup {Null}
        /\ pL' \in Thread \cup {Null}
        /\ mState' \in {"EClosed", "EOpening", "EReady"}
        /\ iCurrentReq' \in Thread \cup {Null}
        /\ current' \in Thread \cup {Null}
        /\ victim' \in Client \cup {Null}
    BY <2>1 DEF IInv, TypeOK, place, media
  <2> QED
    BY <2>2, <2>3, <2>4, <2>5, <2>6, <2>7, <2>8 DEF TypeOK
<1>6. CloseOK'
  BY <1>1, <1>2 DEF IInv, CloseOK, Asks, message, channel, driver, place, media
<1> QED
  BY <1>2, <1>3, <1>4, <1>5, <1>6 DEF IInv

-----------------------------------------------------------------------------
\* One thread more or less.
LEMMA Counts ==
    ASSUME NEW S \in SUBSET Thread, NEW x \in Thread
    PROVE  /\ Cardinality(S) \in Nat
           /\ x \notin S => Cardinality(S \cup {x}) = Cardinality(S) + 1
           /\ x \in S => Cardinality(S \ {x}) = Cardinality(S) - 1 /\ Cardinality(S) > 0
<1>1. IsFiniteSet(S)
  BY Constants, FS_Subset
<1>2. Cardinality(S) \in Nat
  BY <1>1, FS_CardinalityType
<1>3. x \notin S => Cardinality(S \cup {x}) = Cardinality(S) + 1
  BY <1>1, FS_AddElement
<1>4. x \in S => Cardinality(S \ {x}) = Cardinality(S) - 1
  BY <1>1, FS_RemoveElement
<1>5. x \in S => Cardinality(S) # 0
  BY <1>1, FS_EmptySet
<1> QED
  BY <1>2, <1>3, <1>4, <1>5

\* What threads do to the counts, unless they close a reference.
LEMMA SameAccess ==
    ASSUME IInv, UNCHANGED <<access, pT, deleting>>,
           \A t \in Thread : iState'[t] = "EFree" <=> iState[t] = "EFree",
           \A t \in Thread : \/ pc'[t] = pc[t]
                            \/ /\ pc'[t] \notin {"released", "deleted", "cancelled"}
                               /\ pc[t] \notin {"released", "deleted", "cancelled"}
    PROVE  AccessOK'
<1>1. \A t \in Thread : References(t)' = References(t)
  BY DEF References, One
<1> QED
  BY <1>1 DEF IInv, AccessOK

LEMMA FSWaitOK ==
    ASSUME IInv, NEW x \in Thread, FSWait(x)
    PROVE  IInv'
<1>1. /\ pc[x] = "FSWait" /\ iSem[x] = One(iState[x] = "EFree")
      /\ iSem' = [iSem EXCEPT ![x] = @ - 1]
      /\ pc' = [pc EXCEPT ![x] = IF iSem[x] > 0 THEN "sent" ELSE "blocked"]
      /\ UNCHANGED <<iState, iQueue, iValue, access, closing, killed, queues, channel, driver,
                     pT, supervisor>>
  BY DEF FSWait, IInv, SemOK
<1>2. /\ \A t \in Thread \ {x} : pc'[t] = pc[t] /\ iSem'[t] = iSem[t]
      /\ \/ iState[x] = "EFree" /\ iSem'[x] = 0 /\ pc'[x] = "sent"
         \/ iState[x] # "EFree" /\ iSem'[x] = -1 /\ pc'[x] = "blocked"
      /\ pc' \in [Thread -> Pc] /\ iSem' \in [Thread -> -1..1]
  BY <1>1 DEF IInv, TypeOK, One, Pc
<1>3. OneHolder' /\ OneQueue' /\ DriverOK' /\ MediaOK' /\ Quiet' = Quiet
  BY <1>1, SameDriver DEF channel
<1>4. SemOK'
  BY <1>1, <1>2 DEF IInv, SemOK, One
<1>5. PcOK'
  <2>1. victim # Null => victim \in Thread /\ victim # x
    BY <1>1, Constants DEF IInv, TypeOK, PcOK, Asks
  <2> QED
    BY <1>1, <1>2, <2>1 DEF IInv, PcOK, Asks, channel, supervisor, Calling, Dying
<1>6. ChanOK'
  <2>1. /\ {t \in Thread : pc'[t] = "close"} = {t \in Thread : pc[t] = "close"}
        /\ \A t \in Thread : pc'[t] = "close" <=> pc[t] = "close"
    BY <1>1, <1>2
  <2> QED
    BY <1>1, <2>1 DEF IInv, ChanOK, channel
<1>7. AccessOK'
  BY <1>1, <1>2, SameAccess DEF supervisor
<1>8. TypeOK'
  BY <1>1, <1>2 DEF IInv, TypeOK, queues, channel, driver, place, media, supervisor
<1>9. CloseOK'
  BY <1>1, <1>2, <1>3 DEF IInv, CloseOK, Asks, channel, driver, place, media
<1> QED
  BY <1>3, <1>4, <1>5, <1>6, <1>7, <1>8, <1>9 DEF IInv

LEMMA RequestReturnsOK ==
    ASSUME IInv, NEW x \in Thread, RequestReturns(x)
    PROVE  IInv'
<1>1. /\ pc[x] = "sent" /\ ~Asks(x) /\ iState[x] = "EFree" /\ iTempObj[x]
      /\ iTempObj' = [iTempObj EXCEPT ![x] = FALSE] /\ pc' = [pc EXCEPT ![x] = "close"]
      /\ UNCHANGED <<message, access, closing, killed, queues, localDrive, handle, chan, creating, driver, pT, supervisor>>
  BY DEF RequestReturns, IInv, TypeOK, SemOK, PcOK, Asks, Calling
<1>2. /\ \A t \in Thread : pc'[t] = IF t = x THEN "close" ELSE pc[t]
      /\ \A t \in Thread : iTempObj'[t] = IF t = x THEN FALSE ELSE iTempObj[t]
      /\ pc' \in [Thread -> Pc] /\ iTempObj' \in [Thread -> BOOLEAN]
  BY <1>1 DEF IInv, TypeOK, Pc
<1>3. OneHolder' /\ OneQueue' /\ DriverOK' /\ MediaOK' /\ Quiet' = Quiet
  BY <1>1, SameDriver DEF message, channel
<1>4. SemOK'
  BY <1>1, <1>2 DEF IInv, SemOK, One, message
<1>5. PcOK'
  <2>1. victim # Null => victim \in Thread /\ victim # x
    BY <1>1, Constants DEF IInv, TypeOK, PcOK, Asks
  <2> QED
    BY <1>1, <1>2, <2>1 DEF IInv, PcOK, Asks, message, supervisor, Calling, Dying
<1>6. ChanOK'
  <2> DEFINE S == {t \in Thread : iTempObj[t]}
             T == {t \in Thread : pc[t] = "close"}
  <2>1. /\ {t \in Thread : iTempObj'[t]} = S \ {x} /\ x \in S
        /\ {t \in Thread : pc'[t] = "close"} = T \cup {x} /\ x \notin T
    BY <1>1, <1>2
  <2>2. /\ Cardinality(S) \in Nat /\ Cardinality(T) \in Nat
        /\ Cardinality(S \ {x}) = Cardinality(S) - 1
        /\ Cardinality(T \cup {x}) = Cardinality(T) + 1
    BY <2>1, Counts
  <2>3. chan # Null /\ chan = One(handle) + One(creating # Null) + Cardinality(S) + Cardinality(T)
    BY <1>1 DEF IInv, ChanOK
  <2>4. One(handle) \in Nat /\ One(creating # Null) \in Nat
    BY DEF One
  <2>5. chan = One(handle) + One(creating # Null) + Cardinality(S \ {x}) + Cardinality(T \cup {x})
    BY <2>2, <2>3, <2>4
  <2> QED
    BY <1>1, <2>1, <2>3, <2>5 DEF ChanOK
<1>7. AccessOK'
  BY <1>1, <1>2, SameAccess DEF message, supervisor
<1>8. TypeOK'
  BY <1>1, <1>2 DEF IInv, TypeOK, message, queues, driver, place, media, supervisor
<1>9. CloseOK'
  BY <1>1, <1>2, <1>3 DEF IInv, CloseOK, Asks, message, driver, place, media
<1> QED
  BY <1>3, <1>4, <1>5, <1>6, <1>7, <1>8, <1>9 DEF IInv

LEMMA HandleCloseOK ==
    ASSUME IInv, NEW x \in Client, HandleClose(x)
    PROVE  IInv'
<1>1. /\ x \in Thread /\ pc[x] = "run" /\ ~Asks(x) /\ iState[x] = "EFree" /\ ~iTempObj[x]
      /\ handle /\ handle' = FALSE /\ pc' = [pc EXCEPT ![x] = "close"]
      /\ UNCHANGED <<message, access, closing, killed, queues, localDrive, chan, creating, iTempObj, driver, pT, supervisor>>
  BY Constants DEF HandleClose, IInv, SemOK, PcOK, Asks, Calling
<1>2. /\ \A t \in Thread : pc'[t] = IF t = x THEN "close" ELSE pc[t]
      /\ pc' \in [Thread -> Pc]
  BY <1>1 DEF IInv, TypeOK, Pc
<1>3. OneHolder' /\ OneQueue' /\ DriverOK' /\ MediaOK' /\ Quiet' = Quiet
  BY <1>1, SameDriver DEF message, channel
<1>4. SemOK'
  BY <1>1, <1>2 DEF IInv, SemOK, One, message
<1>5. PcOK'
  <2>1. victim # Null => victim \in Thread /\ victim # x
    BY <1>1, Constants DEF IInv, TypeOK, PcOK, Asks
  <2> QED
    BY <1>1, <1>2, <2>1 DEF IInv, PcOK, Asks, message, supervisor, Calling, Dying
<1>6. ChanOK'
  <2> DEFINE S == {t \in Thread : iTempObj[t]}
             T == {t \in Thread : pc[t] = "close"}
  <2>1. /\ {t \in Thread : iTempObj'[t]} = S
        /\ {t \in Thread : pc'[t] = "close"} = T \cup {x} /\ x \notin T
    BY <1>1, <1>2
  <2>2. /\ Cardinality(S) \in Nat /\ Cardinality(T) \in Nat
        /\ Cardinality(T \cup {x}) = Cardinality(T) + 1
    BY <1>1, <2>1, Counts
  <2>3. chan # Null /\ chan = One(handle) + One(creating # Null) + Cardinality(S) + Cardinality(T)
    BY <1>1 DEF IInv, ChanOK
  <2>4. One(handle) = 1 /\ One(handle') = 0 /\ One(creating # Null) \in Nat
    BY <1>1 DEF One
  <2>5. chan = One(handle') + One(creating # Null) + Cardinality(S) + Cardinality(T \cup {x})
    BY <2>2, <2>3, <2>4
  <2> QED
    BY <1>1, <2>1, <2>3, <2>5 DEF ChanOK
<1>7. AccessOK'
  BY <1>1, <1>2, SameAccess DEF message, supervisor
<1>8. TypeOK'
  <2>1. handle' \in BOOLEAN
    BY <1>1
  <2> QED
    BY <1>1, <1>2, <2>1 DEF IInv, TypeOK, message, queues, driver, place, media, supervisor
<1>9. CloseOK'
  BY <1>1, <1>2, <1>3 DEF IInv, CloseOK, Asks, message, driver, place, media
<1> QED
  BY <1>3, <1>4, <1>5, <1>6, <1>7, <1>8, <1>9 DEF IInv

LEMMA CloseStepOK ==
    ASSUME IInv, NEW x \in Thread, Close(x)
    PROVE  IInv'
<1> DEFINE S == {t \in Thread : iTempObj[t]}
           T == {t \in Thread : pc[t] = "close"}
<1>1. /\ pc[x] = "close" /\ iState[x] = "EFree" /\ ~iTempObj[x] /\ ~Asks(x)
      /\ chan' = chan - 1
      /\ UNCHANGED <<iState, iQueue, iSem, access, killed, queues, localDrive, handle, creating, iTempObj, driver, pT,
                     supervisor>>
  BY DEF Close, IInv, SemOK, PcOK, Asks, Calling
<1>2. /\ Cardinality(S) \in Nat /\ Cardinality(T) \in Nat /\ Cardinality(T) > 0
      /\ Cardinality(T \ {x}) = Cardinality(T) - 1
  BY <1>1, Counts
<1>3. /\ chan # Null /\ chan = One(handle) + One(creating # Null) + Cardinality(S) + Cardinality(T)
      /\ One(handle) \in Nat /\ One(creating # Null) \in Nat
      /\ chan \in Nat \ {0} /\ chan' \in Nat /\ chan' # Null
  <2>1. chan # Null /\ chan = One(handle) + One(creating # Null) + Cardinality(S) + Cardinality(T)
    BY <1>1 DEF IInv, ChanOK
  <2>2. One(handle) \in Nat /\ One(creating # Null) \in Nat
    BY DEF One
  <2>3. chan \in Nat \ {0} /\ chan' \in Nat
    BY <1>1, <1>2, <2>1, <2>2
  <2> QED
    BY <2>1, <2>2, <2>3, MessageAssumption
<1>4. \A t \in Thread : ~closing[t]
  BY <1>3 DEF IInv, CloseOK, Asks
<1>5. /\ \A t \in Thread \ {x} : pc'[t] = pc[t] /\ closing'[t] = closing[t] /\ iValue'[t] = iValue[t]
      /\ pc'[x] # "close"
      /\ \/ /\ chan = 1 /\ closing'[x] /\ pc'[x] = "send"
            /\ iValue'[x] = IF localDrive THEN "EDisconnect" ELSE "ECloseMsg"
         \/ /\ ~closing'[x] /\ iValue'[x] = iValue[x]
            /\ \/ pc'[x] = "run"
               \/ pc'[x] = "exit" /\ killed[x]
      /\ pc' \in [Thread -> Pc] /\ closing' \in [Thread -> BOOLEAN]
      /\ iValue' \in [Thread -> Connection \cup {"request", "result", "KErrDied"}]
  <2>1. CASE chan = 1
    BY <1>1, <2>1 DEF Close, IInv, TypeOK, Pc, Connection, Disconnect
  <2>2. CASE chan # 1
    BY <1>1, <1>4, <2>2 DEF Close, LeaveCS, IInv, TypeOK, Pc
  <2> QED
    BY <2>1, <2>2
<1>6. OneHolder' /\ OneQueue' /\ DriverOK' /\ MediaOK' /\ Quiet' = Quiet
  BY <1>1, <1>5, SameDriver
<1>7. SemOK'
  BY <1>1, <1>5 DEF IInv, SemOK, One
<1>8. PcOK'
  <2>1. victim # Null => victim \in Thread /\ victim # x
    BY <1>1, Constants DEF IInv, TypeOK, PcOK, Asks
  <2>2. victim' # Null => pc'[victim'] = "dead"
    BY <1>1, <1>5, <2>1 DEF IInv, PcOK, Asks, supervisor
  <2> QED
    BY <1>1, <1>4, <1>5, <2>2 DEF IInv, PcOK, Asks, Calling, Dying
<1>9. ChanOK'
  <2>1. /\ {t \in Thread : iTempObj'[t]} = S
        /\ {t \in Thread : pc'[t] = "close"} = T \ {x}
    BY <1>1, <1>5
  <2>2. chan - 1 = One(handle) + One(creating # Null) + Cardinality(S) + Cardinality(T \ {x})
    BY <1>2, <1>3
  <2> QED
    BY <1>1, <1>3, <2>1, <2>2 DEF ChanOK
<1>10. AccessOK'
  BY <1>1, <1>5, SameAccess DEF supervisor
<1>11. TypeOK'
  BY <1>1, <1>3, <1>5 DEF IInv, TypeOK, queues, driver, place, media, supervisor
<1>12. CloseOK'
  <2>1. \A t \in Thread : closing'[t] => t = x /\ chan' = 0
    BY <1>1, <1>3, <1>4, <1>5
  <2>2. x \notin {pM, iCurrentReq, current}
    BY <1>1, Constants DEF IInv, OneHolder, Held
  <2>3. closing'[x] => pc'[x] = "send" /\ iValue'[x] \in Connection
    BY <1>5 DEF Connection, Disconnect
  <2>4. \A t \in Thread : /\ closing[t] => closing'[t]
                          /\ creating' = creating
    BY <1>1, <1>4, <1>5
  <2>5. \A t \in Thread : iState'[t] # "EFree" /\ iValue'[t] \in Connection => Asks(t)'
    BY <1>1, <1>5, <2>4 DEF IInv, CloseOK, Asks
  <2>6. \A t \in Thread : Asks(t)' =>
          /\ t \notin {pM', iCurrentReq', current'}
          /\ ~(iState'[t] = "EDelivered" /\ iQueue'[t] = "deferred")
          /\ pc'[t] = "send" \/ iState'[t] # "EFree" => iValue'[t] \in Connection
    <3> TAKE t \in Thread
    <3>1. CASE t = x
      BY <1>1, <2>2, <2>3, <3>1 DEF driver, place, media, Asks
    <3>2. CASE t # x
      BY <1>1, <1>5, <3>2 DEF IInv, CloseOK, Asks, driver, place, media
    <3> QED
      BY <3>1, <3>2
  <2>7. /\ \A t \in Thread : iValue'[t] = "ECloseMsg" => ~localDrive'
        /\ \A t \in Thread : iValue'[t] \in {"EConnect", "EDisconnect"} => localDrive'
        /\ creating' # Null => localDrive' /\ ~handle'
    BY <1>1, <1>5 DEF IInv, CloseOK
  <2> QED
    BY <1>1, <1>3, <1>5, <2>1, <2>5, <2>6, <2>7 DEF CloseOK
<1> QED
  BY <1>6, <1>7, <1>8, <1>9, <1>10, <1>11, <1>12 DEF IInv

LEMMA DeleteChannelOK ==
    ASSUME IInv, NEW x \in Thread, DeleteChannel(x)
    PROVE  IInv'
<1>1. /\ pc[x] = "sent" /\ closing[x] /\ iState[x] = "EFree" /\ ~iTempObj[x]
      /\ chan = 0 /\ Quiet /\ \A t \in Thread : closing[t] => t = x
      /\ chan' = Null
      /\ UNCHANGED <<message, access, killed, queues, localDrive, handle, creating, iTempObj,
                     driver, pT, supervisor>>
  BY DEF DeleteChannel, IInv, TypeOK, SemOK, PcOK, CloseOK, Calling, Asks
<1>2. /\ \A t \in Thread \ {x} : pc'[t] = pc[t]
      /\ \/ pc'[x] = "run"
         \/ pc'[x] = "exit" /\ killed[x]
      /\ \A t \in Thread : closing'[t] = FALSE
      /\ pc' \in [Thread -> Pc] /\ closing' \in [Thread -> BOOLEAN]
  BY <1>1 DEF DeleteChannel, LeaveCS, IInv, TypeOK, Pc
<1>3. OneHolder' /\ OneQueue' /\ DriverOK' /\ MediaOK' /\ Quiet' = Quiet
  <2>1. \A t \in Thread : iState[t] # "EFree" => closing[t] = FALSE
    BY <1>1 DEF IInv, TypeOK
  <2> QED
    BY <1>1, <1>2, <2>1, SameDriver DEF message
<1>4. SemOK'
  BY <1>1, <1>2 DEF IInv, SemOK, One, message
<1>5. ~handle /\ creating = Null /\ \A t \in Thread : ~iTempObj[t] /\ pc[t] # "close"
  BY <1>1, NoUsers DEF IInv
<1>6. /\ \A t \in Thread : Asks(t) => t = x
      /\ \A t \in Thread : ~Asks(t)'
  BY <1>1, <1>2, <1>5, Constants DEF Asks
<1>7. PcOK'
  <2>1. victim # Null => victim \in Thread /\ victim # x
    BY <1>1, Constants DEF IInv, TypeOK, PcOK
  <2>2. victim' # Null => pc'[victim'] = "dead"
    BY <1>1, <1>2, <2>1 DEF IInv, PcOK, supervisor
  <2>3. \A t \in Thread \ {x} : ~Asks(t)
    BY <1>6
  <2> QED
    BY <1>1, <1>2, <1>5, <1>6, <2>2, <2>3 DEF IInv, PcOK, message, Calling, Dying
<1>8. ChanOK'
  <2>1. chan' = Null /\ ~handle' /\ creating' = Null /\ \A t \in Thread : ~iTempObj'[t] /\ pc'[t] # "close"
    BY <1>1, <1>2, <1>5
  <2> QED
    BY <2>1 DEF ChanOK
<1>9. AccessOK'
  BY <1>1, <1>2, SameAccess DEF message, supervisor
<1>10. TypeOK'
  BY <1>1, <1>2 DEF IInv, TypeOK, message, queues, driver, place, media, supervisor
<1>11. CloseOK'
  <2>1. \A t \in Thread : ~(iState'[t] # "EFree" /\ iValue'[t] \in Connection)
    BY <1>1, <1>6 DEF IInv, CloseOK, message
  <2>2. Quiet' /\ \A t \in Thread : ~closing'[t]
    BY <1>1, <1>2, <1>3
  <2>3. /\ \A t \in Thread : iValue'[t] = "ECloseMsg" => ~localDrive'
        /\ \A t \in Thread : iValue'[t] \in {"EConnect", "EDisconnect"} => localDrive'
        /\ creating' = Null
    BY <1>1, <1>5 DEF IInv, CloseOK, message
  <2> QED
    BY <1>6, <2>1, <2>2, <2>3 DEF CloseOK
<1> QED
  BY <1>3, <1>4, <1>7, <1>8, <1>9, <1>10, <1>11 DEF IInv

\* A channel is created: one with a queue of its own receives at once, and ...
LEMMA ChannelCreateOK ==
    ASSUME IInv, NEW x \in Client, ChannelCreate(x)
    PROVE  IInv'
<1>1. /\ x \in Thread /\ pc[x] = "run" /\ iState[x] = "EFree"
      /\ chan = Null /\ chan' = 1 /\ ~handle /\ creating = Null /\ Quiet
      /\ \A t \in Thread : ~iTempObj[t] /\ pc[t] # "close"
      /\ \A t \in Thread : ~Asks(t) /\ closing[t] = FALSE
      /\ \A t \in Thread : iState[t] # "EFree" => iValue[t] \notin Connection
      /\ UNCHANGED <<iState, iQueue, iSem, access, closing, killed, iQ, queued, localDrive,
                     iTempObj, driver, pT, supervisor>>
  <2>1. chan = Null /\ chan # 0 /\ pc[x] = "run" /\ x \in Thread
    BY Constants, MessageAssumption DEF ChannelCreate
  <2>2. \A t \in Thread : closing[t] = FALSE
    BY <2>1 DEF IInv, TypeOK, CloseOK
  <2>3. creating = Null /\ \A t \in Thread : ~Asks(t)
    BY <2>1, <2>2, Constants DEF IInv, ChanOK, Asks
  <2> QED
    BY <2>1, <2>2, <2>3 DEF ChannelCreate, IInv, ChanOK, SemOK, CloseOK
<1>2. chan' # Null /\ 1 \in Nat /\ x # Null
  BY <1>1, MessageAssumption, Constants
<1>3. CASE ~localDrive
  <2>1. /\ handle' = TRUE /\ iReady' = TRUE /\ iMessage' = Null
        /\ UNCHANGED <<creating, iValue, pc>>
        /\ ~queued /\ at = "idle" /\ back = "idle" /\ iMessage = Null /\ iQ["main"] = <<>>
    BY <1>1, <1>3 DEF ChannelCreate, Quiet, Idle, IInv, DriverOK
  <2>2. OneHolder' /\ OneQueue' /\ SemOK'
    BY <1>1, <2>1 DEF IInv, OneHolder, Held, OneQueue, SemOK, One, driver, place, media
  <2>3. PcOK'
    BY <1>1, <2>1 DEF IInv, PcOK, Asks, supervisor
  <2>4. DriverOK' /\ MediaOK'
    BY <1>1, <2>1 DEF IInv, DriverOK, InMain, MediaOK, driver, place, media
  <2>5. ChanOK'
    <3>1. {t \in Thread : iTempObj'[t]} = {} /\ {t \in Thread : pc'[t] = "close"} = {}
      BY <1>1, <2>1
    <3>2. Cardinality({t \in Thread : iTempObj'[t]}) = 0
          /\ Cardinality({t \in Thread : pc'[t] = "close"}) = 0
      BY <3>1, FS_EmptySet
    <3>3. One(handle') = 1 /\ One(creating' # Null) = 0
      BY <1>1, <2>1 DEF One
    <3> QED
      BY <1>1, <1>2, <3>2, <3>3 DEF ChanOK
  <2>6. AccessOK'
    BY <1>1, <2>1, SameAccess DEF supervisor
  <2>7. TypeOK'
    <3>1. handle' \in BOOLEAN /\ iReady' \in BOOLEAN /\ chan' \in Nat
      BY <1>1, <2>1
    <3> QED
      BY <1>1, <2>1, <3>1 DEF IInv, TypeOK, driver, place, media, supervisor
  <2>8. CloseOK'
    <3>1. \A t \in Thread : ~Asks(t)' /\ ~closing'[t]
      BY <1>1, <2>1 DEF Asks
    <3>2. /\ \A t \in Thread : iValue'[t] = "ECloseMsg" => ~localDrive'
          /\ \A t \in Thread : iValue'[t] \in {"EConnect", "EDisconnect"} => localDrive'
          /\ creating' = Null
      BY <1>1, <2>1 DEF IInv, CloseOK
    <3> QED
      BY <1>1, <1>2, <2>1, <3>1, <3>2 DEF CloseOK
  <2> QED
    BY <2>2, <2>3, <2>4, <2>5, <2>6, <2>7, <2>8 DEF IInv
\* ... a local drive is connected first.
<1>4. CASE localDrive
  <2>1. /\ creating' = x /\ iValue' = [iValue EXCEPT ![x] = "EConnect"]
        /\ pc' = [pc EXCEPT ![x] = "send"] /\ UNCHANGED <<handle, queues>>
    BY <1>1, <1>4 DEF ChannelCreate, queues
  <2>2. /\ \A t \in Thread : pc'[t] = IF t = x THEN "send" ELSE pc[t]
        /\ \A t \in Thread : iValue'[t] = IF t = x THEN "EConnect" ELSE iValue[t]
        /\ pc' \in [Thread -> Pc]
        /\ iValue' \in [Thread -> Connection \cup {"request", "result", "KErrDied"}]
    BY <1>1, <2>1 DEF IInv, TypeOK, Pc, Connection
  <2>3. OneHolder' /\ OneQueue' /\ DriverOK' /\ MediaOK' /\ Quiet' = Quiet
    BY <1>1, <2>1, SameDriver
  <2>4. SemOK'
    BY <1>1, <2>2 DEF IInv, SemOK, One
  <2>5. \A t \in Thread : Asks(t)' <=> t = x
    BY <1>1, <1>2, <2>1 DEF Asks
  <2>6. PcOK'
    <3>1. victim # Null => victim \in Thread /\ victim # x
      BY <1>1, Constants DEF IInv, TypeOK, PcOK
    <3>2. victim' # Null => pc'[victim'] = "dead"
      BY <1>1, <2>2, <3>1 DEF IInv, PcOK, supervisor
    <3> QED
      BY <1>1, <2>2, <2>5, <3>2 DEF IInv, PcOK, Calling, Dying
  <2>7. ChanOK'
    <3>1. {t \in Thread : iTempObj'[t]} = {} /\ {t \in Thread : pc'[t] = "close"} = {}
      BY <1>1, <2>2
    <3>2. Cardinality({t \in Thread : iTempObj'[t]}) = 0
          /\ Cardinality({t \in Thread : pc'[t] = "close"}) = 0
      BY <3>1, FS_EmptySet
    <3>3. One(handle') = 0 /\ One(creating' # Null) = 1
      BY <1>1, <1>2, <2>1 DEF One
    <3> QED
      BY <1>1, <1>2, <3>2, <3>3 DEF ChanOK
  <2>8. AccessOK'
    BY <1>1, <2>2, SameAccess DEF supervisor
  <2>9. TypeOK'
    BY <1>1, <1>2, <2>1, <2>2 DEF IInv, TypeOK, queues, driver, place, media, supervisor
  <2>10. CloseOK'
    <3>1. x \notin {pM, iCurrentReq, current}
      BY <1>1, <1>2 DEF IInv, OneHolder, Held
    <3>2. \A t \in Thread : Asks(t)' =>
            /\ t \notin {pM', iCurrentReq', current'}
            /\ ~(iState'[t] = "EDelivered" /\ iQueue'[t] = "deferred")
            /\ iValue'[t] \in Connection
      BY <1>1, <2>2, <2>5, <3>1 DEF Connection, driver, place, media
    <3>3. \A t \in Thread : iState'[t] # "EFree" /\ iValue'[t] \in Connection => Asks(t)'
      BY <1>1, <2>2, <2>5
    <3>4. /\ \A t \in Thread : iValue'[t] = "ECloseMsg" => ~localDrive'
          /\ \A t \in Thread : iValue'[t] \in {"EConnect", "EDisconnect"} => localDrive'
          /\ localDrive' /\ ~handle' /\ chan' # Null
      BY <1>1, <1>2, <1>4, <2>1, <2>2 DEF IInv, CloseOK
    <3>5. \A t \in Thread : ~closing'[t]
      BY <1>1
    <3> QED
      BY <3>2, <3>3, <3>4, <3>5 DEF CloseOK
  <2> QED
    BY <2>3, <2>4, <2>6, <2>7, <2>8, <2>9, <2>10 DEF IInv
<1> QED
  BY <1>3, <1>4

\* It has been connected, and the process gets a handle.
LEMMA ConnectedOK ==
    ASSUME IInv, NEW x \in Thread, Connected(x)
    PROVE  IInv'
<1>1. /\ pc[x] = "sent" /\ creating = x /\ iState[x] = "EFree" /\ ~iTempObj[x]
      /\ localDrive /\ ~handle /\ chan # Null
      /\ creating' = Null /\ handle' = TRUE /\ handle' \in BOOLEAN
      /\ UNCHANGED <<message, access, closing, killed, queues, localDrive, chan, iTempObj, driver,
                     pT, supervisor>>
  BY Constants DEF Connected, IInv, ChanOK, SemOK, PcOK, CloseOK, Asks
<1>2. /\ \A t \in Thread \ {x} : pc'[t] = pc[t]
      /\ \/ pc'[x] = "run"
         \/ pc'[x] = "exit" /\ killed[x]
      /\ pc' \in [Thread -> Pc]
  BY <1>1 DEF Connected, LeaveCS, IInv, TypeOK, Pc
<1>3. OneHolder' /\ OneQueue' /\ DriverOK' /\ MediaOK' /\ Quiet' = Quiet
  BY <1>1, SameDriver DEF message
<1>4. SemOK'
  BY <1>1, <1>2 DEF IInv, SemOK, One, message
<1>5. /\ chan # 0 /\ \A t \in Thread : ~closing[t]
      /\ \A t \in Thread : Asks(t) <=> t = x
      /\ \A t \in Thread : ~Asks(t)'
  <2>1. chan # 0
    BY <1>1, NoUsers, Constants DEF IInv
  <2> QED
    BY <1>1, <2>1, Constants DEF IInv, CloseOK, Asks
<1>6. PcOK'
  <2>1. victim # Null => victim \in Thread /\ victim # x
    BY <1>1, Constants DEF IInv, TypeOK, PcOK
  <2>2. victim' # Null => pc'[victim'] = "dead"
    BY <1>1, <1>2, <2>1 DEF IInv, PcOK, supervisor
  <2> QED
    BY <1>1, <1>2, <1>5, <2>2 DEF IInv, PcOK, message, Calling, Dying
<1>7. ChanOK'
  <2>1. /\ {t \in Thread : iTempObj'[t]} = {t \in Thread : iTempObj[t]}
        /\ {t \in Thread : pc'[t] = "close"} = {t \in Thread : pc[t] = "close"}
    BY <1>1, <1>2
  <2>2. /\ One(handle) = 0 /\ One(creating # Null) = 1
        /\ One(handle') = 1 /\ One(creating' # Null) = 0
    BY <1>1, Constants DEF One
  <2> QED
    BY <1>1, <2>1, <2>2 DEF IInv, ChanOK
<1>8. AccessOK'
  BY <1>1, <1>2, SameAccess DEF message, supervisor
<1>9. TypeOK'
  BY <1>1, <1>2 DEF IInv, TypeOK, message, queues, driver, place, media, supervisor
<1>10. CloseOK'
  <2>1. \A t \in Thread : iState'[t] # "EFree" => iValue'[t] \notin Connection
    BY <1>1, <1>5 DEF IInv, CloseOK, message
  <2>2. /\ \A t \in Thread : iValue'[t] = "ECloseMsg" => ~localDrive'
        /\ \A t \in Thread : iValue'[t] \in {"EConnect", "EDisconnect"} => localDrive'
        /\ creating' = Null /\ chan' # Null /\ \A t \in Thread : ~closing'[t]
    BY <1>1, <1>5 DEF IInv, CloseOK, message
  <2> QED
    BY <1>5, <2>1, <2>2 DEF CloseOK
<1> QED
  BY <1>3, <1>4, <1>6, <1>7, <1>8, <1>9, <1>10 DEF IInv

LEMMA ChannelRequestOK ==
    ASSUME IInv, NEW x \in Client, ChannelRequest(x)
    PROVE  IInv'
<1> DEFINE S == {t \in Thread : iTempObj[t]}
           T == {t \in Thread : pc[t] = "close"}
<1>1. /\ x \in Thread /\ pc[x] = "run" /\ ~Asks(x) /\ iState[x] = "EFree" /\ ~iTempObj[x]
      /\ handle /\ creating = Null /\ chan' = chan + 1
      /\ iTempObj' = [iTempObj EXCEPT ![x] = TRUE]
      /\ iValue' = [iValue EXCEPT ![x] = "request"] /\ pc' = [pc EXCEPT ![x] = "send"]
      /\ UNCHANGED <<iState, iQueue, iSem, access, closing, killed, queues, localDrive, handle, creating, driver, pT,
                     supervisor>>
  BY Constants DEF ChannelRequest, IInv, SemOK, PcOK, CloseOK, Calling, Asks
<1>2. /\ \A t \in Thread : pc'[t] = IF t = x THEN "send" ELSE pc[t]
      /\ \A t \in Thread : iTempObj'[t] = IF t = x THEN TRUE ELSE iTempObj[t]
      /\ \A t \in Thread : iValue'[t] = IF t = x THEN "request" ELSE iValue[t]
      /\ pc' \in [Thread -> Pc] /\ iTempObj' \in [Thread -> BOOLEAN]
      /\ iValue' \in [Thread -> Connection \cup {"request", "result", "KErrDied"}]
  BY <1>1 DEF IInv, TypeOK, Pc
<1>3. /\ chan # Null /\ chan \in Nat \ {0} /\ chan' \in Nat /\ chan' # Null
      /\ chan = One(handle) + One(creating # Null) + Cardinality(S) + Cardinality(T)
  <2>1. chan # 0 /\ chan # Null
    BY <1>1, NoUsers DEF IInv
  <2>2. chan = One(handle) + One(creating # Null) + Cardinality(S) + Cardinality(T)
    BY <2>1 DEF IInv, ChanOK
  <2> HIDE DEF S, T
  <2>3. chan \in Nat \ {0} /\ chan' \in Nat
    BY <1>1, <2>1 DEF IInv, TypeOK
  <2> QED
    BY <2>1, <2>2, <2>3, MessageAssumption
<1>4. \A t \in Thread : closing[t] = FALSE
  BY <1>3 DEF IInv, TypeOK, CloseOK, Asks
<1>5. OneHolder' /\ OneQueue' /\ DriverOK' /\ MediaOK' /\ Quiet' = Quiet
  BY <1>1, SameDriver DEF channel
<1>6. SemOK'
  BY <1>1, <1>2 DEF IInv, SemOK, One
<1>7. PcOK'
  <2>1. victim # Null => victim \in Thread /\ victim # x
    BY <1>1, Constants DEF IInv, TypeOK, PcOK, Asks
  <2>2. victim' # Null => pc'[victim'] = "dead"
    BY <1>1, <1>2, <2>1 DEF IInv, PcOK, Asks, supervisor
  <2> QED
    BY <1>1, <1>2, <1>4, <2>2 DEF IInv, PcOK, Asks, Calling, Dying
<1>8. ChanOK'
  <2>1. /\ {t \in Thread : iTempObj'[t]} = S \cup {x} /\ x \notin S
        /\ {t \in Thread : pc'[t] = "close"} = T
    BY <1>1, <1>2
  <2>2. /\ Cardinality(S) \in Nat /\ Cardinality(T) \in Nat
        /\ Cardinality(S \cup {x}) = Cardinality(S) + 1
    BY <1>1, <2>1, Counts
  <2>3. One(handle) \in Nat /\ One(creating # Null) \in Nat
    BY DEF One
  <2>4. chan' = One(handle) + One(creating # Null) + Cardinality(S \cup {x}) + Cardinality(T)
    <3>1. chan' = chan + 1
      BY <1>1
    <3> HIDE DEF S, T
    <3>2. \A a, b, c, d, e \in Nat : a = b + e + c + d => a + 1 = b + e + (c + 1) + d
      OBVIOUS
    <3> QED
      BY <1>3, <2>2, <2>3, <3>1, <3>2
  <2> QED
    BY <1>1, <1>3, <2>1, <2>4 DEF ChanOK
<1>9. AccessOK'
  BY <1>1, <1>2, SameAccess DEF supervisor
<1>10. TypeOK'
  <2>1. UNCHANGED <<iState, iQueue, iSem, access, closing, killed, queues, localDrive, handle,
                    creating, place, media, pT, supervisor>>
    BY <1>1 DEF driver
  <2> QED
    BY <1>2, <1>3, <2>1 DEF IInv, TypeOK, queues, place, media, supervisor
<1>11. CloseOK'
  <2>1. \A t \in Thread : ~Asks(t)' /\ ~closing'[t]
    BY <1>1, <1>4, Constants DEF Asks
  <2>2. \A t \in Thread : iState'[t] # "EFree" => iValue'[t] \notin Connection
    BY <1>1, <1>2, <1>4, <2>1 DEF IInv, CloseOK, Asks
  <2>3. /\ \A t \in Thread : iValue'[t] = "ECloseMsg" => ~localDrive'
        /\ \A t \in Thread : iValue'[t] \in {"EConnect", "EDisconnect"} => localDrive'
        /\ creating' = Null
    BY <1>1, <1>2 DEF IInv, CloseOK
  <2> QED
    BY <1>3, <2>1, <2>2, <2>3 DEF CloseOK
<1> QED
  BY <1>5, <1>6, <1>7, <1>8, <1>9, <1>10, <1>11 DEF IInv

\* A message is sent: it is put on iMsgQ, or received at once.
LEMMA SendOK ==
    ASSUME IInv, NEW x \in Thread, Send(x)
    PROVE  IInv'
<1>1. /\ pc[x] = "send" /\ iState[x] = "EFree" /\ (iTempObj[x] \/ Asks(x))
      /\ Asks(x) \/ iValue[x] = "request"
      /\ Give(x, "main")
      /\ iSem' = [iSem EXCEPT ![x] = 0] /\ access' = [access EXCEPT ![x] = @ + 1]
      /\ pc' = [pc EXCEPT ![x] = "FSWait"]
      /\ UNCHANGED <<iValue, closing, killed, channel, driver, pT, supervisor>>
  BY DEF Send, IInv, SemOK, PcOK, Calling
<1>2. /\ iQueue' = [iQueue EXCEPT ![x] = "main"]
      /\ \/ /\ iReady /\ iState' = [iState EXCEPT ![x] = "EAccepted"]
            /\ iMessage' = x /\ iReady' = FALSE /\ queued' = TRUE /\ UNCHANGED iQ
         \/ /\ ~iReady /\ iState' = [iState EXCEPT ![x] = "EDelivered"]
            /\ iQ' = [iQ EXCEPT !["main"] = Append(@, x)]
            /\ UNCHANGED <<iMessage, iReady, queued>>
  BY <1>1 DEF Give
<1>3. /\ \A t \in Thread : pc'[t] = IF t = x THEN "FSWait" ELSE pc[t]
      /\ \A t \in Thread : iSem'[t] = IF t = x THEN 0 ELSE iSem[t]
      /\ \A t \in Thread : access'[t] = IF t = x THEN access[x] + 1 ELSE access[t]
      /\ \A t \in Thread : iQueue'[t] = IF t = x THEN "main" ELSE iQueue[t]
      /\ \A t \in Thread \ {x} : iState'[t] = iState[t]
      /\ iState'[x] \in {"EAccepted", "EDelivered"}
      /\ iState' \in [Thread -> {"EFree", "EDelivered", "EAccepted"}]
      /\ pc' \in [Thread -> Pc] /\ iSem' \in [Thread -> -1..1]
      /\ iQueue' \in [Thread -> Que \cup {Null}] /\ access' \in [Thread -> Nat]
  <2>1. access[x] \in Nat /\ access[x] + 1 \in Nat /\ 0 \in -1..1
    BY DEF IInv, TypeOK
  <2>2. /\ \A t \in Thread : access'[t] = IF t = x THEN access[x] + 1 ELSE access[t]
        /\ access' \in [Thread -> Nat]
    BY <1>1, <2>1 DEF IInv, TypeOK
  <2>3. /\ \A t \in Thread : iSem'[t] = IF t = x THEN 0 ELSE iSem[t]
        /\ iSem' \in [Thread -> -1..1]
    BY <1>1, <2>1 DEF IInv, TypeOK
  <2> QED
    BY <1>1, <1>2, <2>2, <2>3 DEF IInv, TypeOK, Pc, Que
<1>4. /\ \A t \in Thread : closing[t] => t = x /\ chan = 0
      /\ chan # Null
  <2>1. CASE closing[x]
    BY <2>1, MessageAssumption DEF IInv, CloseOK
  <2>2. CASE iTempObj[x] \/ creating = x
    <3>1. chan # 0 /\ chan # Null
      BY <2>2, NoUsers, Constants DEF IInv
    <3> QED
      BY <3>1 DEF IInv, CloseOK
  <2> QED
    BY <1>1, <2>1, <2>2 DEF Asks
<1>5. /\ Append(iQ["main"], x) \in Seq(Thread)
      /\ Inj(Append(iQ["main"], x))
      /\ Range(Append(iQ["main"], x)) = Range(iQ["main"]) \cup {x}
  <2>1. iQ["main"] \in Seq(Thread) /\ Inj(iQ["main"]) /\ x \notin Range(iQ["main"])
    BY <1>1 DEF IInv, TypeOK, OneQueue, Que
  <2> QED
    BY <2>1, AppendQueue
<1>6. TypeOK'
  <2>1. /\ iQ' \in [Que -> Seq(Thread)] /\ iReady' \in BOOLEAN /\ queued' \in BOOLEAN
        /\ iMessage' \in Thread \cup {Null}
    <3>1. CASE iReady
      <4>1. iReady' \in BOOLEAN /\ queued' \in BOOLEAN
        BY <1>2, <3>1
      <4> QED
        BY <1>2, <3>1, <4>1 DEF IInv, TypeOK
    <3>2. CASE ~iReady
      <4>1. iQ' = [iQ EXCEPT !["main"] = Append(iQ["main"], x)] /\ UNCHANGED <<iMessage, iReady, queued>>
        BY <1>2, <3>2
      <4>2. iQ' \in [Que -> Seq(Thread)]
        BY <1>5, <4>1 DEF IInv, TypeOK
      <4> QED
        BY <4>1, <4>2 DEF IInv, TypeOK
    <3> QED
      BY <3>1, <3>2
  <2> QED
    BY <1>1, <1>3, <2>1 DEF IInv, TypeOK, channel, driver, place, media, supervisor
<1>7. OneHolder'
  <2>1. x \notin {iMessage, req, pM, iCurrentReq, current}
    BY <1>1, Constants DEF IInv, OneHolder, Held
  <2>2. iReady => iMessage = Null
    BY DEF IInv, DriverOK
  <2> QED
    BY <1>1, <1>2, <1>3, <2>1, <2>2, Constants DEF IInv, OneHolder, Held, driver, place, media
<1>8. OneQueue'
  <2>1. CASE iReady
    BY <1>1, <1>2, <1>3, <2>1 DEF IInv, OneQueue, TypeOK
  <2>2. CASE ~iReady
    <3>1. iQ'["deferred"] = iQ["deferred"] /\ iQ'["main"] = Append(iQ["main"], x)
          /\ iState'[x] = "EDelivered"
      BY <1>2, <2>2 DEF IInv, TypeOK, Que
    <3>2. \A t \in Thread : t \in Range(iQ'["main"]) <=> iState'[t] = "EDelivered" /\ iQueue'[t] = "main"
      <4>1. \A t \in Thread : t \in Range(iQ'["main"]) <=> t = x \/ t \in Range(iQ["main"])
        BY <1>5, <3>1
      <4>2. x \notin Range(iQ["main"])
        BY <1>1 DEF IInv, OneQueue, Que
      <4> QED
        <5> TAKE t \in Thread
        <5>1. CASE t = x
          BY <1>3, <3>1, <4>1, <5>1
        <5>2. CASE t # x
          BY <1>3, <4>1, <5>2 DEF IInv, OneQueue, Que
        <5> QED
          BY <5>1, <5>2
    <3>3. \A t \in Thread : t \in Range(iQ'["deferred"]) <=>
              iState'[t] = "EDelivered" /\ iQueue'[t] = "deferred"
      BY <1>1, <1>3, <3>1 DEF IInv, OneQueue, Que
    <3>4. \A t \in Thread : iState'[t] = "EDelivered" => iQueue'[t] # Null
      BY <1>3, MessageAssumption DEF IInv, OneQueue, Que
    <3>5. \A w \in Que : Inj(iQ'[w])
      BY <1>5, <3>1 DEF IInv, OneQueue, Que
    <3> QED
      BY <3>2, <3>3, <3>4, <3>5 DEF OneQueue, Que
  <2> QED
    BY <2>1, <2>2
<1>9. DriverOK'
  BY <1>1, <1>2, Constants DEF IInv, DriverOK, InMain, driver, place, media
<1>10. SemOK'
  BY <1>1, <1>3 DEF IInv, SemOK, One
<1>11. PcOK'
  <2>1. victim # Null => victim \in Thread /\ victim # x
    BY <1>1, Constants DEF IInv, TypeOK, PcOK, Asks
  <2>2. victim' # Null => pc'[victim'] = "dead"
    BY <1>1, <1>3, <2>1 DEF IInv, PcOK, Asks, supervisor
  <2> QED
    BY <1>1, <1>3, <2>2 DEF IInv, TypeOK, PcOK, Asks, channel, Calling, Dying
<1>12. ChanOK'
  <2>1. /\ {t \in Thread : pc'[t] = "close"} = {t \in Thread : pc[t] = "close"}
        /\ \A t \in Thread : pc'[t] = "close" <=> pc[t] = "close"
    BY <1>1, <1>3
  <2> QED
    BY <1>1, <2>1 DEF IInv, ChanOK, channel
<1>13. AccessOK'
  <2>1. \A t \in Thread \ {x} : References(t)' = References(t)
    BY <1>1, <1>3 DEF References
  <2>2. References(x)' = References(x) + 1 /\ References(x) \in Nat
    BY <1>1, <1>3 DEF References, One
  <2>3. access[x] = References(x) /\ access[x] # 0 /\ x \notin deleting
    <3>1. References(x) > 0
      BY <1>1 DEF References, One
    <3> QED
      BY <1>1, <3>1 DEF IInv, AccessOK
  <2> QED
    BY <1>1, <1>3, <2>1, <2>2, <2>3 DEF IInv, AccessOK, supervisor
<1>14. CloseOK'
  <2>1. x \notin {pM, iCurrentReq, current}
    BY <1>1, Constants DEF IInv, OneHolder, Held
  <2>2. \A t \in Thread : Asks(t)' <=> Asks(t)
    BY <1>1 DEF Asks, channel
  <2>3. Asks(x) => iValue[x] \in Connection
    BY <1>1 DEF IInv, CloseOK
  <2>4. \A t \in Thread : iState'[t] # "EFree" /\ iValue'[t] \in Connection => Asks(t)'
    <3>1. Asks(x) \/ iValue[x] \notin Connection
      BY <1>1 DEF Connection, Disconnect
    <3> QED
      BY <1>1, <1>3, <2>2, <3>1 DEF IInv, CloseOK
  <2>5. \A t \in Thread : Asks(t)' =>
          /\ t \notin {pM', iCurrentReq', current'}
          /\ ~(iState'[t] = "EDelivered" /\ iQueue'[t] = "deferred")
          /\ pc'[t] = "send" \/ iState'[t] # "EFree" => iValue'[t] \in Connection
    <3> TAKE t \in Thread
    <3>1. CASE t = x
      BY <1>1, <1>3, <2>1, <2>2, <2>3, <3>1 DEF driver, place, media
    <3>2. CASE t # x
      BY <1>1, <1>3, <2>2, <3>2 DEF IInv, CloseOK, driver, place, media
    <3> QED
      BY <3>1, <3>2
  <2>6. /\ \A t \in Thread : iValue'[t] = "ECloseMsg" => ~localDrive'
        /\ \A t \in Thread : iValue'[t] \in {"EConnect", "EDisconnect"} => localDrive'
        /\ creating' # Null => localDrive' /\ ~handle'
    BY <1>1 DEF IInv, CloseOK, channel
  <2>7. \A t \in Thread : closing'[t] =>
            t = x /\ chan' = 0 /\ iState'[t] # "EFree" /\ \A u \in Thread : closing'[u] => u = t
    BY <1>1, <1>3, <1>4 DEF channel
  <2> QED
    BY <1>1, <1>4, <2>4, <2>5, <2>6, <2>7 DEF CloseOK, channel
<1>15. MediaOK'
  BY <1>1 DEF IInv, MediaOK, channel, driver, place, media
<1> QED
  BY <1>6, <1>7, <1>8, <1>9, <1>10, <1>11, <1>12, <1>13, <1>14, <1>15 DEF IInv

-----------------------------------------------------------------------------
\* A thread that dies takes its message back if nobody has got it.
LEMMA CancelOK ==
    ASSUME IInv, NEW x \in Thread, Cancel(x)
    PROVE  IInv'
<1>1. /\ pc[x] = "exit" /\ ~Asks(x)
      /\ UNCHANGED <<iSem, iValue, access, closing, killed, iReady, iMessage, queued, channel,
                     driver, pT, supervisor>>
  BY DEF Cancel, IInv, PcOK, Asks, Calling
<1>2. victim # Null => victim \in Thread /\ victim # x
  BY <1>1, Constants DEF IInv, TypeOK, PcOK, Asks
<1>3. CASE iState[x] = "EDelivered"
  <2>1. /\ iState' = [iState EXCEPT ![x] = "EFree"] /\ iQueue' = [iQueue EXCEPT ![x] = Null]
        /\ iQ' = [iQ EXCEPT ![iQueue[x]] = Without(@, x)]
        /\ pc' = [pc EXCEPT ![x] = "cancelled"]
    BY <1>3 DEF Cancel
  <2>2. PICK w \in Que : w = iQueue[x]
    BY <1>3 DEF IInv, TypeOK, OneQueue
  <2>3. /\ x \in Range(iQ[w]) /\ Without(iQ[w], x) \in Seq(Thread)
        /\ Inj(Without(iQ[w], x)) /\ Range(Without(iQ[w], x)) = Range(iQ[w]) \ {x}
        /\ iQ[w] # <<>>
    <3>1. x \in Range(iQ[w]) /\ iQ[w] \in Seq(Thread) /\ Inj(iQ[w])
      BY <1>3, <2>2 DEF IInv, TypeOK, OneQueue
    <3>2. iQ[w] # <<>>
      BY <3>1 DEF Range
    <3> QED
      BY <3>1, <3>2, WithoutQueue
  <2>4. \A v \in Que : iQ'[v] = IF v = w THEN Without(iQ[w], x) ELSE iQ[v]
    BY <2>1, <2>2 DEF IInv, TypeOK
  <2>5. /\ \A t \in Thread : pc'[t] = IF t = x THEN "cancelled" ELSE pc[t]
        /\ \A t \in Thread : iState'[t] = IF t = x THEN "EFree" ELSE iState[t]
        /\ \A t \in Thread : iQueue'[t] = IF t = x THEN Null ELSE iQueue[t]
    BY <2>1 DEF IInv, TypeOK
  <2>6. TypeOK'
    <3>1. iQ' \in [Que -> Seq(Thread)]
      BY <2>1, <2>2, <2>3 DEF IInv, TypeOK
    <3>2. iState' \in [Thread -> {"EFree", "EDelivered", "EAccepted"}]
          /\ iQueue' \in [Thread -> Que \cup {Null}] /\ pc' \in [Thread -> Pc]
      BY <2>1 DEF IInv, TypeOK, Pc
    <3> QED
      BY <1>1, <3>1, <3>2 DEF IInv, TypeOK, channel, driver, place, media, supervisor
  <2>7. OneHolder'
    BY <1>1, <1>3, <2>5 DEF IInv, OneHolder, Held, driver, place, media
  <2>8. OneQueue'
    <3>1. \A v \in Que : Inj(iQ'[v])
      BY <2>3, <2>4 DEF IInv, OneQueue
    <3>2. \A t \in Thread, v \in Que : t \in Range(iQ'[v]) <=> t \in Range(iQ[v]) /\ t # x
      BY <1>3, <2>2, <2>3, <2>4 DEF IInv, OneQueue
    <3> QED
      BY <2>5, <3>1, <3>2 DEF IInv, OneQueue
  <2>9. Quiet => Quiet'
    <3>1. iQ["main"] = <<>> => iQ'["main"] = <<>>
      BY <2>3, <2>4 DEF Que
    <3> QED
      BY <1>1, <3>1 DEF Quiet, Idle, channel, driver, place
  <2>10. DriverOK'
    <3>1. iReady => iQ'["main"] = <<>>
      BY <2>3, <2>4 DEF IInv, DriverOK, Que
    <3> QED
      BY <1>1, <3>1 DEF IInv, DriverOK, InMain, driver, place, media
  <2>11. SemOK'
    BY <1>1, <2>5 DEF IInv, SemOK, One
  <2>12. PcOK'
    <3>1. victim' # Null => pc'[victim'] = "dead"
      BY <1>1, <1>2, <2>5 DEF IInv, PcOK, Asks, supervisor
    <3> QED
      BY <1>1, <2>5, <3>1 DEF IInv, PcOK, Asks, channel, Calling, Dying
  <2>13. ChanOK'
    <3>1. /\ {t \in Thread : pc'[t] = "close"} = {t \in Thread : pc[t] = "close"}
          /\ \A t \in Thread : pc'[t] = "close" <=> pc[t] = "close"
      BY <1>1, <2>5
    <3> QED
      BY <1>1, <3>1 DEF IInv, ChanOK, channel
  <2>14. AccessOK'
    <3>1. \A t \in Thread : References(t)' = References(t)
      BY <1>1, <1>3, <2>5 DEF References, One
    <3> QED
      BY <1>1, <2>5, <3>1 DEF IInv, AccessOK, supervisor
  <2>15. CloseOK'
    <3>1. \A t \in Thread : Asks(t)' <=> Asks(t)
      BY <1>1 DEF Asks, channel
    <3>2. ~closing[x]
      BY <1>1 DEF Asks
    <3> QED
      BY <1>1, <2>5, <2>9, <3>1, <3>2 DEF IInv, CloseOK, channel, driver, place, media
  <2>16. MediaOK'
    BY <1>1 DEF IInv, MediaOK, channel, driver, place, media
  <2> QED
    BY <2>6, <2>7, <2>8, <2>10, <2>11, <2>12, <2>13, <2>14, <2>15, <2>16 DEF IInv
<1>4. CASE iState[x] # "EDelivered"
  <2>1. pc' = [pc EXCEPT ![x] = "dead"] /\ UNCHANGED <<iQ, iState, iQueue>>
    BY <1>4 DEF Cancel
  <2>2. /\ \A t \in Thread : pc'[t] = IF t = x THEN "dead" ELSE pc[t]
        /\ pc' \in [Thread -> Pc]
    BY <2>1 DEF IInv, TypeOK, Pc
  <2>3. OneHolder' /\ OneQueue' /\ DriverOK' /\ MediaOK' /\ Quiet' = Quiet
    BY <1>1, <2>1, SameDriver DEF queues, channel
  <2>4. SemOK'
    BY <1>1, <2>1, <2>2 DEF IInv, SemOK, One
  <2>5. PcOK'
    <3>1. victim' # Null => pc'[victim'] = "dead"
      BY <1>1, <1>2, <2>2 DEF IInv, PcOK, Asks, supervisor
    <3> QED
      BY <1>1, <1>4, <2>1, <2>2, <3>1 DEF IInv, PcOK, Asks, channel, Calling, Dying
  <2>6. ChanOK'
    <3>1. /\ {t \in Thread : pc'[t] = "close"} = {t \in Thread : pc[t] = "close"}
          /\ \A t \in Thread : pc'[t] = "close" <=> pc[t] = "close"
      BY <1>1, <2>2
    <3> QED
      BY <1>1, <3>1 DEF IInv, ChanOK, channel
  <2>7. AccessOK'
    BY <1>1, <2>1, <2>2, SameAccess DEF supervisor
  <2>8. TypeOK'
    BY <1>1, <2>1, <2>2 DEF IInv, TypeOK, channel, driver, place, media, supervisor
  <2>9. CloseOK'
    BY <1>1, <2>1, <2>2, <2>3 DEF IInv, CloseOK, Asks, channel, driver, place, media
  <2> QED
    BY <2>3, <2>4, <2>5, <2>6, <2>7, <2>8, <2>9 DEF IInv
<1> QED
  BY <1>3, <1>4

LEMMA CancelClosesOK ==
    ASSUME IInv, NEW x \in Thread, CancelCloses(x)
    PROVE  IInv'
<1>1. /\ pc[x] = "cancelled" /\ ~closing[x] /\ iState[x] = "EFree" /\ AsyncClose(x)
      /\ pc' = [pc EXCEPT ![x] = "dead"]
      /\ UNCHANGED <<message, closing, killed, queues, channel, driver, pT, victim>>
  BY DEF CancelCloses, IInv, SemOK, PcOK, Asks, Calling
<1>2. /\ \A t \in Thread : pc'[t] = IF t = x THEN "dead" ELSE pc[t]
      /\ pc' \in [Thread -> Pc]
  BY <1>1 DEF IInv, TypeOK, Pc
<1>3. OneHolder' /\ OneQueue' /\ DriverOK' /\ MediaOK' /\ Quiet' = Quiet
  BY <1>1, SameDriver DEF message, channel
<1>4. SemOK'
  BY <1>1, <1>2 DEF IInv, SemOK, One, message
<1>5. PcOK'
  <2>1. victim # Null => victim \in Thread /\ victim # x
    BY <1>1, Constants DEF IInv, TypeOK, PcOK, Asks
  <2>2. victim' # Null => pc'[victim'] = "dead"
    BY <1>1, <1>2, <2>1 DEF IInv, PcOK, Asks
  <2> QED
    BY <1>1, <1>2, <2>2 DEF IInv, PcOK, Asks, message, channel, Calling, Dying
<1>6. ChanOK'
  <2>1. /\ {t \in Thread : pc'[t] = "close"} = {t \in Thread : pc[t] = "close"}
        /\ \A t \in Thread : pc'[t] = "close" <=> pc[t] = "close"
    BY <1>1, <1>2
  <2> QED
    BY <1>1, <2>1 DEF IInv, ChanOK, channel
<1>7. AccessOK' /\ access' \in [Thread -> Nat] /\ deleting' \in SUBSET Client
  <2>1. \A t \in Thread \ {x} : References(t)' = References(t)
    BY <1>1, <1>2 DEF References, message
  <2>2. /\ References(x) = 1 + 0 + One(pT = x) + 1
        /\ References(x)' = 1 + 0 + One(pT = x) + 0
    BY <1>1, <1>2 DEF References, One, message
  <2>3. References(x)' = References(x) - 1 /\ References(x) > 1
    BY <2>2 DEF One
  <2>4. References(x) > 0
    BY <2>2 DEF One
  <2> QED
    BY <1>1, <1>2, <2>1, <2>3, <2>4, AsyncCloseOK DEF message
<1>8. TypeOK'
  <2>1. UNCHANGED <<message, closing, killed, queues, channel, place, media, pT, victim>>
    BY <1>1 DEF driver
  <2>2. access' \in [Thread -> Nat] /\ deleting' \in SUBSET Client
    BY <1>7
  <2>3. pc' \in [Thread -> Pc]
    BY <1>2
  <2>4. pT' \in Thread \cup {Null}
    BY <2>1 DEF IInv, TypeOK
  <2>5. /\ iState' \in [Thread -> {"EFree", "EDelivered", "EAccepted"}]
        /\ iQueue' \in [Thread -> Que \cup {Null}]
        /\ iSem' \in [Thread -> -1..1]
        /\ iValue' \in [Thread -> Connection \cup {"request", "result", "KErrDied"}]
    BY <2>1 DEF IInv, TypeOK, message
  <2>6. /\ closing' \in [Thread -> BOOLEAN]
        /\ killed' \in [Thread -> BOOLEAN]
        /\ iQ' \in [Que -> Seq(Thread)]
        /\ iReady' \in BOOLEAN
        /\ iMessage' \in Thread \cup {Null}
        /\ queued' \in BOOLEAN
    BY <2>1 DEF IInv, TypeOK, queues
  <2>7. /\ localDrive' \in BOOLEAN
        /\ handle' \in BOOLEAN
        /\ creating' \in Thread \cup {Null}
        /\ chan' \in Nat \cup {Null}
        /\ iTempObj' \in [Thread -> BOOLEAN]
    BY <2>1 DEF IInv, TypeOK, channel
  <2>8. /\ at' \in At
        /\ back' \in {"idle", "loop", "opened"}
        /\ req' \in Thread \cup {Null}
        /\ pM' \in Thread \cup {Null}
        /\ pL' \in Thread \cup {Null}
        /\ mState' \in {"EClosed", "EOpening", "EReady"}
        /\ iCurrentReq' \in Thread \cup {Null}
        /\ current' \in Thread \cup {Null}
        /\ victim' \in Client \cup {Null}
    BY <2>1 DEF IInv, TypeOK, place, media
  <2> QED
    BY <2>2, <2>3, <2>4, <2>5, <2>6, <2>7, <2>8 DEF TypeOK
<1>9. CloseOK'
  BY <1>1, <1>2, <1>3 DEF IInv, CloseOK, Asks, message, channel, driver, place, media
<1> QED
  BY <1>3, <1>4, <1>5, <1>6, <1>7, <1>8, <1>9 DEF IInv

\* The supervisor clears a dead thread up.
LEMMA SvKillOK ==
    ASSUME IInv, NEW x \in Client, SvKill(x)
    PROVE  IInv'
<1>1. /\ x \in Thread /\ x # Sup /\ x # Null /\ victim = Null /\ pc[Sup] = "run" /\ pc[x] = "dead"
      /\ victim' = x /\ iState[Sup] = "EFree" /\ ~iTempObj[Sup] /\ ~closing[Sup]
      /\ UNCHANGED <<message, access, closing, killed, queues, localDrive, handle, chan, creating, driver, pT, deleting>>
  BY MessageAssumption, Constants DEF SvKill, SvIdle, IInv, SemOK, PcOK, Asks, Calling
<1>2. OneHolder' /\ OneQueue' /\ DriverOK' /\ MediaOK' /\ Quiet' = Quiet
  BY <1>1, SameDriver DEF message, channel
<1>3. CASE ~iTempObj[x]
  <2>1. UNCHANGED <<iTempObj, pc>>
    BY <1>3 DEF SvKill
  <2>2. SemOK' /\ PcOK' /\ ChanOK'
    BY <1>1, <2>1 DEF IInv, SemOK, PcOK, Asks, ChanOK, One, message
  <2>3. AccessOK'
    BY <1>1, <2>1, SameAccess DEF message
  <2>4. TypeOK'
    BY <1>1, <2>1 DEF IInv, TypeOK, message, queues, driver, place, media
  <2>5. CloseOK'
    BY <1>1, <1>2, <2>1 DEF IInv, CloseOK, Asks, message, driver, place, media
  <2> QED
    BY <1>2, <2>2, <2>3, <2>4, <2>5 DEF IInv
<1>4. CASE iTempObj[x]
  <2>1. /\ iTempObj' = [iTempObj EXCEPT ![x] = FALSE] /\ pc' = [pc EXCEPT ![Sup] = "close"]
    BY <1>4 DEF SvKill
  <2>2. /\ \A t \in Thread : pc'[t] = IF t = Sup THEN "close" ELSE pc[t]
        /\ \A t \in Thread : iTempObj'[t] = IF t = x THEN FALSE ELSE iTempObj[t]
        /\ pc' \in [Thread -> Pc] /\ iTempObj' \in [Thread -> BOOLEAN]
    BY <1>1, <2>1, Constants DEF IInv, TypeOK, Pc
  <2>3. SemOK'
    BY <1>1, <2>2 DEF IInv, SemOK, One, message
  <2>4. PcOK'
    BY <1>1, <2>2 DEF IInv, PcOK, Asks, message, Calling, Dying
  <2>5. ChanOK'
    <3> DEFINE S == {t \in Thread : iTempObj[t]}
               T == {t \in Thread : pc[t] = "close"}
    <3>1. /\ {t \in Thread : iTempObj'[t]} = S \ {x} /\ x \in S
          /\ {t \in Thread : pc'[t] = "close"} = T \cup {Sup} /\ Sup \notin T
      BY <1>1, <1>4, <2>2, Constants
    <3>2. /\ Cardinality(S) \in Nat /\ Cardinality(T) \in Nat
          /\ Cardinality(S \ {x}) = Cardinality(S) - 1
          /\ Cardinality(T \cup {Sup}) = Cardinality(T) + 1
      BY <3>1, Counts, Constants
    <3>3. chan # Null /\ chan = One(handle) + One(creating # Null) + Cardinality(S) + Cardinality(T)
      BY <1>1, <1>4 DEF IInv, ChanOK
    <3>4. One(handle) \in Nat /\ One(creating # Null) \in Nat
      BY DEF One
    <3>5. chan = One(handle) + One(creating # Null) + Cardinality(S \ {x}) + Cardinality(T \cup {Sup})
      BY <3>2, <3>3, <3>4
    <3> QED
      BY <1>1, <3>1, <3>3, <3>5 DEF ChanOK
  <2>6. AccessOK'
    BY <1>1, <2>2, SameAccess DEF message
  <2>7. TypeOK'
    BY <1>1, <2>2 DEF IInv, TypeOK, message, queues, driver, place, media
  <2>8. CloseOK'
    BY <1>1, <1>2, <2>2 DEF IInv, CloseOK, Asks, message, driver, place, media
  <2> QED
    BY <1>2, <2>3, <2>4, <2>5, <2>6, <2>7, <2>8 DEF IInv
<1> QED
  BY <1>3, <1>4

LEMMA CloseThreadOK ==
    ASSUME IInv, CloseThread
    PROVE  IInv'
<1> PICK x \in Client : x = victim
  BY DEF CloseThread, IInv, TypeOK
<1>1. /\ x \in Thread /\ pc[x] = "dead" /\ victim' = Null
      /\ access' = [access EXCEPT ![x] = @ - 1]
      /\ pc' = [pc EXCEPT ![x] = IF access[x] = 1 THEN "deleted" ELSE "released"]
      /\ UNCHANGED <<message, closing, killed, queues, channel, driver, pT, deleting>>
  BY Constants DEF CloseThread, IInv, PcOK, Asks
<1>2. /\ access[x] = References(x) /\ x \notin deleting /\ access[x] \in Nat \ {0}
      /\ References(x) = 1 + One(iState[x] # "EFree") + One(pT = x) + 0
  <2>1. References(x) = 1 + One(iState[x] # "EFree") + One(pT = x) + 0
    BY <1>1 DEF References, One
  <2>2. References(x) \in Nat \ {0}
    BY <2>1 DEF One
  <2> QED
    BY <1>1, <2>1, <2>2 DEF IInv, AccessOK
<1>3. /\ \A t \in Thread \ {x} : pc'[t] = pc[t] /\ access'[t] = access[t]
      /\ pc'[x] = IF access[x] = 1 THEN "deleted" ELSE "released"
      /\ access'[x] = access[x] - 1
      /\ pc' \in [Thread -> Pc] /\ access' \in [Thread -> Nat]
  <2>1. access[x] - 1 \in Nat
    BY <1>2
  <2> QED
    BY <1>1, <2>1 DEF IInv, TypeOK, Pc
<1>4. OneHolder' /\ OneQueue' /\ DriverOK' /\ MediaOK' /\ Quiet' = Quiet
  BY <1>1, SameDriver DEF message, channel
<1>5. SemOK'
  BY <1>1, <1>3 DEF IInv, SemOK, One, message
<1>6. PcOK'
  BY <1>1, <1>3 DEF IInv, PcOK, Asks, message, channel, Calling, Dying
<1>7. ChanOK'
  <2>1. /\ {t \in Thread : pc'[t] = "close"} = {t \in Thread : pc[t] = "close"}
        /\ \A t \in Thread : pc'[t] = "close" <=> pc[t] = "close"
    BY <1>1, <1>3
  <2> QED
    BY <1>1, <2>1 DEF IInv, ChanOK, channel
<1>8. AccessOK'
  <2>1. \A t \in Thread \ {x} : References(t)' = References(t)
    BY <1>1, <1>3 DEF References, message
  <2>2. References(x)' = 0 + One(iState[x] # "EFree") + One(pT = x) + 0
    BY <1>1, <1>3 DEF References, One, message
  <2>3. References(x)' = access[x] - 1
    BY <1>2, <2>2 DEF One
  <2>4. x \notin deleting' /\ access'[x] = References(x)' /\ (access'[x] = 0 <=> access[x] = 1)
    BY <1>1, <1>2, <1>3, <2>3
  <2>5. /\ x \in deleting' <=> access'[x] = 0 /\ pc'[x] = "released"
        /\ pc'[x] = "deleted" => access'[x] = 0
    BY <1>3, <2>4
  <2> QED
    BY <1>1, <1>3, <2>1, <2>4, <2>5 DEF IInv, AccessOK
<1>9. TypeOK'
  BY <1>1, <1>3 DEF IInv, TypeOK, message, queues, channel, driver, place, media
<1>10. CloseOK'
  BY <1>1, <1>3, <1>4 DEF IInv, CloseOK, Asks, message, channel, driver, place, media
<1> QED
  BY <1>4, <1>5, <1>6, <1>7, <1>8, <1>9, <1>10 DEF IInv

LEMMA DoAsyncFreeOK ==
    ASSUME IInv, DoAsyncFree
    PROVE  IInv'
<1>1. /\ pc' = [t \in Thread |-> IF t \in deleting THEN "deleted" ELSE pc[t]]
      /\ deleting' = {} /\ deleting \in SUBSET Client
      /\ UNCHANGED <<message, access, closing, killed, queues, channel, driver, pT, victim>>
  BY DEF DoAsyncFree, IInv, TypeOK
<1>2. \A t \in Thread : t \in deleting => access[t] = 0 /\ pc[t] = "released"
  BY DEF IInv, AccessOK
<1>3. pc' \in [Thread -> Pc]
  BY <1>1 DEF IInv, TypeOK, Pc
<1>4. \A t \in Thread : pc'[t] = IF t \in deleting THEN "deleted" ELSE pc[t]
  BY <1>1
<1>5. OneHolder' /\ OneQueue' /\ DriverOK' /\ MediaOK' /\ Quiet' = Quiet
  BY <1>1, SameDriver DEF message, channel
<1>6. SemOK'
  BY <1>1, <1>2, <1>4 DEF IInv, SemOK, One, message
<1>7. PcOK'
  <2>1. victim # Null => victim \in Thread /\ victim \notin deleting
    BY <1>2, Constants DEF IInv, TypeOK, PcOK, Asks
  <2> QED
    BY <1>1, <1>2, <1>4, <2>1 DEF IInv, PcOK, Asks, message, channel, Calling, Dying
<1>8. ChanOK'
  <2>1. /\ {t \in Thread : pc'[t] = "close"} = {t \in Thread : pc[t] = "close"}
        /\ \A t \in Thread : pc'[t] = "close" <=> pc[t] = "close"
    BY <1>2, <1>4
  <2> QED
    BY <1>1, <2>1 DEF IInv, ChanOK, channel
<1>9. AccessOK'
  <2>1. \A t \in Thread : References(t)' = References(t)
    BY <1>1, <1>2, <1>4 DEF References, One, message
  <2> QED
    BY <1>1, <1>2, <1>4, <2>1 DEF IInv, AccessOK
<1>10. TypeOK'
  BY <1>1, <1>3 DEF IInv, TypeOK, message, queues, channel, driver, place, media
<1>11. CloseOK'
  BY <1>1, <1>2, <1>4, <1>5 DEF IInv, CloseOK, Asks, message, channel, driver, place, media
<1> QED
  BY <1>5, <1>6, <1>7, <1>8, <1>9, <1>10, <1>11 DEF IInv


-----------------------------------------------------------------------------
LEMMA InitOK == Init => IInv
<1> SUFFICES ASSUME Init PROVE IInv
  OBVIOUS
<1>1. TypeOK
  <2>1. /\ iQ \in [Que -> Seq(Thread)] /\ deleting \in SUBSET Client
        /\ iSem \in [Thread -> -1..1] /\ access \in [Thread -> Nat]
    BY DEF Init
  <2>2. /\ closing \in [Thread -> BOOLEAN] /\ iTempObj \in [Thread -> BOOLEAN]
        /\ killed \in [Thread -> BOOLEAN] /\ iReady \in BOOLEAN /\ queued \in BOOLEAN
        /\ handle \in BOOLEAN /\ localDrive \in BOOLEAN
    BY DEF Init
  <2>3. /\ iState \in [Thread -> {"EFree", "EDelivered", "EAccepted"}]
        /\ iQueue \in [Thread -> Que \cup {Null}]
        /\ iValue \in [Thread -> Connection \cup {"request", "result", "KErrDied"}]
        /\ pc \in [Thread -> Pc]
    BY DEF Init, Pc
  <2>4. /\ iMessage \in Thread \cup {Null} /\ creating \in Thread \cup {Null}
        /\ chan \in Nat \cup {Null} /\ at \in At /\ back \in {"idle", "loop", "opened"}
    BY DEF Init, At
  <2>5. /\ req \in Thread \cup {Null} /\ pM \in Thread \cup {Null} /\ pL \in Thread \cup {Null}
        /\ mState \in {"EClosed", "EOpening", "EReady"}
        /\ iCurrentReq \in Thread \cup {Null} /\ current \in Thread \cup {Null}
        /\ pT \in Thread \cup {Null} /\ victim \in Client \cup {Null}
    BY DEF Init
  <2> QED
    BY <2>1, <2>2, <2>3, <2>4, <2>5 DEF TypeOK
<1>2. OneHolder
  BY Constants DEF Init, OneHolder, Held
<1>3. OneQueue
  BY DEF Init, OneQueue, Inj, Range
<1>4. DriverOK /\ MediaOK
  BY DEF Init, DriverOK, MediaOK, InMain, Que
<1>5. SemOK
  BY DEF Init, SemOK
<1>6. \A t \in Thread : ~Asks(t)
  BY Constants DEF Init, Asks
<1>7. PcOK
  BY <1>6 DEF Init, PcOK, Calling, Dying
<1>8. CloseOK
  BY MessageAssumption, <1>6 DEF Init, CloseOK, Connection, Disconnect
<1>9. ChanOK
  <2>1. {t \in Thread : iTempObj[t]} = {} /\ {t \in Thread : pc[t] = "close"} = {}
    BY DEF Init
  <2>2. Cardinality({t \in Thread : iTempObj[t]}) = 0
        /\ Cardinality({t \in Thread : pc[t] = "close"}) = 0
    BY <2>1, FS_EmptySet
  <2>3. One(handle) = 1 /\ One(creating # Null) = 0 /\ chan = 1 /\ chan # Null
    BY MessageAssumption DEF Init, One
  <2> QED
    BY <2>2, <2>3 DEF ChanOK
<1>10. AccessOK
  BY Constants DEF Init, AccessOK, References, One
<1> QED
  BY <1>1, <1>2, <1>3, <1>4, <1>5, <1>7, <1>8, <1>9, <1>10 DEF IInv

LEMMA StutterOK ==
    ASSUME IInv, UNCHANGED vars
    PROVE  IInv'
<1>1. UNCHANGED <<message, access, pc, closing, killed, queues, channel, place, media, pT, supervisor>>
  BY DEF vars, driver
<1>2. OneHolder' /\ OneQueue' /\ DriverOK' /\ MediaOK' /\ Quiet' = Quiet
  BY <1>1, SameDriver DEF message, channel, driver
<1>3. SemOK' /\ PcOK' /\ ChanOK' /\ AccessOK'
  BY <1>1, DriverMoves DEF queues
<1>4. TypeOK'
  BY <1>1 DEF IInv, TypeOK, message, queues, channel, place, media, supervisor
<1>5. CloseOK'
  BY <1>1, <1>2 DEF IInv, CloseOK, Asks, message, channel, media, place
<1> QED
  BY <1>2, <1>3, <1>4, <1>5 DEF IInv

LEMMA NextOK == IInv /\ [Next]_vars => IInv'
<1> SUFFICES ASSUME IInv, [Next]_vars PROVE IInv'
  OBVIOUS
<1>1. CASE DriverStep
  BY <1>1, CompleteClosesOK, RunMsgDfcOK, CompleteAndReceiveOK, HandleCloseMsgOK, PanicClientOK,
     HandleConnectionOK, HandleMsgOK, HandleWhileOpeningOK, OpenOK, PollMainOK, ReceiveOK,
     OpensOrClosesOK, MediaReadyOK, CurrentCompletesOK, LoopsOK, PollDeferredOK,
     RunOneDeferredOK, CompleteAllOK, CompleteOneOK, CloseMediaDriversOK
     DEF DriverStep
<1>2. CASE SetClosed
  BY <1>2, OpensOrClosesOK
<1>3. CASE SupervisorStep
  BY <1>3, CloseThreadOK, DoAsyncFreeOK, SvKillOK DEF SupervisorStep
<1>4. CASE \E t \in Thread : ThreadStep(t)
  BY <1>4, SendOK, FSWaitOK, RequestReturnsOK, CloseStepOK, DeleteChannelOK, ConnectedOK,
     CancelOK, CancelClosesOK
     DEF ThreadStep
<1>5. CASE \E t \in Client : ThreadKill(t) \/ ChannelRequest(t) \/ HandleClose(t) \/ ChannelCreate(t)
  BY <1>5, ThreadKillOK, ChannelRequestOK, HandleCloseOK, ChannelCreateOK
<1>6. CASE UNCHANGED vars
  BY <1>6, StutterOK
<1> QED
  BY <1>1, <1>2, <1>3, <1>4, <1>5, <1>6 DEF Next

LEMMA IInvHolds == Spec => []IInv
BY InitOK, NextOK, PTL DEF Spec

-----------------------------------------------------------------------------
\* A message is never in two places, is not handed out while somebody has it, and
\* is answered once (TMessageBase::Send, Complete, Cancel; TMessageQue).
THEOREM MessagesCorrect == Spec => []MessagesExact
<1>1. IInv => MessagesExact
  <2> SUFFICES ASSUME IInv PROVE MessagesExact
    OBVIOUS
  <2>1. AnsweredOnce
    BY DEF IInv, SemOK, AnsweredOnce
  <2>2. \A t \in Thread : IF iState[t] = "EAccepted" THEN Cardinality(Holders(t)) = 1
                                                     ELSE Holders(t) = {}
    <3> TAKE t \in Thread
    <3>1. CASE iState[t] = "EAccepted"
      <4>1. /\ t # Null /\ t \in {iMessage, req, pM, iCurrentReq, current}
            /\ iMessage = t => t \notin {req, pM, iCurrentReq, current}
            /\ req = t => t \notin {pM, iCurrentReq, current}
            /\ pM = t => t \notin {iCurrentReq, current}
            /\ iCurrentReq = t => t # current
        BY <3>1, Constants DEF IInv, OneHolder, Held
      <4>2. \E h \in {"dfc", "handler", "deferred", "opening", "hardware"} : Holders(t) = {h}
        <5>1. CASE iMessage = t
          BY <4>1, <5>1 DEF Holders
        <5>2. CASE req = t
          BY <4>1, <5>2 DEF Holders
        <5>3. CASE pM = t
          BY <4>1, <5>3 DEF Holders
        <5>4. CASE iCurrentReq = t
          BY <4>1, <5>4 DEF Holders
        <5>5. CASE current = t
          BY <4>1, <5>5 DEF Holders
        <5> QED
          BY <4>1, <5>1, <5>2, <5>3, <5>4, <5>5
      <4> QED
        BY <3>1, <4>2, FS_Singleton
    <3>2. CASE iState[t] # "EAccepted"
      <4>1. t \notin {iMessage, req, pM, iCurrentReq, current}
        BY <3>2, Constants DEF IInv, OneHolder, Held
      <4> QED
        BY <3>2, <4>1 DEF Holders
    <3> QED
      BY <3>1, <3>2
  <2>3. OnePlace
    BY <2>2 DEF IInv, OneQueue, SemOK, DriverOK, InMain, OnePlace
  <2> QED
    BY <2>1, <2>3 DEF IInv, MessagesExact
<1> QED
  BY <1>1, IInvHolds, PTL

\* A thread exists as long as a driver has its message, a channel until the last
\* message that names it has been answered; and one that has a queue of its own, until
\* no message is on that queue and its DFC neither is queued nor runs (DObject::
\* AsyncClose; DLogicalChannel::Close and ~DLogicalChannel; ECloseMsg in d_comm.cpp).
THEOREM ObjectsAreKept == Spec => []ObjectsKept
<1>1. IInv => ObjectsKept
  <2> SUFFICES ASSUME IInv PROVE ObjectsKept
    OBVIOUS
  <2>1. /\ \A t \in Thread : access[t] = References(t)
        /\ \A t \in Thread : t \in deleting <=> access[t] = 0 /\ pc[t] = "released"
    BY DEF IInv, AccessOK
  <2>2. ASSUME chan = Null
        PROVE  \A t \in Thread : iValue[t] \in Connection => iState[t] = "EFree"
    <3>1. creating = Null /\ chan # 0
      BY <2>2, MessageAssumption DEF IInv, ChanOK
    <3>2. \A t \in Thread : ~Asks(t)
      BY <3>1, Constants DEF IInv, CloseOK, Asks
    <3> QED
      BY <3>2 DEF IInv, CloseOK
  <2>3. chan = Null /\ ~localDrive => ~iReady /\ ~queued /\ iQ["main"] = <<>> /\ at = "idle"
    BY DEF IInv, CloseOK, Quiet, Idle
  <2> QED
    BY <2>1, <2>2, <2>3 DEF IInv, ChanOK, ObjectsKept
<1> QED
  BY <1>1, IInvHolds, PTL

=============================================================================
