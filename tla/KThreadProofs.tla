---------------------------- MODULE KThreadProofs -----------------------------
(***************************************************************************)
(* Every call that a thread makes of the kernel's semaphores, mutexes and  *)
(* condition variables (module KThread) keeps the invariant of module      *)
(* KSyncProofs, so that queues, counters, holders, priorities and the      *)
(* debug assertions are right in every reachable state; and the order of   *)
(* mutexes that debug builds assert prevents deadlock.                     *)
(***************************************************************************)
EXTENDS KSyncProofs

\* What t sees of a signal to a condition variable.
Nudged(r, v, t) ==
    /\ SameCtl(r, v) /\ SameWait(r, v, t) /\ v.fault = r.fault
    /\ Ranked(v, 9) /\ ReqBut(r, {}) => ReqBut(v, {})

\* DCondVar::UnBlockThread with the whole chain.
LEMMA UnblockWorld ==
    ASSUME NEW a, NEW t \in Thread, NEW h \in Thread, NEW c \in Cond, Signals(a, t, h, c),
           NEW v, v = Settle(UnBlockThread(a, c, h))
    PROVE  World(v, {t}) /\ Nudged(a, v, t)
<1> DEFINE l == UnBlockThread(a, c, h)
<1>1. l = UnBlockThread(a, c, h) /\ v = Settle(l)
  OBVIOUS
<1> HIDE DEF l
<1>2. PICK s : QOK(s, {}) /\ Unblocked(a, s, h, c, {}, l)
  BY <1>1, UnblockParts
<1>3. Chained(l, {}, {t}) /\ Exact(l, {})
  BY <1>2, UnblockExact
<1>4. l.k = s /\ UnblockLink(a, s, h, l)
  BY <1>2, UnblockLinkIs
<1>5. SameCtl(a, s) /\ s.fault = a.fault /\ s.pri = a.pri /\ s.clnPri = a.clnPri
  BY <1>2 DEF Unblocked, UnblockSame
<1>6. SameWait(a, s, t)
  <2>1. t # h
    BY DEF Signals
  <2> QED
    BY <1>2, <2>1, UnblockedOthers
<1>7. HoldOK(s) /\ OneResets(s)
  BY <1>5 DEF Signals, SameCtl, HoldOK, OneResets
<1>8. /\ World(v, {t}) /\ Motion(s, v, {t}) /\ v.fault = s.fault
      /\ \A d \in [Thread -> 0..9] : Nested(l, d) => ReqBut(v, {})
  BY <1>1, <1>3, <1>4, <1>7, SettleWorld
<1>9. SameCtl(a, v) /\ v.fault = a.fault
  BY <1>5, <1>8 DEF Motion, SameCtl
<1>10. SameWait(a, v, t)
  BY <1>6, <1>8 DEF Motion, SameWait
<1>11. ASSUME Ranked(v, 9), ReqBut(a, {}) PROVE ReqBut(v, {})
  <2>1. PICK d \in [Thread -> 0..9] : RankedBy(v, d)
    BY <1>11 DEF Ranked
  <2>2. RankedBy(s, d)
    BY <1>8, <2>1, MotionRanked
  <2>3. Owned(s)
    BY <1>7 DEF HoldOK, Owned
  <2>4. s.defPri = a.defPri /\ s.cleanupQ = a.cleanupQ
    BY <1>5 DEF SameCtl
  <2>5. ReqBut(s, {})
    BY <1>5, <1>11, <2>4 DEF ReqBut, IsReq
  <2>6. ASSUME l.m # Null, NEW u \in Thread, s.holder[l.m] = u
        PROVE  d[u] + l.n =< 8
    <3>1. MWaits(s, h, l.m) /\ l.n = 0
      BY <1>4, <2>6 DEF UnblockLink
    <3>2. WaitsFor(s, h, u)
      BY <2>6, <3>1 DEF WaitsFor, MWaits
    <3>3. d[u] < d[h] /\ d[u] \in 0..9 /\ d[h] \in 0..9
      BY <2>2, <3>2 DEF RankedBy
    <3> QED
      BY <3>1, <3>3
  <2>7. Nested(l, d)
    BY <1>4, <2>2, <2>3, <2>5, <2>6 DEF Nested
  <2> QED
    BY <1>8, <2>7
<1> QED
  BY <1>8, <1>9, <1>10, <1>11 DEF Nudged

\* A waiter is off its queue: a state that can be signalled.
LEMMA SignalsOff ==
    ASSUME NEW r, NEW t \in Thread, World(r, {t}), r.mstate[t] = "EReady", NEW h \in Thread,
           NEW c \in Cond, r.mstate[h] \in {"EWaitCondVar", "EWaitCondVarSuspended"},
           r.waitObj[h] = c,
           NEW a, FQ(a, {h}, c, 1), SameRest(r, a), SameWhere(r, a), SameCnt(r, a), a.pri = r.pri,
           a.phase[c] # "deleted"
    PROVE  Signals(a, t, h, c)
<1>1. h # t
  OBVIOUS
<1>2. \A u \in Thread \ {t} : ThreadOK(a, u)
  <2> SUFFICES ASSUME NEW u \in Thread \ {t} PROVE ThreadOK(a, u)
    OBVIOUS
  <2>1. SamePlace(r, a, u)
    BY CtlPlace DEF SameRest
  <2>2. Agree(r, a, u)
    BY <2>1 DEF SameRest, SameRun, SameWhere, SameCnt, Agree, SameWait, SameCv
  <2> QED
    BY <2>2, ThreadAgrees DEF World
<1>3. HoldOK(a) /\ OneResets(a)
  BY DEF World, HoldOK, OneResets, SameRest, SameCtl
<1>4. /\ a.mstate = r.mstate /\ a.waitObj = r.waitObj /\ a.pri = r.pri /\ a.susp = r.susp
      /\ a.holder = r.holder /\ a.phase = r.phase /\ a.clnPri = r.clnPri
  BY DEF SameRest, SameCtl, SameWhere
<1>5. IdleOff(a, Null)
  <2>1. NoIdle(a, {})
    BY <1>4 DEF World, NoIdle, Free, MWaits, Pends
  <2> QED
    BY <2>1, IdleAll
<1>6. HighOff(a, Null)
  <2>1. HighBut(a, {}, Null, 0)
    BY <1>4 DEF World, HighBut, Held, High, MWaits
  <2> QED
    BY <2>1, HighAll
<1> QED
  BY <1>1, <1>2, <1>3, <1>4, <1>5, <1>6 DEF Signals

\* DCondVar::Signal.
LEMMA CondSignalWorld ==
    ASSUME NEW r, NEW t \in Thread, World(r, {t}), r.mstate[t] = "EReady", NEW c \in Cond,
           NEW v, v = CondSignal(r, c)
    PROVE  World(v, {t}) /\ Nudged(r, v, t)
<1>1. QOK(r, {}) /\ RQ(r, {}) /\ c \in Obj /\ c \notin Sem
  BY WorldTypes, SyncAssumption DEF Obj
<1>2. WaitState[c] = "EWaitCondVar" /\ SuspState[c] = "EWaitCondVarSuspended"
  BY WaitStates
<1>3. ASSUME NEW h \in Thread, NEW a, FQ(a, {} \cup {h}, c, 1), SameRest(r, a), SameWhere(r, a),
             SameCnt(r, a), a.pri = r.pri, r.waitObj[h] = c, r.phase[c] # "deleted",
             r.mstate[h] \in {"EWaitCondVar", "EWaitCondVarSuspended"}, v = Settle(UnBlockThread(a, c, h))
      PROVE  World(v, {t}) /\ Nudged(r, v, t)
  <2>1. FQ(a, {h}, c, 1)
    <3>1. {} \cup {h} = {h}
      OBVIOUS
    <3> QED
      BY <1>3, <3>1
  <2>2. a.phase[c] # "deleted"
    BY <1>3 DEF SameRest, SameCtl
  <2>3. Signals(a, t, h, c)
    BY <1>3, <2>1, <2>2, SignalsOff
  <2>4. World(v, {t}) /\ Nudged(a, v, t)
    BY <1>3, <2>3, UnblockWorld
  <2>5. SameCtl(r, v) /\ SameWait(r, v, t) /\ v.fault = r.fault
    BY <1>3, <2>4 DEF Nudged, SameRest, SameCtl, SameRun, SameWhere, SameWait
  <2>6. ReqBut(r, {}) => ReqBut(a, {})
    BY <1>3 DEF ReqBut, IsReq, SameRest, SameCtl
  <2> QED
    BY <2>4, <2>5, <2>6 DEF Nudged
<1>4. CASE r.waitQ[c] # <<>>
  <2> DEFINE h == Head(r.waitQ[c])
             a == WaitRemove(r, c, h)
  <2>1. h \in Thread /\ h \in Range(r.waitQ[c])
    BY <1>1, <1>4, RHead
  <2>2. a = WaitRemove(r, c, h) /\ v = Settle(UnBlockThread(a, c, h))
    BY <1>4 DEF CondSignal
  <2> HIDE DEF a, h
  <2>3. /\ FQ(a, {} \cup {h}, c, 1) /\ SameRest(r, a) /\ SameWhere(r, a) /\ SameCnt(r, a)
        /\ a.pri = r.pri /\ r.waitObj[h] = c /\ r.mstate[h] = "EWaitCondVar"
        /\ r.phase[c] # "deleted"
    BY <1>1, <1>2, <2>1, <2>2, TakeWait
  <2> QED
    BY <1>3, <2>1, <2>2, <2>3
<1>5. CASE r.waitQ[c] = <<>> /\ r.suspQ[c] # <<>>
  <2> DEFINE h == Head(r.suspQ[c])
             a == [r EXCEPT !.suspQ[c] = Tail(@)]
  <2>1. h \in Thread /\ h \in Range(r.suspQ[c]) /\ Tail(r.suspQ[c]) = Without(r.suspQ[c], h)
    BY <1>1, <1>5, RHead
  <2>2. a = SuspRemove(r, c, h)
    BY <2>1 DEF SuspRemove
  <2>3. v = Settle(UnBlockThread(a, c, h))
    BY <1>5 DEF CondSignal
  <2> HIDE DEF a, h
  <2>4. /\ FQ(a, {} \cup {h}, c, SuspCounts(c)) /\ SameRest(r, a) /\ SameWhere(r, a)
        /\ SameCnt(r, a)
        /\ a.pri = r.pri /\ r.waitObj[h] = c /\ r.mstate[h] = "EWaitCondVarSuspended"
        /\ r.phase[c] # "deleted"
    BY <1>1, <1>2, <2>1, <2>2, TakeSusp
  <2>5. SuspCounts(c) = 1
    BY <1>1 DEF SuspCounts
  <2>6. FQ(a, {} \cup {h}, c, 1)
    BY <2>4, <2>5
  <2> QED
    BY <1>3, <2>1, <2>3, <2>4, <2>6
<1>6. CASE r.waitQ[c] = <<>> /\ r.suspQ[c] = <<>>
  <2>1. v = r
    BY <1>6 DEF CondSignal
  <2> QED
    BY <2>1 DEF Nudged, SameCtl, SameWait
<1> QED
  BY <1>4, <1>5, <1>6

\* A signal is a steady step.
LEMMA NudgedSteady ==
    ASSUME NEW r, NEW v, NEW t, Nudged(r, v, t)
    PROVE  Steady(r, v)
BY DEF Nudged, Steady

\* A call of DCondVar::Signal.
LEMMA CondSignalsFine ==
    ASSUME World(k, {}), NEW t \in Thread, NEW c \in Cond, CondSignals(t, c)
    PROVE  World(k', {}) /\ Steady(k, k')
<1>1. At(t, "run") /\ k' = CondSignal(k, c)
  BY DEF CondSignals
<1>2. Mine(k, t) /\ k.cond[t] = Null /\ World(k, {t}) /\ k.pc[t] = "run"
  BY <1>1, AtRun
<1>3. World(k', {t}) /\ Nudged(k, k', t)
  BY <1>1, <1>2, CondSignalWorld DEF Mine
<1>4. SameOwnAll(k, k')
  BY <1>3 DEF Nudged, SameCtl, SameOwnAll
<1>5. Mine(k', t) /\ k'.pc[t] = "run" /\ k'.cond[t] = Null
  BY <1>2, <1>3, <1>4, ActedMine DEF Nudged, SameOwnAll
<1> QED
  BY <1>3, <1>5, RunsOn, NudgedSteady

\* DCondVar::Broadcast, one of its rounds.
LEMMA BroadcastLoopWorld ==
    ASSUME NEW r, NEW t \in Thread, World(r, {t}), Mine(r, t), r.cs[t], r.cond[t] \in Cond,
           r.obj[t] \in Mutex, r.phase[r.obj[t]] = "live", r.holder[r.obj[t]] = t,
           NEW v, v = BroadcastLoop(r, t)
    PROVE  World(v, {}) /\ Steady(r, v)
<1> DEFINE m == r.obj[t]
           c == r.cond[t]
<1>1. CASE r.cvMutex[c] = m
  <2> DEFINE a == CondSignal(r, c)
  <2>1. a = CondSignal(r, c) /\ v = SetPc(a, t, "Broadcast") /\ c \in Cond
    BY <1>1 DEF BroadcastLoop, SetPc
  <2> HIDE DEF a
  <2>2. World(a, {t}) /\ Nudged(r, a, t)
    BY <2>1, CondSignalWorld DEF Mine
  <2>3. OwnStep(a, v, t) /\ SetPcTo(a, v, t, "Broadcast")
    <3>1. "Broadcast" \in Cont
      BY DEF Cont
    <3>2. Rec(a) /\ CtlT(a) /\ RunT(a)
      BY <2>2, WorldTypes
    <3> QED
      BY <2>1, <3>1, <3>2, SetPcOwn
  <2>4. /\ a.mstate[t] = "EReady" /\ a.waitObj[t] = Null /\ a.cond[t] = c /\ a.obj[t] = m
        /\ a.phase[m] = "live" /\ a.holder[m] = t /\ a.cs[t] /\ ~a.blocked[t]
        /\ ~(a.susp[t] > 0) /\ a.csFunction[t] >= -1
    BY <2>2 DEF Nudged, SameCtl, SameWait, Mine
  <2>5. /\ v.mstate[t] = "EReady" /\ v.waitObj[t] = Null /\ v.cond[t] = c /\ v.obj[t] = m
        /\ v.phase[m] = "live" /\ v.holder[m] = t /\ v.cs[t] /\ ~v.blocked[t]
        /\ ~(v.susp[t] > 0) /\ v.csFunction[t] >= -1 /\ v.pc[t] = "Broadcast"
    BY <2>3, <2>4 DEF OwnStep, SetPcTo, SameK, SameWhere
  <2>6. ThreadOK(v, t)
    <3>1. c # Null /\ c \in Cond /\ m \in Mutex
      BY SyncAssumption DEF Obj
    <3> HIDE DEF c, m
    <3> QED
      BY <2>5, <3>1 DEF ThreadOK, WaitOK, SuspOK, PcOK, SemWaits, MutexWaits, CondWaits, OnWaitQ,
         OnSuspQ
  <2>7. World(v, {})
    <3>1. a.mstate[t] # "EHoldMutexPending" \/ ~(v.susp[t] > 0)
      BY <2>5
    <3> QED
      BY <2>2, <2>3, <2>5, <2>6, <3>1, OwnEnd
  <2>8. Steady(r, a)
    BY <2>2, NudgedSteady
  <2> QED
    BY <2>3, <2>7, <2>8, SteadyThen DEF OwnStep, SetPcTo
<1>2. CASE r.cvMutex[c] # m
  <2> DEFINE a == IF r.todo[t] = 1 THEN MutexSignal(r, t, m) ELSE r
  <2>1. v = BackLeaveCS(SetTodo(a, t, 0), t)
    BY <1>2 DEF BroadcastLoop, SetTodo
  <2>2. World(a, {t}) /\ Mine(a, t) /\ Steady(r, a)
    <3>1. CASE r.todo[t] = 1
      <4>1. a = MutexSignal(r, t, m) /\ m \in Mutex /\ r.holder[m] = t /\ r.mstate[t] = "EReady"
        BY <3>1 DEF Mine
      <4> HIDE DEF a, m
      <4>2. World(a, {t}) /\ Acted(r, a, t)
        BY <4>1, SignalWorld
      <4>3. Mine(a, t)
        BY <4>2, ActedMine DEF Acted
      <4> QED
        BY <4>2, <4>3, ActedSteady
    <3>2. CASE r.todo[t] # 1
      <4>1. a = r
        BY <3>2
      <4> QED
        BY <4>1 DEF Steady
    <3> QED
      BY <3>1, <3>2
  <2> HIDE DEF a
  <2>3. World(v, {}) /\ SameK(a, v) /\ v.fault = a.fault
    BY <2>1, <2>2, BackLeaveTodo
  <2> QED
    BY <2>2, <2>3, SteadyThen
<1> QED
  BY <1>1, <1>2

\* One round of DCondVar::Broadcast.
LEMMA BroadcastStepFine ==
    ASSUME World(k, {}), NEW t \in Thread, BroadcastStep(t)
    PROVE  World(k', {}) /\ Steady(k, k')
<1>1. At(t, "Broadcast") /\ k' = BroadcastLoop(k, t)
  BY DEF BroadcastStep
<1>2. /\ ThreadOK(k, t) /\ World(k, {t}) /\ k.pc[t] = "Broadcast"
      /\ (k.mstate[t] = "EReady" => Mine(k, t))
  BY <1>1, StepMine
<1>3. /\ k.mstate[t] = "EReady" /\ k.cs[t] /\ k.cond[t] \in Cond /\ k.holder[k.obj[t]] = t
  BY <1>2 DEF ThreadOK, PcOK, SuspOK
<1>4. k.obj[t] \in Mutex /\ k.phase[k.obj[t]] = "live"
  <2>1. k.cond[t] # Null
    BY <1>3, SyncAssumption DEF Obj
  <2> QED
    BY <1>2, <2>1 DEF ThreadOK, WaitOK
<1> QED
  BY <1>1, <1>2, <1>3, <1>4, BroadcastLoopWorld

\* The mutex of a condition variable with waiters is kept open by them.
LEMMA CvLive ==
    ASSUME NEW r, World(r, {}), NEW c \in Cond, r.phase[c] = "live", r.cvMutex[c] # Null
    PROVE  r.cvMutex[c] \in Mutex /\ r.phase[r.cvMutex[c]] = "live"
<1>1. c \in Obj /\ c \notin Mutex /\ c \notin Sem /\ Null \notin Cond
  BY SyncAssumption DEF Obj
<1>2. RQ(r, {}) /\ CntT(r) /\ CountAt(r, c, 0)
  BY <1>1 DEF World, QOK
<1>3. r.waitCount[c] # 0 /\ r.waitCount[c] = Len(r.waitQ[c]) + Len(r.suspQ[c]) + 0
  BY <1>2 DEF CountAt, Tally
<1>4. r.waitQ[c] # <<>> \/ r.suspQ[c] # <<>>
  <2>1. Len(<<>>) = 0
    OBVIOUS
  <2>2. r.waitQ[c] = <<>> /\ r.suspQ[c] = <<>> => r.waitCount[c] = 0
    BY <1>3, <2>1
  <2> QED
    BY <1>3, <2>2, Zenon
<1>5. WaitState[c] = "EWaitCondVar" /\ SuspState[c] = "EWaitCondVarSuspended"
  BY WaitStates
<1>6. PICK h \in Thread : r.mstate[h] \in CondWaits /\ r.waitObj[h] = c
  <2>1. CASE r.waitQ[c] # <<>>
    <3>1. Head(r.waitQ[c]) \in Thread /\ Head(r.waitQ[c]) \in Range(r.waitQ[c])
      BY <1>1, <1>2, <2>1, RHead
    <3> QED
      BY <1>1, <1>2, <1>5, <3>1, RWhere DEF CondWaits
  <2>2. CASE r.suspQ[c] # <<>>
    <3>1. Head(r.suspQ[c]) \in Thread /\ Head(r.suspQ[c]) \in Range(r.suspQ[c])
      BY <1>1, <1>2, <2>2, RHead
    <3> QED
      BY <1>1, <1>2, <1>5, <3>1, RWhere DEF CondWaits
  <2> QED
    BY <1>4, <2>1, <2>2
<1>7. WaitOK(r, h)
  BY DEF World, ThreadOK
<1> QED
  BY <1>1, <1>6, <1>7 DEF WaitOK

\* DCondVar::Broadcast begins.
LEMMA CondBroadcastFine ==
    ASSUME World(k, {}), NEW t \in Thread, NEW c \in Cond, CondBroadcast(t, c)
    PROVE  World(k', {}) /\ Steady(k, k')
<1> DEFINE m == k.cvMutex[c]
           a == EnterCS(k, t)
           b == SetBroad(a, t, c, m, 1)
<1>1. /\ At(t, "run") /\ k.phase[c] = "live" /\ m # Null /\ a = EnterCS(k, t)
      /\ b = SetBroad(a, t, c, m, 1)
  BY DEF CondBroadcast, Usable
<1>2. k' = IF k.holder[m] = t THEN BroadcastLoop(SetTodo(b, t, 0), t) ELSE MutexWaitLoop(b, t, m)
  BY DEF CondBroadcast, SetBroad, SetTodo
<1>3. m \in Mutex /\ k.phase[m] = "live" /\ c # Null
  BY <1>1, CvLive, SyncAssumption DEF Obj
<1> HIDE DEF a, b, m
<1>4. /\ World(a, {t}) /\ Mine(a, t) /\ SameK(k, a) /\ a.fault = k.fault /\ a.cs[t]
      /\ a.pc[t] = "run"
  BY <1>1, EnterMine
<1>5. OwnStep(a, b, t) /\ SetBroadTo(a, b, t, c, m, 1)
  <2>1. m \in Obj \cup {Null} /\ c \in Cond \cup {Null} /\ 1 \in Nat
    BY <1>3 DEF Obj
  <2>2. Rec(a) /\ CtlT(a) /\ RunT(a)
    BY <1>4, WorldTypes
  <2> QED
    BY <1>1, <2>1, <2>2, SetBroadOwn
<1>6. World(b, {t}) /\ Mine(b, t) /\ SameK(a, b)
  BY <1>4, <1>5, OwnMine DEF SetBroadTo
<1>7. SameK(k, b) /\ b.fault = k.fault
  BY <1>4, <1>5, <1>6, SameKTrans DEF SetBroadTo
<1>8. /\ b.cs[t] /\ b.cond[t] = c /\ b.obj[t] = m /\ b.phase[m] = "live"
      /\ b.holder[m] = k.holder[m] /\ b.pc[t] = "run"
  BY <1>3, <1>4, <1>5, <1>7 DEF SetBroadTo, SameK
<1>9. CASE k.holder[m] = t
  <2> DEFINE d == SetTodo(b, t, 0)
  <2>1. d = SetTodo(b, t, 0) /\ k' = BroadcastLoop(d, t) /\ 0 \in Nat
    BY <1>2, <1>9
  <2> HIDE DEF d
  <2>2. OwnStep(b, d, t) /\ SetTodoTo(b, d, t, 0)
    BY <2>1, <1>6, WorldTypes, SetTodoOwn
  <2>3. World(d, {t}) /\ Mine(d, t) /\ SameK(b, d)
    BY <1>6, <2>2, OwnMine DEF SetTodoTo
  <2>4. /\ d.cs[t] /\ d.cond[t] \in Cond /\ d.obj[t] \in Mutex /\ d.phase[d.obj[t]] = "live"
        /\ d.holder[d.obj[t]] = t
    BY <1>3, <1>8, <1>9, <2>2, <2>3 DEF SetTodoTo, SameK
  <2>5. World(k', {}) /\ Steady(d, k')
    BY <2>1, <2>3, <2>4, BroadcastLoopWorld
  <2>6. SameK(k, d) /\ d.fault = k.fault
    BY <1>7, <2>2, <2>3, SameKTrans DEF SetTodoTo
  <2> QED
    BY <2>5, <2>6, SteadyOwn, SameSelf
<1>10. CASE k.holder[m] # t
  <2>1. k' = MutexWaitLoop(b, t, m)
    BY <1>2, <1>10
  <2>2. WorldOff(b, {t}, m) /\ HighBut(b, {}, Null, 0)
    BY <1>6, WorldHole DEF World
  <2>3. b.cond[t] # Null => b.obj[t] = m /\ b.cs[t] /\ b.phase[m] = "live"
    BY <1>8
  <2>4. World(k', {}) /\ Steady(b, k')
    BY <1>3, <1>6, <1>8, <2>1, <2>2, <2>3, LoopWorld
  <2> QED
    BY <1>7, <2>4, SteadyOwn, SameSelf
<1> QED
  BY <1>9, <1>10

\* The priority of a thread that waits for no mutex changes, and its place on its queue.
LEMMA OnlyPriWorld ==
    ASSUME NEW r, NEW t \in Thread, World(r, {t}), NEW p \in Pri, NEW s, QOK(s, {}), OnlyPri(r, s),
           s.fault = r.fault, s.pri = [r.pri EXCEPT ![t] = p],
           r.mstate[t] \notin {"EWaitMutex", "EHoldMutexPending"}
    PROVE  /\ World(s, {t}) /\ (ReqBut(r, {t}) /\ IsReq(r, t, p) => ReqBut(s, {}))
<1>3. /\ SameCtl(r, s) /\ SameRun(r, s) /\ SameCnt(r, s) /\ SameWhere(r, s) /\ s.clnPri = r.clnPri
  BY DEF OnlyPri, SameWhere
<1>4. \A u \in Thread \ {t} : ThreadOK(s, u)
  <2> SUFFICES ASSUME NEW u \in Thread \ {t} PROVE ThreadOK(s, u)
    OBVIOUS
  <2>1. Agree(r, s, u)
    BY <1>3 DEF Agree, SamePlace, SameWait, SameCv, SameCtl, SameRun, SameWhere, SameCnt
  <2>2. ThreadOK(r, u)
    BY DEF World
  <2> QED
    BY <2>1, <2>2, ThreadAgrees
<1>5. HoldOK(s) /\ OneResets(s)
  BY <1>3 DEF World, HoldOK, OneResets, SameCtl
<1>6. r.pri \in [Thread -> Int] /\ p \in Int
  <2>1. r.pri \in [Thread -> Int]
    BY QTypes2 DEF World, QOK
  <2> QED
    BY <2>1, PriNat
<1>7. /\ But(r.mstate, s.mstate, t) /\ But(r.waitObj, s.waitObj, t) /\ But(r.pri, s.pri, t)
      /\ s.susp = r.susp /\ \A x : (Free(s, x) <=> Free(r, x)) /\ (Held(s, x) <=> Held(r, x))
      /\ \A x : ~Pends(r, t, x) /\ ~MWaits(r, t, x) /\ ~MWaits(s, t, x)
  BY <1>3, <1>6 DEF But, SameWhere, SameCtl, Free, Held, Pends, MWaits
<1>8. NoIdle(s, {})
  <2>1. IdleOff(r, Null)
    BY IdleAll DEF World
  <2>2. IdleOff(s, Null)
    BY <1>7, <2>1, IdleFrame
  <2> QED
    BY <2>2, IdleAll
<1>9. HighBut(s, {}, Null, 0)
  <2>1. HighOff(r, Null)
    BY HighAll DEF World
  <2>2. HighOff(s, Null)
    BY <1>3, <1>7, <2>1, HighFrame
  <2> QED
    BY <2>2, HighAll
<1>10. ASSUME ReqBut(r, {t}), IsReq(r, t, p) PROVE ReqBut(s, {})
  <2>1. OnlyOf(r, s, t, p, {})
    BY <1>3 DEF OnlyOf, SameCnt
  <2> QED
    BY <1>6, <1>10, <2>1, MovedReq
<1> QED
  BY <1>3, <1>4, <1>5, <1>8, <1>9, <1>10 DEF World

-----------------------------------------------------------------------------
\* t is counted at condition variable c, whose mutex is m.
CondCount(r, c, m) == [r EXCEPT !.cvMutex[c] = m, !.waitCount[c] = @ + 1]
CondCounted(r, s, c, m) ==
    /\ s.cvMutex = [r.cvMutex EXCEPT ![c] = m] /\ s.count = r.count
    /\ s.waitCount = [r.waitCount EXCEPT ![c] = r.waitCount[c] + 1]
\* CondCount counts one thread and sets the mutex.
LEMMA CondCountFields ==
    ASSUME NEW r, Rec(r), NEW c, NEW m, NEW s, s = CondCount(r, c, m)
    PROVE  Rec(s) /\ OnlyCounts(r, s) /\ CondCounted(r, s, c, m)
<1>1. OnlyCounts(r, s)
  BY SMT DEF Rec, Fields, CondCount, OnlyCounts, SameCtl, SameRun, SameWhere, SameQ
<1>2. CondCounted(r, s, c, m)
  BY SMT DEF Rec, Fields, CondCount, CondCounted
<1>3. Rec(s)
  <2> DEFINE q == [r EXCEPT !.cvMutex[c] = m]
             x == [q.waitCount EXCEPT ![c] = q.waitCount[c] + 1]
  <2>1. s = [q EXCEPT !.waitCount = x] /\ DOMAIN s = Fields
    BY SMT DEF Rec, Fields, CondCount
  <2> HIDE DEF q, x
  <2> QED
    BY <2>1, SMT DEF Rec, Fields
<1> QED
  BY <1>1, <1>2, <1>3

\* A thread that is going to wait is counted by the condition variable.
LEMMA CondCountKeeps ==
    ASSUME NEW r, NEW X, NEW c \in Cond, QOK(r, X), r.phase[c] = "live", NEW m \in Mutex,
           NEW s, s = CondCount(r, c, m)
    PROVE  FQ(s, X, c, 1) /\ OnlyCounts(r, s) /\ CondCounted(r, s, c, m)
<1>1. c \in Obj /\ c \notin Sem /\ c \notin Mutex /\ Null \notin Mutex
  BY SyncAssumption DEF Obj
<1>2. /\ FQ(r, X, c, 0) /\ Rec(r) /\ CtlT(r) /\ RunT(r) /\ CntT(r) /\ RQ(r, X) /\ CountAt(r, c, 0)
  BY <1>1, FluxNone DEF QOK
<1>3. Rec(s) /\ OnlyCounts(r, s) /\ CondCounted(r, s, c, m)
  BY <1>2, CondCountFields
<1>4. CntT(s)
  BY <1>2, <1>3 DEF CntT, CondCounted
<1>5. \A x \in Obj : x # c => SameCountAt(r, s, x)
  BY <1>2, <1>3 DEF CondCounted, SameCountAt, CntT
<1>6. CountAt(s, c, 1)
  <2>1. Len(r.waitQ[c]) \in Nat /\ Len(r.suspQ[c]) \in Nat /\ r.waitCount[c] \in Nat
    BY <1>1, <1>2, CountTypes
  <2>2. s.waitCount[c] = r.waitCount[c] + 1 /\ s.cvMutex[c] = m /\ m # Null
    BY <1>1, <1>2, <1>3 DEF CondCounted, CntT
  <2>3. s.waitQ = r.waitQ /\ s.suspQ = r.suspQ /\ s.phase[c] = "live"
    BY <1>3 DEF OnlyCounts, SameQ, SameCtl
  <2>4. r.waitCount[c] = Len(r.waitQ[c]) + Len(r.suspQ[c]) + 0
    BY <1>1, <1>2 DEF CountAt, Tally
  <2>5. Tally("live", s.waitCount[c], Len(r.waitQ[c]), Len(r.suspQ[c]), 1)
    BY <2>1, <2>2, <2>4 DEF Tally
  <2>6. s.waitCount[c] # 0 /\ s.cvMutex[c] # Null
    BY <2>1, <2>2
  <2> QED
    BY <1>1, <2>3, <2>5, <2>6 DEF CountAt
<1>7. FQ(s, X, c, 1)
  BY <1>1, <1>2, <1>3, <1>4, <1>5, <1>6, CountChange
<1> QED
  BY <1>3, <1>7

\* t is on the wait queue of c.
LEMMA CondJoins ==
    ASSUME NEW r, NEW t \in Thread, World(r, {}), Mine(r, t), NEW c \in Cond, r.phase[c] = "live",
           NEW m \in Mutex, r.cvMutex[c] \in {Null, m},
           NEW b, b = Wait(CondCount(r, c, m), c, t, "EWaitCondVar")
    PROVE  /\ World(b, {t}) /\ SameReq(r, b) /\ SameRest(r, b) /\ b.cvMutex[c] = m
           /\ b.mstate[t] = "EWaitCondVar" /\ b.waitObj[t] = c
<1> DEFINE a == CondCount(r, c, m)
<1>1. a = CondCount(r, c, m) /\ b = Wait(a, c, t, "EWaitCondVar") /\ c \in Obj
  BY DEF Obj
<1> HIDE DEF a
<1>2. QOK(r, {t}) /\ World(r, {t}) /\ CntT(r)
  BY ReadyFlux, WorldLess, WorldTypes DEF World, Mine, Idle
<1>3. FQ(a, {t}, c, 1) /\ OnlyCounts(r, a) /\ CondCounted(r, a, c, m)
  BY <1>1, <1>2, CondCountKeeps
<1>4. WaitState[c] = "EWaitCondVar"
  BY WaitStates
<1>5. a.phase[c] # "deleted"
  BY <1>3 DEF OnlyCounts, SameCtl
<1>6. /\ QOK(b, {}) /\ SameRest(a, b) /\ SameCnt(a, b) /\ b.pri = a.pri
      /\ Lands(a, b, t, "EWaitCondVar", c)
  BY <1>1, <1>3, <1>4, <1>5, WaitLands
<1>7. SameRest(r, b) /\ Lands(r, b, t, "EWaitCondVar", c) /\ b.pri = r.pri
  <2>1. SameRest(r, a) /\ SameWhere(r, a) /\ a.pri = r.pri
    BY <1>3, OnlyCountsRest
  <2>2. SameRest(r, b)
    BY <1>6, <2>1, SameRestTrans
  <2>3. Lands(r, b, t, "EWaitCondVar", c)
    BY <1>6, <2>1, LandsBack
  <2> QED
    BY <1>6, <2>1, <2>2, <2>3
<1>8. b.cvMutex = [r.cvMutex EXCEPT ![c] = m]
  BY <1>3, <1>6 DEF SameCnt, CondCounted
<1>9. \A x \in Thread : x # t => SameCv(r, b, x)
  <2> SUFFICES ASSUME NEW x \in Thread, r.mstate[x] \in CondWaits
               PROVE  b.cvMutex[r.waitObj[x]] = r.cvMutex[r.waitObj[x]]
    BY DEF SameCv
  <2>1. /\ r.waitObj[x] \in Cond /\ r.waitObj[x] = r.cond[x] /\ r.cvMutex[r.waitObj[x]] = r.obj[x]
        /\ (r.cond[x] # Null => r.obj[x] \in Mutex)
    BY DEF World, ThreadOK, WaitOK
  <2>2. r.cvMutex[r.waitObj[x]] # Null
    BY <2>1, SyncAssumption DEF Obj
  <2> QED
    BY <1>2, <1>8, <2>1, <2>2 DEF CntT
<1>10. r.mstate[t] \notin {"EWaitMutex", "EHoldMutexPending"}
  BY DEF Mine
<1>11. World(b, {t}) /\ SameReq(r, b)
  BY <1>2, <1>6, <1>7, <1>9, <1>10, OtherWait
<1>12. b.cvMutex[c] = m
  BY <1>2, <1>8 DEF CntT
<1> QED
  BY <1>7, <1>11, <1>12 DEF Lands

\* The priority t goes back to, while it is on the wait queue of c.
LEMMA CondReverts ==
    ASSUME NEW e, NEW t \in Thread, World(e, {t}), NEW c \in Cond, e.mstate[t] = "EWaitCondVar",
           e.waitObj[t] = c, NEW f, f = ChangePriority(e, c, t, RequiredPriority(e, t))
    PROVE  /\ World(f, {t}) /\ SameCtl(e, f) /\ SameRun(e, f) /\ SameWhere(e, f) /\ SameCnt(e, f)
           /\ f.fault = e.fault /\ (ReqBut(e, {t}) => ReqBut(f, {}))
<1> DEFINE p == RequiredPriority(e, t)
<1>1. QOK(e, {}) /\ RQ(e, {}) /\ CtlT(e) /\ RunT(e) /\ c \in Obj
  BY WorldTypes DEF Obj
<1>2. p \in Pri /\ IsReq(e, t, p) /\ f = ChangePriority(e, c, t, p)
  BY <1>1, RequiredIs
<1> HIDE DEF p
<1>3. t \in Range(e.waitQ[c])
  BY <1>1, RWhere, WaitStates
<1>4. QOK(f, {}) /\ OnlyPri(e, f) /\ f.fault = e.fault /\ f.pri = [e.pri EXCEPT ![t] = p]
  BY <1>1, <1>2, <1>3, ChangePriorityKeeps
<1>5. e.mstate[t] \notin {"EWaitMutex", "EHoldMutexPending"}
  OBVIOUS
<1>6. World(f, {t}) /\ (ReqBut(e, {t}) /\ IsReq(e, t, p) => ReqBut(f, {}))
  BY <1>2, <1>4, <1>5, OnlyPriWorld
<1> QED
  BY <1>2, <1>4, <1>6 DEF OnlyPri, SameWhere

\* DCondVar::Wait, up to where it gives up the mutex.
LEMMA CondWaitFine ==
    ASSUME World(k, {}), NEW t \in Thread, NEW c \in Cond, NEW m \in Mutex, CondWait(t, c, m)
    PROVE  World(k', {}) /\ Steady(k, k')
<1> DEFINE b == Wait(CondCount(k, c, m), c, t, "EWaitCondVar")
           d == SetHold(b, m, 0)
           e == GiveUp(d, t, m)
           f == IF e.clnPri[m] = 0 THEN e ELSE ChangePriority(e, c, t, RequiredPriority(e, t))
<1>1. /\ At(t, "run") /\ k.phase[c] = "live" /\ k.phase[m] = "live" /\ k.holder[m] = t
      /\ k.cvMutex[c] \in {Null, m} /\ b = Wait(CondCount(k, c, m), c, t, "EWaitCondVar")
      /\ d = SetHold(b, m, 0) /\ e = GiveUp(d, t, m)
      /\ f = IF e.clnPri[m] = 0 THEN e ELSE ChangePriority(e, c, t, RequiredPriority(e, t))
      /\ k' = SetCall(f, t, "CondWindow", m, c)
  BY DEF CondWait, Usable, SetCall, SetHold, CondCount
<1> HIDE DEF b, d, e, f
<1>2. Mine(k, t) /\ k.cond[t] = Null /\ World(k, {t}) /\ k.pc[t] = "run"
  BY <1>1, AtRun
<1>3. /\ World(b, {t}) /\ SameReq(k, b) /\ SameRest(k, b) /\ b.cvMutex[c] = m
      /\ b.mstate[t] = "EWaitCondVar" /\ b.waitObj[t] = c
  BY <1>1, <1>2, CondJoins
<1>4. /\ HoldSet(b, d, m, 0) /\ QOK(d, {}) /\ (\A u \in Thread \ {t} : ThreadOK(d, u)) /\ OneResets(d)
      /\ NoIdle(d, {}) /\ HighBut(d, {}, Null, 0) /\ HoldOff(d, m)
  <2>1. 0 \in Nat
    OBVIOUS
  <2> QED
    BY <1>1, <1>3, <2>1, HoldWorld
<1>5. /\ d.holder[m] = t /\ d.phase[m] = "live" /\ d.mstate[t] = "EWaitCondVar"
      /\ d.waitObj[t] = c /\ d.cvMutex[c] = m
  BY <1>1, <1>3, <1>4 DEF HoldSet, QSame, SameWhere, SameCnt, SameRest, SameCtl
<1>6. World(e, {t}) /\ GaveUp(d, e, t, m)
  <2>1. d.mstate[t] # "EWaitMutex"
    BY <1>5
  <2> QED
    BY <1>1, <1>4, <1>5, <2>1, GiveUpWorld
<1>7. e.mstate[t] = "EWaitCondVar" /\ e.waitObj[t] = c /\ e.cvMutex[c] = m
  BY <1>5, <1>6 DEF GaveUp, SameWait
<1>8. ReqBut(d, {}) => ReqBut(e, {t}) /\ (e.clnPri[m] = 0 => ReqBut(e, {}))
  <2>1. CtlT(d) /\ RunT(d) /\ d.pri \in [Thread -> Pri]
    BY <1>4, QTypes2 DEF QOK
  <2>2. e.clnPri = d.clnPri
    BY <1>6 DEF GaveUp
  <2> QED
    BY <1>6, <2>1, <2>2, GaveUpReq
<1>9. /\ World(f, {t}) /\ SameCtl(e, f) /\ SameRun(e, f) /\ SameWhere(e, f) /\ SameCnt(e, f)
      /\ f.fault = e.fault /\ (ReqBut(d, {}) => ReqBut(f, {}))
  <2>1. CASE e.clnPri[m] = 0
    <3>1. f = e
      BY <1>1, <2>1
    <3> QED
      BY <1>6, <1>8, <2>1, <3>1 DEF SameCtl, SameRun, SameWhere, SameCnt
  <2>2. CASE e.clnPri[m] # 0
    <3>1. f = ChangePriority(e, c, t, RequiredPriority(e, t))
      BY <1>1, <2>2
    <3>2. /\ World(f, {t}) /\ SameCtl(e, f) /\ SameRun(e, f) /\ SameWhere(e, f) /\ SameCnt(e, f)
          /\ f.fault = e.fault /\ (ReqBut(e, {t}) => ReqBut(f, {}))
      BY <1>6, <1>7, <3>1, CondReverts
    <3> QED
      BY <1>8, <3>2
  <2> QED
    BY <2>1, <2>2
<1>10. OwnStep(f, k', t) /\ SetCallTo(f, k', t, "CondWindow", m, c)
  <2>1. "CondWindow" \in Cont /\ m \in Obj \cup {Null} /\ c \in Cond \cup {Null}
    BY DEF Cont, Obj
  <2>2. Rec(f) /\ CtlT(f) /\ RunT(f)
    BY <1>9, WorldTypes
  <2> QED
    BY <1>1, <2>1, <2>2, SetCallOwn
<1>11. /\ d.blocked = k.blocked /\ d.susp = k.susp /\ d.cs = k.cs /\ d.csFunction = k.csFunction
       /\ d.phase = k.phase /\ d.fault = k.fault
  BY <1>3, <1>4 DEF HoldSet, SameRun, SameOwnAll, SameReq, SameRest, SameCtl
<1>12. /\ ~e.blocked[t] /\ ~(e.susp[t] > 0) /\ e.csFunction[t] >= -1 /\ (~e.cs[t] => e.csFunction[t] = 0)
       /\ e.phase[m] = "live" /\ e.fault = k.fault
  BY <1>1, <1>2, <1>6, <1>11 DEF GaveUp, SameOwnAll, SameWait, Mine
<1>13. /\ ~f.blocked[t] /\ ~(f.susp[t] > 0) /\ f.csFunction[t] >= -1 /\ (~f.cs[t] => f.csFunction[t] = 0)
       /\ f.phase[m] = "live" /\ f.fault = k.fault /\ f.mstate[t] = "EWaitCondVar"
       /\ f.waitObj[t] = c
       /\ f.cvMutex[c] = m
  BY <1>7, <1>9, <1>12 DEF SameCtl, SameRun, SameWhere, SameCnt
<1>14. /\ ~k'.blocked[t] /\ ~(k'.susp[t] > 0) /\ k'.csFunction[t] >= -1 /\ (~k'.cs[t] => k'.csFunction[t] = 0)
       /\ k'.phase[m] = "live" /\ k'.mstate[t] = "EWaitCondVar" /\ k'.waitObj[t] = c
       /\ k'.cvMutex[c] = m /\ k'.pc[t] = "CondWindow" /\ k'.obj[t] = m /\ k'.cond[t] = c
  BY <1>10, <1>13 DEF OwnStep, SetCallTo, SameK, SameWhere, SameCnt
<1>15. ThreadOK(k', t)
  <2>1. c # Null /\ c \notin Mutex /\ c \notin Sem
    BY SyncAssumption DEF Obj
  <2> QED
    BY <1>14, <2>1 DEF ThreadOK, WaitOK, SuspOK, PcOK, SemWaits, MutexWaits, CondWaits, OnWaitQ,
       OnSuspQ
<1>16. World(k', {})
  <2>1. f.mstate[t] # "EHoldMutexPending" \/ ~(k'.susp[t] > 0)
    BY <1>13
  <2> QED
    BY <1>9, <1>10, <1>14, <1>15, <2>1, OwnEnd
<1>17. Steady(k, k')
  <2>1. k'.fault = k.fault
    BY <1>10, <1>13 DEF SetCallTo
  <2>2. ASSUME ReqBut(k, {}) PROVE ReqBut(k', {})
    <3>1. ReqBut(d, {})
      BY <1>3, <1>4, <2>2 DEF HoldSet, SameReq, ReqBut, IsReq
    <3>2. ReqBut(f, {})
      BY <1>9, <3>1
    <3> QED
      BY <1>10, <3>2, OwnEdges DEF OwnStep
  <2> QED
    BY <2>1, <2>2 DEF Steady
<1> QED
  BY <1>16, <1>17

\* A mutex that is not live is neither offered nor held by what NoIdle and HighBut say.
LEMMA NotLive ==
    ASSUME NEW r, NEW T, NEW m, WorldOff(r, T, m), r.phase[m] # "live"
    PROVE  World(r, T)
<1>1. IdleOff(r, Null)
  BY DEF WorldOff, IdleOff, Free
<1>2. HighOff(r, Null)
  BY DEF WorldOff, HighOff, Held
<1>3. NoIdle(r, {}) /\ HighBut(r, {}, Null, 0)
  BY <1>1, <1>2, IdleAll, HighAll
<1> QED
  BY <1>3 DEF WorldOff, World

\* A thread that waits for an object in a reset is in no half of a condition wait.
LEMMA ResetThread ==
    ASSUME NEW r, NEW h, ThreadOK(r, h), NEW o \in Obj, r.waitObj[h] = o, r.phase[o] # "live"
    PROVE  r.pc[h] = "MutexWait" => r.cond[h] = Null
<1>1. o # Null
  BY SyncAssumption
<1> QED
  BY <1>1 DEF ThreadOK, WaitOK, PcOK, MutexWaits

\* A thread that waits for an object that is reset is made ready.
LEMMA ResetMoves ==
    ASSUME NEW r, NEW t \in Thread, World(r, {t}), NEW o \in Obj, r.phase[o] # "live",
           NEW h \in Thread, h # t, r.waitObj[h] = o, r.mstate[h] \notin Idle,
           NEW v, QOK(v, {}), SameCtl(r, v), SameReq(r, v), Lands(r, v, h, "EReady", Null),
           NEW c, Released(r, v, h, c), v.cvMutex = r.cvMutex
    PROVE  World(v, {t}) /\ SameWait(r, v, t)
<1>1. WorldOff(r, {t}, o) /\ RunT(r) /\ ThreadOK(r, h)
  BY WorldHole, WorldTypes DEF World
<1>2. r.pc[h] = "MutexWait" => r.cond[h] = Null
  BY <1>1, ResetThread
<1>3. v.clnPri = r.clnPri /\ v.pri = r.pri
  BY DEF SameReq
<1>4. \A x \in Thread : x # h => SameCv(r, v, x)
  BY DEF SameCv
<1>5. /\ \A m \in Mutex : Pends(r, h, m) => m = o \/ ~Free(r, m)
      /\ \A m \in Mutex : MWaits(r, h, m) => m = o \/ ~Held(r, m)
  BY DEF Pends, MWaits
<1>6. h \notin {t} /\ r.mstate[h] # "EDead"
  BY DEF Idle
<1>7. WorldOff(v, {t}, o)
  BY <1>1, <1>2, <1>3, <1>4, <1>5, <1>6, IdleMoves
<1>8. v.phase[o] # "live"
  BY DEF SameCtl
<1> QED
  BY <1>1, <1>7, <1>8, NotLive, OthersWait

\* A pending thread is made ready.
LEMMA ResetPends ==
    ASSUME NEW r, NEW t \in Thread, World(r, {t}), NEW m \in Mutex, r.phase[m] # "live",
           NEW h \in Thread, h # t, Pends(r, h, m), NEW v, v = Unpend(r, h, m)
    PROVE  World(v, {t}) /\ SameWait(r, v, t) /\ SameCtl(r, v) /\ SameReq(r, v)
<1>1. WorldOff(r, {t}, m) /\ QOK(r, {}) /\ ThreadOK(r, h) /\ m \in Obj
  BY WorldHole DEF World, Obj
<1>2. r.pc[h] = "MutexWait" => r.cond[h] = Null
  BY <1>1, ResetThread DEF Pends
<1>3. /\ QOK(v, {}) /\ Unpends(r, v, h, m) /\ v.mstate[h] = "EReady" /\ v.waitObj[h] = Null
      /\ \A x \in Thread : x # h => SameWait(r, v, x) /\ SameCv(r, v, x)
  BY <1>1, UnpendKeeps
<1>4. SameCtl(r, v) /\ SameReq(r, v) /\ v.blocked = r.blocked
  BY <1>3 DEF Unpends, SameReq, SameData, SameCtl, SameRun
<1>5. ThreadOK(v, h)
  <2>1. ~v.blocked[h] /\ r.mstate[h] # "EDead"
    BY <1>1, <1>4 DEF ThreadOK, WaitOK, Pends, OnWaitQ, OnSuspQ
  <2> QED
    BY <1>1, <1>2, <1>3, <1>4, <2>1, CtlPlace, IdleThread
<1>6. /\ \A x \in Mutex : Pends(r, h, x) \/ MWaits(v, h, x) => x = m \/ ~Free(r, x)
      /\ \A x \in Mutex : MWaits(r, h, x) \/ MWaits(v, h, x) => x = m \/ ~Held(r, x)
  BY <1>3 DEF Pends, MWaits
<1>7. v.clnPri = r.clnPri /\ v.pri = r.pri
  BY <1>4 DEF SameReq
<1>8. WorldOff(v, {t} \cup {h}, m)
  BY <1>1, <1>3, <1>4, <1>6, <1>7, MoveOff
<1>9. WorldOff(v, {t}, m)
  BY <1>5, <1>8 DEF WorldOff
<1>10. v.phase[m] # "live"
  BY <1>4 DEF SameCtl
<1> QED
  BY <1>3, <1>4, <1>9, <1>10, NotLive

\* A thread is still counted at the object, which is reset.
LEMMA FluxResets ==
    ASSUME NEW r, NEW X, NEW o \in Obj, FQ(r, X, o, 1), o \notin Sem, r.phase[o] = "resetting"
    PROVE  FQ(r, X, o, 0)
<1>1. RQ(r, X) /\ CntT(r) /\ CountAt(r, o, 1)
  BY DEF FQ
<1>2. Len(r.waitQ[o]) \in Nat /\ Len(r.suspQ[o]) \in Nat /\ r.waitCount[o] \in Nat
  BY <1>1, CountTypes DEF Obj
<1>3. Tally("resetting", r.waitCount[o], Len(r.waitQ[o]), Len(r.suspQ[o]), 0)
  <2>1. Tally("resetting", r.waitCount[o], Len(r.waitQ[o]), Len(r.suspQ[o]), 1)
    BY <1>1 DEF CountAt, Obj
  <2>2. \A n, a, b \in Nat : Tally("resetting", n, a, b, 1) => Tally("resetting", n, a, b, 0)
    BY DEF Tally
  <2> QED
    BY <1>2, <2>1, <2>2
<1>4. CountAt(r, o, 0)
  BY <1>1, <1>3 DEF CountAt
<1> QED
  BY <1>4 DEF FQ

\* The count goes up if o is a semaphore.
ResetCount(r, o) == [r EXCEPT !.count = [s \in Sem |-> IF s = o THEN @[s] + 1 ELSE @[s]]]
\* A reset counts a semaphore up for each thread.
LEMMA ResetCountFields ==
    ASSUME NEW r, Rec(r), CntT(r), NEW o, NEW v, v = ResetCount(r, o)
    PROVE  /\ o \in Sem => v = CountTo(r, o, r.count[o] + 1)
           /\ o \notin Sem => v = r
<1> DEFINE x == [s \in Sem |-> IF s = o THEN r.count[s] + 1 ELSE r.count[s]]
<1>1. v = [r EXCEPT !.count = x]
  BY DEF ResetCount
<1>2. CASE o \in Sem
  <2>1. x = [r.count EXCEPT ![o] = r.count[o] + 1]
    BY <1>2 DEF CntT
  <2> QED
    BY <1>1, <1>2, <2>1 DEF CountTo
<1>3. CASE o \notin Sem
  <2>1. x = r.count
    BY <1>3 DEF CntT
  <2>2. v = [r EXCEPT !.count = r.count]
    BY <1>1, <2>1
  <2>3. r.count = r["count"] /\ "count" \in DOMAIN r
    BY DEF Rec, Fields
  <2>4. [r EXCEPT !.count = r.count] = r
    BY <2>3, SMT DEF Rec, Fields
  <2> QED
    BY <1>3, <2>2, <2>4
<1> QED
  BY <1>2, <1>3

\* A reset releases the first waiting thread.
LEMMA ResetWaits ==
    ASSUME NEW r, NEW t \in Thread, World(r, {t}), r.mstate[t] = "EReady", NEW o \in Obj,
           r.phase[o] = "resetting", r.waitQ[o] # <<>>, NEW c \in Rets,
           NEW v, v = ResetCount(ReleaseFirst(r, o, c), o)
    PROVE  World(v, {t}) /\ SameWait(r, v, t) /\ SameCtl(r, v) /\ SameReq(r, v)
<1> DEFINE h == Head(r.waitQ[o])
           w == WaitRemove(r, o, h)
           g == GoIdle(w, h, c)
<1>1. w = WaitRemove(r, o, h) /\ g = GoIdle(w, h, c) /\ v = ResetCount(g, o)
  BY DEF ReleaseFirst, GoIdle
<1>2. QOK(r, {}) /\ RQ(r, {}) /\ h \in Thread /\ h \in Range(r.waitQ[o])
  BY RHead, WorldTypes
<1> HIDE DEF g, w, h
<1>3. /\ FQ(w, {} \cup {h}, o, 1) /\ SameRest(r, w) /\ SameWhere(r, w) /\ SameCnt(r, w)
      /\ w.pri = r.pri /\ r.waitObj[h] = o /\ r.mstate[h] = WaitState[o]
  BY <1>1, <1>2, TakeWait
<1>4. /\ FQ(g, {}, o, 1) /\ SameNumbers(w, g) /\ SameCnt(w, g) /\ Released(w, g, h, c)
      /\ Lands(w, g, h, "EReady", Null)
  BY <1>1, <1>2, <1>3, GoIdleKeeps
<1>5. /\ Lands(r, g, h, "EReady", Null) /\ Released(r, g, h, c) /\ g.cvMutex = r.cvMutex
      /\ SameCtl(r, g) /\ SameReq(r, g)
  <2>1. Lands(r, g, h, "EReady", Null) /\ Released(r, g, h, c)
    BY <1>3, <1>4, LandsBack, ReleasedBack DEF SameRest
  <2>2. SameCtl(r, g) /\ g.cvMutex = r.cvMutex
    BY <1>3, <1>4 DEF SameRest, SameNumbers, SameCtl, SameCnt
  <2>3. SameReq(r, g)
    BY <1>3, <1>4 DEF SameRest, SameNumbers, SameData, SameCtl, SameReq
  <2> QED
    BY <2>1, <2>2, <2>3
<1>6. Rec(g) /\ CntT(g) /\ RQ(g, {}) /\ g.phase[o] = "resetting" /\ CountAt(g, o, 1)
  BY <1>4, <1>5 DEF FQ, SameCtl
<1>7. /\ QOK(v, {}) /\ SameCtl(r, v) /\ SameReq(r, v) /\ Lands(r, v, h, "EReady", Null)
      /\ Released(r, v, h, c) /\ v.cvMutex = r.cvMutex
  <2>1. CASE o \in Sem
    <3> DEFINE n == g.count[o] + 1
    <3>1. v = CountTo(g, o, n)
      BY <1>1, <1>6, <2>1, ResetCountFields
    <3>2. SemTally(n, Len(g.waitQ[o]), 0)
      <4>1. Len(g.waitQ[o]) \in Nat /\ g.count[o] \in Int
        BY <1>6, <2>1, CountTypes
      <4>2. SemTally(g.count[o], Len(g.waitQ[o]), 1)
        BY <1>6, <2>1 DEF CountAt
      <4> QED
        BY <4>1, <4>2 DEF SemTally
    <3>3. n \in Int /\ g.phase[o] # "deleted"
      BY <1>6, <2>1 DEF CntT
    <3> HIDE DEF n
    <3>4. FQ(v, {}, o, 0) /\ CountSet(g, v, o, n)
      BY <1>4, <2>1, <3>1, <3>2, <3>3, CountTake
    <3>5. QOK(v, {}) /\ OnlyCounts(g, v) /\ v.cvMutex = g.cvMutex
      BY <3>4, FluxNone DEF CountSet
    <3>6. SameCtl(r, v) /\ SameReq(r, v) /\ v.cvMutex = r.cvMutex
      BY <1>5, <3>5 DEF OnlyCounts, SameCtl, SameReq
    <3>7. Lands(r, v, h, "EReady", Null) /\ Released(r, v, h, c)
      BY <1>5, <3>5 DEF OnlyCounts, SameWhere, SameRun, Lands, Released
    <3> QED
      BY <3>5, <3>6, <3>7
  <2>2. CASE o \notin Sem
    <3>1. v = g
      BY <1>1, <1>6, <2>2, ResetCountFields
    <3>2. QOK(g, {})
      <4>1. FQ(g, {}, o, 0)
        BY <1>4, <1>6, <2>2, FluxResets
      <4> QED
        BY <4>1, FluxNone
    <3> QED
      BY <1>5, <3>1, <3>2
  <2> QED
    BY <2>1, <2>2
<1>8. r.mstate[h] \notin Idle /\ h # t /\ r.phase[o] # "live"
  <2>1. r.mstate[h] \in OnWaitQ
    BY <1>3, WaitStates
  <2> QED
    BY <2>1 DEF OnWaitQ, Idle
<1> QED
  BY <1>2, <1>3, <1>7, <1>8, ResetMoves

\* A reset releases the first suspended one.
LEMMA ResetSuspended ==
    ASSUME NEW r, NEW t \in Thread, World(r, {t}), r.mstate[t] = "EReady", NEW o \in Obj,
           r.phase[o] = "resetting", NEW h \in Thread, h \in Range(r.suspQ[o]), NEW c \in Rets,
           NEW v, v = GoIdle(SuspRemove(r, o, h), h, c)
    PROVE  World(v, {t}) /\ SameWait(r, v, t) /\ SameCtl(r, v) /\ SameReq(r, v)
<1> DEFINE w == SuspRemove(r, o, h)
<1>1. w = SuspRemove(r, o, h) /\ v = GoIdle(w, h, c)
  OBVIOUS
<1>2. QOK(r, {}) /\ RQ(r, {})
  BY WorldTypes
<1> HIDE DEF w
<1>3. /\ FQ(w, {} \cup {h}, o, SuspCounts(o)) /\ SameRest(r, w) /\ SameWhere(r, w) /\ SameCnt(r, w)
      /\ w.pri = r.pri /\ r.waitObj[h] = o /\ r.mstate[h] = SuspState[o]
  BY <1>1, <1>2, TakeSusp
<1>4. FQ(w, {} \cup {h}, o, 0)
  <2>1. w.phase[o] = "resetting"
    BY <1>3 DEF SameRest, SameCtl
  <2>2. CASE o \in Sem
    BY <1>3, <2>2 DEF SuspCounts
  <2>3. CASE o \notin Sem
    <3>1. FQ(w, {} \cup {h}, o, 1)
      BY <1>3, <2>3 DEF SuspCounts
    <3> QED
      BY <2>1, <2>3, <3>1, FluxResets
  <2> QED
    BY <2>2, <2>3
<1>5. /\ FQ(v, {}, o, 0) /\ SameNumbers(w, v) /\ SameCnt(w, v) /\ Released(w, v, h, c)
      /\ Lands(w, v, h, "EReady", Null)
  BY <1>1, <1>4, GoIdleKeeps
<1>6. /\ Lands(r, v, h, "EReady", Null) /\ Released(r, v, h, c) /\ v.cvMutex = r.cvMutex
      /\ SameCtl(r, v) /\ SameReq(r, v) /\ QOK(v, {})
  <2>1. Lands(r, v, h, "EReady", Null) /\ Released(r, v, h, c)
    BY <1>3, <1>5, LandsBack, ReleasedBack DEF SameRest
  <2>2. SameCtl(r, v) /\ v.cvMutex = r.cvMutex
    BY <1>3, <1>5 DEF SameRest, SameNumbers, SameCtl, SameCnt
  <2>3. SameReq(r, v)
    BY <1>3, <1>5 DEF SameRest, SameNumbers, SameData, SameCtl, SameReq
  <2> QED
    BY <1>5, <2>1, <2>2, <2>3, FluxNone
<1>8. r.mstate[h] \notin Idle /\ h # t /\ r.phase[o] # "live"
  <2>1. r.mstate[h] \in OnSuspQ
    BY <1>3, WaitStates
  <2> QED
    BY <2>1 DEF OnSuspQ, Idle
<1> QED
  BY <1>3, <1>6, <1>8, ResetMoves

\* A thread is given the priority it is required to have, to the end of the chain.
LEMMA RequireSettles ==
    ASSUME NEW a, NEW A, QOK(a, {}), Ground(a, A), NoIdle(a, {}), HighBut(a, {}, Null, 0),
           NEW u \in Thread, NEW n \in 0..9, NEW v, v = Settle(SetRequiredPriority(a, u, n))
    PROVE  /\ QOK(v, {}) /\ Motion(a, v, A) /\ NoIdle(v, {}) /\ HighBut(v, {}, Null, 0)
           /\ v.fault = a.fault
           /\ /\ Owned(a) /\ ReqBut(a, {u}) /\ Ranked(a, 9)
              /\ n = 0 \/ \A w \in Thread : ~WaitsFor(a, u, w)
              => ReqBut(v, {})
<1> DEFINE l == SetRequiredPriority(a, u, n)
<1>1. l = SetRequiredPriority(a, u, n) /\ v = Settle(l) /\ {} \subseteq A
  OBVIOUS
<1> HIDE DEF l
<1>2. PICK s : QOK(s, {}) /\ Requires(a, s, u, {}, l, n)
  BY <1>1, SetRequiredKeeps
<1>3. NextLink(a, s, u, l, n)
  BY <1>1, <1>2, RequiresLink
<1>4. Motion(a, s, A)
  BY <1>2, RequiresMotion
<1>5. l.k = s /\ LinkOK(l)
  BY <1>3 DEF NextLink
<1>6. Chained(l, {}, A)
  BY <1>1, <1>2, <1>4, <1>5, MotionGround DEF Chained
<1>7. Exact(l, {})
  <2>1. NoIdle(s, {})
    BY <1>1, <1>2, RequiresNoIdle
  <2>2. LinkHigh(l, {})
    BY <1>1, <1>2, RequiresHigh
  <2> QED
    BY <1>5, <2>1, <2>2 DEF Exact
<1>8. QOK(v, {}) /\ Motion(s, v, A) /\ NoIdle(v, {}) /\ HighBut(v, {}, Null, 0)
  BY <1>1, <1>5, <1>6, <1>7, SettleKeeps
<1>9. v.fault = s.fault
  <2> DEFINE d == [x \in Thread |-> 0]
  <2>1. d \in [Thread -> Nat] /\ Below(l, d, {})
    BY DEF Below
  <2> HIDE DEF d
  <2> QED
    BY <1>1, <1>5, <1>6, <2>1, SettleFault
<1>10. s.fault = a.fault
  BY <1>2 DEF Requires, Moved, OnlyOf
<1>11. Motion(a, v, A)
  <2>1. A \subseteq Thread
    BY DEF Ground
  <2> QED
    BY <1>4, <1>8, <2>1, MotionTrans
<1>12. ASSUME Owned(a), ReqBut(a, {u}), Ranked(a, 9),
              n = 0 \/ \A w \in Thread : ~WaitsFor(a, u, w)
       PROVE  ReqBut(v, {})
  <2>1. PICK d \in [Thread -> 0..9] : RankedBy(a, d)
    BY <1>12 DEF Ranked
  <2>2. RankedBy(s, d)
    BY <1>4, <2>1, MotionRanked
  <2>3. Owned(s)
    BY <1>4, <1>12 DEF Motion, SameCtl, Owned
  <2>4. ReqBut(s, {})
    BY <1>2, <1>12, RequiresReq
  <2>5. ASSUME l.m # Null, NEW w \in Thread, s.holder[l.m] = w PROVE d[w] + l.n =< 8
    <3>1. l.n \in {0, n} /\ WaitsFor(s, u, w)
      BY <1>3, <2>5 DEF NextLink
    <3>3. n = 0
      BY <1>4, <1>12, <3>1 DEF Motion
    <3>2. d[w] < d[u] /\ d[w] \in 0..9 /\ d[u] \in 0..9
      BY <2>2, <3>1 DEF RankedBy
    <3> QED
      BY <3>1, <3>2, <3>3
  <2>6. Nested(l, d)
    BY <1>5, <2>2, <2>3, <2>4, <2>5 DEF Nested
  <2> QED
    BY <1>1, <1>6, <2>6, SettleReq
<1> QED
  BY <1>8, <1>9, <1>10, <1>11, <1>12

-----------------------------------------------------------------------------
\* The mutexes of a thread.
SetMutexes(r, u, c) == [r EXCEPT !.cleanupQ[u] = c]
MutexesSet(r, s, u, c) ==
    /\ QSame(r, s) /\ SameRun(r, s) /\ SameOwnAll(r, s)
    /\ s.fault = r.fault /\ s.defPri = r.defPri /\ s.holdCount = r.holdCount /\ s.clnPri = r.clnPri
    /\ s.holder = r.holder /\ s.cleanupQ = [r.cleanupQ EXCEPT ![u] = c]
\* SetMutexes sets one iCleanupQ.
LEMMA SetMutexesFields ==
    ASSUME NEW r, Rec(r), NEW u, NEW c, NEW s, s = SetMutexes(r, u, c)
    PROVE  Rec(s) /\ MutexesSet(r, s, u, c)
<1>1. QSame(r, s) /\ SameRun(r, s) /\ SameOwnAll(r, s)
  BY SMT DEF Rec, Fields, SetMutexes, QSame, SameWhere, SameQ, SameCnt, SameRun, SameOwnAll
<1>2. /\ s.fault = r.fault /\ s.defPri = r.defPri /\ s.holdCount = r.holdCount
      /\ s.clnPri = r.clnPri
      /\ s.holder = r.holder /\ s.cleanupQ = [r.cleanupQ EXCEPT ![u] = c] /\ DOMAIN s = Fields
  BY SMT DEF Rec, Fields, SetMutexes
<1>3. s = [f \in DOMAIN s |-> s[f]]
  BY SMT DEF SetMutexes
<1> QED
  BY <1>1, <1>2, <1>3 DEF Rec, MutexesSet

\* The holder of a mutex.
NoHolder(r, m) == [r EXCEPT !.holder[m] = Null]
Unheld(r, s, m) ==
    /\ QSame(r, s) /\ SameRun(r, s) /\ SameOwnAll(r, s) /\ SameReq(r, s)
    /\ s.holdCount = r.holdCount /\ s.holder = [r.holder EXCEPT ![m] = Null]
\* NoHolder clears iCleanup.iThread.
LEMMA NoHolderFields ==
    ASSUME NEW r, Rec(r), NEW m, NEW s, s = NoHolder(r, m)
    PROVE  Rec(s) /\ Unheld(r, s, m)
<1>1. QSame(r, s) /\ SameRun(r, s) /\ SameOwnAll(r, s)
  BY SMT DEF Rec, Fields, NoHolder, QSame, SameWhere, SameQ, SameCnt, SameRun, SameOwnAll
<1>2. /\ SameReq(r, s) /\ s.holdCount = r.holdCount /\ s.holder = [r.holder EXCEPT ![m] = Null]
      /\ DOMAIN s = Fields
  BY SMT DEF Rec, Fields, NoHolder, SameReq
<1>3. s = [f \in DOMAIN s |-> s[f]]
  BY SMT DEF NoHolder
<1> QED
  BY <1>1, <1>2, <1>3 DEF Rec, Unheld

\* u, which held m, forgets of it: before the mutex loses its holder.
Forgetting(r, a, t, u, m, c) ==
    /\ QOK(a, {}) /\ Ground(a, {t}) /\ NoIdle(a, {}) /\ HighBut(a, {}, Null, 0)
    /\ MutexesSet(r, a, u, c) /\ Owned(a)
    /\ ReqBut(r, {}) => ReqBut(a, {u})
    /\ ReqBut(r, {}) /\ r.clnPri[m] < r.pri[u] => ReqBut(a, {})
\* The mutex that is reset is taken off its holder's iCleanupQ.
LEMMA ForgetParts ==
    ASSUME NEW r, NEW t \in Thread, World(r, {t}), r.mstate[t] = "EReady", NEW m \in Mutex,
           NEW u \in Thread, NEW c, c = r.cleanupQ[u] \ {m}, NEW a, a = SetMutexes(r, u, c)
    PROVE  Forgetting(r, a, t, u, m, c)
<1>1. QOK(r, {}) /\ Rec(r) /\ CtlT(r) /\ RunT(r)
  BY WorldTypes
<1>2. Rec(a) /\ MutexesSet(r, a, u, c) /\ c \in SUBSET Mutex
  BY <1>1, SetMutexesFields DEF CtlT
<1>3. CtlT(a) /\ RunT(a)
  <2>1. CtlT(a)
    <3>1. a.cleanupQ \in [Thread -> SUBSET Mutex]
      BY <1>1, <1>2 DEF CtlT, MutexesSet
    <3> QED
      BY <1>1, <1>2, <3>1 DEF CtlT, MutexesSet, SameOwnAll, QSame
  <2>2. RunT(a)
    BY <1>1, <1>2 DEF RunT, MutexesSet, SameRun
  <2> QED
    BY <2>1, <2>2
<1>4. QOK(a, {})
  BY <1>1, <1>2, <1>3, QSameQOK DEF MutexesSet
<1>5. Ground(a, {t})
  <2>1. a.mstate[t] = "EReady"
    BY <1>2 DEF MutexesSet, QSame, SameWhere
  <2>2. \A x \in Thread \ {t} : ThreadOK(a, x)
    <3> SUFFICES ASSUME NEW x \in Thread \ {t} PROVE ThreadOK(a, x)
      OBVIOUS
    <3>1. Agree(r, a, x)
      BY <1>2 DEF Agree, SamePlace, SameWait, SameCv, MutexesSet, QSame, SameRun, SameOwnAll,
         SameWhere, SameCnt
    <3> QED
      BY <3>1, ThreadAgrees DEF World
  <2> QED
    BY <2>1, <2>2 DEF Ground, Fixed
<1>6. /\ a.mstate = r.mstate /\ a.waitObj = r.waitObj /\ a.pri = r.pri /\ a.susp = r.susp
      /\ a.holder = r.holder /\ a.phase = r.phase /\ a.clnPri = r.clnPri /\ a.defPri = r.defPri
  BY <1>2 DEF MutexesSet, QSame, SameWhere, SameOwnAll
<1>7. NoIdle(a, {}) /\ HighBut(a, {}, Null, 0)
  <2>1. NoIdle(a, {})
    BY <1>6 DEF World, NoIdle, Free, MWaits, Pends
  <2>2. HighBut(a, {}, Null, 0)
    <3>1. HighBut(r, {}, Null, 0)
      BY DEF World
    <3>2. \A n \in Mutex : (Held(a, n) <=> Held(r, n)) /\ SameWaiters(r, a, n)
      BY <1>6 DEF Held, SameWaiters, MWaits
    <3> QED
      BY <1>6, <3>1, <3>2, WaitersHigh DEF HighBut
  <2> QED
    BY <2>1, <2>2
<1>8. \A x \in Thread : a.cleanupQ[x] \subseteq r.cleanupQ[x] /\ (x # u => a.cleanupQ[x] = r.cleanupQ[x])
  BY <1>1, <1>2 DEF MutexesSet, CtlT
<1>9. a.cleanupQ[u] = r.cleanupQ[u] \ {m}
  BY <1>1, <1>2 DEF MutexesSet, CtlT
<1>10. Owned(a)
  <2>1. HoldOK(r)
    BY DEF World
  <2>2. SUFFICES ASSUME NEW x \in Thread, NEW n \in Mutex, n \in a.cleanupQ[x] PROVE a.holder[n] = x
    BY DEF Owned
  <2>3. n \in r.cleanupQ[x]
    BY <1>8, <2>2
  <2> QED
    BY <1>6, <2>1, <2>3 DEF HoldOK
<1>11. ASSUME ReqBut(r, {}) PROVE ReqBut(a, {u})
  <2> SUFFICES ASSUME NEW x \in Thread, x # u PROVE IsReq(a, x, a.pri[x])
    BY DEF ReqBut
  <2>1. IsReq(r, x, r.pri[x])
    BY <1>11 DEF ReqBut
  <2>2. a.cleanupQ[x] = r.cleanupQ[x]
    BY <1>8
  <2> QED
    BY <1>6, <2>1, <2>2 DEF IsReq
<1>12. ASSUME ReqBut(r, {}), r.clnPri[m] < r.pri[u] PROVE ReqBut(a, {})
  <2>1. IsReq(r, u, r.pri[u]) /\ r.pri[u] \in Int /\ r.clnPri[m] \in Int
    <3>1. r.pri[u] \in Pri /\ r.clnPri[m] \in Pri \cup {0}
      <4>1. RQ(r, {})
        BY <1>1 DEF QOK
      <4> QED
        BY <1>1, <4>1, QTypes2 DEF RunT
    <3>2. Pri \cup {0} \subseteq Int
      BY PriNat
    <3>3. IsReq(r, u, r.pri[u])
      BY <1>12 DEF ReqBut
    <3> QED
      BY <3>1, <3>2, <3>3
  <2>2. IsReq(a, u, a.pri[u])
    <3>1. a.pri[u] = r.pri[u] /\ a.defPri[u] = r.defPri[u] /\ a.clnPri = r.clnPri
      BY <1>6
    <3>2. r.clnPri[m] # r.pri[u]
      BY <1>12, <2>1
    <3> QED
      BY <1>9, <2>1, <3>1, <3>2 DEF IsReq
  <2>3. ReqBut(a, {u})
    BY <1>11, <1>12
  <2> QED
    BY <2>2, <2>3 DEF ReqBut
<1> QED
  BY <1>2, <1>4, <1>5, <1>7, <1>10, <1>11, <1>12 DEF Forgetting

\* The mutex, which is reset, loses its holder.
Resettled(r, a, b, u, m, t) ==
    /\ u \in Thread /\ r.holder[m] = u /\ MutexesSet(r, a, u, r.cleanupQ[u] \ {m})
    /\ QOK(b, {}) /\ Motion(a, b, {t}) /\ NoIdle(b, {}) /\ HighBut(b, {}, Null, 0)
\* The holder has the priority required without it, and holds it no more.
LEMMA ForgetEnds ==
    ASSUME NEW r, NEW t \in Thread, World(r, {t}), NEW m \in Mutex, r.phase[m] = "resetting",
           NEW u, NEW a, NEW b, Resettled(r, a, b, u, m, t), NEW v, v = NoHolder(b, m)
    PROVE  World(v, {t}) /\ Unheld(b, v, m) /\ v.holder[m] = Null
<1> DEFINE c == r.cleanupQ[u] \ {m}
<1>0. u \in Thread /\ r.holder[m] = u /\ MutexesSet(r, a, u, c) /\ c = r.cleanupQ[u] \ {m}
  BY DEF Resettled
<1>00. QOK(b, {}) /\ Motion(a, b, {t}) /\ NoIdle(b, {}) /\ HighBut(b, {}, Null, 0)
  BY DEF Resettled
<1> HIDE DEF c
<1> USE <1>0, <1>00
<1>1. CtlT(r) /\ Rec(b) /\ CtlT(b) /\ RunT(b)
  BY WorldTypes DEF QOK
<1>2. Rec(v) /\ Unheld(b, v, m)
  BY <1>1, NoHolderFields
<1>3. QOK(v, {})
  <2>1. CtlT(v)
    BY <1>1, <1>2 DEF CtlT, Unheld, SameOwnAll, QSame, SameReq
  <2>2. RunT(v)
    BY <1>1, <1>2 DEF RunT, Unheld, SameRun, SameReq
  <2> QED
    BY <1>2, <2>1, <2>2, QSameQOK DEF Unheld
<1>4. SameCtl(a, b) /\ b.phase[m] = "resetting" /\ b.holder = r.holder /\ b.phase = r.phase
  BY DEF Motion, SameCtl, MutexesSet, QSame
<1>5. \A x \in Thread \ {t} : ThreadOK(v, x)
  <2> SUFFICES ASSUME NEW x \in Thread \ {t} PROVE ThreadOK(v, x)
    OBVIOUS
  <2>1. ThreadOK(b, x)
    BY DEF Motion
  <2>2. b.pc[x] = "Broadcast" => b.obj[x] # m
    <3>1. Null \notin Cond
      BY SyncAssumption DEF Obj
    <3> QED
      BY <1>4, <2>1, <3>1 DEF ThreadOK, WaitOK, PcOK
  <2>3. v.holder = [b.holder EXCEPT ![m] = Null] /\ v.phase = b.phase
    BY <1>2 DEF Unheld, QSame
  <2>4. SamePlace(b, v, x)
    BY <1>2, <2>2, <2>3 DEF SamePlace, Unheld, SameOwnAll
  <2>5. SameWait(b, v, x) /\ SameCv(b, v, x)
    BY <1>2 DEF SameWait, SameCv, Unheld, QSame, SameRun, SameWhere, SameCnt
  <2> QED
    BY <2>1, <2>4, <2>5, ThreadAgrees DEF Agree
<1>6. /\ v.holder = [r.holder EXCEPT ![m] = Null] /\ v.cleanupQ = [r.cleanupQ EXCEPT ![u] = c]
      /\ v.holdCount = r.holdCount /\ v.phase = r.phase /\ v.pc = r.pc /\ v.obj = r.obj
  BY <1>2, <1>4 DEF Unheld, SameCtl, MutexesSet, SameReq, QSame, SameOwnAll
<1>7. HoldOK(v)
  <2>1. HoldOK(r) /\ Null \notin Thread
    BY SyncAssumption DEF World
  <2>2. \A x \in Mutex, y \in Thread : v.holder[x] = y <=> y \in Thread /\ x \in v.cleanupQ[y]
    BY <1>1, <1>6, <2>1 DEF HoldOK, CtlT
  <2>3. \A x \in Mutex : v.holder[x] # Null => v.phase[x] # "deleted" /\ v.holdCount[x] >= 1
    BY <1>1, <1>6, <2>1 DEF HoldOK, CtlT
  <2> QED
    BY <2>2, <2>3 DEF HoldOK
<1>8. OneResets(v)
  BY <1>6 DEF World, OneResets
<1>9. /\ v.mstate = b.mstate /\ v.waitObj = b.waitObj /\ v.pri = b.pri /\ v.susp = b.susp
      /\ v.clnPri = b.clnPri
      /\ \A x \in Mutex : v.phase[x] = "live" => b.phase[x] = "live" /\ v.holder[x] = b.holder[x]
  BY <1>1, <1>2, <1>4 DEF Unheld, QSame, SameWhere, SameOwnAll, SameReq, CtlT
<1>10. NoIdle(v, {}) /\ HighBut(v, {}, Null, 0)
  <2>1. NoIdle(v, {})
    BY <1>9 DEF NoIdle, Free, MWaits, Pends
  <2>2. HighBut(v, {}, Null, 0)
    BY <1>9 DEF HighBut, Held, High, MWaits
  <2> QED
    BY <2>1, <2>2
<1>11. v.holder[m] = Null
  BY <1>1, <1>6 DEF CtlT
<1> QED
  BY <1>2, <1>3, <1>5, <1>7, <1>8, <1>10, <1>11 DEF World

Forgot(r, v, t, m) ==
    /\ SameOwnAll(r, v) /\ SameWait(r, v, t) /\ v.fault = r.fault /\ v.phase = r.phase
    /\ v.holder[m] = Null
    /\ \A x \in Thread : \/ v.waitObj[x] = r.waitObj[x]
                         \/ v.waitObj[x] \in Mutex /\ v.phase[v.waitObj[x]] = "live"

\* The holder of m waits for no other thread.
HolderRuns(r, m) == \A w \in Thread : ~WaitsFor(r, r.holder[m], w)

\* DMutex::Reset: the holder loses the mutex.
LEMMA ForgetWorld ==
    ASSUME NEW r, NEW t \in Thread, World(r, {t}), r.mstate[t] = "EReady", NEW m \in Mutex,
           r.phase[m] = "resetting", r.holder[m] # Null, NEW n \in 0..9,
           NEW v, v = ForgetHolder(r, m, n)
    PROVE  /\ World(v, {t}) /\ Forgot(r, v, t, m)
           /\ n = 0 \/ HolderRuns(r, m) => Steady(r, v)
<1> DEFINE u == r.holder[m]
           c == r.cleanupQ[u] \ {m}
           a == SetMutexes(r, u, c)
           s == Settle(SetRequiredPriority(a, u, n))
           b == IF r.clnPri[m] >= r.pri[u] THEN s ELSE a
<1>1. /\ u = r.holder[m] /\ c = r.cleanupQ[u] \ {m} /\ a = SetMutexes(r, u, c)
      /\ s = Settle(SetRequiredPriority(a, u, n))
      /\ b = (IF r.clnPri[m] >= r.pri[u] THEN s ELSE a) /\ v = NoHolder(b, m)
  BY DEF ForgetHolder, SetMutexes, NoHolder
<1>2. u \in Thread /\ r.clnPri[m] \in Int /\ r.pri[u] \in Int
  <2>1. CtlT(r) /\ RunT(r) /\ QOK(r, {}) /\ RQ(r, {})
    BY WorldTypes
  <2>2. u \in Thread
    BY <1>1, <2>1 DEF CtlT
  <2>3. r.clnPri[m] \in Pri \cup {0} /\ r.pri[u] \in Pri
    BY <2>1, <2>2, QTypes2 DEF RunT
  <2> QED
    <3>1. Pri \cup {0} \subseteq Int
      BY PriNat
    <3> QED
      BY <2>2, <2>3, <3>1
<1> HIDE DEF u, c, a, s, b
<1>3. /\ QOK(a, {}) /\ Ground(a, {t}) /\ NoIdle(a, {}) /\ HighBut(a, {}, Null, 0)
      /\ MutexesSet(r, a, u, c) /\ Owned(a)
      /\ (ReqBut(r, {}) => ReqBut(a, {u}))
      /\ (ReqBut(r, {}) /\ r.clnPri[m] < r.pri[u] => ReqBut(a, {}))
  <2>1. c = r.cleanupQ[u] \ {m} /\ a = SetMutexes(r, u, c) /\ u \in Thread
    BY <1>1, <1>2
  <2>2. Forgetting(r, a, t, u, m, c)
    BY <2>1, ForgetParts
  <2> QED
    BY <2>2 DEF Forgetting
<1>4. /\ QOK(s, {}) /\ Motion(a, s, {t}) /\ NoIdle(s, {}) /\ HighBut(s, {}, Null, 0)
      /\ s.fault = a.fault
      /\ /\ Owned(a) /\ ReqBut(a, {u}) /\ Ranked(a, 9)
         /\ n = 0 \/ \A w \in Thread : ~WaitsFor(a, u, w)
         => ReqBut(s, {})
  <2>1. u \in Thread /\ s = Settle(SetRequiredPriority(a, u, n))
    BY <1>1, <1>2
  <2>2. QOK(a, {}) /\ Ground(a, {t}) /\ NoIdle(a, {}) /\ HighBut(a, {}, Null, 0)
    BY <1>3
  <2> QED
    BY <2>1, <2>2, RequireSettles
<1>5. /\ Ranked(r, 9) => Ranked(a, 9)
      /\ HolderRuns(r, m) => \A w \in Thread : ~WaitsFor(a, u, w)
  <2>1. \A x, y \in Thread : WaitsFor(a, x, y) <=> WaitsFor(r, x, y)
    BY <1>3 DEF MutexesSet, QSame, SameWhere, SameCnt, WaitsFor
  <2> QED
    BY <1>1, <1>2, <2>1 DEF Ranked, RankedBy, HolderRuns
<1>6. /\ QOK(b, {}) /\ Motion(a, b, {t}) /\ NoIdle(b, {}) /\ HighBut(b, {}, Null, 0)
      /\ b.fault = a.fault
      /\ (ReqBut(r, {}) /\ Ranked(r, 9) /\ (n = 0 \/ HolderRuns(r, m)) => ReqBut(b, {}))
  <2>1. CASE r.clnPri[m] >= r.pri[u]
    <3>1. b = s
      BY <1>1, <2>1
    <3> QED
      BY <1>3, <1>4, <1>5, <3>1
  <2>2. CASE ~(r.clnPri[m] >= r.pri[u])
    <3>1. b = a /\ r.clnPri[m] < r.pri[u]
      BY <1>1, <1>2, <2>2
    <3> QED
      BY <1>3, <3>1, MotionSelf
  <2> QED
    BY <2>1, <2>2
<1>7. World(v, {t}) /\ Unheld(b, v, m) /\ v.holder[m] = Null
  <2>1. v = NoHolder(b, m) /\ Resettled(r, a, b, u, m, t)
    <3>1. MutexesSet(r, a, u, r.cleanupQ[u] \ {m}) /\ r.holder[m] = u
      BY <1>1, <1>3, Zenon
    <3>2. v = NoHolder(b, m)
      BY <1>1, Zenon
    <3> QED
      BY <1>2, <1>6, <3>1, <3>2, Zenon DEF Resettled
  <2>2. \A a1, b1, u1 : Resettled(r, a1, b1, u1, m, t) =>
            World(NoHolder(b1, m), {t}) /\ Unheld(b1, NoHolder(b1, m), m)
            /\ NoHolder(b1, m).holder[m] = Null
    BY ForgetEnds
  <2> QED
    BY <2>1, <2>2, Zenon
<1>8. Forgot(r, v, t, m)
  <2>1. SameOwnAll(r, v) /\ v.fault = r.fault /\ v.phase = r.phase /\ SameWait(r, v, t)
    <3>1. SameCtl(a, b) /\ SameWait(a, b, t)
      BY <1>6 DEF Motion
    <3>2. SameOwnAll(a, b) /\ b.phase = a.phase
      BY <3>1 DEF SameCtl, SameOwnAll
    <3>3. SameOwnAll(r, a) /\ a.phase = r.phase /\ SameWait(r, a, t) /\ a.fault = r.fault
      BY <1>3 DEF MutexesSet, QSame, SameWait, SameRun, SameWhere
    <3>4. SameOwnAll(b, v) /\ v.phase = b.phase /\ SameWait(b, v, t) /\ v.fault = b.fault
      BY <1>7 DEF Unheld, QSame, SameWait, SameRun, SameWhere, SameReq
    <3> QED
      BY <1>6, <3>1, <3>2, <3>3, <3>4 DEF SameOwnAll, SameWait
  <2>2. \A x \in Thread : \/ b.waitObj[x] = r.waitObj[x]
                          \/ b.waitObj[x] \in Mutex /\ b.phase[b.waitObj[x]] = "live"
    BY <1>3, <1>6 DEF Motion, MutexesSet, QSame, SameWhere
  <2>3. v.waitObj = b.waitObj /\ v.phase = b.phase
    BY <1>7 DEF Unheld, QSame, SameWhere
  <2> QED
    BY <1>7, <2>1, <2>2, <2>3 DEF Forgot
<1>9. n = 0 \/ HolderRuns(r, m) => Steady(r, v)
  <2>1. ReqBut(b, {}) => ReqBut(v, {})
    BY <1>7 DEF Unheld, SameReq, ReqBut, IsReq
  <2> QED
    BY <1>6, <1>8, <2>1 DEF Steady, Forgot
<1> QED
  BY <1>7, <1>8, <1>9

\* Nothing waits for an object if its queues are empty.
NoneAt(r, o) == r.waitQ[o] = <<>> /\ r.suspQ[o] = <<>> /\ (o \in Mutex => r.pendQ[o] = <<>>)
NoneFor(r, o) == \A x \in Thread : r.waitObj[x] # o

\* No thread waits for an object whose queues are empty.
LEMMA NoneForAt ==
    ASSUME NEW r, RQ(r, {}), NEW o \in Obj, NoneFor(r, o)
    PROVE  NoneAt(r, o)
<1>1. r.waitQ[o] = <<>>
  <2> SUFFICES ASSUME r.waitQ[o] # <<>> PROVE FALSE
    OBVIOUS
  <2>1. Head(r.waitQ[o]) \in Thread /\ Head(r.waitQ[o]) \in Range(r.waitQ[o])
    BY RHead
  <2> QED
    BY <2>1, RWhere DEF NoneFor
<1>2. r.suspQ[o] = <<>>
  <2> SUFFICES ASSUME r.suspQ[o] # <<>> PROVE FALSE
    OBVIOUS
  <2>1. Head(r.suspQ[o]) \in Thread /\ Head(r.suspQ[o]) \in Range(r.suspQ[o])
    BY RHead
  <2> QED
    BY <2>1, RWhere DEF NoneFor
<1>3. ASSUME o \in Mutex PROVE r.pendQ[o] = <<>>
  <2> SUFFICES ASSUME r.pendQ[o] # <<>> PROVE FALSE
    OBVIOUS
  <2>1. r.pendQ[o] \in Seq(Thread)
    BY <1>3, QTypes2
  <2>2. r.pendQ[o][1] \in Range(r.pendQ[o]) /\ r.pendQ[o][1] \in Thread
    BY <2>1 DEF Range
  <2> QED
    BY <1>3, <2>2, RWhere DEF NoneFor
<1> QED
  BY <1>1, <1>2, <1>3 DEF NoneAt

\* The queues of an object no thread waits for are empty.
LEMMA NoneAtFor ==
    ASSUME NEW r, NEW t \in Thread, World(r, {t}), r.waitObj[t] = Null, NEW o \in Obj, NoneAt(r, o)
    PROVE  NoneFor(r, o)
<1> SUFFICES ASSUME NEW x \in Thread, r.waitObj[x] = o PROVE FALSE
  BY DEF NoneFor
<1>1. RQ(r, {}) /\ Null \notin Obj
  BY SyncAssumption, WorldTypes
<1>2. x # t
  BY <1>1
<1>3. WaitOK(r, x)
  BY <1>2 DEF World, ThreadOK
<1>4. x \notin Range(r.waitQ[o]) /\ x \notin Range(r.suspQ[o]) /\ (o \in Mutex => x \notin Range(r.pendQ[o]))
  BY DEF NoneAt, Range
<1>5. /\ r.mstate[x] # WaitState[o] /\ r.mstate[x] # SuspState[o]
      /\ o \in Mutex => r.mstate[x] # "EHoldMutexPending"
  BY <1>1, <1>4, RWhere
<1>6. r.mstate[x] \in SemWaits \cup MutexWaits \cup CondWaits
  <2>1. r.mstate[x] \in MState /\ r.mstate[x] \notin {"EReady", "EDead"}
    BY <1>1, <1>3, QTypes2 DEF WaitOK
  <2> QED
    BY <2>1 DEF MState, SemWaits, MutexWaits, CondWaits
<1>7. Sem \subseteq Obj /\ Mutex \subseteq Obj /\ Cond \subseteq Obj
  BY DEF Obj
<1>8. CASE r.mstate[x] \in SemWaits
  BY <1>3, <1>5, <1>8, WaitStates DEF WaitOK, SemWaits
<1>9. CASE r.mstate[x] \in MutexWaits
  BY <1>3, <1>5, <1>9, WaitStates DEF WaitOK, MutexWaits
<1>10. CASE r.mstate[x] \in CondWaits
  BY <1>3, <1>5, <1>10, WaitStates DEF WaitOK, CondWaits
<1> QED
  BY <1>6, <1>8, <1>9, <1>10

-----------------------------------------------------------------------------
\* An object is deleted.
Gone(r, o) ==
    [r EXCEPT !.phase[o] = "deleted",
              !.clnPri    = [m \in Mutex |-> IF m = o THEN 0 ELSE @[m]],
              !.holdCount = [m \in Mutex |-> IF m = o THEN 0 ELSE @[m]],
              !.count     = [x \in Sem   |-> IF x = o THEN 0 ELSE @[x]],
              !.cvMutex   = [c \in Cond  |-> IF c = o THEN Null ELSE @[c]]]
WentAway(r, s, o) ==
    /\ SameWhere(r, s) /\ SameQ(r, s) /\ SameRun(r, s) /\ SameOwnAll(r, s)
    /\ s.waitCount = r.waitCount
    /\ s.pri = r.pri /\ s.defPri = r.defPri /\ s.cleanupQ = r.cleanupQ /\ s.holder = r.holder
    /\ s.fault = r.fault
    /\ s.phase = [r.phase EXCEPT ![o] = "deleted"]
    /\ s.clnPri = [m \in Mutex |-> IF m = o THEN 0 ELSE r.clnPri[m]]
    /\ s.holdCount = [m \in Mutex |-> IF m = o THEN 0 ELSE r.holdCount[m]]
    /\ s.count = [x \in Sem |-> IF x = o THEN 0 ELSE r.count[x]]
    /\ s.cvMutex = [c \in Cond |-> IF c = o THEN Null ELSE r.cvMutex[c]]

\* Gone marks the object deleted.
LEMMA GoneFields ==
    ASSUME NEW r, Rec(r), NEW o, NEW s, s = Gone(r, o)
    PROVE  Rec(s) /\ WentAway(r, s, o)
<1>1. SameWhere(r, s) /\ SameQ(r, s) /\ SameRun(r, s) /\ SameOwnAll(r, s)
  BY SMT DEF Rec, Fields, Gone, SameWhere, SameQ, SameRun, SameOwnAll
<1>2. /\ s.waitCount = r.waitCount
      /\ s.pri = r.pri /\ s.defPri = r.defPri /\ s.cleanupQ = r.cleanupQ /\ s.holder = r.holder
      /\ s.fault = r.fault /\ DOMAIN s = Fields
  BY SMT DEF Rec, Fields, Gone
<1>3. s.phase = [r.phase EXCEPT ![o] = "deleted"]
  BY SMT DEF Rec, Fields, Gone
<1>4. s.clnPri = [m \in Mutex |-> IF m = o THEN 0 ELSE r.clnPri[m]]
  BY SMT DEF Rec, Fields, Gone
<1>5. s.holdCount = [m \in Mutex |-> IF m = o THEN 0 ELSE r.holdCount[m]]
  BY SMT DEF Rec, Fields, Gone
<1>6. s.count = [x \in Sem |-> IF x = o THEN 0 ELSE r.count[x]]
  BY SMT DEF Rec, Fields, Gone
<1>7. s.cvMutex = [c \in Cond |-> IF c = o THEN Null ELSE r.cvMutex[c]]
  BY SMT DEF Rec, Fields, Gone
<1>8. s = [f \in DOMAIN s |-> s[f]]
  <2> DEFINE q == [r EXCEPT !.phase[o] = "deleted",
                            !.clnPri    = [m \in Mutex |-> IF m = o THEN 0 ELSE @[m]],
                            !.holdCount = [m \in Mutex |-> IF m = o THEN 0 ELSE @[m]],
                            !.count     = [x \in Sem   |-> IF x = o THEN 0 ELSE @[x]]]
             z == [c \in Cond |-> IF c = o THEN Null ELSE r.cvMutex[c]]
  <2>1. s = [q EXCEPT !.cvMutex = z]
    BY SMT DEF Rec, Fields, Gone
  <2> HIDE DEF q, z
  <2> QED
    BY <2>1, SMT
<1> QED
  BY <1>1, <1>2, <1>3, <1>4, <1>5, <1>6, <1>7, <1>8 DEF Rec, WentAway

\* The queues are in order without the object.
LEMMA GoneQOK ==
    ASSUME NEW r, QOK(r, {}), NEW o \in Obj, NoneAt(r, o), NEW s, s = Gone(r, o)
    PROVE  QOK(s, {})
<1>1. Rec(r) /\ CtlT(r) /\ RunT(r) /\ CntT(r) /\ RQ(r, {})
  BY DEF QOK
<1>2. Rec(s) /\ WentAway(r, s, o)
  BY <1>1, GoneFields
<1>3. CtlT(s)
  <2>1. s.phase \in [Obj -> Phases]
    BY <1>1, <1>2 DEF CtlT, WentAway, Phases
  <2>2. s.holdCount \in [Mutex -> Nat]
    BY <1>1, <1>2 DEF CtlT, WentAway
  <2> QED
    BY <1>1, <1>2, <2>1, <2>2 DEF CtlT, WentAway, SameOwnAll
<1>4. RunT(s)
  <2>1. s.clnPri \in [Mutex -> Pri \cup {0}]
    BY <1>1, <1>2 DEF RunT, WentAway
  <2> QED
    BY <1>1, <1>2, <2>1 DEF RunT, WentAway, SameRun
<1>5. CntT(s)
  <2>1. s.count \in [Sem -> Int]
    BY <1>1, <1>2 DEF CntT, WentAway
  <2>2. s.cvMutex \in [Cond -> Mutex \cup {Null}]
    BY <1>1, <1>2 DEF CntT, WentAway
  <2> QED
    BY <1>1, <1>2, <2>1, <2>2 DEF CntT, WentAway
<1>6. RQ(s, {})
  BY <1>1, <1>2 DEF RQ, WentAway, SameWhere, SameQ
<1>7. \A x \in Obj : CountAt(s, x, 0)
  <2> SUFFICES ASSUME NEW x \in Obj PROVE CountAt(s, x, 0)
    OBVIOUS
  <2>1. CountAt(r, x, 0)
    BY DEF QOK
  <2>2. CASE x # o
    <3>1. SameAt(r, s, x)
      BY <1>1, <1>2, <2>2 DEF SameAt, WentAway, SameQ, CtlT
    <3> QED
      BY <2>1, <3>1, SameCounts
  <2>3. CASE x = o
    <3>1. s.phase[x] = "deleted"
      BY <1>1, <1>2, <2>3 DEF WentAway, CtlT
    <3>2. s.waitQ[x] = <<>> /\ s.suspQ[x] = <<>> /\ (x \in Mutex => s.pendQ[x] = <<>>)
      BY <1>2, <2>3 DEF WentAway, SameQ, NoneAt
    <3> QED
      BY <3>1, <3>2 DEF CountAt, Tally
  <2> QED
    BY <2>2, <2>3
<1> QED
  BY <1>2, <1>3, <1>4, <1>5, <1>6, <1>7 DEF QOK

\* An object that nobody waits for and nobody holds is deleted.
LEMMA GoneWorld ==
    ASSUME NEW r, NEW t \in Thread, World(r, {t}), NEW o \in Obj, r.phase[o] = "resetting",
           r.pc[t] = "Reset", r.obj[t] = o, NoneFor(r, o), o \in Mutex => r.holder[o] = Null,
           NEW s, s = Gone(r, o)
    PROVE  World(s, {t}) /\ SameOwnAll(r, s) /\ SameWait(r, s, t) /\ Steady(r, s)
<1>1. /\ Rec(r) /\ CtlT(r) /\ RunT(r) /\ CntT(r) /\ RQ(r, {}) /\ QOK(r, {}) /\ HoldOK(r)
      /\ OneResets(r)
  BY WorldTypes
<1>2. WentAway(r, s, o)
  BY <1>1, GoneFields
<1>3. QOK(s, {})
  BY <1>1, NoneForAt, GoneQOK
<1>4. \A x \in Obj : x # o => s.phase[x] = r.phase[x]
  BY <1>1, <1>2 DEF WentAway, CtlT
<1>5. s.phase[o] = "deleted"
  BY <1>1, <1>2 DEF WentAway, CtlT
<1>6. \A x \in Mutex : x # o => s.clnPri[x] = r.clnPri[x] /\ s.holdCount[x] = r.holdCount[x]
  BY <1>2 DEF WentAway
<1>7. \A x \in Mutex : x \in Obj
  BY DEF Obj
<1>8. \A x \in Thread \ {t} : ThreadOK(s, x)
  <2> SUFFICES ASSUME NEW x \in Thread \ {t} PROVE ThreadOK(s, x)
    OBVIOUS
  <2>1. ThreadOK(r, x)
    BY DEF World
  <2>2. r.cond[x] # Null => r.obj[x] \in Mutex /\ r.phase[r.obj[x]] = "live"
    BY <2>1 DEF ThreadOK, WaitOK
  <2>3. r.pc[x] = "SignalN" => r.obj[x] \in Sem /\ r.phase[r.obj[x]] = "live"
    BY <2>1 DEF ThreadOK, PcOK
  <2>4. r.pc[x] = "Reset" => r.obj[x] \in Obj /\ r.obj[x] # o
    BY <1>1, <2>1 DEF ThreadOK, PcOK, OneResets
  <2>5. r.cond[x] # Null \/ r.pc[x] \in {"SignalN", "Reset"} => s.phase[r.obj[x]] = r.phase[r.obj[x]]
    <3>1. Sem \subseteq Obj
      BY DEF Obj
    <3> QED
      BY <1>4, <1>7, <2>2, <2>3, <2>4, <3>1
  <2>6. SamePlace(r, s, x)
    BY <1>2, <2>5 DEF SamePlace, WentAway, SameOwnAll
  <2>7. SameWait(r, s, x)
    BY <1>2 DEF SameWait, WentAway, SameWhere, SameRun
  <2>8. SameCv(r, s, x)
    <3>1. ASSUME r.mstate[x] \in CondWaits PROVE r.waitObj[x] \in Cond /\ r.waitObj[x] # o
      BY <2>1, <3>1 DEF ThreadOK, WaitOK, NoneFor
    <3> QED
      BY <1>2, <3>1 DEF SameCv, WentAway
  <2> QED
    BY <2>1, <2>6, <2>7, <2>8, ThreadAgrees DEF Agree
<1>9. HoldOK(s)
  <2>1. s.holder = r.holder /\ s.cleanupQ = r.cleanupQ
    BY <1>2 DEF WentAway
  <2>2. \A m \in Mutex : s.holder[m] # Null => s.phase[m] # "deleted" /\ s.holdCount[m] >= 1
    BY <1>1, <1>4, <1>6, <1>7, <2>1 DEF HoldOK
  <2> QED
    BY <1>1, <2>1, <2>2 DEF HoldOK
<1>10. OneResets(s)
  BY <1>1, <1>2 DEF OneResets, WentAway, SameOwnAll
<1>11. /\ s.mstate = r.mstate /\ s.waitObj = r.waitObj /\ s.pri = r.pri /\ s.susp = r.susp
       /\ s.holder = r.holder
  BY <1>2 DEF WentAway, SameWhere, SameOwnAll
<1>12. NoIdle(s, {})
  <2>1. NoIdle(r, {})
    BY DEF World
  <2>2. \A m \in Mutex : Free(s, m) => Free(r, m)
    BY <1>4, <1>5, <1>7, <1>11 DEF Free
  <2> QED
    BY <1>11, <2>1, <2>2 DEF NoIdle, MWaits, Pends
<1>13. HighBut(s, {}, Null, 0)
  <2>1. HighBut(r, {}, Null, 0)
    BY DEF World
  <2>2. \A m \in Mutex : Held(s, m) => Held(r, m) /\ s.clnPri[m] = r.clnPri[m]
    BY <1>4, <1>5, <1>6, <1>7, <1>11 DEF Held
  <2>3. \A m \in Mutex : SameWaiters(r, s, m)
    BY <1>11 DEF SameWaiters, MWaits
  <2>4. SUFFICES ASSUME NEW m \in Mutex, Held(s, m)
                 PROVE  High(s, {}, m, IF m = Null THEN 0 ELSE s.clnPri[m])
    BY DEF HighBut
  <2>5. High(r, {}, m, IF m = Null THEN 0 ELSE s.clnPri[m])
    BY <2>1, <2>2, <2>4 DEF HighBut
  <2> QED
    BY <2>3, <2>5, WaitersHigh
<1>14. Steady(r, s)
  <2>1. s.fault = r.fault
    BY <1>2 DEF WentAway
  <2>2. ASSUME ReqBut(r, {}) PROVE ReqBut(s, {})
    <3> SUFFICES ASSUME NEW x \in Thread PROVE IsReq(s, x, s.pri[x])
      BY DEF ReqBut
    <3>1. IsReq(r, x, r.pri[x])
      BY <2>2 DEF ReqBut
    <3>2. s.cleanupQ[x] = r.cleanupQ[x] /\ s.defPri[x] = r.defPri[x] /\ s.pri[x] = r.pri[x]
      BY <1>2 DEF WentAway
    <3>3. \A m \in r.cleanupQ[x] : m \in Mutex /\ m # o
      <4>1. \A m \in r.cleanupQ[x] : m \in Mutex
        BY <1>1 DEF CtlT
      <4>2. Null \notin Thread
        BY SyncAssumption
      <4> QED
        BY <1>1, <4>1, <4>2 DEF HoldOK
    <3>4. \A m \in r.cleanupQ[x] : s.clnPri[m] = r.clnPri[m]
      BY <1>6, <3>3
    <3> QED
      BY <3>1, <3>2, <3>4 DEF IsReq
  <2> QED
    BY <2>1, <2>2 DEF Steady
<1>15. World(s, {t})
  BY <1>3, <1>8, <1>9, <1>10, <1>12, <1>13 DEF World
<1> QED
  BY <1>2, <1>14, <1>15 DEF WentAway, SameWait, SameWhere, SameRun

\* The rest of a reset, up to the next place where it gives up the system lock.
LEMMA ResetLoopWorld ==
    ASSUME NEW r, NEW t \in Thread, World(r, {t}), Mine(r, t), ThreadOK(r, t), r.pc[t] = "Reset",
           NEW o \in Obj, r.obj[t] = o, r.phase[o] = "resetting", NEW n \in 0..9,
           NEW v, v = ResetLoop(r, t, o, n)
    PROVE  /\ World(v, {}) /\ v.fault = r.fault
           /\ n = 0 \/ (o \in Mutex /\ r.holder[o] # Null => HolderRuns(r, o)) => Steady(r, v)
<1> DEFINE runs == n = 0 \/ (o \in Mutex /\ r.holder[o] # Null => HolderRuns(r, o))
<1>1. r.mstate[t] = "EReady" /\ r.waitObj[t] = Null /\ RQ(r, {})
  BY WorldTypes DEF Mine
<1>2. ASSUME World(v, {t}), SameWait(r, v, t), SameCtl(r, v), SameReq(r, v)
      PROVE  World(v, {}) /\ v.fault = r.fault /\ Steady(r, v)
  <2>1. SameCv(r, v, t)
    BY <1>1 DEF SameCv, CondWaits
  <2>2. SamePlace(r, v, t)
    BY <1>2, CtlPlace
  <2>3. ThreadOK(v, t)
    BY <1>2, <2>1, <2>2, ThreadAgrees DEF Agree
  <2> QED
    BY <1>2, <2>3, WorldAll, SteadySame DEF SameReq
<1>3. CASE o \in Mutex /\ r.pendQ[o] # <<>>
  <2> DEFINE h == Head(r.pendQ[o])
  <2>1. r.pendQ[o] \in Seq(Thread) /\ Inj(r.pendQ[o])
    <3>1. r.pendQ[o] \in Seq(Thread)
      BY <1>1, <1>3, QTypes2
    <3> QED
      BY <1>1, <1>3, <3>1 DEF RQ, QS, Placed, OnP
  <2>2. h \in Thread /\ h \in Range(r.pendQ[o]) /\ Without(r.pendQ[o], h) = Tail(r.pendQ[o])
    BY <1>3, <2>1, TailIsWithout, TailQueue
  <2>3. v = Unpend(r, h, o)
    BY <1>3, <2>2 DEF ResetLoop, Unpend, Ready
  <2> HIDE DEF h
  <2>4. Pends(r, h, o)
    BY <1>1, <1>3, <2>2, RWhere DEF Pends
  <2>5. h # t /\ r.phase[o] # "live"
    BY <1>1, <2>4 DEF Pends
  <2> QED
    BY <1>2, <1>3, <2>2, <2>3, <2>4, <2>5, ResetPends
<1>4. CASE ~(o \in Mutex /\ r.pendQ[o] # <<>>) /\ r.waitQ[o] # <<>>
  <2>1. v = ResetCount(ReleaseFirst(r, o, "KErrGeneral"), o)
    BY <1>4 DEF ResetLoop, ResetCount
  <2>2. "KErrGeneral" \in Rets
    BY DEF Rets
  <2> QED
    BY <1>1, <1>2, <1>4, <2>1, <2>2, ResetWaits
<1>5. CASE ~(o \in Mutex /\ r.pendQ[o] # <<>>) /\ r.waitQ[o] = <<>> /\ r.suspQ[o] # <<>>
  <2> DEFINE h == Head(r.suspQ[o])
  <2>1. h \in Thread /\ h \in Range(r.suspQ[o]) /\ Tail(r.suspQ[o]) = Without(r.suspQ[o], h)
    BY <1>1, <1>5, RHead
  <2>2. v = GoIdle(SuspRemove(r, o, h), h, "KErrGeneral")
    BY <1>5, <2>1 DEF ResetLoop, GoIdle, SuspRemove
  <2>3. "KErrGeneral" \in Rets
    BY DEF Rets
  <2> HIDE DEF h
  <2> QED
    BY <1>1, <1>2, <2>1, <2>2, <2>3, ResetSuspended
<1>6. CASE ~(o \in Mutex /\ r.pendQ[o] # <<>>) /\ r.waitQ[o] = <<>> /\ r.suspQ[o] = <<>>
  <2> DEFINE f == IF o \in Mutex /\ r.holder[o] # Null THEN ForgetHolder(r, o, n) ELSE r
             g == Gone(f, o)
  <2>1. /\ f = (IF o \in Mutex /\ r.holder[o] # Null THEN ForgetHolder(r, o, n) ELSE r)
        /\ g = Gone(f, o)
    OBVIOUS
  <2>2. v = BackLeaveCS(g, t)
    BY <1>6 DEF ResetLoop, Destroyed, Gone
  <2>3. NoneFor(r, o)
    BY <1>1, <1>6, NoneAtFor DEF NoneAt
  <2> HIDE DEF f, g
  <2>4. /\ World(f, {t}) /\ SameOwnAll(r, f) /\ SameWait(r, f, t) /\ f.phase = r.phase
        /\ (o \in Mutex => f.holder[o] = Null) /\ NoneFor(f, o) /\ f.fault = r.fault /\ (runs => Steady(r, f))
    <3>1. CASE o \in Mutex /\ r.holder[o] # Null
      <4>1. f = ForgetHolder(r, o, n)
        BY <2>1, <3>1
      <4>2. World(f, {t}) /\ Forgot(r, f, t, o) /\ (n = 0 \/ HolderRuns(r, o) => Steady(r, f))
        BY <1>1, <3>1, <4>1, ForgetWorld
      <4>3. NoneFor(f, o)
        BY <2>3, <4>2 DEF NoneFor, Forgot
      <4> QED
        BY <3>1, <4>2, <4>3 DEF Forgot
    <3>2. CASE ~(o \in Mutex /\ r.holder[o] # Null)
      <4>1. f = r
        BY <2>1, <3>2
      <4>2. SameOwnAll(r, r) /\ SameWait(r, r, t) /\ Steady(r, r)
        BY DEF SameOwnAll, SameWait, Steady
      <4> QED
        BY <2>3, <3>2, <4>1, <4>2
    <3> QED
      BY <3>1, <3>2
  <2>5. f.pc[t] = "Reset" /\ f.obj[t] = o /\ f.phase[o] = "resetting"
    BY <2>4 DEF SameOwnAll
  <2>6. World(g, {t}) /\ SameOwnAll(f, g) /\ SameWait(f, g, t) /\ Steady(f, g)
    BY <2>1, <2>4, <2>5, GoneWorld
  <2>7. Mine(f, t)
    BY <2>4, ActedMine
  <2>8. Mine(g, t)
    BY <2>6, <2>7, ActedMine
  <2>9. World(v, {}) /\ SameK(g, v) /\ v.fault = g.fault
    BY <2>2, <2>6, <2>8, BackLeaveWorld
  <2>10. g.fault = f.fault /\ (runs => Steady(r, g))
    <3>1. WentAway(f, g, o)
      BY <2>1, <2>4, GoneFields, WorldTypes
    <3>2. \A x, y \in Thread : WaitsFor(g, x, y) <=> WaitsFor(f, x, y)
      <4> SUFFICES ASSUME NEW x \in Thread, NEW y \in Thread
                   PROVE  WaitsFor(g, x, y) <=> WaitsFor(f, x, y)
        OBVIOUS
      <4>1. g.mstate = f.mstate /\ g.waitObj = f.waitObj /\ g.holder = f.holder
        BY <3>1 DEF WentAway, SameWhere
      <4>2. ASSUME f.mstate[x] = "EWaitCondVar"
            PROVE  g.cvMutex[f.waitObj[x]] = f.cvMutex[f.waitObj[x]]
        <5>1. f.waitObj[x] # o
          BY <2>4 DEF NoneFor
        <5>2. f.waitObj[x] \in Cond
          <6>1. x # t
            BY <2>7, <4>2 DEF Mine
          <6>2. WaitOK(f, x)
            BY <2>4, <6>1 DEF World, ThreadOK
          <6> QED
            BY <4>2, <6>2 DEF WaitOK, CondWaits
        <5> QED
          BY <3>1, <5>1, <5>2 DEF WentAway
      <4> QED
        BY <4>1, <4>2 DEF WaitsFor
    <3>3. Ranked(f, 9) <=> Ranked(g, 9)
      BY <3>2 DEF Ranked, RankedBy
    <3>4. g.fault = f.fault
      BY <3>1 DEF WentAway
    <3> QED
      BY <2>4, <2>6, <3>3, <3>4 DEF Steady
  <2> QED
    BY <2>4, <2>9, <2>10, SteadyThen
<1> QED
  BY <1>3, <1>4, <1>5, <1>6

\* A reset goes on.
LEMMA ResetStepFine ==
    ASSUME World(k, {}), NEW t \in Thread, ResetStep(t)
    PROVE  World(k', {}) /\ k'.fault = k.fault /\ (ResetHoldersRun => Steady(k, k'))
<1>1. PICK n \in 0..9 : At(t, "Reset") /\ k' = ResetLoop(k, t, k.obj[t], n)
  BY DEF ResetStep, NestLevel, KMaxPriorityInheritanceNesting
<1>2. ThreadOK(k, t) /\ World(k, {t}) /\ k.pc[t] = "Reset" /\ (k.mstate[t] = "EReady" => Mine(k, t))
  BY <1>1, StepMine
<1>3. k.mstate[t] = "EReady" /\ k.obj[t] \in Obj /\ k.phase[k.obj[t]] = "resetting"
  BY <1>2 DEF ThreadOK, PcOK
<1>4. ASSUME ResetHoldersRun, k.obj[t] \in Mutex, k.holder[k.obj[t]] # Null
      PROVE  HolderRuns(k, k.obj[t])
  <2>1. k.holder[k.obj[t]] \in Thread
    BY <1>2, <1>4, WorldTypes DEF CtlT
  <2> QED
    BY <1>2, <1>4, <2>1 DEF ResetHoldersRun, HolderRuns
<1> QED
  BY <1>1, <1>2, <1>3, <1>4, ResetLoopWorld

-----------------------------------------------------------------------------
\* t begins to reset o.
SetReset(r, t, o) == [r EXCEPT !.phase[o] = "resetting", !.pc[t] = "Reset", !.obj[t] = o]
ResetSet(r, s, t, o) ==
    /\ SameWhere(r, s) /\ SameQ(r, s) /\ SameCnt(r, s) /\ SameRun(r, s) /\ SameReq(r, s)
    /\ s.holder = r.holder /\ s.holdCount = r.holdCount
    /\ s.cond = r.cond /\ s.cs = r.cs /\ s.susp = r.susp /\ s.csFunction = r.csFunction
    /\ s.todo = r.todo
    /\ s.phase = [r.phase EXCEPT ![o] = "resetting"]
    /\ s.pc = [r.pc EXCEPT ![t] = "Reset"] /\ s.obj = [r.obj EXCEPT ![t] = o]
\* SetReset changes the fields it names.
LEMMA SetResetFields ==
    ASSUME NEW r, Rec(r), NEW t, NEW o, NEW s, s = SetReset(r, t, o)
    PROVE  Rec(s) /\ ResetSet(r, s, t, o)
<1>1. SameWhere(r, s) /\ SameQ(r, s) /\ SameCnt(r, s) /\ SameRun(r, s)
  BY SMT DEF Rec, Fields, SetReset, SameWhere, SameQ, SameCnt, SameRun
<1>2. /\ SameReq(r, s) /\ s.holder = r.holder /\ s.holdCount = r.holdCount
      /\ s.cond = r.cond /\ s.cs = r.cs /\ s.susp = r.susp /\ s.csFunction = r.csFunction
      /\ s.todo = r.todo
      /\ DOMAIN s = Fields
  BY SMT DEF Rec, Fields, SetReset, SameReq
<1>3. /\ s.phase = [r.phase EXCEPT ![o] = "resetting"]
      /\ s.pc = [r.pc EXCEPT ![t] = "Reset"] /\ s.obj = [r.obj EXCEPT ![t] = o]
  BY SMT DEF Rec, Fields, SetReset
<1>4. s = [f \in DOMAIN s |-> s[f]]
  <2> DEFINE q == [r EXCEPT !.phase[o] = "resetting", !.pc[t] = "Reset"]
             z == [r.obj EXCEPT ![t] = o]
  <2>1. s = [q EXCEPT !.obj = z]
    BY SMT DEF Rec, Fields, SetReset
  <2> HIDE DEF q, z
  <2> QED
    BY <2>1, SMT
<1> QED
  BY <1>1, <1>2, <1>3, <1>4 DEF Rec, ResetSet

\* Nobody comes back to o.
ClosedAt(r, o) ==
    \A x \in Thread : /\ o \in Mutex => r.obj[x] # o \/ r.cond[x] = Null
                      /\ o \in Sem => r.obj[x] # o \/ r.pc[x] # "SignalN"

\* A reset begins.
LEMMA SetResetWorld ==
    ASSUME NEW r, NEW t \in Thread, World(r, {t}), Mine(r, t), r.cond[t] = Null, r.cs[t],
           r.csFunction[t] >= 0,
           NEW o \in Obj, r.phase[o] = "live", ClosedAt(r, o), NEW s, s = SetReset(r, t, o)
    PROVE  /\ World(s, {t}) /\ Mine(s, t) /\ ThreadOK(s, t) /\ Steady(r, s) /\ SameReq(r, s)
           /\ s.pc[t] = "Reset" /\ s.obj[t] = o /\ s.phase[o] = "resetting"
           /\ SameWhere(r, s) /\ SameCnt(r, s) /\ s.holder = r.holder
<1>1. /\ Rec(r) /\ CtlT(r) /\ RunT(r) /\ CntT(r) /\ RQ(r, {}) /\ QOK(r, {}) /\ HoldOK(r)
      /\ OneResets(r)
  BY WorldTypes
<1>2. Rec(s) /\ ResetSet(r, s, t, o)
  BY <1>1, SetResetFields
<1>3. CtlT(s)
  <2>1. /\ s.phase \in [Obj -> Phases] /\ s.pc \in [Thread -> Cont]
        /\ s.obj \in [Thread -> Obj \cup {Null}]
    BY <1>1, <1>2 DEF CtlT, ResetSet, Phases, Cont
  <2> QED
    BY <1>1, <1>2, <2>1 DEF CtlT, ResetSet, SameReq
<1>4. RunT(s) /\ CntT(s) /\ RQ(s, {})
  <2>1. RunT(s)
    BY <1>1, <1>2 DEF RunT, ResetSet, SameRun, SameReq
  <2>2. CntT(s)
    BY <1>1, <1>2 DEF CntT, ResetSet, SameCnt
  <2>3. RQ(s, {})
    BY <1>1, <1>2 DEF RQ, ResetSet, SameWhere, SameQ, SameReq
  <2> QED
    BY <2>1, <2>2, <2>3
<1>5. /\ \A x \in Obj : x # o => s.phase[x] = r.phase[x]
      /\ s.phase[o] = "resetting" /\ s.pc[t] = "Reset" /\ s.obj[t] = o
      /\ \A x \in Thread : x # t => s.pc[x] = r.pc[x] /\ s.obj[x] = r.obj[x]
  BY <1>1, <1>2 DEF ResetSet, CtlT
<1>6. \A x \in Obj : CountAt(s, x, 0)
  <2> SUFFICES ASSUME NEW x \in Obj PROVE CountAt(s, x, 0)
    OBVIOUS
  <2>1. CountAt(r, x, 0)
    BY <1>1 DEF QOK
  <2>2. CASE x # o
    <3>1. SameAt(r, s, x)
      BY <1>2, <1>5, <2>2 DEF SameAt, ResetSet, SameQ, SameCnt
    <3> QED
      BY <2>1, <3>1, SameCounts
  <2>3. CASE x = o
    <3>1. s.waitQ = r.waitQ /\ s.suspQ = r.suspQ /\ s.waitCount = r.waitCount /\ s.count = r.count
      BY <1>2 DEF ResetSet, SameQ, SameCnt
    <3>2. ASSUME o \in Mutex \cup Cond
          PROVE  Tally("resetting", r.waitCount[o], Len(r.waitQ[o]), Len(r.suspQ[o]), 0)
      <4>1. Tally("live", r.waitCount[o], Len(r.waitQ[o]), Len(r.suspQ[o]), 0)
        BY <2>1, <2>3, <3>2 DEF CountAt
      <4>2. r.waitCount[o] \in Nat
        BY <1>1, <3>2 DEF CntT
      <4>3. \A n, a, b \in Nat : Tally("live", n, a, b, 0) => Tally("resetting", n, a, b, 0)
        BY DEF Tally
      <4>4. Len(r.waitQ[o]) \in Nat /\ Len(r.suspQ[o]) \in Nat
        BY <1>1, RHead
      <4> QED
        BY <4>1, <4>2, <4>3, <4>4
    <3>3. ASSUME o \in Sem PROVE SemTally(r.count[o], Len(r.waitQ[o]), 0)
      BY <2>1, <2>3, <3>3 DEF CountAt
    <3> QED
      BY <1>5, <2>3, <3>1, <3>2, <3>3 DEF CountAt
  <2> QED
    BY <2>2, <2>3
<1>7. QOK(s, {})
  BY <1>2, <1>3, <1>4, <1>6 DEF QOK
<1>8. \A m \in Mutex : m \in Obj
  BY DEF Obj
<1>9. \A x \in Thread \ {t} : ThreadOK(s, x)
  <2> SUFFICES ASSUME NEW x \in Thread \ {t} PROVE ThreadOK(s, x)
    OBVIOUS
  <2>1. ThreadOK(r, x)
    BY DEF World
  <2>2. r.cond[x] # Null => r.obj[x] \in Mutex /\ r.obj[x] # o
    BY <2>1 DEF ThreadOK, WaitOK, ClosedAt
  <2>3. r.pc[x] = "SignalN" => r.obj[x] \in Sem /\ r.obj[x] # o
    BY <2>1 DEF ThreadOK, PcOK, ClosedAt
  <2>4. r.pc[x] = "Reset" => r.obj[x] \in Obj /\ r.obj[x] # o
    BY <2>1 DEF ThreadOK, PcOK
  <2>5. r.cond[x] # Null \/ r.pc[x] \in {"SignalN", "Reset"} => s.phase[r.obj[x]] = r.phase[r.obj[x]]
    <3>1. Sem \subseteq Obj
      BY DEF Obj
    <3> QED
      BY <1>5, <1>8, <2>2, <2>3, <2>4, <3>1
  <2>6. SamePlace(r, s, x)
    BY <1>2, <1>5, <2>5 DEF SamePlace, ResetSet
  <2>7. SameWait(r, s, x) /\ SameCv(r, s, x)
    BY <1>2 DEF SameWait, SameCv, ResetSet, SameWhere, SameRun, SameCnt
  <2> QED
    BY <2>1, <2>6, <2>7, ThreadAgrees DEF Agree
<1>10. HoldOK(s)
  <2>1. s.holder = r.holder /\ s.cleanupQ = r.cleanupQ /\ s.holdCount = r.holdCount
    BY <1>2 DEF ResetSet, SameReq
  <2>2. \A m \in Mutex : s.holder[m] # Null => s.phase[m] # "deleted" /\ s.holdCount[m] >= 1
    BY <1>1, <1>5, <1>8, <2>1 DEF HoldOK
  <2> QED
    BY <1>1, <2>1, <2>2 DEF HoldOK
<1>11. OneResets(s)
  <2>1. \A x \in Thread : x # t /\ r.pc[x] = "Reset" => r.obj[x] # o
    <3> SUFFICES ASSUME NEW x \in Thread, x # t, r.pc[x] = "Reset" PROVE r.obj[x] # o
      OBVIOUS
    <3>1. ThreadOK(r, x)
      BY DEF World
    <3> QED
      BY <3>1 DEF ThreadOK, PcOK
  <2> QED
    BY <1>1, <1>5, <2>1 DEF OneResets
<1>12. /\ s.mstate = r.mstate /\ s.waitObj = r.waitObj /\ s.pri = r.pri /\ s.susp = r.susp
       /\ s.holder = r.holder /\ s.clnPri = r.clnPri
  BY <1>2 DEF ResetSet, SameWhere, SameReq
<1>13. NoIdle(s, {})
  <2>1. NoIdle(r, {})
    BY DEF World
  <2>2. \A m \in Mutex : Free(s, m) => Free(r, m)
    BY <1>5, <1>8, <1>12 DEF Free
  <2> QED
    BY <1>12, <2>1, <2>2 DEF NoIdle, MWaits, Pends
<1>14. HighBut(s, {}, Null, 0)
  <2>1. HighBut(r, {}, Null, 0)
    BY DEF World
  <2>2. \A m \in Mutex : Held(s, m) => Held(r, m)
    BY <1>5, <1>8, <1>12 DEF Held
  <2>3. \A m \in Mutex : SameWaiters(r, s, m)
    BY <1>12 DEF SameWaiters, MWaits
  <2>4. SUFFICES ASSUME NEW m \in Mutex, Held(s, m)
                 PROVE  High(s, {}, m, IF m = Null THEN 0 ELSE s.clnPri[m])
    BY DEF HighBut
  <2>5. High(r, {}, m, IF m = Null THEN 0 ELSE s.clnPri[m])
    BY <1>12, <2>1, <2>2, <2>4 DEF HighBut
  <2> QED
    BY <2>3, <2>5, WaitersHigh
<1>15. World(s, {t})
  BY <1>7, <1>9, <1>10, <1>11, <1>13, <1>14 DEF World
<1>16. Mine(s, t)
  BY <1>2 DEF Mine, ResetSet, SameWhere, SameRun
<1>17. ThreadOK(s, t)
  <2>1. /\ s.mstate[t] = "EReady" /\ s.waitObj[t] = Null /\ s.cond[t] = Null /\ s.cs[t]
        /\ ~s.blocked[t]
        /\ ~(s.susp[t] > 0) /\ s.csFunction[t] >= -1
    BY <1>2, <1>16 DEF Mine, ResetSet
  <2> QED
    BY <1>5, <2>1 DEF ThreadOK, WaitOK, SuspOK, PcOK, SemWaits, MutexWaits, CondWaits, OnWaitQ,
       OnSuspQ
<1>18. SameReq(r, s)
  BY <1>2 DEF ResetSet
<1> QED
  BY <1>2, <1>5, <1>12, <1>15, <1>16, <1>17, <1>18, SteadySame DEF ResetSet

\* The last handle on an object is closed.
LEMMA DeleteFine ==
    ASSUME World(k, {}), NEW t \in Thread, NEW o \in Obj, Delete(t, o)
    PROVE  World(k', {}) /\ Steady(k, k')
<1> DEFINE a == EnterCS(k, t)
           b == SetReset(a, t, o)
<1>1. /\ At(t, "run") /\ ~k.cs[t] /\ k.phase[o] = "live" /\ ~KeptOpen(o)
      /\ a = EnterCS(k, t) /\ b = SetReset(a, t, o) /\ k' = ResetLoop(b, t, o, 0)
  BY DEF Delete, SetReset
<1> HIDE DEF a, b
<1>2. /\ World(a, {t}) /\ Mine(a, t) /\ SameK(k, a) /\ a.fault = k.fault /\ a.cs[t]
      /\ a.cond = k.cond /\ a.pc = k.pc /\ a.obj = k.obj /\ a.cond[t] = Null /\ OwnStep(k, a, t)
  BY <1>1, EnterMine
<1>3. a.phase[o] = "live" /\ ClosedAt(a, o)
  <2>1. ClosedAt(k, o)
    BY <1>1 DEF ClosedAt, KeptOpen
  <2> QED
    BY <1>1, <1>2, <2>1 DEF ClosedAt, SameK
<1>4. a.csFunction[t] >= 0
  <2>1. Mine(k, t) /\ World(k, {t})
    BY <1>1, AtRun
  <2>2. a.csFunction = k.csFunction
    BY <1>1, <2>1, EnterCSOwn, WorldTypes DEF EnterCSTo
  <2>3. k.csFunction[t] = 0
    BY <1>1, <2>1 DEF Mine
  <2> QED
    BY <2>2, <2>3
<1>5. /\ World(b, {t}) /\ Mine(b, t) /\ ThreadOK(b, t) /\ SameReq(a, b)
      /\ b.pc[t] = "Reset" /\ b.obj[t] = o /\ b.phase[o] = "resetting"
      /\ SameWhere(a, b) /\ SameCnt(a, b) /\ b.holder = a.holder
  BY <1>1, <1>2, <1>3, <1>4, SetResetWorld
<1>6. World(k', {}) /\ Steady(b, k')
  BY <1>1, <1>5, ResetLoopWorld, 0 \in 0..9
<1>7. \A D : Ranked(b, D) <=> Ranked(k, D)
  <2>1. \A x, y \in Thread : WaitsFor(b, x, y) <=> WaitsFor(k, x, y)
    BY <1>2, <1>5 DEF WaitsFor, SameK, SameWhere, SameCnt
  <2> QED
    BY <2>1 DEF Ranked, RankedBy
<1>8. b.fault = k.fault /\ (ReqBut(k, {}) => ReqBut(b, {}))
  <2>1. SameReq(k, b)
    BY <1>2, <1>5 DEF SameReq, SameK
  <2> QED
    BY <2>1 DEF SameReq, ReqBut, IsReq
<1> QED
  BY <1>6, <1>7, <1>8 DEF Steady

\* The default priority of a thread.
SetDef(r, u, p) == [r EXCEPT !.defPri[u] = p]
DefSet(r, s, u, p) ==
    /\ QSame(r, s) /\ SameRun(r, s) /\ SameOwnAll(r, s)
    /\ s.fault = r.fault /\ s.holdCount = r.holdCount /\ s.clnPri = r.clnPri
    /\ s.holder = r.holder /\ s.cleanupQ = r.cleanupQ /\ s.defPri = [r.defPri EXCEPT ![u] = p]
\* SetDef changes the default priority of a thread.
LEMMA SetDefFields ==
    ASSUME NEW r, Rec(r), NEW u, NEW p, NEW s, s = SetDef(r, u, p)
    PROVE  Rec(s) /\ DefSet(r, s, u, p)
<1>1. QSame(r, s) /\ SameRun(r, s) /\ SameOwnAll(r, s)
  BY SMT DEF Rec, Fields, SetDef, QSame, SameWhere, SameQ, SameCnt, SameRun, SameOwnAll
<1>2. /\ s.fault = r.fault /\ s.holdCount = r.holdCount /\ s.clnPri = r.clnPri
      /\ s.holder = r.holder /\ s.cleanupQ = r.cleanupQ /\ s.defPri = [r.defPri EXCEPT ![u] = p]
      /\ DOMAIN s = Fields
  BY SMT DEF Rec, Fields, SetDef
<1>3. s = [f \in DOMAIN s |-> s[f]]
  BY SMT DEF SetDef
<1> QED
  BY <1>1, <1>2, <1>3 DEF Rec, DefSet

\* DThread::SetDefaultPriority.
LEMMA DefPriWorld ==
    ASSUME NEW r, NEW A, World(r, A), Ground(r, A), NEW u \in Thread, NEW p \in Pri,
           NEW v, v = SetDefaultPriority(r, u, p)
    PROVE  /\ World(v, A) /\ Steady(r, v) /\ (\A x \in A : SameWait(r, v, x))
           /\ SameOwnAll(r, v) /\ v.fault = r.fault
<1> DEFINE a == SetDef(r, u, p)
<1>1. a = SetDef(r, u, p) /\ v = Settle(SetRequiredPriority(a, u, 0))
  BY DEF SetDefaultPriority, SetDef
<1>2. /\ Rec(r) /\ CtlT(r) /\ RunT(r) /\ CntT(r) /\ RQ(r, {}) /\ QOK(r, {}) /\ HoldOK(r)
      /\ OneResets(r)
  BY WorldTypes
<1> HIDE DEF a
<1>3. Rec(a) /\ DefSet(r, a, u, p)
  BY <1>1, <1>2, SetDefFields
<1>4. QOK(a, {})
  <2>1. CtlT(a)
    <3>1. a.defPri \in [Thread -> Pri]
      BY <1>2, <1>3 DEF CtlT, DefSet
    <3> QED
      BY <1>2, <1>3, <3>1 DEF CtlT, DefSet, SameOwnAll, QSame
  <2>2. RunT(a)
    BY <1>2, <1>3 DEF RunT, DefSet, SameRun
  <2> QED
    BY <1>2, <1>3, <2>1, <2>2, QSameQOK DEF DefSet
<1>5. /\ a.mstate = r.mstate /\ a.waitObj = r.waitObj /\ a.pri = r.pri /\ a.susp = r.susp
      /\ a.holder = r.holder /\ a.phase = r.phase /\ a.clnPri = r.clnPri /\ a.cleanupQ = r.cleanupQ
      /\ a.cvMutex = r.cvMutex
  BY <1>3 DEF DefSet, QSame, SameWhere, SameOwnAll, SameCnt
<1>6. Ground(a, A)
  <2>1. A \subseteq Thread /\ \A x \in A : Fixed(a, x)
    BY <1>5 DEF Ground, Fixed
  <2>2. \A x \in Thread \ A : ThreadOK(a, x)
    <3> SUFFICES ASSUME NEW x \in Thread \ A PROVE ThreadOK(a, x)
      OBVIOUS
    <3>1. Agree(r, a, x)
      BY <1>3 DEF Agree, SamePlace, SameWait, SameCv, DefSet, QSame, SameRun, SameOwnAll, SameWhere,
         SameCnt
    <3> QED
      BY <3>1, ThreadAgrees DEF World
  <2> QED
    BY <2>1, <2>2 DEF Ground
<1>7. NoIdle(a, {}) /\ HighBut(a, {}, Null, 0)
  <2>1. NoIdle(a, {})
    BY <1>5 DEF World, NoIdle, Free, MWaits, Pends
  <2>2. HighBut(a, {}, Null, 0)
    <3>1. HighBut(r, {}, Null, 0)
      BY DEF World
    <3>2. \A n \in Mutex : (Held(a, n) <=> Held(r, n)) /\ SameWaiters(r, a, n)
      BY <1>5 DEF Held, SameWaiters, MWaits
    <3> QED
      BY <1>5, <3>1, <3>2, WaitersHigh DEF HighBut
  <2> QED
    BY <2>1, <2>2
<1>8. /\ QOK(v, {}) /\ Motion(a, v, A) /\ NoIdle(v, {}) /\ HighBut(v, {}, Null, 0)
      /\ v.fault = a.fault
      /\ (Owned(a) /\ ReqBut(a, {u}) /\ Ranked(a, 9) => ReqBut(v, {}))
  <2>1. \A n \in 0..9 : v = Settle(SetRequiredPriority(a, u, n)) =>
            /\ QOK(v, {}) /\ Motion(a, v, A) /\ NoIdle(v, {}) /\ HighBut(v, {}, Null, 0)
            /\ v.fault = a.fault
            /\ /\ Owned(a) /\ ReqBut(a, {u}) /\ Ranked(a, 9)
               /\ n = 0 \/ \A w \in Thread : ~WaitsFor(a, u, w)
               => ReqBut(v, {})
    BY <1>4, <1>6, <1>7, RequireSettles
  <2>2. 0 \in 0..9 /\ v = Settle(SetRequiredPriority(a, u, 0))
    BY <1>1
  <2> QED
    BY <2>1, <2>2, Zenon
<1>9. SameCtl(a, v)
  BY <1>8 DEF Motion
<1>10. World(v, A)
  <2>1. HoldOK(a) /\ OneResets(a)
    <3>1. HoldOK(a)
      BY <1>2, <1>3, <1>5 DEF HoldOK, DefSet
    <3>2. OneResets(a)
      BY <1>2, <1>3 DEF OneResets, DefSet, SameOwnAll
    <3> QED
      BY <3>1, <3>2
  <2>2. HoldOK(v) /\ OneResets(v)
    BY <1>9, <2>1 DEF HoldOK, OneResets, SameCtl
  <2>3. \A x \in Thread \ A : ThreadOK(v, x)
    BY <1>8 DEF Motion
  <2> QED
    BY <1>8, <2>2, <2>3 DEF World
<1>11. Steady(r, v)
  <2>1. Owned(a)
    <3> SUFFICES ASSUME NEW x \in Thread, NEW n \in Mutex, n \in a.cleanupQ[x] PROVE a.holder[n] = x
      BY DEF Owned
    <3> QED
      BY <1>2, <1>5 DEF HoldOK
  <2>2. ASSUME ReqBut(r, {}) PROVE ReqBut(a, {u})
    <3> SUFFICES ASSUME NEW x \in Thread, x # u PROVE IsReq(a, x, a.pri[x])
      BY DEF ReqBut
    <3>1. IsReq(r, x, r.pri[x])
      BY <2>2 DEF ReqBut
    <3>2. a.defPri[x] = r.defPri[x]
      BY <1>2, <1>3 DEF DefSet, CtlT
    <3> QED
      BY <1>5, <3>1, <3>2 DEF IsReq
  <2>3. Ranked(r, 9) => Ranked(a, 9)
    <3>1. \A x, y \in Thread : WaitsFor(a, x, y) <=> WaitsFor(r, x, y)
      BY <1>5 DEF WaitsFor
    <3> QED
      BY <3>1 DEF Ranked, RankedBy
  <2>4. v.fault = r.fault
    BY <1>3, <1>8 DEF DefSet
  <2> QED
    BY <1>8, <2>1, <2>2, <2>3, <2>4 DEF Steady
<1>12. SameOwnAll(r, v)
  BY <1>3, <1>9 DEF SameOwnAll, DefSet, SameCtl
<1>13. \A x \in A : SameWait(r, v, x)
  <2>1. \A x \in A : SameWait(a, v, x)
    BY <1>8 DEF Motion
  <2>2. \A x : SameWait(r, a, x)
    BY <1>3 DEF SameWait, DefSet, QSame, SameWhere, SameRun
  <2> QED
    BY <2>1, <2>2 DEF SameWait
<1>14. v.fault = r.fault
  BY <1>3, <1>8 DEF DefSet
<1> QED
  BY <1>10, <1>11, <1>12, <1>13, <1>14

\* DThread::SetDefaultPriority.
LEMMA SetsPriorityWorld ==
    ASSUME NEW r, World(r, {}), NEW u \in Thread, NEW p \in Pri, NEW v,
           v = SetDefaultPriority(r, u, p)
    PROVE  World(v, {}) /\ Steady(r, v)
<1>1. Ground(r, {})
  BY DEF World, Ground
<1> QED
  BY <1>1, DefPriWorld

\* DThread::SetThreadPriority.
LEMMA SetsPriorityFine ==
    ASSUME World(k, {}), NEW t \in Thread, NEW p \in Pri, SetsPriority(t, p)
    PROVE  World(k', {}) /\ Steady(k, k')
BY SetsPriorityWorld DEF SetsPriority

-----------------------------------------------------------------------------
\* NKern::ThreadEnterCS.
LEMMA EntersCSFine ==
    ASSUME World(k, {}), NEW t \in Thread, EntersCS(t)
    PROVE  World(k', {}) /\ Steady(k, k')
<1>1. At(t, "run") /\ k' = EnterCS(k, t)
  BY DEF EntersCS
<1>2. /\ World(k', {t}) /\ Mine(k', t) /\ SameK(k, k') /\ (k').fault = k.fault
      /\ (k').cond = k.cond /\ k.cond[t] = Null /\ (k').pc[t] = "run"
  BY <1>1, EnterMine
<1>3. World(k', {})
  BY <1>2, RunsOn
<1> QED
  BY <1>2, <1>3, SteadyK

\* NKern::ThreadLeaveCS.
LEMMA LeavesCSFine ==
    ASSUME World(k, {}), NEW t \in Thread, LeavesCS(t)
    PROVE  World(k', {}) /\ Steady(k, k')
<1>1. At(t, "run") /\ k' = LeaveCS(k, t)
  BY DEF LeavesCS
<1>2. Mine(k, t) /\ k.cond[t] = Null /\ World(k, {t}) /\ k.pc[t] = "run"
  BY <1>1, AtRun
<1>3. World(k', {}) /\ SameK(k, k') /\ (k').fault = k.fault
  BY <1>1, <1>2, LeaveWorld
<1> QED
  BY <1>3, SteadyK

\* DThread::Die for the current thread.
LEMMA ExitSelfFine ==
    ASSUME World(k, {}), NEW t \in Thread, ExitSelf(t)
    PROVE  World(k', {}) /\ Steady(k, k')
<1> DEFINE a == EnterCS(k, t)
           b == SetDefaultPriority(a, t, ExitPri)
<1>1. /\ At(t, "run") /\ a = EnterCS(k, t) /\ b = SetDefaultPriority(a, t, ExitPri)
      /\ k' = SetExit(b, t)
  BY DEF ExitSelf, SetExit
<1> HIDE DEF a, b
<1>2. /\ World(a, {t}) /\ Mine(a, t) /\ SameK(k, a) /\ a.fault = k.fault /\ a.cs[t]
      /\ a.cond[t] = Null /\ a.pc[t] = "run"
  BY <1>1, EnterMine
<1>3. Ground(a, {t}) /\ ExitPri \in Pri
  BY <1>2, SyncAssumption DEF Ground, World, Mine, Fixed
<1>4. /\ World(b, {t}) /\ Steady(a, b) /\ SameWait(a, b, t) /\ SameOwnAll(a, b) /\ b.fault = a.fault
  BY <1>1, <1>2, <1>3, DefPriWorld
<1>5. OwnStep(b, k', t) /\ SetExitTo(b, k', t)
  BY <1>1, <1>4, WorldTypes, SetExitOwn
<1>6. Mine(b, t) /\ b.cond[t] = Null /\ b.cs[t]
  BY <1>2, <1>4, ActedMine DEF SameOwnAll
<1>7. SameK(b, k')
  BY <1>5 DEF OwnStep
<1>8. ThreadOK(k', t)
  <2>1. /\ (k').mstate[t] = "EReady" /\ (k').waitObj[t] = Null /\ (k').cond[t] = Null /\ (k').cs[t]
        /\ ~(k').blocked[t] /\ ~((k').susp[t] > 0) /\ (k').csFunction[t] = -1 /\ (k').pc[t] = "Exit"
    BY <1>5, <1>6, <1>7 DEF Mine, SetExitTo, SameK, SameWhere
  <2> QED
    BY <2>1 DEF ThreadOK, WaitOK, SuspOK, PcOK, SemWaits, MutexWaits, CondWaits, OnWaitQ, OnSuspQ
<1>9. World(k', {})
  <2>1. b.mstate[t] # "EHoldMutexPending" /\ (k').pc[t] # "Reset"
    BY <1>5, <1>6 DEF Mine, SetExitTo
  <2> QED
    BY <1>4, <1>5, <1>8, <2>1, OwnEnd
<1>10. Steady(k, k')
  <2>1. (k').fault = b.fault
    BY <1>5 DEF SetExitTo
  <2> QED
    BY <1>2, <1>4, <1>7, <2>1, SteadyOwn
<1> QED
  BY <1>9, <1>10

-----------------------------------------------------------------------------
\* Another thread is told to exit, and to go on to it where it can.
LEMMA DyingWorld ==
    ASSUME NEW r, World(r, {}), NEW t \in Thread, r.pc[t] # "dead", ~r.cs[t], NEW a,
           a = ThreadRelease(r, t, "KErrDied"),
           NEW v, v = SetDying(a, t)
    PROVE  World(v, {}) /\ SameK(r, v) /\ v.fault = r.fault
<1>1. Rec(r) /\ CtlT(r) /\ RunT(r) /\ "KErrDied" \in Rets
  BY WorldTypes DEF Rets
<1>2. OwnStep(r, a, t) /\ ThreadReleaseTo(r, a, t, "KErrDied")
  BY <1>1, ThreadReleaseOwn
<1>3. OwnStep(a, v, t) /\ SetDyingTo(a, v, t)
  BY <1>2, SetDyingOwn DEF OwnStep
<1>4. OwnStep(r, v, t)
  BY <1>2, <1>3, OwnTrans
<1>5. /\ v.pc[t] = "Exit" /\ v.obj = r.obj /\ v.cond = r.cond /\ v.cs[t] /\ v.susp[t] = 0
      /\ v.csFunction[t] = -1 /\ ~v.blocked[t]
  BY <1>2, <1>3 DEF SetDyingTo, ThreadReleaseTo
<1>6. SameK(r, v)
  BY <1>4 DEF OwnStep
<1>7. ThreadOK(v, t)
  <2>1. ThreadOK(r, t)
    BY DEF World
  <2>2. WaitOK(v, t)
    BY <1>5, <1>6, <2>1 DEF ThreadOK, WaitOK, SameK, SameWhere, SameCnt
  <2>3. SuspOK(v, t)
    BY <1>5 DEF SuspOK
  <2>4. PcOK(v, t)
    <3>1. r.pc[t] \in {"run", "MutexWait", "CondWindow", "CondWait"}
      <4>1. r.pc[t] \in Cont /\ SuspOK(r, t)
        BY <1>1, <2>1 DEF CtlT, ThreadOK
      <4> QED
        BY <4>1 DEF Cont, SuspOK
    <3>2. v.mstate[t] \in MutexWaits => v.waitObj[t] = v.obj[t]
      <4>1. v.mstate = r.mstate /\ v.waitObj = r.waitObj /\ PcOK(r, t)
        BY <1>6, <2>1 DEF ThreadOK, SameK, SameWhere
      <4> QED
        BY <3>1, <4>1, <1>5 DEF PcOK, MutexWaits, SemWaits
    <3> QED
      BY <1>5, <3>2 DEF PcOK
  <2> QED
    BY <2>2, <2>3, <2>4 DEF ThreadOK
<1>8. OfferKept(r, v, t) /\ ResetKept(r, v, t)
  BY <1>5 DEF OfferKept, ResetKept
<1>9. World(v, {})
  BY <1>4, <1>7, <1>8, OwnWorld, WorldAll, WorldLess
<1>10. v.fault = r.fault
  BY <1>2, <1>3 DEF SetDyingTo, ThreadReleaseTo
<1> QED
  BY <1>6, <1>9, <1>10

\* A thread in a critical section is told to exit when it leaves it, or to be suspended.
LEMMA CsfWorld ==
    ASSUME NEW r, World(r, {}), NEW t \in Thread, r.cs[t], r.csFunction[t] >= 0, NEW n \in Int,
           n >= -1,
           NEW v, v = SetCsf(r, t, n)
    PROVE  World(v, {}) /\ SameK(r, v) /\ v.fault = r.fault
<1>1. OwnStep(r, v, t) /\ SetCsfTo(r, v, t, n)
  BY WorldTypes, SetCsfOwn
<1>2. SameK(r, v)
  BY <1>1 DEF OwnStep
<1>3. ThreadOK(v, t)
  <2>1. ThreadOK(r, t)
    BY DEF World
  <2>2. WaitOK(v, t)
    BY <1>1, <1>2, <2>1 DEF ThreadOK, WaitOK, SameK, SameWhere, SameCnt, SetCsfTo
  <2>3. SuspOK(v, t)
    <3>1. /\ v.csFunction[t] = n /\ v.susp = r.susp /\ v.pc = r.pc /\ v.cs = r.cs
          /\ v.mstate = r.mstate
      BY <1>1, <1>2 DEF SetCsfTo, SameK, SameWhere
    <3>2. SuspOK(r, t) /\ r.csFunction[t] \in Int
      BY <2>1, WorldTypes DEF ThreadOK, CtlT
    <3> QED
      BY <3>1, <3>2 DEF SuspOK
  <2>4. PcOK(v, t)
    <3>1. PcOK(r, t)
      BY <2>1 DEF ThreadOK
    <3>2. /\ v.pc = r.pc /\ v.obj = r.obj /\ v.cond = r.cond /\ v.cs = r.cs /\ v.blocked = r.blocked
          /\ v.timed = r.timed /\ v.ret = r.ret /\ v.mstate = r.mstate /\ v.waitObj = r.waitObj
          /\ v.phase = r.phase /\ v.holder = r.holder
      BY <1>1, <1>2 DEF SetCsfTo, SameK, SameWhere
    <3> QED
      BY <3>1, <3>2 DEF PcOK
  <2> QED
    BY <2>2, <2>3, <2>4 DEF ThreadOK
<1>4. OfferKept(r, v, t) /\ ResetKept(r, v, t)
  BY <1>1 DEF OfferKept, ResetKept, SetCsfTo
<1>5. World(v, {})
  BY <1>1, <1>3, <1>4, OwnWorld, WorldAll, WorldLess
<1> QED
  BY <1>1, <1>2, <1>5 DEF SetCsfTo

\* DThread::Die, for another thread.
LEMMA KillsFine ==
    ASSUME World(k, {}), NEW u \in Thread, NEW t \in Thread, Kills(u, t)
    PROVE  World(k', {}) /\ Steady(k, k')
<1> DEFINE a == ThreadRelease(k, t, "KErrDied")
           b == IF k.cs[t] THEN IF k.csFunction[t] < 0 THEN k ELSE SetCsf(k, t, -1)
                ELSE SetDying(a, t)
<1>1. /\ k.pc[t] # "dead" /\ a = ThreadRelease(k, t, "KErrDied")
      /\ b = (IF k.cs[t] THEN IF k.csFunction[t] < 0 THEN k ELSE SetCsf(k, t, -1) ELSE SetDying(a, t))
      /\ k' = SetDefaultPriority(b, t, ExitPri)
  BY DEF Kills, Die, SetCsf, SetDying
<1> HIDE DEF a, b
<1>2. World(b, {}) /\ SameK(k, b) /\ b.fault = k.fault
  <2>1. CASE ~k.cs[t]
    <3>1. b = SetDying(a, t)
      BY <1>1, <2>1
    <3> QED
      BY <1>1, <2>1, <3>1, DyingWorld
  <2>2. CASE k.cs[t] /\ k.csFunction[t] < 0
    <3>1. b = k
      BY <1>1, <2>2
    <3> QED
      BY <3>1, SameSelf
  <2>3. CASE k.cs[t] /\ ~(k.csFunction[t] < 0)
    <3>1. b = SetCsf(k, t, -1)
      BY <1>1, <2>3
    <3>2. -1 \in Int /\ -1 >= -1 /\ k.csFunction[t] >= 0
      <4>1. k.csFunction[t] \in Int
        BY WorldTypes DEF CtlT
      <4> QED
        BY <2>3, <4>1
    <3> QED
      BY <2>3, <3>1, <3>2, CsfWorld
  <2> QED
    BY <2>1, <2>2, <2>3
<1>3. ExitPri \in Pri
  BY SyncAssumption
<1>4. World(k', {}) /\ Steady(b, k')
  BY <1>1, <1>2, <1>3, SetsPriorityWorld
<1> QED
  BY <1>2, <1>4, SteadyOwn, SameSelf

\* t has been taken off what it waited for, and is made ready.
Left(r, v, t) ==
    /\ SameCtl(r, v) /\ v.mstate[t] = "EReady" /\ v.waitObj[t] = Null /\ ~v.blocked[t]
    /\ Steady(r, v)

\* A thread on no queue, counted no more, that waited for no mutex.
LEMMA LeaveIdle ==
    ASSUME NEW r, NEW t \in Thread, World(r, {t}),
           r.mstate[t] \notin {"EWaitMutex", "EHoldMutexPending"},
           NEW b, QOK(b, {t}), SameRest(r, b), SameWhere(r, b), b.pri = r.pri,
           \A x \in Thread : x # t => SameCv(r, b, x),
           NEW c \in Rets, NEW v, v = GoIdle(b, t, c)
    PROVE  World(v, {t}) /\ Left(r, v, t)
<1>1. FQ(b, {} \cup {t}, Null, 0)
  <2>1. {} \cup {t} = {t}
    OBVIOUS
  <2> QED
    BY <2>1, FluxNone
<1>2. /\ FQ(v, {}, Null, 0) /\ SameNumbers(b, v) /\ SameCnt(b, v) /\ Released(b, v, t, c)
      /\ Lands(b, v, t, "EReady", Null)
  BY <1>1, GoIdleKeeps
<1>3. QOK(v, {}) /\ SameCtl(r, v) /\ v.clnPri = r.clnPri /\ v.pri = r.pri /\ v.fault = r.fault
  BY <1>2, FluxNone DEF SameNumbers, SameData, SameRest, SameCtl
<1>4. Lands(r, v, t, "EReady", Null) /\ Released(r, v, t, c)
  BY <1>2, LandsBack, ReleasedBack DEF SameRest
<1>5. WorldOff(r, {t}, Null) /\ RunT(r)
  BY WorldNoHole, WorldTypes
<1>6. \A x \in Thread : x # t => SameWait(r, v, x) /\ SameCv(r, v, x)
  BY <1>2, <1>4, <1>5, OthersWait DEF SameCnt, SameCv
<1>7. v.mstate[t] = "EReady" /\ v.waitObj[t] = Null /\ ~v.blocked[t]
  BY <1>4, <1>5, ReleasedAt DEF Lands
<1>8. \A m \in Mutex : ~Pends(r, t, m) /\ ~MWaits(r, t, m) /\ ~MWaits(v, t, m)
  BY <1>7 DEF Pends, MWaits
<1>9. WorldOff(v, {t} \cup {t}, Null)
  BY <1>3, <1>5, <1>6, <1>8, MoveOff
<1>10. World(v, {t})
  <2>1. {t} \cup {t} = {t}
    OBVIOUS
  <2> QED
    BY <1>9, <2>1, WorldNoHole
<1>11. Steady(r, v)
  BY <1>3, SteadySame DEF SameReq, SameCtl
<1> QED
  BY <1>3, <1>7, <1>10, <1>11 DEF Left

\* t waits for object o.
Waits(r, t, o, ms) == r.mstate[t] = ms /\ r.waitObj[t] = o

\* A thread's M-state and object say which queue it is on.
LEMMA OnQueue ==
    ASSUME NEW r, World(r, {}), NEW t \in Thread, NEW o \in Obj
    PROVE  /\ Waits(r, t, o, WaitState[o]) => t \in Range(r.waitQ[o])
           /\ Waits(r, t, o, SuspState[o]) => t \in Range(r.suspQ[o])
           /\ o \in Mutex /\ Waits(r, t, o, "EHoldMutexPending") => t \in Range(r.pendQ[o])
BY WorldTypes, RWhere DEF Waits

\* DSemaphore::WaitCancel.
LEMMA SemWaitLeaves ==
    ASSUME NEW r, World(r, {}), NEW t \in Thread, NEW s \in Sem, Waits(r, t, s, "EWaitSemaphore"),
           NEW c \in Rets, NEW v, v = GoIdle(SemWaitCancel(r, s, t), t, c)
    PROVE  World(v, {t}) /\ Left(r, v, t)
<1> DEFINE n == r.count[s] + 1
           w == WaitRemove(r, s, t)
           b == CountTo(w, s, n)
<1>1. /\ Rec(r) /\ RQ(r, {}) /\ QOK(r, {}) /\ CntT(r) /\ s \in Obj /\ s \notin Mutex
      /\ WaitState[s] = "EWaitSemaphore" /\ CountAt(r, s, 0) /\ r.count[s] \in Int
  <2>1. Rec(r) /\ RQ(r, {}) /\ QOK(r, {}) /\ CntT(r)
    BY WorldTypes
  <2>2. s \in Obj /\ s \notin Mutex
    BY SyncAssumption DEF Obj
  <2>3. WaitState[s] = "EWaitSemaphore"
    BY WaitStates
  <2>4. CountAt(r, s, 0)
    BY <2>1, <2>2 DEF QOK
  <2>5. r.count[s] \in Int
    BY <2>1 DEF CntT
  <2> QED
    BY <2>1, <2>2, <2>3, <2>4, <2>5
<1>2. t \in Range(r.waitQ[s]) /\ n \in Int /\ n = r.count[s] + 1
  BY <1>1, OnQueue
<1>3. SemWaitCancel(r, s, t) = [w EXCEPT !.count[s] = @ + 1]
  BY DEF SemWaitCancel
<1>4. w = WaitRemove(r, s, t) /\ b = CountTo(w, s, n)
  OBVIOUS
<1>5. w.count = r.count
  BY <1>1, SMT DEF WaitRemove, Rec, Fields
<1>6. [w EXCEPT !.count[s] = @ + 1] = b
  BY <1>5 DEF CountTo
<1>7. v = GoIdle(b, t, c)
  BY <1>3, <1>6
<1> HIDE DEF n, w, b
<1>8. /\ FQ(w, {} \cup {t}, s, 1) /\ SameRest(r, w) /\ SameWhere(r, w) /\ SameCnt(r, w)
      /\ w.pri = r.pri /\ r.phase[s] # "deleted"
  BY <1>1, <1>2, <1>4, TakeWait
<1>9. w.phase[s] # "deleted"
  BY <1>8 DEF SameRest, SameCtl
<1>10. SemTally(n, Len(w.waitQ[s]), 0)
  <2>1. CountAt(w, s, 1) /\ CntT(w) /\ RQ(w, {} \cup {t})
    BY <1>1, <1>8 DEF FQ
  <2>2. Len(w.waitQ[s]) \in Nat
    BY <1>1, <2>1, RHead
  <2>3. SemTally(r.count[s], Len(w.waitQ[s]), 1)
    BY <1>5, <1>9, <2>1 DEF CountAt
  <2> QED
    BY <1>1, <1>2, <2>2, <2>3 DEF SemTally
<1>11. FQ(b, {} \cup {t}, s, 0) /\ CountSet(w, b, s, n)
  BY <1>2, <1>4, <1>8, <1>9, <1>10, CountTake
<1>12. QOK(b, {t})
  <2>1. {} \cup {t} = {t}
    OBVIOUS
  <2> QED
    BY <1>11, <2>1, FluxNone
<1>13. SameRest(r, b) /\ SameWhere(r, b) /\ b.pri = r.pri /\ b.cvMutex = r.cvMutex
  BY <1>8, <1>11 DEF CountSet, OnlyCounts, SameRest, SameCtl, SameRun, SameWhere, SameCnt
<1>14. \A x \in Thread : x # t => SameCv(r, b, x)
  BY <1>13 DEF SameCv
<1>15. World(r, {t}) /\ r.mstate[t] \notin {"EWaitMutex", "EHoldMutexPending"}
  BY WorldLess DEF Waits
<1> QED
  BY <1>7, <1>12, <1>13, <1>14, <1>15, LeaveIdle

\* DSemaphore::WaitCancelSuspended.
LEMMA SemSuspLeaves ==
    ASSUME NEW r, World(r, {}), NEW t \in Thread, NEW s \in Sem,
           Waits(r, t, s, "EWaitSemaphoreSuspended"),
           NEW c \in Rets, NEW v, v = GoIdle(SuspRemove(r, s, t), t, c)
    PROVE  World(v, {t}) /\ Left(r, v, t)
<1> DEFINE b == SuspRemove(r, s, t)
<1>1. b = SuspRemove(r, s, t)
  OBVIOUS
<1> HIDE DEF b
<1>2. QOK(r, {}) /\ s \in Obj /\ SuspState[s] = "EWaitSemaphoreSuspended" /\ SuspCounts(s) = 0
  BY WorldTypes, WaitStates DEF Obj, SuspCounts
<1>3. t \in Range(r.suspQ[s])
  BY <1>2, OnQueue
<1>4. /\ FQ(b, {} \cup {t}, s, 0) /\ SameRest(r, b) /\ SameWhere(r, b) /\ SameCnt(r, b)
      /\ b.pri = r.pri
  BY <1>1, <1>2, <1>3, TakeSusp
<1>5. QOK(b, {t})
  <2>1. {} \cup {t} = {t}
    OBVIOUS
  <2> QED
    BY <1>4, <2>1, FluxNone
<1>6. \A x \in Thread : x # t => SameCv(r, b, x)
  BY <1>4 DEF SameCv, SameCnt
<1>7. World(r, {t}) /\ r.mstate[t] \notin {"EWaitMutex", "EHoldMutexPending"} /\ v = GoIdle(b, t, c)
  BY <1>1, WorldLess DEF Waits
<1> QED
  BY <1>4, <1>5, <1>6, <1>7, LeaveIdle

\* DMutex::WaitCancelSuspended.
LEMMA MutexSuspLeaves ==
    ASSUME NEW r, World(r, {}), NEW t \in Thread, NEW m \in Mutex,
           Waits(r, t, m, "EWaitMutexSuspended"),
           NEW c \in Rets, NEW v, v = GoIdle(WcAdd(SuspRemove(r, m, t), m, 0 - 1), t, c)
    PROVE  World(v, {t}) /\ Left(r, v, t)
<1> DEFINE a == SuspRemove(r, m, t)
           b == WcAdd(a, m, 0 - 1)
<1>1. a = SuspRemove(r, m, t) /\ b = WcAdd(a, m, 0 - 1) /\ v = GoIdle(b, t, c)
  OBVIOUS
<1> HIDE DEF a, b
<1>2. QOK(r, {}) /\ m \in Obj /\ SuspState[m] = "EWaitMutexSuspended" /\ SuspCounts(m) = 1
  BY WorldTypes, WaitStates, SyncAssumption DEF Obj, SuspCounts
<1>3. t \in Range(r.suspQ[m])
  BY <1>2, OnQueue
<1>4. /\ FQ(a, {} \cup {t}, m, 1) /\ SameRest(r, a) /\ SameWhere(r, a) /\ SameCnt(r, a)
      /\ a.pri = r.pri
      /\ r.phase[m] # "deleted"
  BY <1>1, <1>2, <1>3, TakeSusp
<1>5. a.phase[m] # "deleted"
  BY <1>4 DEF SameRest, SameCtl
<1>6. FQ(b, {} \cup {t}, m, 0) /\ OnlyCounts(a, b) /\ b.cvMutex = a.cvMutex
  <2>1. 1 \in {0, 1} /\ 0 \in {0, 1}
    OBVIOUS
  <2> QED
    BY <1>1, <1>4, <1>5, <2>1, MutexCount
<1>7. QOK(b, {t})
  <2>1. {} \cup {t} = {t}
    OBVIOUS
  <2> QED
    BY <1>6, <2>1, FluxNone
<1>8. SameRest(r, b) /\ SameWhere(r, b) /\ b.pri = r.pri /\ b.cvMutex = r.cvMutex
  BY <1>4, <1>6 DEF OnlyCounts, SameRest, SameCtl, SameRun, SameWhere, SameCnt
<1>9. \A x \in Thread : x # t => SameCv(r, b, x)
  BY <1>8 DEF SameCv
<1>10. World(r, {t}) /\ r.mstate[t] \notin {"EWaitMutex", "EHoldMutexPending"}
  BY WorldLess DEF Waits
<1> QED
  BY <1>1, <1>7, <1>8, <1>9, <1>10, LeaveIdle

\* Off the queue of a condition variable.
LEMMA CondLeaves ==
    ASSUME NEW r, World(r, {}), NEW t \in Thread, NEW o \in Cond, r.mstate[t] \in CondWaits,
           NEW a, FQ(a, {} \cup {t}, o, 1), SameRest(r, a), SameWhere(r, a), SameCnt(r, a),
           a.pri = r.pri,
           r.phase[o] # "deleted",
           NEW c \in Rets, NEW v, v = GoIdle(CondUncount(a, o), t, c)
    PROVE  World(v, {t}) /\ Left(r, v, t)
<1> DEFINE b == CondUncount(a, o)
<1>1. b = CondUncount(a, o) /\ v = GoIdle(b, t, c)
  OBVIOUS
<1> HIDE DEF b
<1>2. a.phase[o] # "deleted" /\ {} \cup {t} = {t}
  BY DEF SameRest, SameCtl
<1>3. QOK(b, {t}) /\ OnlyCounts(a, b) /\ CvKept(a, b, {t})
  BY <1>1, <1>2, CondUncountKeeps
<1>4. SameRest(r, b) /\ SameWhere(r, b) /\ b.pri = r.pri
  BY <1>3 DEF OnlyCounts, SameRest, SameCtl, SameRun, SameWhere
<1>5. \A x \in Thread : x # t => SameCv(r, b, x)
  <2> SUFFICES ASSUME NEW x \in Thread, x # t, r.mstate[x] \in CondWaits
               PROVE  b.cvMutex[r.waitObj[x]] = r.cvMutex[r.waitObj[x]]
    BY DEF SameCv
  <2>1. r.waitObj[x] \in Cond
    BY DEF World, ThreadOK, WaitOK
  <2>2. a.mstate[x] = r.mstate[x] /\ a.waitObj[x] = r.waitObj[x] /\ a.cvMutex = r.cvMutex
    BY DEF SameWhere, SameCnt
  <2> QED
    BY <1>3, <2>1, <2>2 DEF CvKept
<1>6. World(r, {t}) /\ r.mstate[t] \notin {"EWaitMutex", "EHoldMutexPending"}
  BY WorldLess DEF CondWaits
<1> QED
  BY <1>1, <1>3, <1>4, <1>5, <1>6, LeaveIdle

\* DCondVar::WaitCancel.
LEMMA CondWaitLeaves ==
    ASSUME NEW r, World(r, {}), NEW t \in Thread, NEW o \in Cond, Waits(r, t, o, "EWaitCondVar"),
           NEW c \in Rets, NEW v, v = GoIdle(CondWaitCancel(r, o, t), t, c)
    PROVE  World(v, {t}) /\ Left(r, v, t)
<1> DEFINE a == WaitRemove(r, o, t)
<1>1. a = WaitRemove(r, o, t) /\ v = GoIdle(CondUncount(a, o), t, c)
  BY DEF CondWaitCancel
<1> HIDE DEF a
<1>2. QOK(r, {}) /\ o \in Obj /\ WaitState[o] = "EWaitCondVar"
  BY WorldTypes, WaitStates DEF Obj
<1>3. t \in Range(r.waitQ[o])
  BY <1>2, OnQueue
<1>4. /\ FQ(a, {} \cup {t}, o, 1) /\ SameRest(r, a) /\ SameWhere(r, a) /\ SameCnt(r, a)
      /\ a.pri = r.pri
      /\ r.phase[o] # "deleted"
  BY <1>1, <1>2, <1>3, TakeWait
<1>5. r.mstate[t] \in CondWaits
  BY DEF Waits, CondWaits
<1> QED
  BY <1>1, <1>4, <1>5, CondLeaves

\* DCondVar::WaitCancelSuspended.
LEMMA CondSuspLeaves ==
    ASSUME NEW r, World(r, {}), NEW t \in Thread, NEW o \in Cond,
           Waits(r, t, o, "EWaitCondVarSuspended"),
           NEW c \in Rets, NEW v, v = GoIdle(CondUncount(SuspRemove(r, o, t), o), t, c)
    PROVE  World(v, {t}) /\ Left(r, v, t)
<1> DEFINE a == SuspRemove(r, o, t)
<1>1. a = SuspRemove(r, o, t) /\ v = GoIdle(CondUncount(a, o), t, c)
  OBVIOUS
<1> HIDE DEF a
<1>2. QOK(r, {}) /\ o \in Obj /\ SuspState[o] = "EWaitCondVarSuspended" /\ SuspCounts(o) = 1
  BY WorldTypes, WaitStates, SyncAssumption DEF Obj, SuspCounts
<1>3. t \in Range(r.suspQ[o])
  BY <1>2, OnQueue
<1>4. /\ FQ(a, {} \cup {t}, o, 1) /\ SameRest(r, a) /\ SameWhere(r, a) /\ SameCnt(r, a)
      /\ a.pri = r.pri
      /\ r.phase[o] # "deleted"
  BY <1>1, <1>2, <1>3, TakeSusp
<1>5. r.mstate[t] \in CondWaits
  BY DEF Waits, CondWaits
<1> QED
  BY <1>1, <1>4, <1>5, CondLeaves

\* WaitRemove changes one wait queue.
LEMMA WaitRemoveFields ==
    ASSUME NEW r, Rec(r), NEW o, NEW h, NEW w, w = WaitRemove(r, o, h)
    PROVE  /\ Rec(w) /\ SameRest(r, w) /\ SameWhere(r, w) /\ SameCnt(r, w) /\ w.pri = r.pri
           /\ w.waitQ = [r.waitQ EXCEPT ![o] = Without(r.waitQ[o], h)]
           /\ w.suspQ = r.suspQ /\ w.pendQ = r.pendQ
<1>1. /\ SameRest(r, w) /\ SameWhere(r, w) /\ SameCnt(r, w) /\ w.pri = r.pri
      /\ w.suspQ = r.suspQ /\ w.pendQ = r.pendQ
  BY SMT DEF Rec, Fields, WaitRemove, SameRest, SameCtl, SameRun, SameWhere, SameCnt
<1>2. w.waitQ = [r.waitQ EXCEPT ![o] = Without(r.waitQ[o], h)] /\ DOMAIN w = Fields
  BY SMT DEF Rec, Fields, WaitRemove
<1>3. w = [f \in DOMAIN w |-> w[f]]
  BY SMT DEF WaitRemove
<1> QED
  BY <1>1, <1>2, <1>3 DEF Rec

Readied(r, s, t) ==
    /\ SameRest(r, s) /\ SameCnt(r, s) /\ SameQ(r, s) /\ s.pri = r.pri
    /\ s.mstate = [r.mstate EXCEPT ![t] = "EReady"] /\ s.waitObj = [r.waitObj EXCEPT ![t] = Null]
\* Ready changes the fields it names.
LEMMA ReadyFields ==
    ASSUME NEW r, Rec(r), NEW t, NEW s, s = Ready(r, t)
    PROVE  Rec(s) /\ Readied(r, s, t)
<1>1. SameRest(r, s) /\ SameCnt(r, s) /\ SameQ(r, s) /\ s.pri = r.pri
  BY SMT DEF Rec, Fields, Ready, SameRest, SameCtl, SameRun, SameQ, SameCnt
<1>2. s.mstate = [r.mstate EXCEPT ![t] = "EReady"] /\ s.waitObj = [r.waitObj EXCEPT ![t] = Null]
  BY SMT DEF Rec, Fields, Ready
<1>3. Rec(s)
  <2> DEFINE q == [r EXCEPT !.mstate[t] = "EReady"]
             z == [r.waitObj EXCEPT ![t] = Null]
  <2>1. s = [q EXCEPT !.waitObj = z]
    BY SMT DEF Rec, Fields, Ready
  <2>2. DOMAIN s = Fields
    BY SMT DEF Rec, Fields, Ready
  <2> HIDE DEF q, z
  <2>3. s = [f \in DOMAIN s |-> s[f]]
    BY <2>1, SMT
  <2> QED
    BY <2>2, <2>3 DEF Rec
<1> QED
  BY <1>1, <1>2, <1>3 DEF Readied

\* WakeUpNextThread is the removal of the first thread and the offer to it.
LEMMA WakeUpIs ==
    ASSUME NEW r, NEW m, NEW h, h = Head(r.waitQ[m])
    PROVE  WakeUpNextThread(r, m) = Offer(WaitRemove(r, m, h), m, h)
BY DEF WakeUpNextThread, Offer

\* It does not matter whether t is made ready before or after another is woken.
LEMMA WakeSwap ==
    ASSUME NEW r, Rec(r), r.mstate \in [Thread -> MState], NEW t \in Thread, NEW m,
           NEW h \in Thread,
           h = Head(r.waitQ[m]), h # t
    PROVE  Ready(WakeUpNextThread(r, m), t) = WakeUpNextThread(Ready(r, t), m)
<1> DEFINE x == WaitRemove(r, m, h)
           y == Offer(x, m, h)
           l == Ready(y, t)
           a == Ready(r, t)
           b == WaitRemove(a, m, h)
           s == Offer(b, m, h)
<1>1. x = WaitRemove(r, m, h) /\ y = Offer(x, m, h) /\ l = Ready(y, t)
  OBVIOUS
<1>2. a = Ready(r, t) /\ b = WaitRemove(a, m, h) /\ s = Offer(b, m, h)
  OBVIOUS
<1>3. WakeUpNextThread(r, m) = y
  BY WakeUpIs
<1> HIDE DEF x, y, l, a, b, s
<1>4. Rec(a) /\ Readied(r, a, t)
  BY <1>2, ReadyFields
<1>5. WakeUpNextThread(a, m) = s
  <2>1. h = Head(a.waitQ[m])
    BY <1>4 DEF Readied, SameQ
  <2> QED
    BY <1>2, <2>1, WakeUpIs
<1>6. /\ Rec(x) /\ SameRest(r, x) /\ SameWhere(r, x) /\ SameCnt(r, x) /\ x.pri = r.pri
      /\ x.waitQ = [r.waitQ EXCEPT ![m] = Without(r.waitQ[m], h)]
      /\ x.suspQ = r.suspQ /\ x.pendQ = r.pendQ
  BY <1>1, WaitRemoveFields
<1>7. /\ Rec(b) /\ SameRest(a, b) /\ SameWhere(a, b) /\ SameCnt(a, b) /\ b.pri = a.pri
      /\ b.waitQ = [a.waitQ EXCEPT ![m] = Without(a.waitQ[m], h)]
      /\ b.suspQ = a.suspQ /\ b.pendQ = a.pendQ
  BY <1>2, <1>4, WaitRemoveFields
<1>8. Rec(y) /\ OfferEq(x, y, m, h)
  BY <1>1, <1>6, OfferFields
<1>9. Rec(s) /\ OfferEq(b, s, m, h)
  BY <1>2, <1>7, OfferFields
<1>10. Rec(l) /\ Readied(y, l, t)
  BY <1>1, <1>8, ReadyFields
<1>11. SameCtl(l, s)
  BY <1>4, <1>6, <1>7, <1>8, <1>9, <1>10 DEF Readied, OfferEq, SameRest, SameCtl
<1>12. SameRun(l, s)
  BY <1>4, <1>6, <1>7, <1>8, <1>9, <1>10 DEF Readied, OfferEq, SameRest, SameRun, Released
<1>13. SameCnt(l, s)
  BY <1>4, <1>6, <1>7, <1>8, <1>9, <1>10 DEF Readied, OfferEq, SameData, SameCnt
<1>14. SameQ(l, s) /\ s.pri = l.pri
  <2>1. l.pendQ = App(r.pendQ, m, h) /\ s.pendQ = App(r.pendQ, m, h)
    <3>1. l.pendQ = App(x.pendQ, m, h) /\ s.pendQ = App(b.pendQ, m, h)
      BY <1>8, <1>9, <1>10 DEF Readied, OfferEq, SameQ
    <3> QED
      BY <1>4, <1>6, <1>7, <3>1 DEF Readied, SameQ
  <2>2. l.waitQ = s.waitQ /\ l.suspQ = s.suspQ /\ s.pri = l.pri
    BY <1>4, <1>6, <1>7, <1>8, <1>9, <1>10 DEF Readied, OfferEq, SameQ
  <2> QED
    BY <2>1, <2>2 DEF SameQ
<1>15. SameWhere(l, s)
  <2>1. l.mstate = [[r.mstate EXCEPT ![h] = "EHoldMutexPending"] EXCEPT ![t] = "EReady"]
    BY <1>6, <1>8, <1>10 DEF Readied, OfferEq, SameWhere
  <2>2. s.mstate = [[r.mstate EXCEPT ![t] = "EReady"] EXCEPT ![h] = "EHoldMutexPending"]
    BY <1>4, <1>7, <1>9 DEF Readied, OfferEq, SameWhere
  <2>3. l.mstate = s.mstate
    BY <2>1, <2>2
  <2>4. l.waitObj = s.waitObj
    BY <1>4, <1>6, <1>7, <1>8, <1>9, <1>10 DEF Readied, OfferEq, SameWhere
  <2> QED
    BY <2>3, <2>4 DEF SameWhere
<1>16. s.clnPri = l.clnPri /\ s.fault = l.fault
  BY <1>4, <1>6, <1>7, <1>8, <1>9, <1>10 DEF Readied, OfferEq, SameRest, SameData
<1>17. s = l
  BY <1>9, <1>10, <1>11, <1>12, <1>13, <1>14, <1>15, <1>16, RecEq DEF SameAll
<1> QED
  BY <1>1, <1>2, <1>3, <1>5, <1>17

-----------------------------------------------------------------------------
\* A free mutex is offered to the next waiter.
LEMMA WakeOffWorld ==
    ASSUME NEW r, NEW A, NEW m \in Mutex, WorldOff(r, A, m), Ground(r, A), HighBut(r, {}, Null, 0),
           NEW v, v = WakeAnother(r, m)
    PROVE  World(v, A) /\ SameCtl(r, v) /\ SameReq(r, v) /\ \A x \in A : SameWait(r, v, x)
<1>1. /\ QOK(r, {}) /\ RQ(r, {}) /\ RunT(r) /\ CtlT(r) /\ HoldOK(r) /\ OneResets(r) /\ m \in Obj
      /\ CountAt(r, m, 0)
  BY DEF WorldOff, QOK, Obj
<1>2. CASE ~Resetting(r, m) /\ r.holder[m] = Null /\ r.waitQ[m] # <<>>
  <2> DEFINE h == Head(r.waitQ[m])
  <2>1. v = WakeUpNextThread(r, m) /\ NonEmpty(r.waitQ[m]) /\ h = Head(r.waitQ[m])
    BY <1>2 DEF WakeAnother, NonEmpty
  <2> HIDE DEF h
  <2>2. /\ QOK(v, {}) /\ SameCtl(r, v) /\ SameData(r, v) /\ v.pri = r.pri /\ Woken(r, v, h, m, {})
    BY <1>1, <2>1, WakeUpKeeps
  <2>3. h \in Thread /\ MWaits(r, h, m) /\ ToPending(r, v, m, h)
    BY <2>2 DEF Woken
  <2>4. Free(r, m)
    BY <1>1, <1>2 DEF Free, CountAt, CtlT, Phases, Resetting
  <2>5. h \notin A /\ ~(r.susp[h] > 0)
    BY <1>2, <2>3, WaiterRuns
  <2>6. Lands(r, v, h, "EHoldMutexPending", m) /\ Released(r, v, h, "KErrNone")
    BY <2>3 DEF ToPending
  <2>7. \A x \in Thread : x # h => SameWait(r, v, x) /\ SameCv(r, v, x)
    BY <1>1, <2>2, <2>6, OthersWait DEF SameData, SameCv
  <2>8. \A x \in Mutex : Pends(r, h, x) \/ MWaits(v, h, x) => x = m \/ ~Free(r, x)
    BY <2>3, <2>6 DEF Pends, MWaits, Lands
  <2>9. \A x \in Mutex : MWaits(r, h, x) \/ MWaits(v, h, x) => x = m \/ ~Held(r, x)
    BY <2>3, <2>6 DEF MWaits, Lands
  <2>10. WorldOff(v, A \cup {h}, m)
    BY <2>2, <2>3, <2>7, <2>8, <2>9, MoveOff DEF SameData
  <2>11. Motion(r, v, A)
    BY <1>1, <1>2, <2>2, <2>3, OfferMotion DEF SameData
  <2>12. \A x \in Thread : Free(v, m) /\ MWaits(v, x, m) => Offered(v, m, x)
    <3> SUFFICES ASSUME NEW x \in Thread, MWaits(v, x, m)
                 PROVE  Offered(v, m, x)
      OBVIOUS
    <3>1. x # h
      BY <2>6 DEF MWaits, Lands
    <3>2. MWaits(r, x, m)
      BY <2>7, <3>1 DEF MWaits, SameWait
    <3>3. r.pri[h] >= r.pri[x]
      BY <2>2, <3>2 DEF Woken
    <3>4. Pends(v, h, m) /\ ~(v.susp[h] > 0) /\ v.pri[h] >= v.pri[x]
      BY <2>2, <2>5, <2>6, <3>3 DEF Pends, Lands, SameCtl
    <3> QED
      BY <2>3, <3>4 DEF Offered
  <2>13. NoIdle(v, {})
    BY <2>10, <2>12, IdleBack DEF WorldOff
  <2>14. HighBut(v, {}, Null, 0)
    <3>1. ~Held(v, m) /\ HighOff(v, m) /\ m # Null
      BY <1>2, <2>2, <2>10, SyncAssumption DEF Held, SameCtl, WorldOff, Obj
    <3> QED
      BY <3>1, SyncAssumption DEF HighBut, HighOff, Obj
  <2>15. World(v, A)
    BY <2>10, <2>11, <2>13, <2>14 DEF World, WorldOff, Motion
  <2>16. \A x \in A : SameWait(r, v, x)
    BY <2>11 DEF Motion
  <2> QED
    BY <2>2, <2>15, <2>16 DEF SameReq, SameCtl, SameData
<1>3. CASE ~(~Resetting(r, m) /\ r.holder[m] = Null /\ r.waitQ[m] # <<>>)
  <2>1. v = r
    BY <1>3 DEF WakeAnother
  <2>2. \A x \in Thread : ~(Free(r, m) /\ MWaits(r, x, m))
    <3> SUFFICES ASSUME NEW x \in Thread, Free(r, m), MWaits(r, x, m)
                 PROVE  FALSE
      OBVIOUS
    <3>1. x \in Range(r.waitQ[m])
      BY <1>1, MutexWaiter
    <3>2. r.waitQ[m] = <<>>
      BY <1>3 DEF Free, Resetting
    <3>3. Range(<<>>) = {}
      BY DEF Range
    <3> QED
      BY <3>1, <3>2, <3>3
  <2>3. World(r, A)
    BY <2>2, IdleBack DEF World, WorldOff
  <2> QED
    BY <2>1, <2>3 DEF SameCtl, SameReq, SameWait
<1> QED
  BY <1>2, <1>3

\* DMutex::RemovePendingThread.
LEMMA PendLeaves ==
    ASSUME NEW r, World(r, {}), NEW t \in Thread, NEW m \in Mutex, Pends(r, t, m),
           NEW c \in Rets, NEW v, v = GoIdle(RemovePendingThread(r, m, t), t, c)
    PROVE  World(v, {t}) /\ Left(r, v, t)
<1> DEFINE p == PendRemove(r, m, t)
           u == Unpend(r, t, m)
           w == WakeAnother(u, m)
<1>1. /\ p = PendRemove(r, m, t) /\ u = Unpend(r, t, m) /\ w = WakeAnother(u, m)
      /\ RemovePendingThread(r, m, t) = WakeAnother(p, m)
  BY DEF RemovePendingThread, PendRemove
<1> HIDE DEF p, u, w
<1>2. Rec(r) /\ RQ(r, {})
  BY WorldTypes
<1>3. /\ WorldOff(u, {t}, m) /\ HighBut(u, {}, Null, 0) /\ Unpends(r, u, t, m)
      /\ u.mstate[t] = "EReady" /\ u.waitObj[t] = Null
  BY <1>1, UnpendWorld
<1>4. Rec(p) /\ p.mstate = r.mstate /\ SameQ(p, u) /\ SameRest(p, u)
  BY <1>1, <1>2, UnpendFields
<1>5. Ready(p, t) = u
  BY <1>1, <1>2, UnpendSwap
<1>6. Ready(WakeAnother(p, m), t) = w
  <2>1. CASE ~Resetting(p, m) /\ p.holder[m] = Null /\ p.waitQ[m] # <<>>
    <3>1. ~Resetting(u, m) /\ u.holder[m] = Null /\ u.waitQ[m] # <<>>
      BY <1>4, <2>1 DEF SameQ, SameRest, SameCtl, Resetting
    <3>2. WakeAnother(p, m) = WakeUpNextThread(p, m) /\ w = WakeUpNextThread(u, m)
      BY <1>1, <2>1, <3>1 DEF WakeAnother
    <3>3. RQ(u, {}) /\ m \in Obj
      BY <1>3 DEF WorldOff, QOK, Obj
    <3> DEFINE h == Head(u.waitQ[m])
    <3>4. h \in Thread /\ h \in Range(u.waitQ[m])
      BY <3>1, <3>3, RHead
    <3>5. h = Head(p.waitQ[m])
      BY <1>4 DEF SameQ
    <3> HIDE DEF h
    <3>6. h # t
      BY <1>3, <3>3, <3>4, MutexWaiter DEF MWaits
    <3>7. p.mstate \in [Thread -> MState]
      BY <1>2, <1>4, QTypes2
    <3> QED
      BY <1>4, <1>5, <3>2, <3>4, <3>5, <3>6, <3>7, WakeSwap
  <2>2. CASE ~(~Resetting(p, m) /\ p.holder[m] = Null /\ p.waitQ[m] # <<>>)
    <3>1. ~(~Resetting(u, m) /\ u.holder[m] = Null /\ u.waitQ[m] # <<>>)
      BY <1>4, <2>2 DEF SameQ, SameRest, SameCtl, Resetting
    <3>2. WakeAnother(p, m) = p /\ w = u
      BY <1>1, <2>2, <3>1 DEF WakeAnother
    <3> QED
      BY <1>5, <3>2
  <2> QED
    BY <2>1, <2>2
<1>7. v = ThreadRelease(w, t, c)
  BY <1>1, <1>6 DEF GoIdle
<1>8. Ground(u, {t})
  BY <1>3 DEF Ground, Fixed, WorldOff
<1>9. World(w, {t}) /\ SameCtl(u, w) /\ SameReq(u, w) /\ SameWait(u, w, t)
  BY <1>1, <1>3, <1>8, WakeOffWorld
<1>10. Rec(w) /\ CtlT(w) /\ RunT(w)
  BY <1>9, WorldTypes
<1>11. OwnStep(w, v, t) /\ ThreadReleaseTo(w, v, t, c)
  BY <1>7, <1>10, ThreadReleaseOwn
<1>12. w.mstate[t] = "EReady" /\ w.waitObj[t] = Null
  BY <1>3, <1>9 DEF SameWait
<1>13. World(v, {t})
  <2>1. OfferKept(w, v, t) /\ ResetKept(w, v, t)
    BY <1>11, <1>12 DEF OfferKept, ResetKept, ThreadReleaseTo
  <2> QED
    BY <1>9, <1>11, <2>1, OwnWorld
<1>14. v.mstate[t] = "EReady" /\ v.waitObj[t] = Null /\ ~v.blocked[t]
  BY <1>11, <1>12 DEF OwnStep, SameK, SameWhere, ThreadReleaseTo
<1>15. SameCtl(r, v) /\ SameReq(r, v)
  <2>1. SameCtl(r, u) /\ SameReq(r, u)
    BY <1>3 DEF Unpends, SameReq, SameCtl, SameData
  <2>2. SameCtl(r, w) /\ SameReq(r, w)
    BY <1>9, <2>1 DEF SameCtl, SameReq
  <2>3. w.pri = v.pri /\ w.defPri = v.defPri /\ w.cleanupQ = v.cleanupQ /\ w.phase = v.phase
        /\ w.holder = v.holder /\ w.clnPri = v.clnPri /\ w.holdCount = v.holdCount
    BY <1>11 DEF OwnStep, SameK
  <2>4. w.pc = v.pc /\ w.obj = v.obj /\ w.cond = v.cond /\ w.cs = v.cs /\ w.susp = v.susp
        /\ w.csFunction = v.csFunction /\ w.todo = v.todo /\ w.fault = v.fault
    BY <1>11 DEF ThreadReleaseTo
  <2> QED
    BY <2>2, <2>3, <2>4 DEF SameCtl, SameReq
<1> QED
  BY <1>13, <1>14, <1>15, SteadySame DEF Left

\* t is off the wait queue of m, and counted no more.
Cancelled(r, a, t) ==
    /\ QOK(a, {t}) /\ SameRest(r, a) /\ SameWhere(r, a) /\ a.pri = r.pri
    /\ a.cvMutex = r.cvMutex /\ a.count = r.count
CancelOf(r, m, t) == WcAdd(WaitRemove(r, m, t), m, 0 - 1)

\* DMutex::WaitCancel, up to the chain.
LEMMA CancelParts ==
    ASSUME NEW r, World(r, {}), NEW t \in Thread, NEW m \in Mutex, MWaits(r, t, m),
           NEW a, a = CancelOf(r, m, t)
    PROVE  /\ Cancelled(r, a, t) /\ r.phase[m] # "deleted"
           /\ MutexWaitCancel(r, m, t) = Settle(Link(a, m, HighestPriority(a, m), 0))
<1> DEFINE w == WaitRemove(r, m, t)
<1>1. w = WaitRemove(r, m, t) /\ a = WcAdd(w, m, 0 - 1)
  BY DEF CancelOf
<1> HIDE DEF w
<1>2. QOK(r, {}) /\ m \in Obj /\ WaitState[m] = "EWaitMutex" /\ Rec(r) /\ CntT(r)
  BY WorldTypes, WaitStates DEF Obj
<1>3. t \in Range(r.waitQ[m])
  BY <1>2, OnQueue DEF MWaits, Waits
<1>4. /\ FQ(w, {} \cup {t}, m, 1) /\ SameRest(r, w) /\ SameWhere(r, w) /\ SameCnt(r, w)
      /\ w.pri = r.pri
      /\ r.phase[m] # "deleted"
  BY <1>1, <1>2, <1>3, TakeWait
<1>5. w.phase[m] # "deleted"
  BY <1>4 DEF SameRest, SameCtl
<1>6. FQ(a, {} \cup {t}, m, 0) /\ OnlyCounts(w, a) /\ a.cvMutex = w.cvMutex /\ a.count = w.count
  <2>1. 1 \in {0, 1} /\ 0 \in {0, 1}
    OBVIOUS
  <2> QED
    BY <1>1, <1>4, <1>5, <2>1, MutexCount
<1>7. QOK(a, {t})
  <2>1. {} \cup {t} = {t}
    OBVIOUS
  <2> QED
    BY <1>6, <2>1, FluxNone
<1>8. Cancelled(r, a, t)
  BY <1>4, <1>6, <1>7 DEF OnlyCounts, SameRest, SameCtl, SameRun, SameWhere, SameCnt, Cancelled
<1>9. a = [w EXCEPT !.waitCount[m] = @ - 1]
  <2>1. w.waitCount[m] \in Nat
    BY <1>2, <1>4 DEF SameCnt, CntT
  <2>2. w.waitCount[m] + (0 - 1) = w.waitCount[m] - 1
    BY <2>1
  <2> QED
    BY <1>1, <2>2 DEF WcAdd
<1>10. MutexWaitCancel(r, m, t) = Settle(Link(a, m, HighestPriority(a, m), 0))
  BY <1>1, <1>9 DEF MutexWaitCancel
<1> QED
  BY <1>4, <1>8, <1>10

\* Nothing else is different.
LEMMA CancelSame ==
    ASSUME NEW r, World(r, {}), NEW t, NEW a, Cancelled(r, a, t)
    PROVE  /\ \A x \in Thread : SameWait(r, a, x) /\ SameCv(r, a, x) /\ ThreadOK(a, x)
           /\ \A x, u \in Thread : WaitsFor(a, x, u) <=> WaitsFor(r, x, u)
<1>1. \A x \in Thread : SameWait(r, a, x) /\ SameCv(r, a, x)
  BY DEF Cancelled, SameRest, SameRun, SameWhere, SameWait, SameCv
<1>2. SameCtl(r, a)
  BY DEF Cancelled, SameRest
<1>3. \A x \in Thread : ThreadOK(r, x)
  BY DEF World
<1>4. \A x \in Thread : ThreadOK(a, x)
  BY <1>1, <1>2, <1>3, CtlPlace, ThreadAgrees DEF Agree
<1>5. \A x, u \in Thread : WaitsFor(a, x, u) <=> WaitsFor(r, x, u)
  BY <1>1, <1>2, EdgesSame
<1> QED
  BY <1>1, <1>4, <1>5

\* The other mutexes are as exact as they were.
LEMMA CancelExact ==
    ASSUME NEW r, World(r, {}), NEW t \in Thread, NEW m \in Mutex, MWaits(r, t, m), NEW a,
           Cancelled(r, a, t)
    PROVE  /\ NoIdle(a, {t})
           /\ \A x \in Mutex : x # m /\ Held(a, x) => High(a, {t}, x, a.clnPri[x])
<1>6. \A x \in Mutex, w \in Thread : (MWaits(a, w, x) <=> MWaits(r, w, x)) /\ (Pends(a, w, x) <=> Pends(r, w, x))
  BY DEF Cancelled, SameWhere, MWaits, Pends
<1>7. SameCtl(r, a) /\ a.pri = r.pri /\ a.clnPri = r.clnPri
  BY DEF Cancelled, SameRest
<1>8. NoIdle(a, {t})
  <2> SUFFICES ASSUME NEW x \in Mutex, NEW w \in Thread \ {t}, Free(a, x), MWaits(a, w, x)
               PROVE  \E q \in Thread \ {t} : Pends(a, q, x) /\ ~(a.susp[q] > 0) /\ a.pri[q] >= a.pri[w]
    BY DEF NoIdle
  <2>1. Free(r, x) /\ MWaits(r, w, x)
    BY <1>6, <1>7, CtlHeld
  <2>2. PICK q \in Thread : Pends(r, q, x) /\ ~(r.susp[q] > 0) /\ r.pri[q] >= r.pri[w]
    BY <2>1 DEF World, NoIdle
  <2>3. q # t
    BY <2>2 DEF Pends, MWaits
  <2> QED
    BY <1>6, <1>7, <2>2, <2>3 DEF SameCtl
<1>9. \A x \in Mutex : x # m /\ Held(a, x) => High(a, {t}, x, a.clnPri[x])
  <2> SUFFICES ASSUME NEW x \in Mutex, x # m, Held(a, x)
               PROVE  High(a, {t}, x, a.clnPri[x])
    OBVIOUS
  <2>1. HighBut(r, {}, Null, 0) /\ x # Null
    BY SyncAssumption DEF World, Obj
  <2>2. High(r, {}, x, r.clnPri[x])
    BY <1>7, <2>1, CtlHeld DEF HighBut
  <2>3. ~MWaits(r, t, x)
    BY DEF MWaits
  <2>4. High(a, {t}, x, r.clnPri[x])
    BY <1>6, <1>7, <2>2, <2>3 DEF High
  <2> QED
    BY <1>7, <2>4
<1> QED
  BY <1>8, <1>9

\* The chain that starts at m, which has a waiter less, is exact.
LEMMA CancelChain ==
    ASSUME NEW r, World(r, {}), NEW t \in Thread, NEW m \in Mutex, MWaits(r, t, m),
           r.holder[m] # Null,
           NEW a, Cancelled(r, a, t), NEW l, l = Link(a, m, HighestPriority(a, m), 0)
    PROVE  Chained(l, {t}, {t}) /\ Exact(l, {t}) /\ LinkIs(l, a, m, HighestPriority(a, m), 0)
<1> DEFINE p == HighestPriority(a, m)
<1>1. LinkIs(l, a, m, p, 0)
  BY LinkFields
<1>2. RQ(a, {t})
  BY DEF Cancelled, QOK
<1>3. High(a, {t}, m, p) /\ p \in Pri \cup {0}
  BY <1>2, HighestIs
<1> HIDE DEF p
<1>4. Ground(a, {t})
  <2>1. Fixed(a, t)
    BY DEF Cancelled, SameRest, SameCtl, SameWhere, Fixed, MWaits
  <2> QED
    BY <2>1, CancelSame DEF Ground
<1>5. Chained(l, {t}, {t})
  BY <1>1, <1>3, <1>4 DEF Chained, LinkIs, LinkOK, Cancelled
<1>9. HighBut(a, {t}, m, p)
  BY <1>3, CancelExact DEF HighBut
<1>10. Exact(l, {t})
  BY <1>1, <1>9, CancelExact DEF Exact, LinkHigh, LinkIs
<1> QED
  BY <1>1, <1>5, <1>10 DEF p

\* A thread on no queue is made ready: what is exact without it is exact with it.
LEMMA IdleExact ==
    ASSUME NEW s, NEW t, NEW v, SameNumbers(s, v), Lands(s, v, t, "EReady", Null),
           NoIdle(s, {t}), HighBut(s, {t}, Null, 0)
    PROVE  NoIdle(v, {}) /\ HighBut(v, {}, Null, 0)
<1>1. SameCtl(s, v) /\ v.pri = s.pri /\ v.clnPri = s.clnPri
  BY DEF SameNumbers, SameData
<1>2. \A x \in Mutex : ~MWaits(v, t, x)
  BY DEF MWaits, Lands
<1>3. \A x \in Mutex, w \in Thread \ {t} : (MWaits(v, w, x) <=> MWaits(s, w, x)) /\ (Pends(v, w, x) <=> Pends(s, w, x))
  BY DEF MWaits, Pends, Lands, But
<1>4. NoIdle(v, {})
  <2> SUFFICES ASSUME NEW x \in Mutex, NEW w \in Thread, Free(v, x), MWaits(v, w, x)
               PROVE  \E q \in Thread : Pends(v, q, x) /\ ~(v.susp[q] > 0) /\ v.pri[q] >= v.pri[w]
    BY DEF NoIdle
  <2>1. w \in Thread \ {t} /\ Free(s, x) /\ MWaits(s, w, x)
    BY <1>1, <1>2, <1>3, CtlHeld
  <2>2. PICK q \in Thread \ {t} : Pends(s, q, x) /\ ~(s.susp[q] > 0) /\ s.pri[q] >= s.pri[w]
    BY <2>1 DEF NoIdle
  <2> QED
    BY <1>1, <1>3, <2>2 DEF SameCtl
<1>5. HighBut(v, {}, Null, 0)
  <2> SUFFICES ASSUME NEW x \in Mutex, Held(v, x)
               PROVE  High(v, {}, x, IF x = Null THEN 0 ELSE v.clnPri[x])
    BY DEF HighBut
  <2>1. High(s, {t}, x, IF x = Null THEN 0 ELSE s.clnPri[x])
    BY <1>1, CtlHeld DEF HighBut
  <2>2. High(s, {t}, x, IF x = Null THEN 0 ELSE v.clnPri[x])
    BY <1>1, <2>1
  <2> QED
    BY <1>1, <1>2, <1>3, <2>2 DEF High
<1> QED
  BY <1>4, <1>5

\* A thread on no queue is made ready.
LEMMA IdleWorld ==
    ASSUME NEW s, NEW t \in Thread, QOK(s, {t}), \A x \in Thread \ {t} : ThreadOK(s, x), HoldOK(s),
           OneResets(s),
           NoIdle(s, {t}), HighBut(s, {t}, Null, 0), NEW c \in Rets, NEW v, v = GoIdle(s, t, c)
    PROVE  /\ World(v, {t}) /\ SameCtl(s, v) /\ SameReq(s, v)
           /\ v.mstate[t] = "EReady" /\ v.waitObj[t] = Null /\ ~v.blocked[t]
<1>1. FQ(s, {} \cup {t}, Null, 0)
  <2>1. {} \cup {t} = {t}
    OBVIOUS
  <2> QED
    BY <2>1, FluxNone
<1>2. /\ FQ(v, {}, Null, 0) /\ SameNumbers(s, v) /\ SameCnt(s, v) /\ Released(s, v, t, c)
      /\ Lands(s, v, t, "EReady", Null)
  BY <1>1, GoIdleKeeps
<1>3. QOK(v, {}) /\ SameCtl(s, v) /\ v.clnPri = s.clnPri /\ v.pri = s.pri /\ v.fault = s.fault
  BY <1>2, FluxNone DEF SameNumbers, SameData
<1>4. \A x \in Thread \ {t} : ThreadOK(v, x)
  <2> SUFFICES ASSUME NEW x \in Thread, x # t
               PROVE  ThreadOK(v, x)
    OBVIOUS
  <2>1. RunT(s)
    BY DEF QOK
  <2>2. SameWait(s, v, x)
    BY <1>2, <2>1, OthersWait
  <2>3. SameCv(s, v, x)
    BY <1>2 DEF SameCnt, SameCv
  <2>4. SamePlace(s, v, x)
    BY <1>3, CtlPlace
  <2> QED
    BY <2>2, <2>3, <2>4, ThreadAgrees DEF Agree
<1>5. NoIdle(v, {}) /\ HighBut(v, {}, Null, 0)
  BY <1>2, IdleExact
<1>6. HoldOK(v) /\ OneResets(v)
  BY <1>3 DEF SameCtl, HoldOK, OneResets
<1>7. World(v, {t})
  BY <1>3, <1>4, <1>5, <1>6 DEF World
<1>8. v.mstate[t] = "EReady" /\ v.waitObj[t] = Null /\ ~v.blocked[t]
  <2>1. RunT(s)
    BY DEF QOK
  <2> QED
    BY <1>2, <2>1, ReleasedAt DEF Lands
<1> QED
  BY <1>3, <1>7, <1>8 DEF SameReq, SameCtl

\* It leaves a mutex that is held.
LEMMA HeldLeaves ==
    ASSUME NEW r, World(r, {}), NEW t \in Thread, NEW m \in Mutex, MWaits(r, t, m),
           r.holder[m] # Null,
           NEW c \in Rets, NEW v, v = GoIdle(MutexWaitCancel(r, m, t), t, c)
    PROVE  World(v, {t}) /\ Left(r, v, t)
<1> DEFINE a == CancelOf(r, m, t)
           l == Link(a, m, HighestPriority(a, m), 0)
           s == Settle(l)
<1>1. a = CancelOf(r, m, t) /\ l = Link(a, m, HighestPriority(a, m), 0) /\ s = Settle(l)
  OBVIOUS
<1> HIDE DEF a, l, s
<1>2. Cancelled(r, a, t) /\ MutexWaitCancel(r, m, t) = s
  BY <1>1, CancelParts
<1>3. Chained(l, {t}, {t}) /\ Exact(l, {t}) /\ l.k = a /\ l.m = m /\ l.n = 0
  BY <1>1, <1>2, CancelChain DEF LinkIs
<1>4. QOK(s, {t}) /\ Motion(a, s, {t}) /\ NoIdle(s, {t}) /\ HighBut(s, {t}, Null, 0)
  BY <1>1, <1>3, SettleKeeps
<1>5. v = GoIdle(s, t, c)
  BY <1>2
<1>6. SameCtl(r, s) /\ SameCtl(r, a)
  BY <1>2, <1>4 DEF Cancelled, SameRest, Motion, SameCtl
<1>7. \A x \in Thread \ {t} : ThreadOK(s, x)
  BY <1>4 DEF Motion
<1>8. HoldOK(s) /\ OneResets(s)
  BY <1>6 DEF World, SameCtl, HoldOK, OneResets
<1>9. /\ World(v, {t}) /\ SameCtl(s, v) /\ SameReq(s, v)
      /\ v.mstate[t] = "EReady" /\ v.waitObj[t] = Null /\ ~v.blocked[t]
  BY <1>4, <1>5, <1>7, <1>8, IdleWorld
<1>10. SameCtl(r, v)
  BY <1>6, <1>9 DEF SameCtl
<1>16. \A d : RankedBy(r, d) => RankedBy(a, d)
  BY <1>2, CancelSame DEF RankedBy
<1>17. \A d : RankedBy(r, d) => \A u \in Thread : a.holder[m] = u => d[u] < d[t]
  <2>1. \A u \in Thread : a.holder[m] = u => WaitsFor(r, t, u)
    BY <1>6 DEF WaitsFor, MWaits, SameCtl
  <2> QED
    BY <2>1 DEF RankedBy
<1>18. Ranked(r, Cardinality(Thread)) => (v.fault => r.fault)
  <2> SUFFICES ASSUME Ranked(r, Cardinality(Thread))
               PROVE  v.fault => r.fault
    OBVIOUS
  <2>1. PICK d \in [Thread -> 0..Cardinality(Thread)] : RankedBy(r, d)
    BY DEF Ranked
  <2>2. d \in [Thread -> Nat]
    OBVIOUS
  <2>3. Below(l, d, {t})
    BY <1>3, <1>16, <1>17, <2>1 DEF Below
  <2>4. s.fault = a.fault
    BY <1>1, <1>3, <2>2, <2>3, SettleFault
  <2> QED
    BY <1>2, <1>9, <2>4 DEF Cancelled, SameRest, SameReq
<1>19. Ranked(r, 9) /\ ReqBut(r, {}) => ReqBut(v, {})
  <2> SUFFICES ASSUME Ranked(r, 9), ReqBut(r, {})
               PROVE  ReqBut(v, {})
    OBVIOUS
  <2>1. PICK d \in [Thread -> 0..9] : RankedBy(r, d)
    BY DEF Ranked
  <2>2. ReqBut(a, {})
    BY <1>2 DEF Cancelled, SameRest, SameCtl, ReqBut, IsReq
  <2>3. Owned(a)
    BY <1>6 DEF World, HoldOK, Owned, SameCtl
  <2>4. \A u \in Thread : a.holder[m] = u => d[u] + 0 =< 8
    <3> SUFFICES ASSUME NEW u \in Thread, a.holder[m] = u
                 PROVE  d[u] + 0 =< 8
      OBVIOUS
    <3>1. d[u] < d[t]
      BY <1>17, <2>1
    <3>2. d[u] \in 0..9 /\ d[t] \in 0..9
      OBVIOUS
    <3> QED
      BY <3>1, <3>2
  <2>5. Nested(l, d)
    BY <1>3, <1>16, <2>1, <2>2, <2>3, <2>4 DEF Nested
  <2>6. ReqBut(s, {})
    BY <1>1, <1>3, <2>5, SettleReq
  <2> QED
    BY <1>9, <2>6 DEF ReqBut, IsReq, SameReq
<1> QED
  BY <1>9, <1>10, <1>18, <1>19 DEF Left, Steady

\* It leaves a mutex that is free: the cleanup item is nobody's.
LEMMA FreeLeaves ==
    ASSUME NEW r, World(r, {}), NEW t \in Thread, NEW m \in Mutex, MWaits(r, t, m),
           r.holder[m] = Null,
           NEW c \in Rets, NEW v, v = GoIdle(MutexWaitCancel(r, m, t), t, c)
    PROVE  World(v, {t}) /\ Left(r, v, t)
<1> DEFINE a == CancelOf(r, m, t)
           p == HighestPriority(a, m)
           l == Link(a, m, p, 0)
           b == SetCln(a, m, p)
<1>1. /\ a = CancelOf(r, m, t) /\ p = HighestPriority(a, m) /\ l = Link(a, m, p, 0)
      /\ b = SetCln(a, m, p)
  OBVIOUS
<1> HIDE DEF a, p, l, b
<1>2. Cancelled(r, a, t) /\ MutexWaitCancel(r, m, t) = Settle(l)
  BY <1>1, CancelParts
<1>3. RQ(a, {t}) /\ QOK(a, {t})
  BY <1>2 DEF Cancelled, QOK
<1>4. p \in Pri \cup {0}
  BY <1>1, <1>3, HighestIs
<1>5. l.k = a /\ l.m = m /\ l.p = p /\ l.n = 0
  BY <1>1 DEF Link
<1>6. LinkOK(l)
  BY <1>4, <1>5 DEF LinkOK
<1>7. SameCtl(r, a) /\ a.pri = r.pri /\ a.clnPri = r.clnPri /\ a.fault = r.fault
  BY <1>2 DEF Cancelled, SameRest
<1>8. l.k.holder[l.m] = Null
  BY <1>5, <1>7 DEF SameCtl
<1>9. Settle(l) = b
  <2>1. Ends(Follow(l), SetCln(l.k, l.m, l.p))
    BY <1>3, <1>5, <1>6, <1>8, FollowFree
  <2>2. Ends(Follow(l), b)
    BY <1>1, <1>5, <2>1
  <2> QED
    BY <2>2, SettleEnds
<1>10. /\ QOK(b, {t}) /\ SameCtl(a, b) /\ SameRun(a, b) /\ SameCnt(a, b) /\ SameWhere(a, b)
       /\ SameQ(a, b) /\ b.pri = a.pri /\ b.fault = a.fault /\ b.clnPri = [a.clnPri EXCEPT ![m] = p]
  BY <1>1, <1>3, <1>4, SetClnKeeps
<1>11. \A x \in Thread \ {t} : ThreadOK(b, x)
  <2> SUFFICES ASSUME NEW x \in Thread, x # t
               PROVE  ThreadOK(b, x)
    OBVIOUS
  <2>1. ThreadOK(a, x)
    BY <1>2, CancelSame
  <2>2. SameWait(a, b, x) /\ SameCv(a, b, x)
    BY <1>10 DEF SameRun, SameWhere, SameWait, SameCnt, SameCv
  <2> QED
    BY <1>10, <2>1, <2>2, CtlPlace, ThreadAgrees DEF Agree
<1>12. SameCtl(r, b)
  BY <1>7, <1>10 DEF SameCtl
<1>13. HoldOK(b) /\ OneResets(b)
  BY <1>12 DEF World, SameCtl, HoldOK, OneResets
<1>14. NoIdle(a, {t}) /\ \A x \in Mutex : x # m /\ Held(a, x) => High(a, {t}, x, a.clnPri[x])
  BY <1>2, CancelExact
<1>15. NoIdle(b, {t})
  BY <1>10, <1>14 DEF NoIdle, Free, MWaits, Pends, SameWhere, SameCtl
<1>16. HighBut(b, {t}, Null, 0)
  <2> SUFFICES ASSUME NEW x \in Mutex, Held(b, x)
               PROVE  High(b, {t}, x, IF x = Null THEN 0 ELSE b.clnPri[x])
    BY DEF HighBut
  <2>1. Held(a, x) /\ x # m
    BY <1>10, <1>12, CtlHeld DEF Held, SameCtl
  <2>2. b.clnPri[x] = a.clnPri[x] /\ x # Null
    BY <1>10, <2>1, SyncAssumption DEF Obj
  <2>3. SameWaiters(a, b, x)
    BY <1>10 DEF SameWaiters, MWaits, SameWhere
  <2> QED
    BY <1>14, <2>1, <2>2, <2>3, WaitersHigh
<1>17. /\ World(v, {t}) /\ SameCtl(b, v) /\ SameReq(b, v)
       /\ v.mstate[t] = "EReady" /\ v.waitObj[t] = Null /\ ~v.blocked[t]
  BY <1>2, <1>9, <1>10, <1>11, <1>13, <1>15, <1>16, IdleWorld
<1>18. SameCtl(r, v) /\ v.fault = r.fault
  BY <1>7, <1>10, <1>12, <1>17 DEF SameCtl, SameReq
<1>19. ReqBut(r, {}) => ReqBut(v, {})
  <2> SUFFICES ASSUME ReqBut(r, {})
               PROVE  ReqBut(v, {})
    OBVIOUS
  <2>1. ReqBut(a, {})
    BY <1>7 DEF SameCtl, ReqBut, IsReq
  <2>2. Owned(a)
    BY <1>7 DEF World, HoldOK, Owned, SameCtl
  <2>3. CtlT(a) /\ RunT(a)
    BY <1>3 DEF QOK
  <2>4. a.holder[m] \notin Thread
    BY <1>7, SyncAssumption DEF SameCtl
  <2>5. ReqBut(b, {})
    BY <1>10, <2>1, <2>2, <2>3, <2>4, SetClnReq
  <2> QED
    BY <1>17, <2>5 DEF ReqBut, IsReq, SameReq
<1> QED
  BY <1>17, <1>18, <1>19 DEF Left, Steady

-----------------------------------------------------------------------------
\* A thread is taken off whatever it waits for.
LEMMA ReleaseWaitWorld ==
    ASSUME NEW r, World(r, {}), NEW t \in Thread, r.mstate[t] \notin Idle, NEW c \in Rets,
           NEW v, v = ReleaseWait(r, t, c)
    PROVE  World(v, {t}) /\ Left(r, v, t)
<1> DEFINE o == r.waitObj[t]
           ms == r.mstate[t]
<1>1. WaitOK(r, t) /\ ms \in MState
  BY WorldTypes, QTypes2 DEF World, ThreadOK
<1>2. /\ ms \in SemWaits => o \in Sem
      /\ ms \in MutexWaits => o \in Mutex
      /\ ms \in CondWaits => o \in Cond
  BY <1>1 DEF WaitOK
<1>3. ms \notin {"EReady", "EDead"}
  BY DEF Idle
<1>4. o = r.waitObj[t] /\ ms = r.mstate[t]
  OBVIOUS
<1> HIDE DEF o, ms
<1>5. CASE ms = "EWaitSemaphore"
  <2>1. v = GoIdle(SemWaitCancel(r, o, t), t, c)
    BY <1>4, <1>5 DEF ReleaseWait, GoIdle
  <2> QED
    BY <1>2, <1>4, <1>5, <2>1, SemWaitLeaves DEF Waits, SemWaits
<1>6. CASE ms = "EWaitSemaphoreSuspended"
  <2>1. v = GoIdle(SuspRemove(r, o, t), t, c)
    BY <1>4, <1>6 DEF ReleaseWait, GoIdle, SuspRemove
  <2> QED
    BY <1>2, <1>4, <1>6, <2>1, SemSuspLeaves DEF Waits, SemWaits
<1>7. CASE ms = "EWaitMutex"
  <2>1. v = GoIdle(MutexWaitCancel(r, o, t), t, c)
    BY <1>4, <1>7 DEF ReleaseWait, GoIdle
  <2>2. o \in Mutex /\ MWaits(r, t, o)
    BY <1>2, <1>4, <1>7 DEF MWaits, MutexWaits
  <2> QED
    BY <2>1, <2>2, HeldLeaves, FreeLeaves
<1>8. CASE ms = "EWaitMutexSuspended"
  <2> DEFINE a == SuspRemove(r, o, t)
  <2>1. v = GoIdle([a EXCEPT !.waitCount[o] = @ - 1], t, c)
    BY <1>4, <1>8 DEF ReleaseWait, GoIdle, SuspRemove
  <2>2. o \in Mutex /\ Waits(r, t, o, "EWaitMutexSuspended")
    BY <1>2, <1>4, <1>8 DEF Waits, MutexWaits
  <2>3. a.waitCount[o] \in Nat
    <3>1. Rec(r) /\ r.waitCount[o] \in Nat
      BY <2>2, WorldTypes DEF CntT
    <3>2. a.waitCount = r.waitCount
      BY <3>1, SMT DEF SuspRemove, Rec, Fields
    <3> QED
      BY <3>1, <3>2
  <2> HIDE DEF a
  <2>4. a.waitCount[o] + (0 - 1) = a.waitCount[o] - 1
    BY <2>3
  <2>5. v = GoIdle(WcAdd(a, o, 0 - 1), t, c)
    BY <2>1, <2>4 DEF WcAdd
  <2> QED
    BY <2>2, <2>5, MutexSuspLeaves DEF a
<1>9. CASE ms = "EHoldMutexPending"
  <2>1. v = GoIdle(RemovePendingThread(r, o, t), t, c)
    BY <1>4, <1>9 DEF ReleaseWait, GoIdle
  <2> QED
    BY <1>2, <1>4, <1>9, <2>1, PendLeaves DEF Pends, MutexWaits
<1>10. CASE ms = "EWaitCondVar"
  <2>1. v = GoIdle(CondWaitCancel(r, o, t), t, c)
    BY <1>4, <1>10 DEF ReleaseWait, GoIdle
  <2> QED
    BY <1>2, <1>4, <1>10, <2>1, CondWaitLeaves DEF Waits, CondWaits
<1>11. CASE ms = "EWaitCondVarSuspended"
  <2>1. v = GoIdle(CondUncount(SuspRemove(r, o, t), o), t, c)
    BY <1>4, <1>11 DEF ReleaseWait, GoIdle, SuspRemove
  <2> QED
    BY <1>2, <1>4, <1>11, <2>1, CondSuspLeaves DEF Waits, CondWaits
<1> QED
  BY <1>1, <1>3, <1>5, <1>6, <1>7, <1>8, <1>9, <1>10, <1>11 DEF MState

-----------------------------------------------------------------------------
\* DThread::EpocThreadTimeoutHandler.
LEMMA TimeoutFine ==
    ASSUME World(k, {}), NEW t \in Thread, Timeout(t)
    PROVE  World(k', {}) /\ Steady(k, k')
<1>1. /\ k.blocked[t] /\ k.timed[t] /\ k' = ReleaseWait(k, t, "KErrTimedOut")
      /\ "KErrTimedOut" \in Rets
  BY DEF Timeout, Rets
<1>2. ThreadOK(k, t)
  BY DEF World
<1>3. k.mstate[t] \notin Idle
  BY <1>1, <1>2 DEF ThreadOK, WaitOK, Idle, OnWaitQ, OnSuspQ
<1>4. World(k', {t}) /\ Left(k, k', t)
  BY <1>1, <1>3, ReleaseWaitWorld
<1>5. k.pc[t] = "MutexWait" => k.cond[t] = Null
  BY <1>1, <1>2 DEF ThreadOK, PcOK
<1>6. SamePlace(k, k', t)
  BY <1>4, CtlPlace DEF Left
<1>7. ThreadOK(k', t)
  BY <1>2, <1>3, <1>4, <1>5, <1>6, IdleThread DEF Left, Idle
<1> QED
  BY <1>4, <1>7, WorldAll DEF Left

\* DThread::Exit gives up the wait.
LEMMA ExitReleasesWaitFine ==
    ASSUME World(k, {}), NEW t \in Thread, ExitReleasesWait(t)
    PROVE  World(k', {}) /\ Steady(k, k')
<1> DEFINE v == ReleaseWait(k, t, "KErrDied")
<1>1. At(t, "Exit") /\ k' = SetPc(v, t, "Cleanup") /\ "KErrDied" \in Rets /\ "Cleanup" \in Cont
  BY DEF ExitReleasesWait, Rets, SetPc, Cont
<1>2. v = ReleaseWait(k, t, "KErrDied")
  OBVIOUS
<1> HIDE DEF v
<1>3. ThreadOK(k, t) /\ World(k, {t}) /\ k.pc[t] = "Exit" /\ ~k.blocked[t] /\ ~(k.susp[t] > 0)
  BY <1>1, StepMine
<1>4. World(v, {t}) /\ Left(k, v, t)
  <2>1. CASE k.mstate[t] \notin Idle
    BY <1>1, <1>2, <2>1, ReleaseWaitWorld
  <2>2. CASE k.mstate[t] \in Idle
    <3>1. v = k
      BY <1>2, <2>2 DEF ReleaseWait, Idle
    <3>2. k.mstate[t] = "EReady" /\ k.waitObj[t] = Null
      BY <1>3, <2>2 DEF ThreadOK, WaitOK, Idle
    <3>3. Steady(k, v) /\ SameCtl(k, v)
      BY <3>1, SteadySame DEF SameReq, SameCtl
    <3> QED
      BY <1>3, <3>1, <3>2, <3>3 DEF Left
  <2> QED
    BY <2>1, <2>2
<1>5. OwnStep(v, k', t) /\ SetPcTo(v, k', t, "Cleanup")
  BY <1>1, <1>4, WorldTypes, SetPcOwn
<1>6. /\ k'.mstate[t] = "EReady" /\ k'.waitObj[t] = Null /\ ~k'.blocked[t] /\ k'.pc[t] = "Cleanup"
      /\ k'.obj[t] = k.obj[t] /\ k'.cond[t] = k.cond[t] /\ k'.cs[t] = k.cs[t]
      /\ k'.susp[t] = k.susp[t]
      /\ k'.csFunction[t] = k.csFunction[t] /\ k'.phase = k.phase
  BY <1>4, <1>5 DEF OwnStep, SameK, SameWhere, SetPcTo, Left, SameCtl
<1>7. ThreadOK(k', t)
  <2>1. WaitOK(k', t)
    BY <1>3, <1>6 DEF ThreadOK, WaitOK, SemWaits, MutexWaits, CondWaits
  <2>2. SuspOK(k', t)
    BY <1>3, <1>6 DEF ThreadOK, SuspOK, OnWaitQ, OnSuspQ
  <2>3. PcOK(k', t)
    BY <1>6 DEF PcOK
  <2> QED
    BY <2>1, <2>2, <2>3 DEF ThreadOK
<1>8. World(k', {})
  BY <1>4, <1>5, <1>6, <1>7, OwnEnd DEF Left
<1>9. Steady(k, k')
  BY <1>4, <1>5, SteadyThen DEF Left, OwnStep, SetPcTo
<1> QED
  BY <1>8, <1>9

\* TThreadMutexCleanup::Cleanup: the thread that exits gives up a mutex it holds.
LEMMA ExitCleansUpFine ==
    ASSUME World(k, {}), NEW t \in Thread, NEW m \in Mutex, ExitCleansUp(t, m)
    PROVE  World(k', {}) /\ Steady(k, k')
<1>1. At(t, "Cleanup") /\ m \in k.cleanupQ[t]
  BY DEF ExitCleansUp
<1>2. ThreadOK(k, t) /\ World(k, {t}) /\ k.pc[t] = "Cleanup"
  BY <1>1, StepMine
<1>3. k.mstate[t] = "EReady"
  BY <1>2 DEF ThreadOK, PcOK
<1>4. k.holder[m] = t
  BY <1>1 DEF World, HoldOK
<1>5. t # Null
  BY SyncAssumption
<1>6. ASSUME NEW v, SameOwnAll(k, v), SameWait(k, v, t), v.phase = k.phase
      PROVE  ThreadOK(v, t)
  <2>1. SamePlace(k, v, t)
    BY <1>2, <1>6 DEF SamePlace, SameOwnAll
  <2>2. SameCv(k, v, t)
    BY <1>3 DEF SameCv, CondWaits
  <2> QED
    BY <1>2, <1>6, <2>1, <2>2, ThreadAgrees DEF Agree
<1>7. CASE Resetting(k, m)
  <2>1. k' = ForgetHolder(k, m, 0) /\ k.phase[m] = "resetting"
    BY <1>7 DEF ExitCleansUp, Resetting
  <2>2. World(k', {t}) /\ Forgot(k, k', t, m) /\ Steady(k, k')
    BY <1>2, <1>3, <1>4, <1>5, <2>1, ForgetWorld, 0 \in 0..9
  <2>3. ThreadOK(k', t)
    BY <1>6, <2>2 DEF Forgot
  <2> QED
    BY <2>2, <2>3, WorldAll
<1>8. CASE ~Resetting(k, m)
  <2> DEFINE a == SetHold(k, m, 1)
  <2>1. k' = MutexSignal(a, t, m)
    BY <1>8 DEF ExitCleansUp, SetHold
  <2>2. a = SetHold(k, m, 1)
    OBVIOUS
  <2> HIDE DEF a
  <2>3. HoldSet(k, a, m, 1) /\ World(a, {t})
    BY <1>2, <2>2, HoldWorld
  <2>4. a.holder[m] = t /\ a.mstate[t] = "EReady"
    BY <1>3, <1>4, <2>3 DEF HoldSet, QSame, SameWhere
  <2>5. World(k', {t}) /\ Acted(a, k', t)
    BY <2>1, <2>3, <2>4, SignalWorld
  <2>6. Steady(a, k')
    BY <2>5, ActedSteady
  <2>7. \A x, u \in Thread : WaitsFor(a, x, u) => WaitsFor(k, x, u)
    BY <2>3 DEF WaitsFor, HoldSet, QSame, SameWhere, SameCnt, SameOwnAll
  <2>8. SameReq(k, a)
    BY <2>3 DEF HoldSet
  <2>9. Steady(k, k')
    BY <2>6, <2>7, <2>8, SteadyVia
  <2>10. SameOwnAll(k, k') /\ SameWait(k, k', t) /\ k'.phase = k.phase
    BY <2>3, <2>5 DEF Acted, HoldSet, QSame, SameOwnAll, SameWait, SameWhere, SameRun
  <2>11. ThreadOK(k', t)
    BY <1>6, <2>10
  <2> QED
    BY <2>5, <2>9, <2>11, WorldAll
<1> QED
  BY <1>7, <1>8

-----------------------------------------------------------------------------
\* The thread is dead.
Ended(r, t) == [r EXCEPT !.mstate[t] = "EDead", !.pc[t] = "dead", !.obj[t] = Null,
                         !.cond[t] = Null, !.ret[t] = "KErrNone"]
EndSet(r, s, t) ==
    /\ SameQ(r, s) /\ SameCnt(r, s) /\ SameReq(r, s)
    /\ s.waitObj = r.waitObj /\ s.blocked = r.blocked /\ s.timed = r.timed /\ s.phase = r.phase
    /\ s.holder = r.holder /\ s.holdCount = r.holdCount
    /\ s.cs = r.cs /\ s.susp = r.susp /\ s.csFunction = r.csFunction /\ s.todo = r.todo
    /\ s.mstate = [r.mstate EXCEPT ![t] = "EDead"]
    /\ s.pc = [r.pc EXCEPT ![t] = "dead"] /\ s.obj = [r.obj EXCEPT ![t] = Null]
    /\ s.cond = [r.cond EXCEPT ![t] = Null] /\ s.ret = [r.ret EXCEPT ![t] = "KErrNone"]
\* Ended changes the fields it names.
LEMMA EndedFields ==
    ASSUME NEW r, Rec(r), NEW t, NEW s, s = Ended(r, t)
    PROVE  Rec(s) /\ EndSet(r, s, t)
<1>1. SameQ(r, s) /\ SameCnt(r, s) /\ SameReq(r, s)
  BY SMT DEF Rec, Fields, Ended, SameReq, SameQ, SameCnt
<1>2. /\ s.waitObj = r.waitObj /\ s.blocked = r.blocked /\ s.timed = r.timed /\ s.phase = r.phase
      /\ s.holder = r.holder /\ s.holdCount = r.holdCount
      /\ s.cs = r.cs /\ s.susp = r.susp /\ s.csFunction = r.csFunction /\ s.todo = r.todo
      /\ DOMAIN s = Fields
  BY SMT DEF Rec, Fields, Ended
<1>3. /\ s.mstate = [r.mstate EXCEPT ![t] = "EDead"]
      /\ s.pc = [r.pc EXCEPT ![t] = "dead"] /\ s.obj = [r.obj EXCEPT ![t] = Null]
  BY SMT DEF Rec, Fields, Ended
<1>4. s.cond = [r.cond EXCEPT ![t] = Null] /\ s.ret = [r.ret EXCEPT ![t] = "KErrNone"]
  BY SMT DEF Rec, Fields, Ended
<1>5. s = [f \in DOMAIN s |-> s[f]]
  <2> DEFINE q == [r EXCEPT !.mstate[t] = "EDead", !.pc[t] = "dead", !.obj[t] = Null, !.cond[t] = Null]
             z == [r.ret EXCEPT ![t] = "KErrNone"]
  <2>1. s = [q EXCEPT !.ret = z]
    BY SMT DEF Rec, Fields, Ended
  <2> HIDE DEF q, z
  <2> QED
    BY <2>1, SMT
<1> QED
  BY <1>1, <1>2, <1>3, <1>4, <1>5 DEF Rec, EndSet

\* DThread::Exit ends.
LEMMA ExitEndsFine ==
    ASSUME World(k, {}), NEW t \in Thread, ExitEnds(t)
    PROVE  World(k', {}) /\ Steady(k, k')
<1>1. At(t, "Cleanup") /\ k' = Ended(k, t)
  BY DEF ExitEnds, Ended
<1>2. ThreadOK(k, t) /\ World(k, {t}) /\ k.pc[t] = "Cleanup" /\ ~k.blocked[t] /\ ~(k.susp[t] > 0)
  BY <1>1, StepMine
<1>3. k.mstate[t] = "EReady" /\ k.waitObj[t] = Null
  BY <1>2 DEF ThreadOK, PcOK, WaitOK
<1>4. /\ Rec(k) /\ CtlT(k) /\ RunT(k) /\ CntT(k) /\ RQ(k, {}) /\ QOK(k, {}) /\ HoldOK(k)
      /\ OneResets(k)
  BY WorldTypes
<1>5. Rec(k') /\ EndSet(k, k', t)
  BY <1>1, <1>4, EndedFields
<1> DEFINE v == k'
<1>6. v.mstate = [k.mstate EXCEPT ![t] = "EDead"] /\ k.mstate \in [Thread -> MState]
  BY <1>4, <1>5, QTypes2 DEF EndSet
<1>7. Lands(k, v, t, "EDead", Null)
  <2>1. v.mstate \in [Thread -> MState] /\ But(k.mstate, v.mstate, t) /\ v.mstate[t] = "EDead"
    BY <1>6 DEF But, MState
  <2>2. v.waitObj = k.waitObj /\ k.waitObj \in [Thread -> Obj \cup {Null}]
    BY <1>4, <1>5, QTypes2 DEF EndSet
  <2> QED
    BY <1>3, <2>1, <2>2 DEF Lands, But
<1>8. /\ v.pc[t] = "dead" /\ v.obj[t] = Null /\ v.cond[t] = Null
      /\ \A u \in Thread : u # t => /\ v.pc[u] = k.pc[u] /\ v.obj[u] = k.obj[u] /\ v.cond[u] = k.cond[u]
                                    /\ v.ret[u] = k.ret[u]
  BY <1>4, <1>5 DEF EndSet, CtlT, RunT
<1>9. QOK(v, {})
  <2>1. CtlT(v)
    <3>1. /\ v.pc \in [Thread -> Cont] /\ v.obj \in [Thread -> Obj \cup {Null}]
          /\ v.cond \in [Thread -> Cond \cup {Null}]
      BY <1>4, <1>5 DEF CtlT, EndSet, Cont
    <3> QED
      BY <1>4, <1>5, <3>1 DEF CtlT, EndSet, SameReq
  <2>2. RunT(v)
    <3>1. v.ret \in [Thread -> Rets]
      BY <1>4, <1>5 DEF RunT, EndSet, Rets
    <3> QED
      BY <1>4, <1>5, <3>1 DEF RunT, EndSet, SameReq
  <2>3. CntT(v)
    BY <1>4, <1>5 DEF CntT, EndSet, SameCnt
  <2>4. RQ(v, {})
    <3>1. k.mstate[t] \in Idle /\ "EDead" \in Idle
      BY <1>3 DEF Idle
    <3>2. RQ(k, {} \cup {t})
      BY <1>4, <3>1, RNone
    <3>3. v.pri = k.pri /\ SameQ(k, v)
      BY <1>5 DEF EndSet, SameReq
    <3>4. t \notin {}
      OBVIOUS
    <3> QED
      BY <1>7, <3>1, <3>2, <3>3, <3>4, ROnNone
  <2>5. \A o \in Obj : CountAt(v, o, 0)
    <3> SUFFICES ASSUME NEW o \in Obj PROVE CountAt(v, o, 0)
      OBVIOUS
    <3>1. CountAt(k, o, 0)
      BY <1>4 DEF QOK
    <3>2. SameAt(k, v, o)
      BY <1>5 DEF EndSet, SameAt, SameQ, SameCnt
    <3> QED
      BY <3>1, <3>2, SameCounts
  <2> QED
    BY <1>5, <2>1, <2>2, <2>3, <2>4, <2>5 DEF QOK
<1>10. \A u \in Thread \ {t} : ThreadOK(v, u)
  <2> SUFFICES ASSUME NEW u \in Thread, u # t PROVE ThreadOK(v, u)
    OBVIOUS
  <2>1. ThreadOK(k, u)
    BY DEF World
  <2>2. SamePlace(k, v, u)
    BY <1>5, <1>8 DEF EndSet, SamePlace
  <2>3. SameWait(k, v, u)
    <3>1. v.mstate[u] = k.mstate[u]
      BY <1>7 DEF Lands, But
    <3> QED
      BY <1>5, <1>8, <3>1 DEF EndSet, SameWait
  <2>4. SameCv(k, v, u)
    BY <1>5 DEF EndSet, SameCnt, SameCv
  <2> QED
    BY <2>1, <2>2, <2>3, <2>4, ThreadAgrees DEF Agree
<1>11. ThreadOK(v, t)
  <2>1. v.mstate[t] = "EDead" /\ v.waitObj[t] = Null
    BY <1>7 DEF Lands
  <2>2. /\ v.blocked[t] = k.blocked[t] /\ v.susp[t] = k.susp[t] /\ v.cs[t] = k.cs[t]
        /\ v.csFunction[t] = k.csFunction[t]
    BY <1>5 DEF EndSet
  <2>3. WaitOK(v, t)
    BY <1>2, <1>8, <2>1, <2>2 DEF WaitOK, SemWaits, MutexWaits, CondWaits
  <2>4. SuspOK(v, t)
    BY <1>2, <1>8, <2>1, <2>2 DEF ThreadOK, SuspOK, OnWaitQ, OnSuspQ
  <2>5. PcOK(v, t)
    BY <1>8 DEF PcOK
  <2> QED
    BY <2>3, <2>4, <2>5 DEF ThreadOK
<1>12. HoldOK(v)
  BY <1>4, <1>5 DEF HoldOK, EndSet, SameReq
<1>13. OneResets(v)
  BY <1>4, <1>8 DEF OneResets
<1>14. But(k.mstate, v.mstate, t) /\ But(k.waitObj, v.waitObj, t) /\ But(k.pri, v.pri, t)
  BY <1>5, <1>7 DEF Lands, EndSet, SameReq, But
<1>15. /\ \A m \in Mutex : (Free(v, m) <=> Free(k, m)) /\ (Held(v, m) <=> Held(k, m))
       /\ \A m \in Mutex : ~Pends(k, t, m) /\ ~MWaits(k, t, m) /\ ~MWaits(v, t, m)
  BY <1>3, <1>5, <1>7 DEF EndSet, Free, Held, Pends, MWaits, Lands
<1>16. NoIdle(v, {})
  <2>1. IdleOff(k, Null)
    BY IdleAll DEF World
  <2>2. \A q \in Thread : q # t => (v.susp[q] > 0 => k.susp[q] > 0)
    BY <1>5 DEF EndSet
  <2>3. IdleOff(v, Null)
    BY <1>14, <1>15, <2>1, <2>2, IdleFrame
  <2> QED
    BY <2>3, IdleAll
<1>17. HighBut(v, {}, Null, 0)
  <2>1. HighOff(k, Null)
    BY HighAll DEF World
  <2>2. \A m \in Mutex : m # Null => v.clnPri[m] = k.clnPri[m]
    BY <1>5 DEF EndSet, SameReq
  <2>3. HighOff(v, Null)
    BY <1>14, <1>15, <2>1, <2>2, HighFrame
  <2> QED
    BY <2>3, HighAll
<1>18. World(v, {})
  BY <1>9, <1>10, <1>11, <1>12, <1>13, <1>16, <1>17 DEF World
<1>19. Steady(k, v)
  BY <1>5, SteadySame DEF EndSet
<1> QED
  BY <1>18, <1>19

\* What a thread waits for when it is suspended.
Stopped(ms, ms2) ==
    \/ ms \notin OnWaitQ /\ ms2 = ms
    \/ ms = "EWaitSemaphore" /\ ms2 = "EWaitSemaphoreSuspended"
    \/ ms = "EWaitMutex" /\ ms2 = "EWaitMutexSuspended"
    \/ ms = "EWaitCondVar" /\ ms2 = "EWaitCondVarSuspended"

\* The thread is suspended, and otherwise as it was.
Stops(r, s, t) ==
    /\ s.susp[t] > 0 /\ Stopped(r.mstate[t], s.mstate[t]) /\ s.waitObj[t] = r.waitObj[t]
    /\ s.pc[t] = r.pc[t] /\ s.obj[t] = r.obj[t] /\ s.cond[t] = r.cond[t] /\ s.cs[t] = r.cs[t]
    /\ s.csFunction[t] = r.csFunction[t] /\ s.phase = r.phase /\ s.holder = r.holder
    /\ s.blocked[t] = r.blocked[t] /\ s.timed[t] = r.timed[t] /\ s.ret[t] = r.ret[t]
    /\ s.cvMutex = r.cvMutex

\* A thread that is suspended outside a critical section is where it may be.
LEMMA StopsOK ==
    ASSUME NEW r, NEW s, NEW t, ThreadOK(r, t), ~r.cs[t], Stops(r, s, t)
    PROVE  ThreadOK(s, t)
<1>1. WaitOK(s, t)
  <2>1. WaitOK(r, t)
    BY DEF ThreadOK
  <2> QED
    BY <2>1 DEF Stops, Stopped, WaitOK, SemWaits, MutexWaits, CondWaits, OnWaitQ, OnSuspQ
<1>2. SuspOK(s, t)
  <2>1. SuspOK(r, t)
    BY DEF ThreadOK
  <2> QED
    BY <2>1 DEF Stops, Stopped, SuspOK, OnWaitQ, OnSuspQ
<1>3. PcOK(s, t)
  <2>1. PcOK(r, t)
    BY DEF ThreadOK
  <2>2. /\ s.mstate[t] \in SemWaits => r.mstate[t] \in SemWaits
        /\ s.mstate[t] \in MutexWaits <=> r.mstate[t] \in MutexWaits
        /\ s.mstate[t] \in CondWaits <=> r.mstate[t] \in CondWaits
        /\ r.mstate[t] \in SemWaits => s.mstate[t] \in SemWaits
        /\ s.mstate[t] = "EReady" <=> r.mstate[t] = "EReady"
        /\ s.mstate[t] \in OnWaitQ \cup OnSuspQ <=> r.mstate[t] \in OnWaitQ \cup OnSuspQ
    BY DEF Stops, Stopped, SemWaits, MutexWaits, CondWaits, OnWaitQ, OnSuspQ
  <2>3. /\ s.waitObj[t] = r.waitObj[t]
        /\ s.pc[t] = r.pc[t] /\ s.obj[t] = r.obj[t] /\ s.cond[t] = r.cond[t] /\ s.cs[t] = r.cs[t]
        /\ s.phase = r.phase /\ s.holder = r.holder
        /\ s.blocked[t] = r.blocked[t] /\ s.timed[t] = r.timed[t] /\ s.ret[t] = r.ret[t]
    BY DEF Stops
  <2> HIDE DEF Stops
  <2> QED
    BY <2>1, <2>2, <2>3 DEF PcOK
<1> QED
  BY <1>1, <1>2, <1>3 DEF ThreadOK

-----------------------------------------------------------------------------
\* A thread, off its wait queue, joins the suspended ones.
SuspAdd(r, o, t, ms) == [r EXCEPT !.suspQ[o] = Append(@, t), !.mstate[t] = ms]
\* SuspAdd changes one suspended queue.
LEMMA SuspAddFields ==
    ASSUME NEW r, Rec(r), NEW o, NEW t, NEW ms, NEW s, s = SuspAdd(r, o, t, ms)
    PROVE  /\ Rec(s) /\ SameRest(r, s) /\ SameCnt(r, s) /\ GetS(r, s, o, t)
           /\ s.mstate = [r.mstate EXCEPT ![t] = ms] /\ s.waitObj = r.waitObj
<1>1. SameCtl(r, s) /\ DOMAIN s = Fields
  BY SMT DEF Rec, Fields, SuspAdd, SameCtl
<1>2. SameRun(r, s) /\ s.clnPri = r.clnPri /\ s.fault = r.fault /\ SameCnt(r, s)
  BY SMT DEF Rec, Fields, SuspAdd, SameRun, SameCnt
<1>3. GetS(r, s, o, t)
  BY SMT DEF Rec, Fields, SuspAdd, GetS, App
<1>4. s.mstate = [r.mstate EXCEPT ![t] = ms] /\ s.waitObj = r.waitObj
  BY SMT DEF Rec, Fields, SuspAdd
<1>5. s = [f \in DOMAIN s |-> s[f]]
  <2> DEFINE q == [r EXCEPT !.suspQ[o] = Append(@, t)]
             z == [r.mstate EXCEPT ![t] = ms]
  <2>1. s = [q EXCEPT !.mstate = z]
    BY SMT DEF Rec, Fields, SuspAdd
  <2> HIDE DEF q, z
  <2> QED
    BY <2>1, SMT
<1> QED
  BY <1>1, <1>2, <1>3, <1>4, <1>5 DEF Rec, SameRest

\* Its queues are then right.
LEMMA SuspLands ==
    ASSUME NEW a, NEW t \in Thread, NEW o \in Obj, FQ(a, {} \cup {t}, o, SuspCounts(o)),
           a.phase[o] # "deleted",
           a.waitObj[t] = o, NEW ms, ms = SuspState[o], NEW w, w = SuspAdd(a, o, t, ms)
    PROVE  /\ QOK(w, {}) /\ SameRest(a, w) /\ SameCnt(a, w) /\ w.pri = a.pri
           /\ Lands(a, w, t, ms, o)
<1>1. /\ Rec(a) /\ a.mstate \in [Thread -> MState] /\ a.waitObj \in [Thread -> Obj \cup {Null}]
  BY FQTypes
<1>2. /\ Rec(w) /\ SameRest(a, w) /\ SameCnt(a, w) /\ GetS(a, w, o, t)
      /\ w.mstate = [a.mstate EXCEPT ![t] = ms] /\ w.waitObj = a.waitObj
  BY <1>1, SuspAddFields
<1>3. ms \in MState
  BY WaitStates DEF OnSuspQ, MState
<1>4. Lands(a, w, t, SuspState[o], o)
  <2>1. w.mstate \in [Thread -> MState] /\ But(a.mstate, w.mstate, t) /\ w.mstate[t] = ms
    BY <1>1, <1>2, <1>3 DEF But
  <2>2. But(a.waitObj, w.waitObj, t)
    BY <1>2 DEF But
  <2> QED
    BY <1>1, <1>2, <2>1, <2>2 DEF Lands
<1>5. Kept(a, w)
  BY <1>2, SameRestKept
<1>6. QOK(w, {})
  <2>1. t \notin {}
    OBVIOUS
  <2> QED
    BY <1>2, <1>4, <1>5, <2>1, LandSusp
<1>7. w.pri = a.pri
  BY <1>2 DEF GetS
<1>8. Lands(a, w, t, ms, o)
  BY <1>4
<1> QED
  BY <1>2, <1>6, <1>7, <1>8

\* The suspension of t is counted: what waits for it to hear of it.
Halted(r, a, t) ==
    /\ OwnStep(r, a, t) /\ a.susp[t] > 0
    /\ \E n : SetSuspTo(r, a, t, n)
    /\ QOK(a, {}) /\ (\A u \in Thread \ {t} : ThreadOK(a, u)) /\ HoldOK(a) /\ OneResets(a)
    /\ HighBut(a, {}, Null, 0)
    /\ r.mstate[t] # "EHoldMutexPending" => World(a, {t})
    /\ SameReq(r, a)

\* The suspend count of a thread goes up.
LEMMA HaltedIs ==
    ASSUME NEW r, World(r, {}), NEW t \in Thread, NEW n \in Nat, n > 0, NEW a, a = SetSusp(r, t, n)
    PROVE  Halted(r, a, t)
<1>1. OwnStep(r, a, t) /\ SetSuspTo(r, a, t, n)
  BY WorldTypes, SetSuspOwn
<1>2. a.susp[t] > 0 /\ SameK(r, a) /\ a.fault = r.fault /\ a.pc = r.pc /\ a.obj = r.obj
  BY <1>1 DEF SetSuspTo, OwnStep
<1>3. SameReq(r, a)
  BY <1>2 DEF SameK, SameReq
<1>4. QOK(a, {})
  BY <1>1, WorldTypes, OwnQOK
<1>5. \A u \in Thread \ {t} : ThreadOK(a, u)
  <2> SUFFICES ASSUME NEW u \in Thread, u # t
               PROVE  ThreadOK(a, u)
    OBVIOUS
  <2>1. ThreadOK(r, u)
    BY DEF World
  <2> QED
    BY <1>1, <2>1, OwnAgrees
<1>6. HoldOK(a)
  BY <1>2, WorldTypes DEF SameK, HoldOK
<1>7. OneResets(a)
  BY <1>2, WorldTypes DEF OneResets
<1>8. HighBut(a, {}, Null, 0)
  <2>1. HighBut(r, {}, Null, 0)
    BY DEF World
  <2>2. a.mstate = r.mstate /\ a.waitObj = r.waitObj /\ a.pri = r.pri /\ a.clnPri = r.clnPri
    BY <1>2 DEF SameK, SameWhere
  <2>3. \A m \in Mutex : Held(a, m) => Held(r, m)
    BY <1>2 DEF SameK, Held
  <2> QED
    BY <2>1, <2>2, <2>3 DEF HighBut, High, MWaits
<1>9. ASSUME r.mstate[t] # "EHoldMutexPending"
      PROVE  World(a, {t})
  <2>1. OfferKept(r, a, t) /\ ResetKept(r, a, t)
    BY <1>2, <1>9 DEF OfferKept, ResetKept
  <2> QED
    BY <1>1, <2>1, OwnWorld, WorldLess
<1>10. \E x : SetSuspTo(r, a, t, x)
  BY <1>1
<1> QED
  BY <1>1, <1>2, <1>3, <1>4, <1>5, <1>6, <1>7, <1>8, <1>9, <1>10 DEF Halted

\* The thread stops where it is.
LEMMA HaltedStops ==
    ASSUME NEW r, World(r, {}), NEW t \in Thread, NEW a, Halted(r, a, t), NEW v, SameCtl(a, v),
           v.waitObj[t] = r.waitObj[t], Stopped(r.mstate[t], v.mstate[t]),
           v.blocked[t] = a.blocked[t], v.timed[t] = a.timed[t], v.ret[t] = a.ret[t], v.cvMutex = a.cvMutex
    PROVE  Stops(r, v, t)
<1>1. PICK n : SetSuspTo(r, a, t, n)
  BY DEF Halted
<1>2. SameK(r, a) /\ a.susp[t] > 0
  BY DEF Halted, OwnStep
<1> QED
  BY <1>1, <1>2 DEF Stops, SetSuspTo, SameK, SameCnt, SameCtl

\* A thread that waits for a semaphore or a condition variable is suspended.
LEMMA OtherStops ==
    ASSUME NEW r, World(r, {}), NEW t \in Thread, ~r.cs[t], NEW a, Halted(r, a, t),
           NEW o \in Obj, o \notin Mutex, Waits(r, t, o, WaitState[o]), NEW b,
           FQ(b, {} \cup {t}, o, SuspCounts(o)),
           b.phase[o] # "deleted", SameRest(a, b), SameWhere(a, b), b.pri = a.pri, b.cvMutex = a.cvMutex,
           NEW v, v = SuspAdd(b, o, t, SuspState[o])
    PROVE  World(v, {}) /\ Steady(r, v)
<1> DEFINE ms == SuspState[o]
<1>1. SameK(r, a) /\ SameReq(r, a)
  BY DEF Halted, OwnStep
<1>2. a.waitObj = r.waitObj /\ a.mstate = r.mstate
  BY <1>1 DEF SameK, SameWhere
<1>3. b.waitObj[t] = o
  BY <1>2 DEF SameWhere, Waits
<1>4. v = SuspAdd(b, o, t, ms) /\ ms = SuspState[o]
  OBVIOUS
<1>5. /\ Stopped(r.mstate[t], ms) /\ ms # "EWaitMutex"
      /\ r.mstate[t] \notin {"EWaitMutex", "EHoldMutexPending"}
  <2>1. o \in Sem \/ o \in Cond
    BY DEF Obj
  <2> QED
    BY <2>1, WaitStates DEF Stopped, Waits
<1> HIDE DEF ms
<1>6. /\ QOK(v, {}) /\ SameRest(b, v) /\ SameCnt(b, v) /\ v.pri = b.pri /\ Lands(b, v, t, ms, o)
  BY <1>3, <1>4, SuspLands
<1>7. SameRest(a, v) /\ v.pri = a.pri /\ v.cvMutex = a.cvMutex
  BY <1>6 DEF SameRest, SameCtl, SameRun, SameCnt
<1>8. Lands(a, v, t, ms, o)
  BY <1>6 DEF Lands, But, SameWhere
<1>9. World(a, {t})
  BY <1>5 DEF Halted
<1>10. \A x \in Thread : x # t => SameCv(a, v, x)
  BY <1>7 DEF SameCv
<1>11. a.mstate[t] \notin {"EWaitMutex", "EHoldMutexPending"}
  BY <1>2, <1>5
<1>12. World(v, {t}) /\ SameReq(a, v)
  BY <1>5, <1>6, <1>7, <1>8, <1>9, <1>10, <1>11, OtherWait
<1>13. v.waitObj[t] = r.waitObj[t] /\ v.mstate[t] = ms
  BY <1>6 DEF Lands, Waits
<1>14. Stops(r, v, t)
  BY <1>5, <1>7, <1>13, HaltedStops DEF SameRest, SameRun
<1>15. ThreadOK(r, t)
  BY DEF World
<1>16. ThreadOK(v, t)
  BY <1>14, <1>15, StopsOK
<1>17. Steady(r, v)
  <2>1. SameReq(r, v)
    BY <1>1, <1>12 DEF SameReq
  <2> QED
    BY <2>1, SteadySame
<1> QED
  BY <1>12, <1>16, <1>17, WorldAll

\* The first steps of a suspension: off the wait queue.
LEMMA HaltedTake ==
    ASSUME NEW r, World(r, {}), NEW t \in Thread, NEW a, Halted(r, a, t), NEW o \in Obj,
           Waits(r, t, o, WaitState[o]), NEW w, w = WaitRemove(a, o, t)
    PROVE  /\ FQ(w, {} \cup {t}, o, 1) /\ SameRest(a, w) /\ SameWhere(a, w) /\ SameCnt(a, w)
           /\ w.pri = a.pri /\ w.phase[o] # "deleted"
           /\ a.mstate = r.mstate /\ a.waitObj = r.waitObj /\ Rec(a) /\ CntT(a)
<1>1. QOK(a, {}) /\ SameK(r, a)
  BY DEF Halted, OwnStep
<1>2. a.mstate = r.mstate /\ a.waitObj = r.waitObj /\ a.waitQ = r.waitQ
  BY <1>1 DEF SameK, SameWhere, SameQ
<1>3. t \in Range(a.waitQ[o])
  BY <1>2, OnQueue
<1>4. /\ FQ(w, {} \cup {t}, o, 1) /\ SameRest(a, w) /\ SameWhere(a, w) /\ SameCnt(a, w)
      /\ w.pri = a.pri /\ a.phase[o] # "deleted"
  BY <1>1, <1>3, TakeWait
<1>5. w.phase[o] # "deleted"
  BY <1>4 DEF SameRest, SameCtl
<1>6. Rec(a) /\ CntT(a)
  BY <1>1 DEF QOK
<1> QED
  BY <1>2, <1>4, <1>5, <1>6

\* DCondVar::SuspendWaitingThread.
LEMMA CondStops ==
    ASSUME NEW r, World(r, {}), NEW t \in Thread, ~r.cs[t], NEW a, Halted(r, a, t), NEW c \in Cond,
           Waits(r, t, c, "EWaitCondVar"), NEW v, v = CondSuspendWaiting(a, c, t)
    PROVE  World(v, {}) /\ Steady(r, v)
<1> DEFINE w == WaitRemove(a, c, t)
<1>1. c \in Obj /\ c \notin Mutex /\ c \notin Sem
  BY SyncAssumption DEF Obj
<1>2. WaitState[c] = "EWaitCondVar" /\ SuspState[c] = "EWaitCondVarSuspended"
  BY WaitStates
<1>3. v = SuspAdd(w, c, t, SuspState[c])
  BY <1>2 DEF CondSuspendWaiting, SuspAdd
<1>4. w = WaitRemove(a, c, t)
  OBVIOUS
<1> HIDE DEF w
<1>5. Waits(r, t, c, WaitState[c])
  BY <1>2
<1>6. /\ FQ(w, {} \cup {t}, c, 1) /\ SameRest(a, w) /\ SameWhere(a, w) /\ SameCnt(a, w)
      /\ w.pri = a.pri /\ w.phase[c] # "deleted"
  BY <1>1, <1>4, <1>5, HaltedTake
<1>7. FQ(w, {} \cup {t}, c, SuspCounts(c)) /\ w.cvMutex = a.cvMutex
  BY <1>1, <1>6 DEF SuspCounts, SameCnt
<1> QED
  BY <1>1, <1>3, <1>5, <1>6, <1>7, OtherStops

\* DSemaphore::SuspendWaitingThread.
LEMMA SemStops ==
    ASSUME NEW r, World(r, {}), NEW t \in Thread, ~r.cs[t], NEW a, Halted(r, a, t), NEW s \in Sem,
           Waits(r, t, s, "EWaitSemaphore"), NEW v, v = SemSuspendWaiting(a, s, t)
    PROVE  World(v, {}) /\ Steady(r, v)
<1> DEFINE w == WaitRemove(a, s, t)
           n == a.count[s] + 1
           b == CountTo(w, s, n)
<1>1. s \in Obj /\ s \notin Mutex
  BY SyncAssumption DEF Obj
<1>2. WaitState[s] = "EWaitSemaphore" /\ SuspState[s] = "EWaitSemaphoreSuspended"
  BY WaitStates
<1>3. v = [w EXCEPT !.count[s] = @ + 1, !.suspQ[s] = Append(@, t), !.mstate[t] = "EWaitSemaphoreSuspended"]
  BY DEF SemSuspendWaiting
<1>4. w = WaitRemove(a, s, t) /\ b = CountTo(w, s, n) /\ n = a.count[s] + 1
  OBVIOUS
<1> HIDE DEF w, b, n
<1>5. Waits(r, t, s, WaitState[s])
  BY <1>2
<1>6. /\ FQ(w, {} \cup {t}, s, 1) /\ SameRest(a, w) /\ SameWhere(a, w) /\ SameCnt(a, w)
      /\ w.pri = a.pri /\ w.phase[s] # "deleted" /\ Rec(a) /\ CntT(a)
  BY <1>1, <1>4, <1>5, HaltedTake
<1>7. a.count[s] \in Int /\ n \in Int /\ w.count = a.count
  BY <1>4, <1>6 DEF CntT, SameCnt
<1>8. v = SuspAdd(b, s, t, SuspState[s])
  <2>1. [w EXCEPT !.count[s] = @ + 1] = b
    BY <1>4, <1>7 DEF CountTo
  <2>2. v = SuspAdd([w EXCEPT !.count[s] = @ + 1], s, t, "EWaitSemaphoreSuspended")
    BY <1>3 DEF SuspAdd
  <2> QED
    BY <1>2, <2>1, <2>2
<1>9. SemTally(n, Len(w.waitQ[s]), 0)
  <2>1. CountAt(w, s, 1) /\ CntT(w) /\ RQ(w, {} \cup {t})
    BY <1>1, <1>6 DEF FQ
  <2>2. Len(w.waitQ[s]) \in Nat
    BY <1>1, <2>1, RHead
  <2>3. SemTally(a.count[s], Len(w.waitQ[s]), 1)
    BY <1>6, <1>7, <2>1 DEF CountAt
  <2> QED
    BY <1>4, <1>7, <2>2, <2>3 DEF SemTally
<1>10. FQ(b, {} \cup {t}, s, 0) /\ CountSet(w, b, s, n)
  BY <1>4, <1>6, <1>7, <1>9, CountTake
<1>11. FQ(b, {} \cup {t}, s, SuspCounts(s))
  BY <1>10 DEF SuspCounts
<1>12. /\ SameRest(a, b) /\ SameWhere(a, b) /\ b.pri = a.pri /\ b.cvMutex = a.cvMutex
       /\ b.phase[s] # "deleted"
  BY <1>6, <1>10 DEF CountSet, OnlyCounts, SameRest, SameCtl, SameRun, SameWhere, SameCnt
<1> QED
  BY <1>1, <1>5, <1>8, <1>11, <1>12, OtherStops

\* A waiter of mutex m leaves its wait queue, suspended: c is the state before the chain.
LEMMA MutexHalts ==
    ASSUME NEW r, World(r, {}), NEW t \in Thread, ~r.cs[t], NEW a, Halted(r, a, t), NEW m \in Mutex,
           Waits(r, t, m, "EWaitMutex"),
           NEW c, c = SuspAdd(WaitRemove(a, m, t), m, t, "EWaitMutexSuspended")
    PROVE  /\ QOK(c, {}) /\ SameRest(a, c) /\ c.pri = a.pri /\ SameCnt(a, c)
           /\ Lands(a, c, t, "EWaitMutexSuspended", m) /\ Ground(c, {})
<1> DEFINE w == WaitRemove(a, m, t)
<1>1. m \in Obj /\ m \notin Sem
  BY SyncAssumption DEF Obj
<1>2. WaitState[m] = "EWaitMutex" /\ SuspState[m] = "EWaitMutexSuspended"
  BY WaitStates
<1>3. w = WaitRemove(a, m, t) /\ c = SuspAdd(w, m, t, SuspState[m])
  BY <1>2
<1> HIDE DEF w
<1>4. Waits(r, t, m, WaitState[m])
  BY <1>2
<1>5. /\ FQ(w, {} \cup {t}, m, 1) /\ SameRest(a, w) /\ SameWhere(a, w) /\ SameCnt(a, w)
      /\ w.pri = a.pri /\ w.phase[m] # "deleted" /\ a.mstate = r.mstate /\ a.waitObj = r.waitObj
  BY <1>1, <1>3, <1>4, HaltedTake
<1>6. FQ(w, {} \cup {t}, m, SuspCounts(m)) /\ w.waitObj[t] = m
  BY <1>1, <1>5 DEF SuspCounts, SameWhere, Waits
<1>7. /\ QOK(c, {}) /\ SameRest(w, c) /\ SameCnt(w, c) /\ c.pri = w.pri
      /\ Lands(w, c, t, SuspState[m], m)
  BY <1>1, <1>3, <1>5, <1>6, SuspLands
<1>8. SameRest(a, c) /\ SameCnt(a, c) /\ c.pri = a.pri
  BY <1>5, <1>7 DEF SameRest, SameCtl, SameRun, SameCnt
<1>9. Lands(a, c, t, "EWaitMutexSuspended", m)
  BY <1>2, <1>5, <1>7 DEF Lands, But, SameWhere
<1>10. ThreadOK(c, t)
  <2>1. c.waitObj[t] = r.waitObj[t] /\ Stopped(r.mstate[t], c.mstate[t])
    BY <1>9 DEF Lands, Waits, Stopped
  <2>2. Stops(r, c, t)
    BY <1>8, <2>1, HaltedStops DEF SameRest, SameRun, SameCnt
  <2>3. ThreadOK(r, t)
    BY DEF World
  <2> QED
    BY <2>2, <2>3, StopsOK
<1>11. \A u \in Thread : u # t => ThreadOK(c, u)
  <2> SUFFICES ASSUME NEW u \in Thread, u # t
               PROVE  ThreadOK(c, u)
    OBVIOUS
  <2>1. ThreadOK(a, u)
    BY DEF Halted
  <2>2. SamePlace(a, c, u)
    BY <1>8, CtlPlace DEF SameRest
  <2>3. SameWait(a, c, u)
    BY <1>8, <1>9 DEF SameWait, SameRest, SameRun, Lands, But
  <2>4. SameCv(a, c, u)
    BY <1>8 DEF SameCv, SameCnt
  <2> QED
    BY <2>1, <2>2, <2>3, <2>4, ThreadAgrees DEF Agree
<1>12. Ground(c, {})
  BY <1>10, <1>11 DEF Ground
<1> QED
  BY <1>7, <1>8, <1>9, <1>12

\* The chain that starts at m, which has a waiter less, is exact.
LEMMA MutexHaltsExact ==
    ASSUME NEW r, World(r, {}), NEW t \in Thread, NEW a, Halted(r, a, t), NEW m \in Mutex,
           Waits(r, t, m, "EWaitMutex"), NEW c, QOK(c, {}), SameRest(a, c), c.pri = a.pri,
           Lands(a, c, t, "EWaitMutexSuspended", m), Ground(c, {}),
           NEW l, l = Link(c, m, HighestPriority(c, m), 0)
    PROVE  /\ Chained(l, {}, {}) /\ Exact(l, {}) /\ HoldOK(c) /\ OneResets(c)
           /\ LinkIs(l, c, m, HighestPriority(c, m), 0)
<1> DEFINE p == HighestPriority(c, m)
<1>1. LinkIs(l, c, m, p, 0)
  BY LinkFields
<1>2. RQ(c, {})
  BY DEF QOK
<1>3. High(c, {}, m, p) /\ p \in Pri \cup {0}
  BY <1>2, HighestIs
<1> HIDE DEF p
<1>4. Chained(l, {}, {})
  BY <1>1, <1>3 DEF Chained, LinkIs, LinkOK
<1>5. World(a, {t})
  BY DEF Halted, Waits
<1>6. a.mstate = r.mstate /\ a.waitObj = r.waitObj
  BY DEF Halted, OwnStep, SameK, SameWhere
<1>7. a.mstate[t] = "EWaitMutex" /\ a.waitObj[t] = m
  BY <1>6 DEF Waits
<1>8. But(a.mstate, c.mstate, t) /\ But(a.waitObj, c.waitObj, t) /\ But(a.pri, c.pri, t)
  BY DEF Lands, But
<1>9. /\ \A x \in Mutex : (Free(c, x) <=> Free(a, x)) /\ (Held(c, x) <=> Held(a, x))
      /\ \A x \in Mutex : ~Pends(a, t, x) /\ ~MWaits(c, t, x) /\ (MWaits(a, t, x) => x = m)
  BY <1>7, CtlHeld DEF SameRest, Pends, MWaits, Lands
<1>10. c.susp = a.susp /\ c.clnPri = a.clnPri
  BY DEF SameRest, SameCtl
<1>11. NoIdle(c, {})
  <2>1. IdleOff(a, Null)
    BY <1>5, IdleAll DEF World
  <2>2. IdleOff(c, Null)
    BY <1>8, <1>9, <1>10, <2>1, IdleFrame
  <2> QED
    BY <2>2, IdleAll
<1>12. HighBut(c, {}, m, p)
  <2>1. HighOff(a, m)
    BY <1>5, OffMore DEF World
  <2>2. HighOff(c, m)
    BY <1>8, <1>9, <1>10, <2>1, HighFrame
  <2> QED
    BY <1>3, <2>2, HighBack
<1>13. Exact(l, {})
  BY <1>1, <1>11, <1>12 DEF Exact, LinkHigh, LinkIs
<1>14. HoldOK(c) /\ OneResets(c)
  BY <1>5 DEF World, SameRest, SameCtl, HoldOK, OneResets
<1> QED
  BY <1>1, <1>4, <1>13, <1>14 DEF p

\* DMutex::SuspendWaitingThread.
LEMMA MutexStops ==
    ASSUME NEW r, World(r, {}), NEW t \in Thread, ~r.cs[t], NEW a, Halted(r, a, t), NEW m \in Mutex,
           Waits(r, t, m, "EWaitMutex"), NEW v, v = MutexSuspendWaiting(a, m, t)
    PROVE  World(v, {}) /\ Steady(r, v)
<1> DEFINE c == SuspAdd(WaitRemove(a, m, t), m, t, "EWaitMutexSuspended")
           l == Link(c, m, HighestPriority(c, m), 0)
<1>1. v = Settle(l)
  BY DEF MutexSuspendWaiting, SuspAdd
<1>2. /\ c = SuspAdd(WaitRemove(a, m, t), m, t, "EWaitMutexSuspended")
      /\ l = Link(c, m, HighestPriority(c, m), 0)
  OBVIOUS
<1> HIDE DEF c, l
<1>3. /\ QOK(c, {}) /\ SameRest(a, c) /\ c.pri = a.pri /\ SameCnt(a, c)
      /\ Lands(a, c, t, "EWaitMutexSuspended", m) /\ Ground(c, {})
  BY <1>2, MutexHalts
<1>4. /\ Chained(l, {}, {}) /\ Exact(l, {}) /\ HoldOK(c) /\ OneResets(c)
      /\ LinkIs(l, c, m, HighestPriority(c, m), 0)
  BY <1>2, <1>3, MutexHaltsExact
<1>5. l.k = c /\ l.m = m /\ l.n = 0
  BY <1>4 DEF LinkIs
<1>6. World(v, {}) /\ v.fault = c.fault /\ \A d \in [Thread -> 0..9] : Nested(l, d) => ReqBut(v, {})
  BY <1>1, <1>4, <1>5, SettleWorld
<1>7. SameReq(r, c)
  BY <1>3 DEF Halted, SameReq, SameRest, SameCtl
<1>8. v.fault => r.fault
  BY <1>6, <1>7 DEF SameReq
<1>9. c.holder = r.holder /\ c.cvMutex = r.cvMutex
  BY <1>3 DEF Halted, OwnStep, SameK, SameCnt, SameRest, SameCtl
<1>10. \A x, u \in Thread : WaitsFor(c, x, u) => WaitsFor(r, x, u)
  <2> SUFFICES ASSUME NEW x \in Thread, NEW u \in Thread, WaitsFor(c, x, u)
               PROVE  WaitsFor(r, x, u)
    OBVIOUS
  <2>1. x # t
    BY <1>3 DEF Lands, WaitsFor
  <2>2. c.mstate[x] = r.mstate[x] /\ c.waitObj[x] = r.waitObj[x]
    BY <1>3, <2>1 DEF Lands, But, Halted, OwnStep, SameK, SameWhere
  <2> QED
    BY <1>9, <2>2 DEF WaitsFor
<1>11. \A u \in Thread : c.holder[m] = u => WaitsFor(r, t, u)
  BY <1>9 DEF WaitsFor, Waits
<1>12. Ranked(r, 9) /\ ReqBut(r, {}) => ReqBut(v, {})
  <2> SUFFICES ASSUME Ranked(r, 9), ReqBut(r, {})
               PROVE  ReqBut(v, {})
    OBVIOUS
  <2>1. PICK d \in [Thread -> 0..9] : RankedBy(r, d)
    BY DEF Ranked
  <2>2. RankedBy(c, d)
    BY <1>10, <2>1 DEF RankedBy
  <2>3. ReqBut(c, {})
    BY <1>7 DEF SameReq, ReqBut, IsReq
  <2>4. Owned(c)
    BY <1>4 DEF HoldOK, Owned
  <2>5. \A u \in Thread : c.holder[m] = u => d[u] + 0 =< 8
    <3> SUFFICES ASSUME NEW u \in Thread, c.holder[m] = u
                 PROVE  d[u] + 0 =< 8
      OBVIOUS
    <3>1. d[u] < d[t]
      BY <1>11, <2>1 DEF RankedBy
    <3>2. d[u] \in 0..9 /\ d[t] \in 0..9
      OBVIOUS
    <3> QED
      BY <3>1, <3>2
  <2>6. Nested(l, d)
    BY <1>5, <2>2, <2>3, <2>4, <2>5 DEF Nested
  <2> QED
    BY <1>6, <2>6
<1> QED
  BY <1>6, <1>8, <1>12 DEF Steady

-----------------------------------------------------------------------------
\* A thread that was offered a mutex is suspended: another is, if it is free.
LEMMA PendStops ==
    ASSUME NEW r, World(r, {}), NEW t \in Thread, ~r.cs[t], NEW a, Halted(r, a, t), NEW m \in Mutex,
           Pends(r, t, m), NEW v, v = WakeAnother(a, m)
    PROVE  World(v, {}) /\ Steady(r, v)
<1>1. /\ OwnStep(r, a, t) /\ SameK(r, a) /\ SameReq(r, a) /\ QOK(a, {}) /\ HoldOK(a) /\ OneResets(a)
      /\ HighBut(a, {}, Null, 0)
  BY DEF Halted, OwnStep
<1>2. a.mstate = r.mstate /\ a.waitObj = r.waitObj /\ a.pri = r.pri /\ a.cvMutex = r.cvMutex
  BY <1>1 DEF SameK, SameWhere, SameCnt
<1>3. ThreadOK(a, t)
  <2>1. ThreadOK(r, t)
    BY DEF World
  <2>2. Stopped(r.mstate[t], a.mstate[t])
    BY <1>2 DEF Stopped, Pends, OnWaitQ
  <2>3. SameCtl(a, a)
    BY DEF SameCtl
  <2>4. Stops(r, a, t)
    BY <1>2, <2>2, <2>3, HaltedStops
  <2> QED
    BY <2>1, <2>4, StopsOK
<1>4. \A u \in Thread : ThreadOK(a, u)
  BY <1>3 DEF Halted
<1>5. Ground(a, {})
  BY <1>4 DEF Ground
<1>6. IdleOff(a, m)
  <2>1. IdleOff(r, m)
    BY OffMore DEF World
  <2>2. \A x \in Mutex : Free(a, x) => Free(r, x)
    BY <1>1 DEF SameK, Free
  <2>3. But(r.mstate, a.mstate, t) /\ But(r.waitObj, a.waitObj, t) /\ But(r.pri, a.pri, t)
    BY <1>2 DEF But
  <2>4. \A q \in Thread : q # t => (a.susp[q] > 0 => r.susp[q] > 0)
    BY <1>1 DEF OwnStep, SameOwn
  <2>5. \A x \in Mutex : Pends(r, t, x) \/ MWaits(a, t, x) => x = m
    BY <1>2 DEF Pends, MWaits
  <2> QED
    BY <2>1, <2>2, <2>3, <2>4, <2>5, IdleFrame
<1>7. HighOff(a, m)
  BY <1>1, OffMore
<1>8. WorldOff(a, {}, m)
  BY <1>1, <1>4, <1>6, <1>7 DEF WorldOff
<1>9. World(v, {}) /\ SameReq(a, v)
  BY <1>1, <1>5, <1>8, WakeOffWorld
<1>10. SameReq(r, v)
  BY <1>1, <1>9 DEF SameReq
<1> QED
  BY <1>9, <1>10, SteadySame

\* DThread::Suspend of a thread that waits for something.
LEMMA SuspendWaitWorld ==
    ASSUME NEW r, World(r, {}), NEW t \in Thread, ~r.cs[t], NEW a, Halted(r, a, t),
           NEW v, v = SuspendWait(a, t)
    PROVE  World(v, {}) /\ Steady(r, v)
<1> DEFINE o == a.waitObj[t]
           ms == a.mstate[t]
<1>1. SameK(r, a) /\ SameReq(r, a)
  BY DEF Halted, OwnStep
<1>2. /\ o = r.waitObj[t] /\ ms = r.mstate[t] /\ a.mstate = r.mstate /\ a.waitObj = r.waitObj
      /\ a.cvMutex = r.cvMutex
  BY <1>1 DEF SameK, SameWhere, SameCnt
<1>3. WaitOK(r, t) /\ ThreadOK(r, t)
  BY DEF World, ThreadOK
<1>4. /\ ms \in SemWaits => o \in Sem
      /\ ms \in MutexWaits => o \in Mutex
      /\ ms \in CondWaits => o \in Cond
  BY <1>2, <1>3 DEF WaitOK
<1>5. o = a.waitObj[t] /\ ms = a.mstate[t]
  OBVIOUS
<1> HIDE DEF o, ms
<1>6. CASE ms = "EWaitSemaphore"
  <2>1. v = SemSuspendWaiting(a, o, t) /\ o \in Sem /\ Waits(r, t, o, "EWaitSemaphore")
    BY <1>2, <1>4, <1>5, <1>6 DEF SuspendWait, SemWaits, Waits
  <2> QED
    BY <2>1, SemStops
<1>7. CASE ms = "EWaitMutex"
  <2>1. v = MutexSuspendWaiting(a, o, t) /\ o \in Mutex /\ Waits(r, t, o, "EWaitMutex")
    BY <1>2, <1>4, <1>5, <1>7 DEF SuspendWait, MutexWaits, Waits
  <2> QED
    BY <2>1, MutexStops
<1>8. CASE ms = "EHoldMutexPending"
  <2>1. v = WakeAnother(a, o) /\ o \in Mutex /\ Pends(r, t, o)
    BY <1>2, <1>4, <1>5, <1>8 DEF SuspendWait, MutexWaits, Pends
  <2> QED
    BY <2>1, PendStops
<1>9. CASE ms = "EWaitCondVar"
  <2>1. v = CondSuspendWaiting(a, o, t) /\ o \in Cond /\ Waits(r, t, o, "EWaitCondVar")
    BY <1>2, <1>4, <1>5, <1>9 DEF SuspendWait, CondWaits, Waits
  <2> QED
    BY <2>1, CondStops
<1>10. CASE ms \notin {"EWaitSemaphore", "EWaitMutex", "EHoldMutexPending", "EWaitCondVar"}
  <2>1. v = a
    BY <1>5, <1>10 DEF SuspendWait
  <2>2. World(a, {t})
    BY <1>2, <1>10 DEF Halted
  <2>3. Stopped(r.mstate[t], a.mstate[t])
    BY <1>2, <1>10 DEF Stopped, OnWaitQ
  <2>4. SameCtl(a, a)
    BY DEF SameCtl
  <2>5. Stops(r, a, t)
    BY <1>2, <2>3, <2>4, HaltedStops
  <2>6. ThreadOK(a, t)
    BY <1>3, <2>5, StopsOK
  <2> QED
    BY <1>1, <2>1, <2>2, <2>6, WorldAll, SteadySame
<1> QED
  BY <1>6, <1>7, <1>8, <1>9, <1>10

\* DThread::Suspend, of a thread by itself or by another.
LEMMA SuspendsFine ==
    ASSUME World(k, {}), NEW u \in Thread, NEW t \in Thread, Suspends(u, t)
    PROVE  World(k', {}) /\ Steady(k, k')
<1>1. At(u, "run") /\ k.pc[t] # "dead" /\ k' = Suspend(k, u, t)
  BY DEF Suspends
<1>2. k.csFunction[t] \in Int /\ k.susp[t] \in Nat
  BY WorldTypes DEF CtlT
<1>3. CASE k.cs[t]
  <2>1. CASE k.csFunction[t] >= 0
    <3>1. k' = SetCsf(k, t, k.csFunction[t] + 1)
      BY <1>1, <1>3, <2>1 DEF Suspend, SetCsf
    <3>2. k.csFunction[t] + 1 \in Int /\ k.csFunction[t] + 1 >= -1
      BY <1>2, <2>1
    <3>3. World(k', {}) /\ SameK(k, k') /\ k'.fault = k.fault
      BY <1>3, <2>1, <3>1, <3>2, CsfWorld
    <3> QED
      BY <3>3, SteadyK
  <2>2. CASE ~(k.csFunction[t] >= 0)
    <3>1. k' = k
      BY <1>1, <1>3, <2>2 DEF Suspend
    <3>2. SameReq(k, k')
      BY <3>1 DEF SameReq
    <3> QED
      BY <3>1, <3>2, SteadySame
  <2> QED
    BY <2>1, <2>2
<1>4. CASE ~k.cs[t]
  <2> DEFINE n == k.susp[t] + 1
             a == SetSusp(k, t, n)
  <2>1. k' = IF t = u THEN a ELSE SuspendWait(a, t)
    BY <1>1, <1>4 DEF Suspend, SetSusp
  <2>2. a = SetSusp(k, t, n) /\ n \in Nat /\ n > 0
    BY <1>2
  <2> HIDE DEF a, n
  <2>3. Halted(k, a, t)
    BY <2>2, HaltedIs
  <2>4. CASE t # u
    BY <1>4, <2>1, <2>3, <2>4, SuspendWaitWorld
  <2>5. CASE t = u
    <3>1. k.mstate[t] = "EReady" /\ SameK(k, a) /\ SameReq(k, a)
      BY <1>1, <2>3, <2>5, AtRun DEF Mine, Halted, OwnStep
    <3>2. a.mstate[t] = "EReady"
      BY <3>1 DEF SameK, SameWhere
    <3>3. a = SuspendWait(a, t)
      BY <3>2 DEF SuspendWait
    <3> QED
      BY <1>4, <2>1, <2>3, <2>5, <3>3, SuspendWaitWorld
  <2> QED
    BY <2>4, <2>5
<1> QED
  BY <1>3, <1>4

\* The last suspension of t is counted off: what waits for it to hear of it.
Freed(r, a, t) ==
    /\ OwnStep(r, a, t) /\ a.susp[t] = 0 /\ r.susp[t] > 0 /\ ~r.cs[t]
    /\ \E n : SetSuspTo(r, a, t, n)
    /\ World(a, {t}) /\ SameReq(r, a) /\ ThreadOK(r, t)

\* A suspension of t is counted off.
LEMMA SuspOff ==
    ASSUME NEW r, World(r, {}), NEW t \in Thread, ~r.cs[t], r.susp[t] > 0, NEW n \in Nat,
           NEW a, a = SetSusp(r, t, n)
    PROVE  /\ World(a, {t}) /\ SetSuspTo(r, a, t, n) /\ OwnStep(r, a, t) /\ SameReq(r, a)
           /\ a.susp[t] = n
<1>1. OwnStep(r, a, t) /\ SetSuspTo(r, a, t, n)
  BY WorldTypes, SetSuspOwn
<1>2. a.pc = r.pc /\ a.obj = r.obj /\ a.susp[t] = n /\ a.fault = r.fault /\ SameK(r, a)
  BY <1>1 DEF SetSuspTo, OwnStep
<1>3. SameReq(r, a)
  BY <1>2 DEF SameK, SameReq
<1>4. OfferKept(r, a, t) /\ ResetKept(r, a, t)
  BY <1>2 DEF OfferKept, ResetKept
<1>5. World(r, {t})
  BY WorldLess
<1>6. World(a, {t})
  BY <1>1, <1>4, <1>5, OwnWorld
<1> QED
  BY <1>1, <1>2, <1>3, <1>6

-----------------------------------------------------------------------------
\* What t has besides its wait.
SameSeat(r, s, t) ==
    /\ s.pc[t] = r.pc[t] /\ s.obj[t] = r.obj[t] /\ s.cond[t] = r.cond[t] /\ s.cs[t] = r.cs[t]
    /\ s.csFunction[t] = r.csFunction[t] /\ s.phase = r.phase /\ s.holder = r.holder

\* A thread is not suspended any more.
LEMMA FreedSeat ==
    ASSUME NEW r, NEW a, NEW t \in Thread, Freed(r, a, t), NEW v, SameCtl(a, v)
    PROVE  SameSeat(r, v, t) /\ ~(v.susp[t] > 0)
<1>1. PICK n : SetSuspTo(r, a, t, n)
  BY DEF Freed
<1>2. SameK(r, a) /\ a.susp[t] = 0
  BY DEF Freed, OwnStep
<1>3. v.susp[t] = 0
  BY <1>2 DEF SameCtl
<1>4. SameSeat(r, v, t)
  BY <1>1, <1>2 DEF SameSeat, SetSuspTo, SameK, SameCtl
<1> QED
  BY <1>3, <1>4

\* What a thread waits for when its suspension ends.
Started(ms, ms2) ==
    \/ ms \notin OnSuspQ /\ ms2 = ms
    \/ ms = "EWaitSemaphoreSuspended" /\ ms2 = "EWaitSemaphore"
    \/ ms = "EWaitMutexSuspended" /\ ms2 = "EWaitMutex"
    \/ ms = "EWaitCondVarSuspended" /\ ms2 = "EWaitCondVar"

\* It waits again, is made ready, or is offered the mutex.
Goes(r, s, t) ==
    /\ Started(r.mstate[t], s.mstate[t]) /\ s.waitObj[t] = r.waitObj[t]
    /\ s.blocked[t] = r.blocked[t] /\ s.timed[t] = r.timed[t] /\ s.ret[t] = r.ret[t]
    /\ s.mstate[t] \in CondWaits => s.cvMutex[s.waitObj[t]] = r.cvMutex[s.waitObj[t]]

\* It goes on to wait for the same object.
LEMMA GoesOK ==
    ASSUME NEW r, NEW s, NEW t, ThreadOK(r, t), ~r.cs[t], SameSeat(r, s, t), ~(s.susp[t] > 0),
           Goes(r, s, t)
    PROVE  ThreadOK(s, t)
<1>1. WaitOK(s, t)
  <2>1. WaitOK(r, t)
    BY DEF ThreadOK
  <2> QED
    BY <2>1 DEF Goes, SameSeat, Started, WaitOK, SemWaits, MutexWaits, CondWaits, OnWaitQ, OnSuspQ
<1>2. SuspOK(s, t)
  <2>1. SuspOK(r, t)
    BY DEF ThreadOK
  <2>2. s.mstate[t] \notin OnSuspQ
    BY DEF Goes, Started, OnSuspQ
  <2> QED
    BY <2>1, <2>2 DEF SameSeat, SuspOK
<1>3. PcOK(s, t)
  <2>1. PcOK(r, t)
    BY DEF ThreadOK
  <2>2. /\ s.mstate[t] \in SemWaits <=> r.mstate[t] \in SemWaits
        /\ s.mstate[t] \in MutexWaits <=> r.mstate[t] \in MutexWaits
        /\ s.mstate[t] \in CondWaits <=> r.mstate[t] \in CondWaits
        /\ s.mstate[t] = "EReady" <=> r.mstate[t] = "EReady"
        /\ s.mstate[t] \in OnWaitQ \cup OnSuspQ <=> r.mstate[t] \in OnWaitQ \cup OnSuspQ
    BY DEF Goes, Started, SemWaits, MutexWaits, CondWaits, OnWaitQ, OnSuspQ
  <2>3. /\ s.waitObj[t] = r.waitObj[t]
        /\ s.blocked[t] = r.blocked[t] /\ s.timed[t] = r.timed[t] /\ s.ret[t] = r.ret[t]
    BY DEF Goes
  <2> QED
    BY <2>1, <2>2, <2>3 DEF PcOK, SameSeat
<1> QED
  BY <1>1, <1>2, <1>3 DEF ThreadOK

\* It is ready.
LEMMA IdlesOK ==
    ASSUME NEW r, NEW s, NEW t, ThreadOK(r, t), ~r.cs[t], SameSeat(r, s, t), ~(s.susp[t] > 0),
           r.mstate[t] # "EDead", s.mstate[t] = "EReady", s.waitObj[t] = Null, ~s.blocked[t]
    PROVE  ThreadOK(s, t)
<1>1. WaitOK(s, t)
  BY DEF ThreadOK, SameSeat, WaitOK, SemWaits, MutexWaits, CondWaits
<1>2. SuspOK(s, t)
  BY DEF ThreadOK, SameSeat, SuspOK, OnSuspQ
<1>3. PcOK(s, t)
  BY DEF ThreadOK, SameSeat, PcOK, SemWaits, MutexWaits, CondWaits, OnWaitQ, OnSuspQ
<1> QED
  BY <1>1, <1>2, <1>3 DEF ThreadOK

\* It is offered the mutex.
LEMMA PendsOK ==
    ASSUME NEW r, NEW s, NEW t, ThreadOK(r, t), ~r.cs[t], SameSeat(r, s, t), ~(s.susp[t] > 0),
           r.mstate[t] = "EWaitMutexSuspended", s.mstate[t] = "EHoldMutexPending",
           s.waitObj[t] = r.waitObj[t], ~s.blocked[t], ~s.timed[t], s.ret[t] = "KErrNone"
    PROVE  ThreadOK(s, t)
<1>1. WaitOK(s, t)
  BY DEF ThreadOK, SameSeat, WaitOK, SemWaits, MutexWaits, CondWaits
<1>2. SuspOK(s, t)
  BY DEF ThreadOK, SameSeat, SuspOK, OnSuspQ
<1>3. PcOK(s, t)
  BY DEF ThreadOK, SameSeat, PcOK, SemWaits, MutexWaits, CondWaits, OnWaitQ, OnSuspQ
<1> QED
  BY <1>1, <1>2, <1>3 DEF ThreadOK

\* A thread that is no longer suspended is off the queue of suspended threads.
LEMMA FreedTake ==
    ASSUME NEW r, World(r, {}), NEW t \in Thread, NEW a, Freed(r, a, t), NEW o \in Obj,
           Waits(r, t, o, SuspState[o]), NEW w, w = SuspRemove(a, o, t)
    PROVE  /\ FQ(w, {} \cup {t}, o, SuspCounts(o)) /\ SameRest(a, w) /\ SameWhere(a, w)
           /\ SameCnt(a, w)
           /\ w.pri = a.pri /\ w.phase[o] # "deleted" /\ w.phase[o] = a.phase[o]
           /\ a.mstate = r.mstate /\ a.waitObj = r.waitObj /\ a.phase = r.phase /\ Rec(a) /\ CntT(a)
<1>1. QOK(a, {}) /\ SameK(r, a)
  BY DEF Freed, OwnStep, World
<1>2. a.mstate = r.mstate /\ a.waitObj = r.waitObj /\ a.suspQ = r.suspQ /\ a.phase = r.phase
  BY <1>1 DEF SameK, SameWhere, SameQ
<1>3. t \in Range(a.suspQ[o])
  BY <1>2, OnQueue
<1>4. /\ FQ(w, {} \cup {t}, o, SuspCounts(o)) /\ SameRest(a, w) /\ SameWhere(a, w) /\ SameCnt(a, w)
      /\ w.pri = a.pri /\ a.phase[o] # "deleted"
  BY <1>1, <1>3, TakeSusp
<1>5. w.phase[o] = a.phase[o]
  BY <1>4 DEF SameRest, SameCtl
<1>6. Rec(a) /\ CntT(a)
  BY <1>1 DEF QOK
<1> QED
  BY <1>2, <1>4, <1>5, <1>6

\* It is made ready.
LEMMA FreedIdle ==
    ASSUME NEW r, World(r, {}), NEW t \in Thread, NEW a, Freed(r, a, t), r.mstate[t] \in OnSuspQ,
           NEW b, QOK(b, {t}), SameRest(a, b), SameWhere(a, b), b.pri = a.pri,
           b.cvMutex = a.cvMutex,
           NEW c \in Rets, NEW v, v = GoIdle(b, t, c)
    PROVE  World(v, {}) /\ Steady(r, v)
<1>1. World(a, {t}) /\ SameK(r, a) /\ SameReq(r, a) /\ a.fault = r.fault
  BY DEF Freed, OwnStep, SameReq
<1>2. a.mstate[t] \notin {"EWaitMutex", "EHoldMutexPending"} /\ r.mstate[t] # "EDead"
  BY <1>1 DEF SameK, SameWhere, OnSuspQ
<1>3. \A x \in Thread : x # t => SameCv(a, b, x)
  BY DEF SameCv
<1>4. World(v, {t}) /\ Left(a, v, t)
  BY <1>1, <1>2, <1>3, LeaveIdle
<1>5. SameSeat(r, v, t) /\ ~(v.susp[t] > 0)
  BY <1>4, FreedSeat DEF Left
<1>6. ThreadOK(v, t)
  BY <1>2, <1>4, <1>5, IdlesOK DEF Freed, Left
<1>7. Steady(r, v)
  BY <1>1, <1>4, SteadyOwn, SameSelf DEF Left
<1> QED
  BY <1>4, <1>6, <1>7, WorldAll

-----------------------------------------------------------------------------
\* DSemaphore: it waits again, or takes a count.
LEMMA SemResumes ==
    ASSUME NEW r, World(r, {}), NEW t \in Thread, NEW a, Freed(r, a, t), NEW s \in Sem,
           Waits(r, t, s, "EWaitSemaphoreSuspended"), NEW v, v = SemResumeWaiting(a, s, t)
    PROVE  World(v, {}) /\ Steady(r, v)
<1> DEFINE w == SuspRemove(a, s, t)
           n == a.count[s] - 1
           b == CountTo(w, s, n)
<1>1. s \in Obj /\ s \notin Mutex /\ SuspCounts(s) = 0
  BY SyncAssumption DEF Obj, SuspCounts
<1>2. WaitState[s] = "EWaitSemaphore" /\ SuspState[s] = "EWaitSemaphoreSuspended"
  BY WaitStates
<1>3. w = SuspRemove(a, s, t) /\ b = CountTo(w, s, n) /\ n = a.count[s] - 1
  OBVIOUS
<1>4. w = [a EXCEPT !.suspQ[s] = Without(@, t)]
  BY DEF SuspRemove
<1> HIDE DEF w, b, n
<1>5. Waits(r, t, s, SuspState[s])
  BY <1>2
<1>6. /\ FQ(w, {} \cup {t}, s, SuspCounts(s)) /\ SameRest(a, w) /\ SameWhere(a, w) /\ SameCnt(a, w)
      /\ w.pri = a.pri /\ w.phase[s] # "deleted" /\ w.phase[s] = a.phase[s]
      /\ a.mstate = r.mstate /\ a.waitObj = r.waitObj /\ a.phase = r.phase /\ Rec(a) /\ CntT(a)
  BY <1>1, <1>3, <1>5, FreedTake
<1>7. {} \cup {t} = {t}
  OBVIOUS
<1>8. FQ(w, {t}, s, 0)
  BY <1>1, <1>6, <1>7
<1>9. a.count[s] \in Int /\ n \in Int /\ w.count = a.count /\ w.cvMutex = a.cvMutex
  BY <1>3, <1>6 DEF CntT, SameCnt
<1>10. [w EXCEPT !.count[s] = @ - 1] = b
  BY <1>3, <1>9 DEF CountTo
<1>11. Rec(w) /\ CountSet(w, b, s, n) /\ Rec(b)
  BY <1>3, <1>8, FQTypes, CountToFields
<1>12. b.count[s] = n
  BY <1>6, <1>9, <1>11 DEF CountSet, CntT
<1>13. /\ r.mstate[t] \in OnSuspQ /\ World(a, {t}) /\ SameReq(r, a) /\ ThreadOK(r, t)
       /\ ~r.cs[t] /\ SameK(r, a)
  BY DEF OnSuspQ, Freed, Waits, OwnStep
<1>14. SemTally(a.count[s], Len(w.waitQ[s]), 0) /\ Len(w.waitQ[s]) \in Nat
  <2>1. CountAt(w, s, 0) /\ RQ(w, {t})
    BY <1>1, <1>8 DEF FQ
  <2> QED
    BY <1>1, <1>6, <1>9, <2>1, RHead DEF CountAt
<1>15. /\ SameRest(a, b) /\ SameWhere(a, b) /\ b.pri = a.pri /\ b.cvMutex = a.cvMutex
       /\ b.phase[s] # "deleted"
  BY <1>6, <1>11 DEF CountSet, OnlyCounts, SameRest, SameCtl, SameRun, SameWhere, SameCnt
<1>16. CASE Resetting(a, s)
  <2>1. v = GoIdle(w, t, "KErrGeneral")
    BY <1>4, <1>16 DEF SemResumeWaiting, GoIdle
  <2>2. QOK(w, {t})
    BY <1>8, FluxNone
  <2>3. "KErrGeneral" \in Rets
    BY DEF Rets
  <2> QED
    BY <1>6, <1>9, <1>13, <2>1, <2>2, <2>3, FreedIdle
<1>17. CASE ~Resetting(a, s) /\ n < 0
  <2>1. v = Wait(b, s, t, "EWaitSemaphore")
    BY <1>4, <1>10, <1>12, <1>17 DEF SemResumeWaiting
  <2>2. SemTally(n, Len(w.waitQ[s]), 1)
    BY <1>3, <1>9, <1>14, <1>17 DEF SemTally
  <2>3. FQ(b, {t}, s, 1)
    BY <1>3, <1>6, <1>8, <1>9, <2>2, CountTake
  <2>4. v = Wait(b, s, t, WaitState[s])
    BY <1>2, <2>1
  <2>5. /\ QOK(v, {}) /\ SameRest(b, v) /\ SameCnt(b, v) /\ v.pri = b.pri
        /\ Lands(b, v, t, WaitState[s], s)
    BY <1>1, <1>15, <2>3, <2>4, WaitLands
  <2>6. Lands(b, v, t, "EWaitSemaphore", s)
    BY <1>2, <2>5
  <2>7. SameRest(a, v) /\ v.pri = a.pri /\ v.cvMutex = a.cvMutex
    BY <1>15, <2>5 DEF SameRest, SameCtl, SameRun, SameCnt
  <2>8. Lands(a, v, t, "EWaitSemaphore", s)
    BY <1>15, <2>6 DEF Lands, But, SameWhere
  <2>9. a.mstate[t] \notin {"EWaitMutex", "EHoldMutexPending"}
    BY <1>6 DEF Waits
  <2>10. \A x \in Thread : x # t => SameCv(a, v, x)
    BY <2>7 DEF SameCv
  <2>11. World(v, {t}) /\ SameReq(a, v)
    BY <1>13, <2>5, <2>7, <2>8, <2>9, <2>10, OtherWait
  <2>12. SameSeat(r, v, t) /\ ~(v.susp[t] > 0)
    BY <2>7, FreedSeat DEF SameRest
  <2>13. Goes(r, v, t)
    <3>1. PICK x : SetSuspTo(r, a, t, x)
      BY DEF Freed
    <3>2. v.blocked = r.blocked /\ v.timed = r.timed /\ v.ret = r.ret
      BY <2>7, <3>1 DEF SetSuspTo, SameRest, SameRun
    <3>3. /\ v.waitObj[t] = r.waitObj[t] /\ v.mstate[t] = "EWaitSemaphore"
          /\ r.mstate[t] = "EWaitSemaphoreSuspended"
      BY <2>8 DEF Lands, Waits
    <3> QED
      BY <3>2, <3>3 DEF Goes, Started, CondWaits
  <2>14. ThreadOK(v, t)
    BY <1>13, <2>12, <2>13, GoesOK
  <2>15. SameReq(r, v)
    BY <1>13, <2>11 DEF SameReq
  <2> QED
    BY <2>11, <2>14, <2>15, WorldAll, SteadySame
<1>18. CASE ~Resetting(a, s) /\ ~(n < 0)
  <2>1. v = GoIdle(b, t, "KErrNone")
    BY <1>4, <1>10, <1>12, <1>18 DEF SemResumeWaiting, GoIdle
  <2>2. SemTally(n, Len(w.waitQ[s]), 0)
    BY <1>3, <1>9, <1>14, <1>18 DEF SemTally
  <2>3. FQ(b, {t}, s, 0)
    BY <1>3, <1>6, <1>8, <1>9, <2>2, CountTake
  <2>4. QOK(b, {t})
    BY <2>3, FluxNone
  <2>5. "KErrNone" \in Rets
    BY DEF Rets
  <2> QED
    BY <1>13, <1>15, <2>1, <2>4, <2>5, FreedIdle
<1> QED
  BY <1>16, <1>17, <1>18

\* A thread that waited for mutex m when it was suspended, counted off there.
LEMMA FreedMutex ==
    ASSUME NEW r, World(r, {}), NEW t \in Thread, NEW a, Freed(r, a, t), NEW m \in Mutex,
           Waits(r, t, m, "EWaitMutexSuspended"),
           NEW b, b = WcAdd(SuspRemove(a, m, t), m, 0 - 1)
    PROVE  /\ QOK(b, {t}) /\ SameRest(a, b) /\ SameWhere(a, b) /\ b.pri = a.pri
           /\ b.cvMutex = a.cvMutex
           /\ b.phase[m] # "deleted"
<1> DEFINE w == SuspRemove(a, m, t)
<1>1. m \in Obj /\ SuspCounts(m) = 1 /\ SuspState[m] = "EWaitMutexSuspended"
  BY WaitStates, SyncAssumption DEF Obj, SuspCounts
<1>0. w = SuspRemove(a, m, t)
  OBVIOUS
<1>2. b = WcAdd(w, m, 0 - 1)
  OBVIOUS
<1> HIDE DEF w
<1>3. /\ FQ(w, {} \cup {t}, m, 1) /\ SameRest(a, w) /\ SameWhere(a, w) /\ SameCnt(a, w)
      /\ w.pri = a.pri /\ w.phase[m] # "deleted"
  <2>1. Waits(r, t, m, SuspState[m])
    BY <1>1
  <2>2. /\ FQ(w, {} \cup {t}, m, SuspCounts(m)) /\ SameRest(a, w) /\ SameWhere(a, w)
        /\ SameCnt(a, w)
        /\ w.pri = a.pri /\ w.phase[m] # "deleted"
    BY <1>0, <1>1, <2>1, FreedTake
  <2> QED
    BY <1>1, <2>2
<1>4. FQ(b, {} \cup {t}, m, 0) /\ OnlyCounts(w, b) /\ b.cvMutex = w.cvMutex
  <2>1. 1 \in {0, 1} /\ 0 \in {0, 1}
    OBVIOUS
  <2> QED
    BY <1>2, <1>3, <2>1, MutexCount
<1>5. QOK(b, {t})
  <2>1. {} \cup {t} = {t}
    OBVIOUS
  <2> QED
    BY <1>4, <2>1, FluxNone
<1>6. /\ SameRest(a, b) /\ SameWhere(a, b) /\ b.pri = a.pri /\ b.cvMutex = a.cvMutex
      /\ b.phase[m] # "deleted"
  BY <1>3, <1>4 DEF OnlyCounts, SameRest, SameCtl, SameRun, SameWhere, SameCnt
<1> QED
  BY <1>5, <1>6

\* The others are where they were, and the mutex has no hole.
LEMMA FreedOthers ==
    ASSUME NEW r, NEW t \in Thread, NEW a, Freed(r, a, t), r.mstate[t] \in OnSuspQ,
           NEW b, SameRest(a, b), SameWhere(a, b), b.pri = a.pri, b.cvMutex = a.cvMutex
    PROVE  /\ \A u \in Thread \ {t} : ThreadOK(b, u)
           /\ HoldOK(b) /\ OneResets(b) /\ IdleOff(b, Null) /\ HighBut(b, {}, Null, 0)
<1>1. World(a, {t})
  BY DEF Freed
<1>2. \A u \in Thread \ {t} : ThreadOK(b, u)
  <2> SUFFICES ASSUME NEW u \in Thread \ {t} PROVE ThreadOK(b, u)
    OBVIOUS
  <2>1. SamePlace(a, b, u)
    BY CtlPlace DEF SameRest
  <2>2. Agree(a, b, u)
    BY <2>1 DEF SameRest, SameRun, SameWhere, Agree, SameWait, SameCv
  <2> QED
    BY <1>1, <2>2, ThreadAgrees DEF World
<1>3. HoldOK(b) /\ OneResets(b)
  BY <1>1 DEF World, HoldOK, OneResets, SameRest, SameCtl
<1>4. /\ b.mstate = a.mstate /\ b.waitObj = a.waitObj /\ b.pri = a.pri /\ b.susp = a.susp
      /\ b.holder = a.holder /\ b.phase = a.phase /\ b.clnPri = a.clnPri
  BY DEF SameRest, SameCtl, SameWhere
<1>5. IdleOff(b, Null)
  <2>1. NoIdle(b, {})
    BY <1>1, <1>4 DEF World, NoIdle, Free, MWaits, Pends
  <2> QED
    BY <2>1, IdleAll
<1>6. HighBut(b, {}, Null, 0)
  BY <1>1, <1>4 DEF World, HighBut, Held, High, MWaits
<1> QED
  BY <1>2, <1>3, <1>5, <1>6

\* NThreadBase::Release, as far as it is seen here.
LEMMA ReleasedFields ==
    ASSUME NEW q, NEW t, NEW c, DOMAIN q = Fields, NEW s, s = ThreadRelease(q, t, c)
    PROVE  Released(q, s, t, c)
BY SMT DEF ThreadRelease, Fields, Released

\* The mutex is offered to it: in whichever order it leaves the queue and joins the other.
LEMMA OfferSwap ==
    ASSUME NEW a, Rec(a), NEW m, NEW t, NEW x,
           x = [a EXCEPT !.suspQ[m] = Without(@, t), !.waitCount[m] = @ - 1]
    PROVE  ThreadRelease([x EXCEPT !.mstate[t] = "EHoldMutexPending", !.pendQ[m] = Append(@, t)], t, "KErrNone")
              = Offer(SuspRemove(a, m, t), m, t)
<1> DEFINE q == [x EXCEPT !.mstate[t] = "EHoldMutexPending", !.pendQ[m] = Append(@, t)]
           c == ThreadRelease(q, t, "KErrNone")
           w == SuspRemove(a, m, t)
           p == [w EXCEPT !.pendQ[m] = Append(@, t), !.mstate[t] = "EHoldMutexPending", !.waitCount[m] = @ - 1]
           b == ThreadRelease(p, t, "KErrNone")
<1>1. SameCtl(p, q) /\ SameRun(p, q) /\ SameCnt(p, q)
  BY SMT DEF Rec, Fields, SuspRemove, SameCtl, SameRun, SameCnt
<1>2. SameWhere(p, q) /\ SameQ(p, q) /\ q.pri = p.pri /\ q.clnPri = p.clnPri /\ q.fault = p.fault
  BY SMT DEF Rec, Fields, SuspRemove, SameWhere, SameQ
<1>3. DOMAIN p = Fields /\ DOMAIN q = Fields
  BY SMT DEF Rec, Fields, SuspRemove
<1>4. b = ThreadRelease(p, t, "KErrNone") /\ c = ThreadRelease(q, t, "KErrNone")
  OBVIOUS
<1>5. b = Offer(w, m, t)
  BY DEF Offer
<1> HIDE DEF p, q
<1>6. Rec(b) /\ Rec(c)
  BY <1>3, <1>4, ReleaseRec
<1>7. SameAll(b, c)
  <2>1. SameCtl(b, c)
    BY <1>1, <1>3, <1>4, SMT DEF Fields, ThreadRelease, SameCtl
  <2>2. SameRun(b, c)
    <3>1. q.blocked = p.blocked /\ q.timed = p.timed /\ q.ret = p.ret
      BY <1>1 DEF SameRun
    <3> HIDE DEF b, c
    <3>2. Released(p, b, t, "KErrNone") /\ Released(q, c, t, "KErrNone")
      BY <1>3, <1>4, ReleasedFields
    <3> QED
      BY <3>1, <3>2 DEF Released, SameRun
  <2>3. SameCnt(b, c) /\ SameWhere(b, c) /\ SameQ(b, c)
    BY <1>1, <1>2, <1>3, <1>4, SMT DEF Fields, ThreadRelease, SameCnt, SameWhere, SameQ
  <2>4. c.pri = b.pri /\ c.clnPri = b.clnPri /\ c.fault = b.fault
    BY <1>2, <1>3, <1>4, SMT DEF Fields, ThreadRelease
  <2> HIDE DEF b, c
  <2> QED
    BY <2>1, <2>2, <2>3, <2>4 DEF SameAll
<1>8. c = b
  BY <1>6, <1>7, RecEq
<1> QED
  BY <1>5, <1>8 DEF q

\* A free mutex is offered to it.
LEMMA MutexResumesFree ==
    ASSUME NEW r, World(r, {}), NEW t \in Thread, NEW a, Freed(r, a, t), NEW m \in Mutex,
           Waits(r, t, m, "EWaitMutexSuspended"), NEW b, FQ(b, {} \cup {t}, m, 1), SameRest(a, b),
           SameWhere(a, b), SameCnt(a, b), b.pri = a.pri, b.phase[m] # "deleted", NEW v, v = Offer(b, m, t)
    PROVE  World(v, {}) /\ Steady(r, v)
<1>1. World(a, {t}) /\ SameK(r, a) /\ SameReq(r, a) /\ a.mstate = r.mstate /\ a.waitObj = r.waitObj
  BY DEF Freed, OwnStep, SameK, SameWhere
<1>2. b.waitObj[t] = m /\ t \notin {}
  BY <1>1 DEF SameWhere, Waits
<1>3. QOK(v, {}) /\ SameCtl(b, v) /\ SameData(b, v) /\ v.pri = b.pri /\ ToPending(b, v, m, t)
  BY <1>2, OfferKeeps
<1>4. QOK(v, {}) /\ RunT(b)
  BY <1>3, FQTypes
<1>5. /\ SameCtl(a, v) /\ v.clnPri = a.clnPri /\ v.pri = a.pri /\ v.cvMutex = a.cvMutex
      /\ v.fault = a.fault
      /\ v.defPri = a.defPri /\ v.cleanupQ = a.cleanupQ
  BY <1>3 DEF SameData, SameRest, SameCtl, SameCnt
<1>6. \A x \in Thread : x # t => SameWait(a, v, x) /\ SameCv(a, v, x)
  <2> SUFFICES ASSUME NEW x \in Thread, x # t PROVE SameWait(a, v, x) /\ SameCv(a, v, x)
    OBVIOUS
  <2>1. SameWait(b, v, x)
    <3>1. Lands(b, v, t, "EHoldMutexPending", m) /\ \E c : Released(b, v, t, c)
      BY <1>3 DEF ToPending
    <3> QED
      BY <1>4, <3>1, OthersWait
  <2>2. SameWait(a, v, x)
    BY <2>1 DEF SameWait, SameRest, SameRun, SameWhere
  <2> QED
    BY <1>5, <2>2 DEF SameCv
<1>7. /\ v.mstate[t] = "EHoldMutexPending" /\ v.waitObj[t] = m
      /\ r.mstate[t] = "EWaitMutexSuspended"
      /\ r.waitObj[t] = m /\ a.mstate[t] = "EWaitMutexSuspended"
  BY <1>1, <1>3 DEF ToPending, Lands, Waits
<1>8. World(v, {t})
  <2>1. WorldOff(a, {t}, Null)
    BY <1>1, WorldNoHole
  <2>2. /\ \A x \in Mutex : Pends(a, t, x) \/ MWaits(v, t, x) => x = Null \/ ~Free(a, x)
        /\ \A x \in Mutex : MWaits(a, t, x) \/ MWaits(v, t, x) => x = Null \/ ~Held(a, x)
    BY <1>7 DEF Pends, MWaits
  <2>3. WorldOff(v, {t} \cup {t}, Null)
    BY <1>4, <1>5, <1>6, <2>1, <2>2, MoveOff
  <2>4. {t} \cup {t} = {t}
    OBVIOUS
  <2> QED
    BY <2>3, <2>4, WorldNoHole
<1>9. ~v.blocked[t] /\ ~v.timed[t] /\ v.ret[t] = "KErrNone"
  <2>1. Released(b, v, t, "KErrNone")
    BY <1>3 DEF ToPending
  <2> QED
    BY <1>4, <2>1, ReleasedAt
<1>10. SameSeat(r, v, t) /\ ~(v.susp[t] > 0)
  BY <1>5, FreedSeat
<1>11. ThreadOK(v, t)
  BY <1>7, <1>9, <1>10, PendsOK DEF Freed
<1>12. SameReq(r, v)
  BY <1>1, <1>5 DEF SameReq
<1> QED
  BY <1>8, <1>11, <1>12, WorldAll, SteadySame

\* It queues for a mutex that is held.
LEMMA MutexResumesHeld ==
    ASSUME NEW r, World(r, {}), NEW t \in Thread, NEW a, Freed(r, a, t), NEW m \in Mutex,
           Waits(r, t, m, "EWaitMutexSuspended"), NEW b, QOK(b, {t}), SameRest(a, b),
           SameWhere(a, b),
           b.pri = a.pri, b.cvMutex = a.cvMutex, Held(b, m),
           NEW v, v = Settle(WaitForMutex(b, t, m, 0))
    PROVE  World(v, {}) /\ Steady(r, v)
<1>1. SameK(r, a) /\ SameReq(r, a) /\ a.mstate = r.mstate /\ a.waitObj = r.waitObj
  BY DEF Freed, OwnStep, SameK, SameWhere
<1>2. r.mstate[t] \in OnSuspQ
  BY DEF Waits, OnSuspQ
<1>3. /\ \A u \in Thread \ {t} : ThreadOK(b, u)
      /\ HoldOK(b) /\ OneResets(b) /\ IdleOff(b, Null) /\ HighBut(b, {}, Null, 0)
  BY <1>2, FreedOthers
<1>4. IdleOff(b, m)
  BY <1>3, IdleAll, OffMore
<1>5. NewWaiter(b, t, m)
  BY <1>1 DEF NewWaiter, SameWhere, Waits, Pends
<1>6. /\ World(v, {t}) /\ SameCtl(b, v) /\ v.fault = b.fault /\ Queued(b, v, t, m)
      /\ Ranked(v, 9) /\ ReqBut(b, {}) => ReqBut(v, {})
  BY <1>3, <1>4, <1>5, QueueUp
<1>7. SameReq(r, b) /\ SameCtl(a, v)
  BY <1>1, <1>6 DEF SameReq, SameRest, SameCtl
<1>8. SameSeat(r, v, t) /\ ~(v.susp[t] > 0)
  BY <1>7, FreedSeat
<1>9. Goes(r, v, t)
  <2>1. PICK x : SetSuspTo(r, a, t, x)
    BY DEF Freed
  <2>2. v.blocked[t] = r.blocked[t] /\ v.timed[t] = r.timed[t] /\ v.ret[t] = r.ret[t]
    BY <1>6, <2>1 DEF SetSuspTo, SameRest, SameRun, Queued
  <2>3. /\ v.waitObj[t] = r.waitObj[t] /\ v.mstate[t] = "EWaitMutex"
        /\ r.mstate[t] = "EWaitMutexSuspended"
    BY <1>6 DEF Queued, Waits
  <2> QED
    BY <2>2, <2>3 DEF Goes, Started, CondWaits
<1>10. ThreadOK(v, t)
  BY <1>8, <1>9, GoesOK DEF Freed
<1>11. Steady(r, v)
  <2>1. v.fault = r.fault
    BY <1>6, <1>7 DEF SameReq
  <2>2. ReqBut(r, {}) => ReqBut(b, {})
    BY <1>7 DEF SameReq, ReqBut, IsReq
  <2> QED
    BY <1>6, <2>1, <2>2 DEF Steady
<1> QED
  BY <1>6, <1>10, <1>11, WorldAll

\* DMutex::ResumeWaitingThread
LEMMA MutexResumes ==
    ASSUME NEW r, World(r, {}), NEW t \in Thread, NEW a, Freed(r, a, t), NEW m \in Mutex,
           Waits(r, t, m, "EWaitMutexSuspended"), NEW v, v = MutexResumeWaiting(a, m, t)
    PROVE  World(v, {}) /\ Steady(r, v)
<1> DEFINE w == SuspRemove(a, m, t)
           b == WcAdd(w, m, 0 - 1)
<1>1. w = SuspRemove(a, m, t) /\ b = WcAdd(w, m, 0 - 1)
  OBVIOUS
<1>2. w = [a EXCEPT !.suspQ[m] = Without(@, t)]
  BY DEF SuspRemove
<1> HIDE DEF w, b
<1>3. m \in Obj /\ m \notin Sem /\ SuspCounts(m) = 1 /\ SuspState[m] = "EWaitMutexSuspended"
  BY WaitStates, SyncAssumption DEF Obj, SuspCounts
<1>4. /\ FQ(w, {} \cup {t}, m, 1) /\ SameRest(a, w) /\ SameWhere(a, w) /\ SameCnt(a, w)
      /\ w.pri = a.pri /\ w.phase[m] = a.phase[m] /\ w.phase[m] # "deleted"
      /\ a.waitObj[t] = m /\ a.mstate[t] = "EWaitMutexSuspended"
  <2>1. Waits(r, t, m, SuspState[m])
    BY <1>3
  <2>2. /\ FQ(w, {} \cup {t}, m, SuspCounts(m)) /\ SameRest(a, w) /\ SameWhere(a, w)
        /\ SameCnt(a, w)
        /\ w.pri = a.pri /\ w.phase[m] = a.phase[m] /\ w.phase[m] # "deleted"
        /\ a.mstate = r.mstate /\ a.waitObj = r.waitObj
    BY <1>1, <1>3, <2>1, FreedTake
  <2> QED
    BY <1>3, <2>2 DEF Waits
<1>5. /\ QOK(b, {t}) /\ SameRest(a, b) /\ SameWhere(a, b) /\ b.pri = a.pri /\ b.cvMutex = a.cvMutex
      /\ b.phase[m] # "deleted"
  BY <1>1, FreedMutex
<1>6. [w EXCEPT !.waitCount[m] = @ - 1] = b
  <2>1. w.waitCount[m] \in Nat
    BY <1>4, FQTypes DEF CntT
  <2>2. w.waitCount[m] - 1 = w.waitCount[m] + (0 - 1)
    BY <2>1
  <2> QED
    BY <1>1, <2>2 DEF WcAdd
<1>7. v = IF Resetting(a, m) THEN GoIdle(w, t, "KErrGeneral")
          ELSE IF a.holder[m] # Null THEN Settle(WaitForMutex(b, t, m, 0)) ELSE Offer(w, m, t)
  <2> DEFINE x == [a EXCEPT !.suspQ[m] = Without(@, t), !.waitCount[m] = @ - 1]
  <2>1. x = b
    BY <1>2, <1>6
  <2>2. v = IF Resetting(a, m) THEN GoIdle(w, t, "KErrGeneral")
            ELSE IF a.holder[m] # Null THEN Settle(WaitForMutex(x, t, m, 0))
            ELSE ThreadRelease([x EXCEPT !.mstate[t] = "EHoldMutexPending", !.pendQ[m] = Append(@, t)],
                               t, "KErrNone")
    BY <1>2 DEF MutexResumeWaiting, GoIdle
  <2>3. x = [a EXCEPT !.suspQ[m] = Without(@, t), !.waitCount[m] = @ - 1]
    OBVIOUS
  <2> HIDE DEF x
  <2>4. Rec(a)
    BY DEF Freed, OwnStep
  <2>5. ThreadRelease([x EXCEPT !.mstate[t] = "EHoldMutexPending", !.pendQ[m] = Append(@, t)], t, "KErrNone")
           = Offer(w, m, t)
    BY <1>1, <2>3, <2>4, OfferSwap
  <2> QED
    BY <2>1, <2>2, <2>5
<1>8. CASE Resetting(a, m)
  <2>1. QOK(w, {t})
    <3>1. w.phase[m] = "resetting"
      BY <1>4, <1>8 DEF Resetting
    <3>2. FQ(w, {} \cup {t}, m, 0)
      BY <1>3, <1>4, <3>1, FluxResets
    <3>3. {} \cup {t} = {t}
      OBVIOUS
    <3> QED
      BY <3>2, <3>3, FluxNone
  <2>2. r.mstate[t] \in OnSuspQ /\ "KErrGeneral" \in Rets
    BY DEF Waits, OnSuspQ, Rets
  <2>3. w.cvMutex = a.cvMutex
    BY <1>4 DEF SameCnt
  <2> QED
    BY <1>4, <1>7, <1>8, <2>1, <2>2, <2>3, FreedIdle
<1>9. CASE ~Resetting(a, m) /\ a.holder[m] # Null
  <2>1. Held(b, m)
    <3>1. b.phase[m] = a.phase[m] /\ b.holder[m] = a.holder[m]
      BY <1>5 DEF SameRest, SameCtl
    <3>2. b.phase[m] \in {"live", "resetting", "deleted"}
      <4>1. CtlT(b)
        BY <1>5 DEF QOK
      <4> QED
        BY <1>3, <4>1 DEF CtlT, Phases
    <3> QED
      BY <1>5, <1>9, <3>1, <3>2 DEF Held, Resetting
  <2> QED
    BY <1>5, <1>7, <1>9, <2>1, MutexResumesHeld
<1>10. CASE ~Resetting(a, m) /\ ~(a.holder[m] # Null)
  <2>1. v = Offer(w, m, t)
    BY <1>7, <1>10
  <2> QED
    BY <1>4, <2>1, MutexResumesFree
<1> QED
  BY <1>8, <1>9, <1>10

\* What a thread on no queue waits for changes.
SetState(r, t, ms) == [r EXCEPT !.mstate[t] = ms]
\* SetState changes an M-state.
LEMMA SetStateFlux ==
    ASSUME NEW r, NEW X, NEW y, NEW d, FQ(r, X, y, d), NEW t \in Thread, t \in X, NEW ms \in MState,
           NEW s, s = SetState(r, t, ms)
    PROVE  /\ FQ(s, X, y, d) /\ SameRest(r, s) /\ SameCnt(r, s) /\ s.pri = r.pri
           /\ Lands(r, s, t, ms, r.waitObj[t]) /\ s.waitObj = r.waitObj
<1>0. /\ Rec(r) /\ RQ(r, X) /\ r.mstate \in [Thread -> MState]
      /\ r.waitObj \in [Thread -> Obj \cup {Null}]
  BY FQTypes
<1>1. /\ DOMAIN s = Fields /\ SameRest(r, s) /\ s.waitObj = r.waitObj /\ SameCnt(r, s)
      /\ SameQ(r, s)
      /\ s.pri = r.pri /\ s.mstate = [r.mstate EXCEPT ![t] = ms]
  BY <1>0, SMT DEF Rec, Fields, SetState, SameRest, SameCtl, SameRun, SameCnt, SameQ
<1>2. s = [f \in DOMAIN s |-> s[f]]
  BY SMT DEF SetState
<1>3. Rec(s)
  BY <1>1, <1>2 DEF Rec
<1>4. Kept(r, s)
  BY <1>1, <1>3, SameRestKept
<1>5. Lands(r, s, t, ms, r.waitObj[t])
  BY <1>0, <1>1 DEF Lands, But
<1>6. RQ(s, X)
  BY <1>0, <1>1, <1>5, RFlux
<1>7. CtlT(s) /\ CntT(s)
  BY <1>1, <1>4, KeptT
<1>8. ASSUME NEW x \in Obj, NEW e, CountAt(r, x, e) PROVE CountAt(s, x, e)
  <2>1. SameAt(r, s, x)
    BY <1>1 DEF SameAt, SameQ, SameCnt, SameRest, SameCtl
  <2> QED
    BY <1>8, <2>1, SameCounts
<1> QED
  BY <1>1, <1>4, <1>5, <1>6, <1>7, <1>8 DEF FQ, Kept

-----------------------------------------------------------------------------
\* A thread that waited for condition variable c goes to look at its mutex, on behalf of u.
LEMMA CondFreed ==
    ASSUME NEW r, World(r, {}), NEW t \in Thread, NEW a, Freed(r, a, t), NEW c \in Cond,
           Waits(r, t, c, "EWaitCondVarSuspended"), NEW u \in Thread, u # t, r.mstate[u] = "EReady",
           NEW b, b = SetState(SuspRemove(a, c, t), t, "EWaitCondVar")
    PROVE  /\ Signals(b, u, t, c) /\ SameReq(r, b) /\ ThreadOK(b, u) /\ b.mstate[u] = "EReady"
<1> DEFINE w == SuspRemove(a, c, t)
<1>1. w = SuspRemove(a, c, t)
  OBVIOUS
<1>2. b = SetState(w, t, "EWaitCondVar")
  OBVIOUS
<1> HIDE DEF w
<1>3. c \in Obj /\ SuspCounts(c) = 1 /\ SuspState[c] = "EWaitCondVarSuspended"
  BY WaitStates, SyncAssumption DEF Obj, SuspCounts
<1>4. /\ FQ(w, {t}, c, 1) /\ SameRest(a, w) /\ SameWhere(a, w) /\ SameCnt(a, w)
      /\ w.pri = a.pri /\ w.phase[c] # "deleted"
      /\ a.mstate = r.mstate /\ a.waitObj = r.waitObj
  <2>1. Waits(r, t, c, SuspState[c])
    BY <1>3
  <2>2. /\ FQ(w, {} \cup {t}, c, SuspCounts(c)) /\ SameRest(a, w) /\ SameWhere(a, w)
        /\ SameCnt(a, w)
        /\ w.pri = a.pri /\ w.phase[c] # "deleted" /\ w.phase[c] = a.phase[c]
        /\ a.mstate = r.mstate /\ a.waitObj = r.waitObj /\ a.phase = r.phase /\ Rec(a) /\ CntT(a)
    <3>1. c \in Obj
      BY <1>3
    <3> QED
      BY <1>1, <2>1, <3>1, FreedTake
  <2>3. {} \cup {t} = {t}
    OBVIOUS
  <2> QED
    BY <1>3, <2>2, <2>3
<1>5. "EWaitCondVar" \in MState /\ t \in {t}
  BY DEF MState
<1>6. /\ FQ(b, {t}, c, 1) /\ SameRest(w, b) /\ SameCnt(w, b) /\ b.pri = w.pri
      /\ Lands(w, b, t, "EWaitCondVar", w.waitObj[t]) /\ b.waitObj = w.waitObj
  BY <1>2, <1>4, <1>5, SetStateFlux
<1>7. /\ SameRest(a, b) /\ b.pri = a.pri /\ b.cvMutex = a.cvMutex /\ b.waitObj = r.waitObj
      /\ b.mstate[t] = "EWaitCondVar" /\ b.waitObj[t] = c /\ b.phase[c] # "deleted"
  BY <1>4, <1>6 DEF SameRest, SameCtl, SameRun, SameWhere, SameCnt, Lands, Waits
<1>8. But(a.mstate, b.mstate, t) /\ But(a.waitObj, b.waitObj, t) /\ But(a.pri, b.pri, t)
  BY <1>4, <1>6 DEF Lands, But, SameWhere
<1>9. World(a, {t}) /\ SameK(r, a) /\ SameReq(r, a) /\ ThreadOK(r, t) /\ ~r.cs[t]
  BY DEF Freed, OwnStep
<1>10. \A x \in Thread \ {t} : SameWait(a, b, x) /\ ThreadOK(b, x)
  <2> SUFFICES ASSUME NEW x \in Thread \ {t} PROVE SameWait(a, b, x) /\ ThreadOK(b, x)
    OBVIOUS
  <2>1. SamePlace(a, b, x)
    BY <1>7, CtlPlace DEF SameRest
  <2>2. SameWait(a, b, x)
    BY <1>7, <1>8 DEF SameWait, SameRest, SameRun, But
  <2>3. Agree(a, b, x)
    BY <1>7, <2>1, <2>2 DEF Agree, SameCv
  <2> QED
    BY <1>9, <2>2, <2>3, ThreadAgrees DEF World
<1>11. ThreadOK(b, t)
  <2>1. SameSeat(r, b, t) /\ ~(b.susp[t] > 0)
    BY <1>7, FreedSeat DEF SameRest
  <2>2. PICK x : SetSuspTo(r, a, t, x)
    BY DEF Freed
  <2>3. b.blocked[t] = r.blocked[t] /\ b.timed[t] = r.timed[t] /\ b.ret[t] = r.ret[t]
    BY <1>7, <2>2 DEF SetSuspTo, SameRest, SameRun
  <2>4. b.cvMutex = r.cvMutex
    BY <1>7, <1>9 DEF SameK, SameCnt
  <2>5. Goes(r, b, t)
    BY <1>7, <2>3, <2>4 DEF Goes, Started, Waits
  <2> QED
    BY <1>9, <2>1, <2>5, GoesOK
<1>12. HoldOK(b) /\ OneResets(b)
  BY <1>7, <1>9 DEF World, HoldOK, OneResets, SameRest, SameCtl
<1>13. IdleOff(b, Null) /\ HighOff(b, Null)
  <2>1. IdleOff(a, Null) /\ HighOff(a, Null)
    BY <1>9, IdleAll, HighAll DEF World
  <2>2. /\ b.holder = a.holder /\ b.phase = a.phase /\ b.clnPri = a.clnPri /\ b.susp = a.susp
    BY <1>7 DEF SameRest, SameCtl
  <2>3. \A m \in Mutex : ~Pends(a, t, m) /\ ~MWaits(b, t, m) /\ ~MWaits(a, t, m)
    BY <1>4, <1>7 DEF Pends, MWaits, Waits
  <2>4. IdleOff(b, Null)
    BY <1>8, <2>1, <2>2, <2>3, IdleFrame DEF Free
  <2>5. HighOff(b, Null)
    BY <1>8, <2>1, <2>2, <2>3, HighFrame DEF Held
  <2> QED
    BY <2>4, <2>5
<1>14. b.mstate[u] = "EReady" /\ ThreadOK(b, u)
  BY <1>4, <1>8, <1>10 DEF But
<1>15. \A x \in Thread \ {u} : ThreadOK(b, x)
  BY <1>10, <1>11
<1>16. SameReq(r, b)
  BY <1>7, <1>9 DEF SameReq, SameRest, SameCtl
<1> QED
  BY <1>6, <1>7, <1>12, <1>13, <1>14, <1>15, <1>16 DEF Signals

\* DCondVar::ResumeWaitingThread
LEMMA CondResumes ==
    ASSUME NEW r, World(r, {}), NEW t \in Thread, NEW a, Freed(r, a, t), NEW c \in Cond,
           Waits(r, t, c, "EWaitCondVarSuspended"), NEW u \in Thread, u # t, r.mstate[u] = "EReady",
           NEW v, v = CondResumeWaiting(a, c, t)
    PROVE  World(v, {}) /\ Steady(r, v)
<1> DEFINE b == SetState(SuspRemove(a, c, t), t, "EWaitCondVar")
<1>1. v = Settle(UnBlockThread(b, c, t))
  BY DEF CondResumeWaiting, SetState, SuspRemove
<1>2. b = SetState(SuspRemove(a, c, t), t, "EWaitCondVar")
  OBVIOUS
<1> HIDE DEF b
<1>3. Signals(b, u, t, c) /\ SameReq(r, b) /\ ThreadOK(b, u) /\ b.mstate[u] = "EReady"
  BY <1>2, CondFreed
<1>4. World(v, {u}) /\ Nudged(b, v, u)
  BY <1>1, <1>3, UnblockWorld
<1>5. ThreadOK(v, u)
  <2>1. SamePlace(b, v, u) /\ SameWait(b, v, u)
    BY <1>4, CtlPlace DEF Nudged
  <2>2. SameCv(b, v, u)
    BY <1>3 DEF SameCv, CondWaits
  <2> QED
    BY <1>3, <2>1, <2>2, ThreadAgrees DEF Agree
<1>6. Steady(r, v)
  <2>1. v.fault = r.fault
    BY <1>3, <1>4 DEF Nudged, SameReq
  <2>2. ReqBut(r, {}) => ReqBut(b, {})
    BY <1>3 DEF SameReq, ReqBut, IsReq
  <2> QED
    BY <1>4, <2>1, <2>2 DEF Nudged, Steady
<1> QED
  BY <1>4, <1>5, <1>6, WorldAll

-----------------------------------------------------------------------------
\* The end of DThread::Resume.
LEMMA ResumeWaitWorld ==
    ASSUME NEW r, World(r, {}), NEW t \in Thread, NEW a, Freed(r, a, t), NEW u \in Thread, u # t,
           r.mstate[u] = "EReady", NEW v, v = ResumeWait(a, t)
    PROVE  World(v, {}) /\ Steady(r, v)
<1> DEFINE o == a.waitObj[t]
           ms == a.mstate[t]
<1>1. SameK(r, a) /\ SameReq(r, a) /\ World(a, {t}) /\ ThreadOK(r, t) /\ ~r.cs[t]
  BY DEF Freed, OwnStep
<1>2. o = r.waitObj[t] /\ ms = r.mstate[t] /\ a.cvMutex = r.cvMutex
  BY <1>1 DEF SameK, SameWhere, SameCnt
<1>3. /\ ms \in SemWaits => o \in Sem
      /\ ms \in MutexWaits => o \in Mutex
      /\ ms \in CondWaits => o \in Cond
  BY <1>1, <1>2 DEF ThreadOK, WaitOK
<1>4. o = a.waitObj[t] /\ ms = a.mstate[t]
  OBVIOUS
<1> HIDE DEF o, ms
<1>5. CASE ms = "EWaitSemaphoreSuspended"
  <2>1. v = SemResumeWaiting(a, o, t) /\ o \in Sem /\ Waits(r, t, o, "EWaitSemaphoreSuspended")
    BY <1>2, <1>3, <1>4, <1>5 DEF ResumeWait, SemWaits, Waits
  <2> QED
    BY <2>1, SemResumes
<1>6. CASE ms = "EWaitMutexSuspended"
  <2>1. v = MutexResumeWaiting(a, o, t) /\ o \in Mutex /\ Waits(r, t, o, "EWaitMutexSuspended")
    BY <1>2, <1>3, <1>4, <1>6 DEF ResumeWait, MutexWaits, Waits
  <2> QED
    BY <2>1, MutexResumes
<1>7. CASE ms = "EWaitCondVarSuspended"
  <2>1. v = CondResumeWaiting(a, o, t) /\ o \in Cond /\ Waits(r, t, o, "EWaitCondVarSuspended")
    BY <1>2, <1>3, <1>4, <1>7 DEF ResumeWait, CondWaits, Waits
  <2> QED
    BY <2>1, CondResumes
<1>8. CASE ms \notin OnSuspQ
  <2>1. v = a
    BY <1>4, <1>8 DEF ResumeWait, OnSuspQ
  <2>2. SameCtl(a, a)
    BY DEF SameCtl
  <2>3. SameSeat(r, a, t) /\ ~(a.susp[t] > 0)
    BY <2>2, FreedSeat
  <2>4. Goes(r, a, t)
    <3>1. PICK x : SetSuspTo(r, a, t, x)
      BY DEF Freed
    <3> QED
      BY <1>2, <1>4, <1>8, <3>1 DEF SetSuspTo, Goes, Started
  <2>5. ThreadOK(a, t)
    BY <1>1, <2>3, <2>4, GoesOK
  <2> QED
    BY <1>1, <2>1, <2>5, WorldAll, SteadySame
<1> QED
  BY <1>5, <1>6, <1>7, <1>8 DEF OnSuspQ

\* DThread::Resume, of a thread by another.
LEMMA ResumesFine ==
    ASSUME World(k, {}), NEW u \in Thread, NEW t \in Thread, Resumes(u, t)
    PROVE  World(k', {}) /\ Steady(k, k')
<1>1. At(u, "run") /\ u # t /\ k' = Resume(k, t)
  BY DEF Resumes
<1>2. k.csFunction[t] \in Int /\ k.susp[t] \in Nat
  BY WorldTypes DEF CtlT
<1>3. SameReq(k, k)
  BY DEF SameReq
<1>4. k.mstate[u] = "EReady" /\ ThreadOK(k, t)
  BY <1>1, AtRun DEF Mine, World
<1>5. CASE k.cs[t]
  <2>1. CASE k.csFunction[t] > 0
    <3>1. k' = SetCsf(k, t, k.csFunction[t] - 1)
      BY <1>1, <1>5, <2>1 DEF Resume, SetCsf
    <3>2. k.csFunction[t] - 1 \in Int /\ k.csFunction[t] - 1 >= -1 /\ k.csFunction[t] >= 0
      BY <1>2, <2>1
    <3>3. World(k', {}) /\ SameK(k, k') /\ k'.fault = k.fault
      BY <1>5, <3>1, <3>2, CsfWorld
    <3> QED
      BY <3>3, SteadyK
  <2>2. CASE ~(k.csFunction[t] > 0)
    <3>1. k' = k
      BY <1>1, <1>5, <2>2 DEF Resume
    <3> QED
      BY <1>3, <3>1, SteadySame
  <2> QED
    BY <2>1, <2>2
<1>6. CASE ~k.cs[t] /\ k.susp[t] = 0
  <2>1. k' = k
    BY <1>1, <1>6 DEF Resume
  <2> QED
    BY <1>3, <2>1, SteadySame
<1>7. CASE ~k.cs[t] /\ k.susp[t] # 0
  <2> DEFINE n == k.susp[t] - 1
             a == SetSusp(k, t, n)
  <2>1. n \in Nat /\ k.susp[t] > 0
    BY <1>2, <1>7
  <2>2. a = SetSusp(k, t, n)
    OBVIOUS
  <2>3. k' = IF a.susp[t] = 0 THEN ResumeWait(a, t) ELSE a
    BY <1>1, <1>7 DEF Resume, SetSusp
  <2> HIDE DEF a, n
  <2>4. /\ World(a, {t}) /\ SetSuspTo(k, a, t, n) /\ OwnStep(k, a, t) /\ SameReq(k, a)
        /\ a.susp[t] = n
    BY <1>7, <2>1, <2>2, SuspOff
  <2>5. CASE n = 0
    <3>1. k' = ResumeWait(a, t)
      BY <2>3, <2>4, <2>5
    <3>2. Freed(k, a, t)
      BY <1>4, <1>7, <2>1, <2>4, <2>5 DEF Freed
    <3> QED
      BY <1>1, <1>4, <3>1, <3>2, ResumeWaitWorld
  <2>6. CASE n # 0
    <3>1. k' = a
      BY <2>3, <2>4, <2>6
    <3>2. SuspOK(k, t) /\ a.susp[t] > 0
      BY <1>4, <2>1, <2>4, <2>6 DEF ThreadOK
    <3>3. SameK(k, a)
      BY <2>4 DEF OwnStep
    <3>4. Stopped(k.mstate[t], a.mstate[t])
      BY <2>1, <3>2, <3>3 DEF Stopped, SuspOK, SameK, SameWhere
    <3>5. Stops(k, a, t)
      BY <2>4, <3>2, <3>3, <3>4 DEF Stops, SetSuspTo, SameK, SameWhere, SameCnt
    <3>6. ThreadOK(a, t)
      BY <1>4, <1>7, <3>5, StopsOK
    <3> QED
      BY <2>4, <3>1, <3>6, WorldAll, SteadySame
  <2> QED
    BY <2>5, <2>6
<1> QED
  BY <1>5, <1>6, <1>7

\* The initial state.
LEMMA InitFields ==
    ASSUME Init
    PROVE  /\ Rec(k) /\ CtlT(k) /\ RunT(k) /\ CntT(k) /\ k.pri = k.defPri /\ ~k.fault
           /\ \A t \in Thread : /\ k.mstate[t] = "EReady" /\ k.waitObj[t] = Null /\ k.cleanupQ[t] = {}
                                /\ ~k.blocked[t] /\ k.susp[t] = 0 /\ ~k.cs[t] /\ k.csFunction[t] = 0
                                /\ k.pc[t] = "run" /\ k.cond[t] = Null
           /\ \A o \in Obj : k.waitQ[o] = <<>> /\ k.suspQ[o] = <<>> /\ k.phase[o] = "live"
           /\ \A m \in Mutex : k.pendQ[m] = <<>> /\ k.holder[m] = Null
           /\ \A o \in Mutex \cup Cond : k.waitCount[o] = 0
           /\ \A s \in Sem : k.count[s] = 0
           /\ \A c \in Cond : k.cvMutex[c] = Null
           /\ k.mstate = [t \in Thread |-> "EReady"] /\ k.waitObj = [t \in Thread |-> Null]
           /\ k.waitQ = [o \in Obj |-> <<>>] /\ k.suspQ = [o \in Obj |-> <<>>]
           /\ k.pendQ = [m \in Mutex |-> <<>>] /\ k.pri = InitPri
<1>a. DOMAIN k = Fields
  BY SMT DEF Init, Fields
<1>b. k = [f \in DOMAIN k |-> k[f]]
  BY ZenonT(60) DEF Init
<1>1. Rec(k)
  BY <1>a, <1>b DEF Rec
<1>2. /\ k.mstate = [t \in Thread |-> "EReady"] /\ k.waitObj = [t \in Thread |-> Null]
      /\ k.waitQ = [o \in Obj |-> <<>>] /\ k.suspQ = [o \in Obj |-> <<>>]
      /\ k.pendQ = [m \in Mutex |-> <<>>] /\ k.pri = InitPri /\ k.defPri = InitPri
      /\ k.fault = FALSE
  BY SMT DEF Init
<1>3. /\ k.cleanupQ = [t \in Thread |-> {}] /\ k.blocked = [t \in Thread |-> FALSE]
      /\ k.timed = [t \in Thread |-> FALSE] /\ k.susp = [t \in Thread |-> 0]
      /\ k.cs = [t \in Thread |-> FALSE] /\ k.csFunction = [t \in Thread |-> 0]
      /\ k.ret = [t \in Thread |-> "KErrNone"] /\ k.pc = [t \in Thread |-> "run"]
      /\ k.obj = [t \in Thread |-> Null] /\ k.cond = [t \in Thread |-> Null]
      /\ k.todo = [t \in Thread |-> 0]
  BY SMT DEF Init
<1>4. /\ k.phase = [o \in Obj |-> "live"] /\ k.holder = [m \in Mutex |-> Null]
      /\ k.clnPri = [m \in Mutex |-> 0] /\ k.holdCount = [m \in Mutex |-> 0]
      /\ k.waitCount = [o \in Mutex \cup Cond |-> 0] /\ k.count = [s \in Sem |-> 0]
      /\ k.cvMutex = [c \in Cond |-> Null]
  BY SMT DEF Init
<1>5. InitPri \in [Thread -> Pri]
  BY SyncAssumption
<1>6. CtlT(k)
  BY <1>2, <1>3, <1>4, <1>5 DEF CtlT, Cont, Phases
<1>7. RunT(k)
  <2>1. /\ k.blocked \in [Thread -> BOOLEAN] /\ k.timed \in [Thread -> BOOLEAN]
        /\ k.ret \in [Thread -> Rets] /\ k.fault \in BOOLEAN
    <3>1. k.blocked \in [Thread -> BOOLEAN]
      BY <1>3, Zenon
    <3>2. k.timed \in [Thread -> BOOLEAN]
      BY <1>3, Zenon
    <3>3. k.ret \in [Thread -> Rets]
      BY <1>3 DEF Rets
    <3>4. k.fault \in BOOLEAN
      BY <1>2, Zenon
    <3> QED
      BY <3>1, <3>2, <3>3, <3>4
  <2>2. k.clnPri \in [Mutex -> Pri \cup {0}]
    BY <1>4
  <2> QED
    BY <2>1, <2>2 DEF RunT
<1>8. CntT(k)
  BY <1>4 DEF CntT
<1> QED
  BY <1>1, <1>2, <1>3, <1>4, <1>6, <1>7, <1>8

\* At first all queues are empty.
LEMMA InitQueues ==
    ASSUME Init
    PROVE  QOK(k, {})
<1>1. Mutex \subseteq Obj /\ Sem \subseteq Obj /\ Cond \subseteq Obj /\ Null \notin Obj
  BY SyncAssumption DEF Obj
<1>2. \A o \in Obj : WaitState[o] # "EReady" /\ SuspState[o] # "EReady"
  BY DEF WaitState, SuspState
<1>3. <<>> \in Seq(Thread) /\ Inj(<<>>) /\ Len(<<>>) = 0 /\ DOMAIN <<>> = {}
  BY DEF Inj
<1>4. Range(<<>>) = {}
  BY DEF Range
<1>5. QTypes(k.mstate, k.waitObj, k.waitQ, k.suspQ, k.pendQ)
  BY InitFields, <1>3 DEF QTypes, MState
<1>6. /\ OnW(k.mstate, k.waitObj, k.waitQ, {}) /\ OnS(k.mstate, k.waitObj, k.suspQ, {})
      /\ OnP(k.mstate, k.waitObj, k.pendQ, {})
  BY InitFields, <1>2, <1>3, <1>4 DEF OnW, OnS, OnP
<1>7. k.pri \in [Thread -> Pri]
  BY InitFields DEF CtlT
<1>8. \A o \in Obj : Down(k.waitQ[o], k.pri)
  BY InitFields, <1>3 DEF Down
<1>9. RQ(k, {})
  BY <1>5, <1>6, <1>7, <1>8 DEF RQ, QS, Placed
<1>10. ASSUME NEW o \in Obj PROVE CountAt(k, o, 0)
  <2>1. Len(k.waitQ[o]) = 0 /\ Len(k.suspQ[o]) = 0 /\ k.phase[o] = "live"
    BY InitFields, <1>3
  <2>2. /\ o \in Mutex \cup Cond => k.waitCount[o] = 0
        /\ o \in Sem => k.count[o] = 0
        /\ o \in Cond => k.cvMutex[o] = Null
    BY InitFields
  <2> QED
    BY <2>1, <2>2 DEF CountAt, Tally, SemTally
<1> QED
  BY InitFields, <1>9, <1>10 DEF QOK

\* Nobody waits, nothing is held.
LEMMA InitFine ==
    ASSUME Init
    PROVE  World(k, {}) /\ ReqBut(k, {}) /\ ~k.fault
<1>1. Mutex \subseteq Obj /\ Null \notin Thread
  BY SyncAssumption DEF Obj
<1>2. ASSUME NEW t \in Thread PROVE ThreadOK(k, t)
  <2>1. /\ k.mstate[t] = "EReady" /\ k.waitObj[t] = Null /\ ~k.blocked[t] /\ k.susp[t] = 0
        /\ ~k.cs[t] /\ k.csFunction[t] = 0 /\ k.pc[t] = "run" /\ k.cond[t] = Null
    BY InitFields
  <2>2. WaitOK(k, t)
    BY <2>1 DEF WaitOK, SemWaits, MutexWaits, CondWaits
  <2>3. SuspOK(k, t)
    BY <2>1 DEF SuspOK, OnSuspQ
  <2>4. PcOK(k, t)
    BY <2>1 DEF PcOK, SemWaits, OnWaitQ, OnSuspQ
  <2> QED
    BY <2>2, <2>3, <2>4 DEF ThreadOK
<1>3. HoldOK(k) /\ OneResets(k)
  BY InitFields, <1>1 DEF HoldOK, OneResets
<1>4. NoIdle(k, {}) /\ HighBut(k, {}, Null, 0)
  BY InitFields DEF NoIdle, HighBut, Free, MWaits, Held
<1>5. ReqBut(k, {})
  <2> SUFFICES ASSUME NEW t \in Thread PROVE IsReq(k, t, k.pri[t])
    BY DEF ReqBut
  <2>1. k.cleanupQ[t] = {} /\ k.pri[t] = k.defPri[t] /\ k.defPri[t] \in Pri
    BY InitFields DEF CtlT
  <2>2. k.defPri[t] \in Int
    BY <2>1, PriNat
  <2> QED
    BY <2>1, <2>2 DEF IsReq
<1> QED
  BY InitFields, InitQueues, <1>2, <1>3, <1>4, <1>5 DEF World

-----------------------------------------------------------------------------
\* The calls a running thread makes.
LEMMA CallFine ==
    ASSUME World(k, {}), NEW t \in Thread, Call(t)
    PROVE  World(k', {}) /\ Steady(k, k')
<1>1. ASSUME NEW m \in Mutex, MutexWait(t, m) \/ MutexPoll(t, m) \/ MutexSignals(t, m)
      PROVE  World(k', {}) /\ Steady(k, k')
  BY <1>1, MutexWaitFine, MutexPollFine, MutexSignalsFine
<1>2. ASSUME NEW s \in Sem,
             SemWait(t, s) \/ SemPoll(t, s) \/ SemSignals(t, s) \/ SemSignalN(t, s, 2)
      PROVE  World(k', {}) /\ Steady(k, k')
  BY <1>2, SemWaitFine, SemPollFine, SemSignalsFine, SemSignalNFine
<1>3. ASSUME NEW c \in Cond,
             CondSignals(t, c) \/ CondBroadcast(t, c) \/ \E m \in Mutex : CondWait(t, c, m)
      PROVE  World(k', {}) /\ Steady(k, k')
  BY <1>3, CondSignalsFine, CondBroadcastFine, CondWaitFine
<1> QED
  BY <1>1, <1>2, <1>3 DEF Call

\* What every step does to the assertions, and those to the priorities that are
\* not at the end of a reset.
Firm(r, s) ==
    /\ Ranked(r, Cardinality(Thread)) => (s.fault => r.fault)
    /\ ResetHoldersRun => Steady(r, s)

\* The calls that go on.
LEMMA GoesOnFine ==
    ASSUME World(k, {}), NEW t \in Thread, GoesOn(t)
    PROVE  World(k', {}) /\ Firm(k, k')
<1>0. Steady(k, k') => Firm(k, k')
  BY DEF Steady, Firm
<1>1. CASE MutexWaitReturns(t) \/ SemSignalNGoesOn(t)
  BY <1>0, <1>1, MutexWaitReturnsFine, SemSignalNGoesOnFine
<1>2. CASE CondWindow(t) \/ CondWaitReturns(t) \/ BroadcastStep(t)
  BY <1>0, <1>2, CondWindowFine, CondWaitReturnsFine, BroadcastStepFine
<1>3. CASE ExitReleasesWait(t) \/ ExitEnds(t)
  BY <1>0, <1>3, ExitReleasesWaitFine, ExitEndsFine
<1>4. CASE \E m \in Mutex : ExitCleansUp(t, m)
  BY <1>0, <1>4, ExitCleansUpFine
<1>5. CASE ResetStep(t)
  BY <1>5, ResetStepFine DEF Firm
<1> QED
  BY <1>1, <1>2, <1>3, <1>4, <1>5 DEF GoesOn

\* What is done to threads: suspend, resume, kill, priority, timeout.
LEMMA ControlFine ==
    ASSUME World(k, {}), Control
    PROVE  World(k', {}) /\ Steady(k, k')
<1>1. ASSUME NEW p \in Suspenders, Suspends(p[1], p[2]) \/ Resumes(p[1], p[2])
      PROVE  World(k', {}) /\ Steady(k, k')
  <2>1. p[1] \in Thread /\ p[2] \in Thread
    BY KThreadAssumption
  <2> QED
    BY <1>1, <2>1, SuspendsFine, ResumesFine
<1>2. ASSUME NEW p \in Killers, Kills(p[1], p[2])
      PROVE  World(k', {}) /\ Steady(k, k')
  <2>1. p[1] \in Thread /\ p[2] \in Thread
    BY KThreadAssumption
  <2> QED
    BY <1>2, <2>1, KillsFine
<1>3. ASSUME NEW p \in Repriorities, SetsPriority(p[1], p[2])
      PROVE  World(k', {}) /\ Steady(k, k')
  <2>1. p[1] \in Thread /\ p[2] \in Pri
    BY KThreadAssumption
  <2> QED
    BY <1>3, <2>1, SetsPriorityFine
<1>4. ASSUME NEW p \in Deleters, Delete(p[1], p[2])
      PROVE  World(k', {}) /\ Steady(k, k')
  <2>1. p[1] \in Thread /\ p[2] \in Obj
    BY KThreadAssumption
  <2> QED
    BY <1>4, <2>1, DeleteFine
<1>5. ASSUME NEW t \in Exiters \cup CSUsers, ExitSelf(t) \/ EntersCS(t) \/ LeavesCS(t)
      PROVE  World(k', {}) /\ Steady(k, k')
  <2>1. t \in Thread
    BY KThreadAssumption
  <2> QED
    BY <1>5, <2>1, ExitSelfFine, EntersCSFine, LeavesCSFine
<1>6. ASSUME NEW t \in Thread, Timeout(t)
      PROVE  World(k', {}) /\ Steady(k, k')
  BY <1>6, TimeoutFine
<1> QED
  BY <1>1, <1>2, <1>3, <1>4, <1>5, <1>6 DEF Control

\* Every step keeps the invariant and is firm.
LEMMA NextFine ==
    ASSUME World(k, {}), [Next]_k
    PROVE  World(k', {}) /\ Firm(k, k')
<1>0. Steady(k, k') => Firm(k, k')
  BY DEF Steady, Firm
<1>1. CASE Next
  BY <1>0, <1>1, CallFine, GoesOnFine, ControlFine DEF Next
<1>2. CASE k' = k
  BY <1>0, <1>2 DEF Steady
<1> QED
  BY <1>1, <1>2

\* The invariant gives the types.
LEMMA WorldKState ==
    ASSUME World(k, {})
    PROVE  k \in KState
<1>1. Rec(k) /\ CtlT(k) /\ RunT(k) /\ CntT(k) /\ RQ(k, {})
  BY DEF World, QOK
<1>2. /\ k.mstate \in [Thread -> MState] /\ k.waitObj \in [Thread -> Obj \cup {Null}]
      /\ k.pri \in [Thread -> Pri] /\ k.waitQ \in [Obj -> Seq(Thread)]
      /\ k.suspQ \in [Obj -> Seq(Thread)] /\ k.pendQ \in [Mutex -> Seq(Thread)]
  BY <1>1 DEF RQ, QS, Placed, QTypes
<1>3. /\ k.defPri \in [Thread -> Pri] /\ k.cleanupQ \in [Thread -> SUBSET Mutex]
      /\ k.susp \in [Thread -> Nat] /\ k.cs \in [Thread -> BOOLEAN]
      /\ k.csFunction \in [Thread -> Int] /\ k.pc \in [Thread -> Cont]
      /\ k.obj \in [Thread -> Obj \cup {Null}] /\ k.cond \in [Thread -> Cond \cup {Null}]
      /\ k.todo \in [Thread -> Nat] /\ k.phase \in [Obj -> {"live", "resetting", "deleted"}]
      /\ k.holder \in [Mutex -> Thread \cup {Null}] /\ k.holdCount \in [Mutex -> Nat]
  BY <1>1 DEF CtlT, Phases
<1>4. /\ k.blocked \in [Thread -> BOOLEAN] /\ k.timed \in [Thread -> BOOLEAN]
      /\ k.ret \in [Thread -> {"KErrNone", "KErrTimedOut", "KErrGeneral", "KErrDied"}]
      /\ k.fault \in BOOLEAN /\ k.clnPri \in [Mutex -> Pri \cup {0}]
      /\ k.waitCount \in [Mutex \cup Cond -> Nat] /\ k.count \in [Sem -> Int]
      /\ k.cvMutex \in [Cond -> Mutex \cup {Null}]
  BY <1>1 DEF RunT, CntT, Rets
<1>5. DOMAIN k = Fields /\ k = [f \in DOMAIN k |-> k[f]]
  BY <1>1 DEF Rec
<1> QED
  BY <1>2, <1>3, <1>4, <1>5, SMTT(60) DEF KState, Fields

\* It gives the agreement of queues and M-states.
LEMMA WorldQueues ==
    ASSUME World(k, {})
    PROVE  QueuesAgree
<1>1. RQ(k, {})
  BY DEF World, QOK
<1>2. /\ k.waitQ \in [Obj -> Seq(Thread)] /\ k.suspQ \in [Obj -> Seq(Thread)]
      /\ k.pendQ \in [Mutex -> Seq(Thread)]
      /\ OnW(k.mstate, k.waitObj, k.waitQ, {}) /\ OnS(k.mstate, k.waitObj, k.suspQ, {})
      /\ OnP(k.mstate, k.waitObj, k.pendQ, {})
      /\ \A o \in Obj : Down(k.waitQ[o], k.pri)
  BY <1>1 DEF RQ, QS, Placed, QTypes
<1> SUFFICES ASSUME NEW o \in Obj
             PROVE  /\ Inj(k.waitQ[o]) /\ Inj(k.suspQ[o])
                    /\ Waiters(o) = {t \in Thread : k.waitObj[t] = o /\ k.mstate[t] = WaitState[o]}
                    /\ Suspended(o) = {t \in Thread : k.waitObj[t] = o /\ k.mstate[t] = SuspState[o]}
                    /\ o \in Mutex =>
                          /\ Inj(k.pendQ[o])
                          /\ Pending(o) = {t \in Thread : /\ k.waitObj[t] = o
                                                          /\ k.mstate[t] = "EHoldMutexPending"}
                    /\ \A i, j \in DOMAIN k.waitQ[o] :
                          i < j => k.pri[k.waitQ[o][i]] >= k.pri[k.waitQ[o][j]]
  BY DEF QueuesAgree
<1>3. Inj(k.waitQ[o]) /\ Inj(k.suspQ[o])
  BY <1>2 DEF OnW, OnS
<1>4. Waiters(o) = {t \in Thread : k.waitObj[t] = o /\ k.mstate[t] = WaitState[o]}
  <2>1. Range(k.waitQ[o]) \subseteq Thread
    BY <1>2, RangeOfSeq
  <2>2. \A t \in Thread : t \in Range(k.waitQ[o]) <=> k.waitObj[t] = o /\ k.mstate[t] = WaitState[o]
    BY <1>2 DEF OnW
  <2> QED
    BY <2>1, <2>2 DEF Waiters
<1>5. Suspended(o) = {t \in Thread : k.waitObj[t] = o /\ k.mstate[t] = SuspState[o]}
  <2>1. Range(k.suspQ[o]) \subseteq Thread
    BY <1>2, RangeOfSeq
  <2>2. \A t \in Thread : t \in Range(k.suspQ[o]) <=> k.waitObj[t] = o /\ k.mstate[t] = SuspState[o]
    BY <1>2 DEF OnS
  <2> QED
    BY <2>1, <2>2 DEF Suspended
<1>6. ASSUME o \in Mutex
      PROVE  /\ Inj(k.pendQ[o])
             /\ Pending(o) = {t \in Thread : k.waitObj[t] = o /\ k.mstate[t] = "EHoldMutexPending"}
  <2>1. Range(k.pendQ[o]) \subseteq Thread
    BY <1>2, <1>6, RangeOfSeq
  <2>2. \A t \in Thread : t \in Range(k.pendQ[o]) <=> /\ k.waitObj[t] = o
                                                      /\ k.mstate[t] = "EHoldMutexPending"
    BY <1>2, <1>6 DEF OnP
  <2>3. Inj(k.pendQ[o])
    BY <1>2, <1>6 DEF OnP
  <2> QED
    BY <2>1, <2>2, <2>3 DEF Pending
<1>7. \A i, j \in DOMAIN k.waitQ[o] : i < j => k.pri[k.waitQ[o][i]] >= k.pri[k.waitQ[o][j]]
  BY <1>2 DEF Down
<1> QED
  BY <1>3, <1>4, <1>5, <1>6, <1>7

\* It gives that of counters and queues.
LEMMA WorldCounts ==
    ASSUME World(k, {})
    PROVE  CountsAgree
<1>1. \A o \in Obj : CountAt(k, o, 0)
  BY DEF World, QOK
<1>2. \A o \in Obj : Len(k.waitQ[o]) \in Nat /\ Len(k.suspQ[o]) \in Nat
  BY DEF World, QOK, RQ, QS, Placed, QTypes
<1>3. ASSUME NEW o \in Mutex \cup Cond, k.phase[o] = "live"
      PROVE  k.waitCount[o] = Len(k.waitQ[o]) + Len(k.suspQ[o])
  <2>1. o \in Obj
    BY DEF Obj
  <2>2. Tally(k.phase[o], k.waitCount[o], Len(k.waitQ[o]), Len(k.suspQ[o]), 0)
    BY <1>1, <2>1 DEF CountAt
  <2>3. k.waitCount[o] = Len(k.waitQ[o]) + Len(k.suspQ[o]) + 0
    BY <1>3, <2>2 DEF Tally
  <2>4. \A a, b \in Nat : a + b + 0 = a + b
    OBVIOUS
  <2> QED
    BY <1>2, <2>1, <2>3, <2>4
<1>4. ASSUME NEW s \in Sem, k.phase[s] # "deleted"
      PROVE  Len(k.waitQ[s]) = IF k.count[s] < 0 THEN -k.count[s] ELSE 0
  <2>1. s \in Obj
    BY DEF Obj
  <2>2. SemTally(k.count[s], Len(k.waitQ[s]), 0)
    BY <1>1, <1>4, <2>1 DEF CountAt
  <2> QED
    BY <1>2, <2>1, <2>2 DEF SemTally
<1>5. \A c \in Cond : k.phase[c] = "live" => (k.cvMutex[c] = Null <=> k.waitCount[c] = 0)
  BY <1>1 DEF CountAt, Obj
<1> QED
  BY <1>3, <1>4, <1>5 DEF CountsAgree

\* It gives that of the nanokernel and the layer above.
LEMMA WorldNStates ==
    ASSUME World(k, {})
    PROVE  NStatesAgree
<1>1. QueuesAgree
  BY WorldQueues
<1>2. /\ k.mstate \in [Thread -> MState] /\ k.waitObj \in [Thread -> Obj \cup {Null}]
      /\ k.susp \in [Thread -> Nat] /\ k.pc \in [Thread -> Cont]
  BY DEF World, QOK, CtlT, RQ, QS, Placed, QTypes
<1> SUFFICES ASSUME NEW t \in Thread
             PROVE  /\ k.susp[t] > 0 => ~\E o \in Obj : t \in Waiters(o)
                    /\ (\E o \in Obj : t \in Suspended(o)) => k.susp[t] > 0 \/ k.pc[t] = "Exit"
                    /\ k.blocked[t] => \E o \in Obj : t \in Waiters(o) \cup Suspended(o)
                    /\ CanRun(t) /\ k.pc[t] = "run" => k.mstate[t] = "EReady"
                    /\ k.mstate[t] = "EReady" => k.waitObj[t] = Null
  BY DEF NStatesAgree
<1>3. WaitOK(k, t) /\ SuspOK(k, t) /\ PcOK(k, t)
  BY DEF World, ThreadOK
<1>4. \A o \in Obj : WaitState[o] \in OnWaitQ /\ SuspState[o] \in OnSuspQ
  BY DEF WaitState, SuspState, OnWaitQ, OnSuspQ
<1>5. \A o \in Obj : /\ t \in Waiters(o) <=> k.waitObj[t] = o /\ k.mstate[t] = WaitState[o]
                     /\ t \in Suspended(o) <=> k.waitObj[t] = o /\ k.mstate[t] = SuspState[o]
  BY <1>1 DEF QueuesAgree
<1>6. k.susp[t] > 0 => ~\E o \in Obj : t \in Waiters(o)
  BY <1>3, <1>4, <1>5 DEF SuspOK
<1>7. (\E o \in Obj : t \in Suspended(o)) => k.susp[t] > 0 \/ k.pc[t] = "Exit"
  BY <1>3, <1>4, <1>5 DEF SuspOK
<1>8. ASSUME k.blocked[t] PROVE \E o \in Obj : t \in Waiters(o) \cup Suspended(o)
  <2>1. k.mstate[t] \in OnWaitQ \cup OnSuspQ
    BY <1>3, <1>8 DEF WaitOK
  <2>2. /\ k.waitObj[t] \in Obj
        /\ k.mstate[t] = WaitState[k.waitObj[t]] \/ k.mstate[t] = SuspState[k.waitObj[t]]
    BY <2>1, <1>3, SyncAssumption
       DEF WaitOK, OnWaitQ, OnSuspQ, SemWaits, MutexWaits, CondWaits, WaitState, SuspState, Obj
  <2> QED
    BY <2>2, <1>5
<1>9. CanRun(t) /\ k.pc[t] = "run" => k.mstate[t] = "EReady"
  BY <1>3, <1>2 DEF CanRun, PcOK, SuspOK, WaitOK, SemWaits, OnWaitQ, OnSuspQ
<1>10. k.mstate[t] = "EReady" => k.waitObj[t] = Null
  BY <1>3 DEF WaitOK
<1> QED
  BY <1>6, <1>7, <1>8, <1>9, <1>10

\* It gives StructureExact.
LEMMA WorldStructure ==
    ASSUME World(k, {})
    PROVE  StructureExact
BY WorldKState, WorldQueues, WorldCounts, WorldNStates DEF StructureExact, HoldersAgree, World,
   HoldOK

\* It gives NoIdleMutex.
LEMMA WorldNoIdle ==
    ASSUME World(k, {})
    PROVE  NoIdleMutex
<1> SUFFICES ASSUME NEW m \in Mutex, k.phase[m] = "live", k.holder[m] = Null, k.waitQ[m] # <<>>
             PROVE  \E t \in Pending(m) : k.susp[t] = 0 /\ k.pri[t] >= HighestPriority(k, m)
  BY DEF NoIdleMutex
<1>1. QueuesAgree /\ RQ(k, {}) /\ NoIdle(k, {}) /\ k.susp \in [Thread -> Nat]
  BY WorldQueues DEF World, QOK, CtlT
<1>2. m \in Obj /\ k.waitQ[m] \in Seq(Thread)
  BY <1>1 DEF RQ, QS, Placed, QTypes, Obj
<1> DEFINE w == Head(k.waitQ[m])
<1>3. w \in Thread /\ w \in Waiters(m)
  BY <1>1, <1>2, QHead DEF RQ, Waiters
<1>4. MWaits(k, w, m)
  BY <1>1, <1>2, <1>3 DEF QueuesAgree, MWaits, WaitState
<1>5. PICK q \in Thread : Pends(k, q, m) /\ ~(k.susp[q] > 0) /\ k.pri[q] >= k.pri[w]
  BY <1>1, <1>3, <1>4 DEF NoIdle, Free
<1>6. q \in Pending(m)
  BY <1>1, <1>2, <1>5 DEF QueuesAgree, Pends
<1>7. HighestPriority(k, m) = k.pri[w]
  BY DEF HighestPriority
<1>8. k.susp[q] = 0
  BY <1>1, <1>5
<1> QED
  BY <1>5, <1>6, <1>7, <1>8

\* It gives CleanupExact.
LEMMA WorldCleanup ==
    ASSUME World(k, {})
    PROVE  CleanupExact
<1> SUFFICES ASSUME NEW m \in Mutex, k.phase[m] = "live", k.holder[m] # Null
             PROVE  k.clnPri[m] = HighestPriority(k, m)
  BY DEF CleanupExact
<1> DEFINE h == HighestPriority(k, m)
<1>1. RQ(k, {}) /\ HighBut(k, {}, Null, 0) /\ m # Null
  BY SyncAssumption DEF World, QOK, Obj
<1>2. High(k, {}, m, k.clnPri[m])
  BY <1>1 DEF HighBut, Held
<1>3. High(k, {}, m, h) /\ h \in Pri \cup {0}
  BY <1>1, HighestIs
<1>4. k.clnPri[m] \in Pri \cup {0} /\ \A u \in Thread : k.pri[u] \in Pri
  BY <1>1 DEF World, QOK, RunT, RQ, QS
<1> HIDE DEF h
<1>5. \A p \in Pri \cup {0} : p \in Int /\ p >= 0
  BY PriNat
<1>6. \A p \in Pri : p > 0
  BY PriNat
<1> QED
  BY <1>2, <1>3, <1>4, <1>5, <1>6 DEF High, h

\* With no stale priority it gives InheritanceExact.
LEMMA WorldInheritance ==
    ASSUME World(k, {}), ReqBut(k, {})
    PROVE  InheritanceExact
<1>1. CtlT(k) /\ RunT(k) /\ k.pri \in [Thread -> Pri]
  BY DEF World, QOK, RQ, QS
<1> SUFFICES ASSUME NEW t \in Thread PROVE k.pri[t] = RequiredPriority(k, t)
  BY WorldCleanup DEF InheritanceExact
<1>2. IsReq(k, t, k.pri[t])
  BY DEF ReqBut
<1>3. k.pri[t] \in Int
  BY <1>1, PriNat
<1> QED
  BY <1>1, <1>2, <1>3, RequiredOnly

-----------------------------------------------------------------------------
\* The inductive invariant, of every reachable state: where each thread is, what it
\* waits for and on which queue it is, what the objects count, who holds what, and
\* that no free mutex is waited for in vain.
THEOREM SyncInvariant == Spec => []World(k, {})
<1>1. Init => World(k, {})
  BY InitFine
<1>2. World(k, {}) /\ [Next]_k => World(k, {})'
  BY NextFine
<1> QED
  BY <1>1, <1>2, PTL DEF Spec

\* DThread, the nanokernel and the objects agree on who waits, for what, who is
\* counted and who holds what, whatever is done to threads and objects in between.
THEOREM StructureCorrect == Spec => []StructureExact
<1>1. World(k, {}) => StructureExact
  BY WorldStructure
<1> QED
  BY <1>1, SyncInvariant, PTL

\* A free mutex that is waited for is on offer to a thread that can take it and that
\* no waiter outranks, whatever has been done since DMutex::Signal to the thread it
\* woke.
THEOREM NoIdleCorrect == Spec => []NoIdleMutex
<1>1. World(k, {}) => NoIdleMutex
  BY WorldNoIdle
<1> QED
  BY <1>1, SyncInvariant, PTL

\* The cleanup item of a held mutex has the priority of its first waiter.
THEOREM CleanupCorrect == Spec => []CleanupExact
<1>1. World(k, {}) => CleanupExact
  BY WorldCleanup
<1> QED
  BY <1>1, SyncInvariant, PTL

\* As long as no threads wait for each other in a circle, the assertions of the code
\* hold, too: the chain of holders ends before it meets a thread again.
THEOREM SyncCorrect == Spec /\ []NoDeadlock => []SyncExact
<1>1. Init => AssertionsHold
  BY InitFine DEF AssertionsHold
<1>2. World(k, {}) /\ NoDeadlock /\ AssertionsHold /\ [Next]_k => AssertionsHold'
  BY NextFine DEF AssertionsHold, NoDeadlock, Firm
<1>3. StructureExact /\ AssertionsHold => SyncExact
  BY DEF SyncExact
<1> QED
  BY <1>1, <1>2, <1>3, SyncInvariant, StructureCorrect, PTL DEF Spec

\* Priority inheritance is exact, as long as chains are no longer than
\* KMaxPriorityInheritanceNesting allows and no mutex is reset while its holder waits
\* for another thread: the chain that a reset starts may be cut at its first link, as
\* K::PINestLevel may have any value then.
THEOREM InheritanceCorrect == Spec /\ []ShortChains /\ []ResetHoldersRun => []InheritanceExact
<1>1. Init => ReqBut(k, {})
  BY InitFine
<1>2. World(k, {}) /\ ShortChains /\ ShortChains' /\ ResetHoldersRun /\ ReqBut(k, {}) /\ [Next]_k
          => ReqBut(k, {})'
  <2>1. KMaxPriorityInheritanceNesting - 1 = 9
    BY DEF KMaxPriorityInheritanceNesting
  <2>2. (ShortChains <=> Ranked(k, 9)) /\ (ShortChains' <=> Ranked(k', 9))
    BY <2>1 DEF ShortChains
  <2> QED
    BY <2>2, NextFine DEF Firm, Steady
<1>3. World(k, {}) /\ ReqBut(k, {}) => InheritanceExact
  BY WorldInheritance
<1> QED
  BY <1>1, <1>2, <1>3, SyncInvariant, PTL DEF Spec

\* What takes part in the order of mutexes is as it was.
SameTurn(r, s) ==
    /\ DOMAIN s = Fields /\ s.pc = r.pc /\ s.obj = r.obj /\ s.cleanupQ = r.cleanupQ

\* Two steps that leave the turns alone.
LEMMA SameTurnTrans ==
    ASSUME NEW r, NEW v, NEW s, SameTurn(r, v), SameTurn(v, s)
    PROVE  SameTurn(r, s)
BY DEF SameTurn

\* Queues are not about turns; nor are releases and assertions.
LEMMA WaitListTurn ==
    ASSUME NEW r, DOMAIN r = Fields, NEW o, NEW t
    PROVE  /\ SameTurn(r, WaitAdd(r, o, t)) /\ SameTurn(r, WaitRemove(r, o, t))
           /\ SameTurn(r, Ready(r, t)) /\ \A c : SameTurn(r, ThreadRelease(r, t, c))
           /\ \A b : SameTurn(r, Block(r, t, b)) /\ SameTurn(r, Asserted(r, b))
<1>1. SameTurn(r, WaitAdd(r, o, t)) /\ SameTurn(r, WaitRemove(r, o, t))
  BY SMT DEF Fields, WaitAdd, WaitRemove, SameTurn
<1>2. SameTurn(r, Ready(r, t)) /\ \A c : SameTurn(r, ThreadRelease(r, t, c))
  BY SMT DEF Fields, Ready, ThreadRelease, SameTurn
<1>3. \A b : SameTurn(r, Block(r, t, b)) /\ SameTurn(r, Asserted(r, b))
  BY SMT DEF Fields, Block, Asserted, SameTurn
<1> QED
  BY <1>1, <1>2, <1>3

\* Nor is going to wait,
LEMMA WaitTurn ==
    ASSUME NEW r, DOMAIN r = Fields, NEW o, NEW t, NEW ms
    PROVE  SameTurn(r, Wait(r, o, t, ms))
<1> DEFINE v == [r EXCEPT !.mstate[t] = ms, !.waitObj[t] = o]
<1>1. SameTurn(r, v)
  BY SMT DEF Fields, SameTurn
<1>2. Wait(r, o, t, ms) = WaitAdd(v, o, t)
  BY DEF Wait
<1> HIDE DEF v
<1>3. SameTurn(v, WaitAdd(v, o, t))
  BY <1>1, WaitListTurn DEF SameTurn
<1> QED
  BY <1>1, <1>2, <1>3, SameTurnTrans

\* a change of place on a queue,
LEMMA ChangePriorityTurn ==
    ASSUME NEW r, DOMAIN r = Fields, NEW o, NEW t, NEW p
    PROVE  SameTurn(r, ChangePriority(r, o, t, p))
<1> DEFINE v == [WaitRemove(r, o, t) EXCEPT !.pri[t] = p]
<1>1. SameTurn(r, v)
  BY SMT DEF Fields, SameTurn, WaitRemove
<1>2. SameTurn(r, [r EXCEPT !.pri[t] = p, !.fault = TRUE]) /\ SameTurn(r, r)
  BY SMT DEF Fields, SameTurn
<1>3. \/ ChangePriority(r, o, t, p) = [r EXCEPT !.pri[t] = p, !.fault = TRUE]
      \/ ChangePriority(r, o, t, p) = r
      \/ ChangePriority(r, o, t, p) = WaitAdd(v, o, t)
  BY DEF ChangePriority
<1> HIDE DEF v
<1>4. SameTurn(v, WaitAdd(v, o, t))
  BY <1>1, WaitListTurn DEF SameTurn
<1>5. SameTurn(r, WaitAdd(v, o, t))
  BY <1>1, <1>4, SameTurnTrans
<1> QED
  BY <1>2, <1>3, <1>5

\* the offer of a mutex,
LEMMA WakeTurn ==
    ASSUME NEW r, DOMAIN r = Fields, NEW m
    PROVE  SameTurn(r, WakeUpNextThread(r, m))
BY SMT DEF Fields, SameTurn, WakeUpNextThread, WaitRemove, ThreadRelease

\* the wait for one,
LEMMA WaitForMutexTurn ==
    ASSUME NEW r, DOMAIN r = Fields, NEW t, NEW m, NEW n
    PROVE  SameTurn(r, WaitForMutex(r, t, m, n).k)
<1> DEFINE v == [r EXCEPT !.waitCount[m] = @ + 1]
           w == Wait(v, m, t, "EWaitMutex")
<1>1. SameTurn(r, v)
  BY SMT DEF Fields, SameTurn
<1> HIDE DEF v
<1>2. SameTurn(v, w)
  BY <1>1, WaitTurn DEF SameTurn
<1>3. WaitForMutex(r, t, m, n).k = w
  BY DEF WaitForMutex, Link, Done, v
<1> QED
  BY <1>1, <1>2, <1>3, SameTurnTrans

\* the end of a condition wait,
LEMMA UnBlockTurn ==
    ASSUME NEW r, DOMAIN r = Fields, NEW c, NEW t
    PROVE  SameTurn(r, UnBlockThread(r, c, t).k)
<1> DEFINE m == r.cvMutex[c]
           v == CondUncount(r, c)
           gi == ThreadRelease(Ready(r, t), t, "KErrGeneral")
           gs == [v EXCEPT !.mstate[t] = "EWaitMutexSuspended", !.waitObj[t] = m,
                           !.suspQ[m] = Append(@, t), !.waitCount[m] = @ + 1]
           gp == ThreadRelease([v EXCEPT !.mstate[t] = "EHoldMutexPending",
                           !.waitObj[t] = m, !.pendQ[m] = Append(@, t)], t, "KErrNone")
<1>1. SameTurn(r, v)
  BY SMT DEF Fields, SameTurn, CondUncount
<1>2. SameTurn(r, gi)
  BY SMT DEF Fields, SameTurn, ThreadRelease, Ready
<1>3. \/ UnBlockThread(r, c, t) = Done(gi) \/ UnBlockThread(r, c, t) = Done(gs)
      \/ UnBlockThread(r, c, t) = WaitForMutex(v, t, m, 0) \/ UnBlockThread(r, c, t) = Done(gp)
  BY DEF UnBlockThread
<1> HIDE DEF v
<1>4. SameTurn(v, gs) /\ SameTurn(v, gp)
  BY <1>1, SMT DEF Fields, SameTurn, ThreadRelease
<1>5. SameTurn(v, WaitForMutex(v, t, m, 0).k)
  BY <1>1, WaitForMutexTurn DEF SameTurn
<1>6. /\ SameTurn(r, gs) /\ SameTurn(r, gp) /\ SameTurn(r, WaitForMutex(v, t, m, 0).k)
  BY <1>1, <1>4, <1>5, SameTurnTrans
<1> HIDE DEF gi, gs, gp, m
<1>7. Done(gi).k = gi /\ Done(gs).k = gs /\ Done(gp).k = gp
  BY DEF Done, Link
<1> QED
  BY <1>2, <1>3, <1>6, <1>7

\* a change of priority,
LEMMA SetPriTurn ==
    ASSUME NEW r, DOMAIN r = Fields, NEW t, NEW p
    PROVE  SameTurn(r, [r EXCEPT !.pri[t] = p])
BY SMT DEF Fields, SameTurn

\* whatever follows from it,
LEMMA ActualTurn ==
    ASSUME NEW r, DOMAIN r = Fields, NEW t, NEW p, NEW n
    PROVE  SameTurn(r, SetActualPriority(r, t, p, n).k)
<1> DEFINE o == r.waitObj[t]
<1>1. \A x : Done(x).k = x
  BY DEF Done, Link
<1>2. SameTurn(r, Done(ChangePriority(r, o, t, p)).k)
  BY <1>1, ChangePriorityTurn
<1>3. SameTurn(r, ChangeWaitingThreadPriority(r, o, t, p, n).k)
  <2> DEFINE w == ThreadRelease([WaitRemove(r, o, t) EXCEPT
                    !.pri[t] = p, !.pendQ[o] = Append(@, t),
                    !.mstate[t] = "EHoldMutexPending", !.waitCount[o] = @ - 1], t, "KErrNone")
             v == ChangePriority(r, o, t, p)
  <2>1. SameTurn(r, w)
    BY SMT DEF Fields, SameTurn, ThreadRelease, WaitRemove
  <2>2. SameTurn(r, v)
    BY ChangePriorityTurn
  <2>3. \/ ChangeWaitingThreadPriority(r, o, t, p, n) = Done(w)
        \/ ChangeWaitingThreadPriority(r, o, t, p, n) = Link(v, o, HighestPriority(v, o), n)
    BY DEF ChangeWaitingThreadPriority
  <2> HIDE DEF w, v
  <2>4. Link(v, o, HighestPriority(v, o), n).k = v
    BY DEF Link
  <2> QED
    BY <1>1, <2>1, <2>2, <2>3, <2>4
<1>4. SameTurn(r, Done(ChangePendingThreadPriority(r, o, t, p)).k)
  <2> DEFINE v == WakeUpNextThread(r, o)
  <2>1. SameTurn(r, v)
    BY WakeTurn
  <2>2. \/ ChangePendingThreadPriority(r, o, t, p) = [v EXCEPT !.pri[t] = p]
        \/ ChangePendingThreadPriority(r, o, t, p) = [r EXCEPT !.pri[t] = p]
    BY DEF ChangePendingThreadPriority
  <2> HIDE DEF v
  <2>3. SameTurn(v, [v EXCEPT !.pri[t] = p]) /\ SameTurn(r, [r EXCEPT !.pri[t] = p])
    BY <2>1, SetPriTurn DEF SameTurn
  <2>4. SameTurn(r, [v EXCEPT !.pri[t] = p])
    BY <2>1, <2>3, SameTurnTrans
  <2> QED
    BY <1>1, <2>2, <2>3, <2>4
<1>5. SameTurn(r, CondChangeWaitingPriority(r, o, t, p).k)
  <2> DEFINE v == [WaitRemove(r, o, t) EXCEPT !.pri[t] = p]
  <2>1. SameTurn(r, v)
    BY SMT DEF Fields, SameTurn, WaitRemove
  <2>2. \/ CondChangeWaitingPriority(r, o, t, p) = UnBlockThread(v, o, t)
        \/ CondChangeWaitingPriority(r, o, t, p) = Done(ChangePriority(r, o, t, p))
    BY DEF CondChangeWaitingPriority
  <2> HIDE DEF v
  <2>3. SameTurn(v, UnBlockThread(v, o, t).k)
    BY <2>1, UnBlockTurn DEF SameTurn
  <2>4. SameTurn(r, UnBlockThread(v, o, t).k)
    BY <2>1, <2>3, SameTurnTrans
  <2> QED
    BY <1>2, <2>2, <2>4
<1>6. SameTurn(r, Done([r EXCEPT !.pri[t] = p]).k)
  BY <1>1, SetPriTurn
<1> QED
  BY <1>2, <1>3, <1>4, <1>5, <1>6 DEF SetActualPriority

\* or how it was required,
LEMMA RequiredTurn ==
    ASSUME NEW r, DOMAIN r = Fields, NEW t, NEW n
    PROVE  SameTurn(r, SetRequiredPriority(r, t, n).k)
<1> DEFINE p == RequiredPriority(r, t)
<1>1. Done(r).k = r /\ SameTurn(r, r)
  BY DEF Done, Link, SameTurn
<1>2. \/ SetRequiredPriority(r, t, n) = Done(r)
      \/ SetRequiredPriority(r, t, n) = SetActualPriority(r, t, p, n)
  BY DEF SetRequiredPriority
<1> HIDE DEF p
<1> QED
  BY <1>1, <1>2, ActualTurn

\* or a link of the chain.
LEMMA FollowTurn ==
    ASSUME NEW l, DOMAIN l.k = Fields
    PROVE  SameTurn(l.k, Follow(l).k)
<1> DEFINE r == l.k
           v == [r EXCEPT !.clnPri[l.m] = l.p]
           h == r.holder[l.m]
<1>1. SameTurn(r, v) /\ SameTurn(r, r)
  BY SMT DEF Fields, SameTurn
<1>2. \/ Follow(l) = l \/ Follow(l) = Done(v) \/ Follow(l) = SetRequiredPriority(v, h, l.n + 1)
  BY DEF Follow, ChangeCleanupPriority
<1> HIDE DEF v, h
<1>3. SameTurn(v, SetRequiredPriority(v, h, l.n + 1).k) /\ Done(v).k = v
  BY <1>1, RequiredTurn DEF SameTurn, Done, Link
<1>4. SameTurn(r, SetRequiredPriority(v, h, l.n + 1).k)
  BY <1>1, <1>3, SameTurnTrans
<1> QED
  BY <1>1, <1>2, <1>3, <1>4

\* Priority inheritance leaves it alone.
LEMMA SettleTurn ==
    ASSUME NEW l, DOMAIN l.k = Fields
    PROVE  SameTurn(l.k, Settle(l))
<1>1. PICK f : ChainOf(f, l, MaxLinks) /\ Settle(l) = f[MaxLinks].k
  BY SettleChain
<1> DEFINE B == {i \in 0..MaxLinks : ~SameTurn(l.k, f[i].k)}
<1>2. MaxLinks \in Nat
  BY MaxLinksNat
<1>3. B = {}
  <2> SUFFICES ASSUME B # {} PROVE FALSE
    OBVIOUS
  <2>1. B \in SUBSET Nat
    BY <1>2
  <2>2. PICK i \in B : \A j \in B : i =< j
    BY <2>1, LeastNat
  <2>3. i # 0
    BY <1>1 DEF ChainOf, SameTurn
  <2>4. i \in 1..MaxLinks /\ i - 1 \in 0..MaxLinks /\ i - 1 < i
    BY <1>2, <2>3
  <2>5. SameTurn(l.k, f[i - 1].k)
    BY <2>2, <2>4
  <2>6. f[i] = Follow(f[i - 1])
    BY <1>1, <2>4 DEF ChainOf
  <2>7. SameTurn(f[i - 1].k, f[i].k)
    BY <2>5, <2>6, FollowTurn DEF SameTurn
  <2> QED
    BY <2>2, <2>5, <2>7, SameTurnTrans
<1> QED
  BY <1>1, <1>2, <1>3

\* Where a thread may wait for a mutex, or for a condition variable of that mutex: its obj.
MayWait == {"MutexWait", "CondWindow", "CondWait", "Exit"}

\* A thread only waits for mutexes of lower order than those it holds.
Turn(r, t) ==
    /\ r.pc[t] = "run" => r.obj[t] = Null
    /\ r.pc[t] \in MayWait /\ r.obj[t] # Null => \A h \in r.cleanupQ[t] : Order[r.obj[t]] < Order[h]
InTurn(r) == \A t \in Thread : Turn(r, t)

TurnT(r) ==
    DOMAIN r = Fields /\ DOMAIN r.pc = Thread /\ DOMAIN r.obj = Thread /\ DOMAIN r.cleanupQ = Thread

\* Threads hold fewer mutexes; so do those other than t.
Fewer(r, s) ==
    /\ TurnT(s) /\ s.pc = r.pc /\ s.obj = r.obj
    /\ \A u \in Thread : s.cleanupQ[u] \subseteq r.cleanupQ[u]
Others(r, s, t) ==
    /\ TurnT(s)
    /\ \A u \in Thread : u # t => /\ s.pc[u] = r.pc[u] /\ s.obj[u] = r.obj[u]
                                  /\ s.cleanupQ[u] \subseteq r.cleanupQ[u]

\* Who holds fewer mutexes keeps the order.
LEMMA FewerTurn ==
    ASSUME NEW r, NEW s, Fewer(r, s), InTurn(r)
    PROVE  InTurn(s)
BY DEF Fewer, InTurn, Turn

\* The order is kept if the thread that moves keeps it.
LEMMA OthersTurn ==
    ASSUME NEW r, NEW s, NEW t \in Thread, Others(r, s, t), Turn(s, t), InTurn(r)
    PROVE  InTurn(s)
BY DEF Others, InTurn, Turn

\* Fewer includes the same.
LEMMA SameFewer ==
    ASSUME NEW r, TurnT(r), NEW s, SameTurn(r, s)
    PROVE  Fewer(r, s)
BY DEF Fewer, SameTurn, TurnT

\* Two steps that leave fewer.
LEMMA FewerTrans ==
    ASSUME NEW r, NEW v, NEW s, Fewer(r, v), Fewer(v, s)
    PROVE  Fewer(r, s)
BY DEF Fewer

\* Fewer for all is fewer for the others.
LEMMA FewerOthers ==
    ASSUME NEW r, NEW s, NEW t, Fewer(r, s)
    PROVE  Others(r, s, t)
BY DEF Fewer, Others

\* Two steps of one thread.
LEMMA OthersTrans ==
    ASSUME NEW r, NEW v, NEW s, NEW t, Others(r, v, t), Others(v, s, t)
    PROVE  Others(r, s, t)
BY DEF Others

\* t goes on with nothing that has an order.
LEMMA NullTurn ==
    ASSUME NEW s, NEW t,
           s.obj[t] = Null \/ s.pc[t] \in {"SignalN", "Broadcast", "Reset", "Cleanup", "dead"}
    PROVE  Turn(s, t)
BY DEF Turn, MayWait

-----------------------------------------------------------------------------
\* Going back from a call keeps the order of the others.
LEMMA BackTurn ==
    ASSUME NEW r, TurnT(r), NEW t \in Thread
    PROVE  /\ Others(r, Back(r, t), t) /\ (Back(r, t)).obj[t] = Null
           /\ Others(r, LeaveCS(r, t), t) /\ (LeaveCS(r, t)).obj[t] = r.obj[t]
           /\ Others(r, BackLeaveCS(r, t), t) /\ (BackLeaveCS(r, t)).obj[t] = Null
<1> DEFINE v == Back(r, t)
<1>1. ASSUME NEW x, TurnT(x)
      PROVE  Others(x, LeaveCS(x, t), t) /\ (LeaveCS(x, t)).obj[t] = x.obj[t]
  <2>1. Others(x, [x EXCEPT !.pc[t] = "Exit"], t) /\ ([x EXCEPT !.pc[t] = "Exit"]).obj = x.obj
    BY <1>1, SMT DEF Others, TurnT, Fields
  <2> DEFINE w == [x EXCEPT !.cs[t] = FALSE, !.susp[t] = @ + x.csFunction[t], !.csFunction[t] = 0]
  <2>2. DOMAIN w = Fields /\ w.pc = x.pc /\ w.obj = x.obj /\ w.cleanupQ = x.cleanupQ
    BY <1>1, SMT DEF TurnT, Fields
  <2>3. LeaveCS(x, t) = [x EXCEPT !.pc[t] = "Exit"] \/ LeaveCS(x, t) = w
    BY DEF LeaveCS
  <2> HIDE DEF w
  <2>4. Others(x, w, t)
    BY <1>1, <2>2 DEF Others, TurnT
  <2> QED
    BY <2>1, <2>2, <2>3, <2>4
<1>2. Others(r, v, t) /\ v.obj[t] = Null
  BY SMT DEF Others, TurnT, Fields, Back
<1>3. BackLeaveCS(r, t) = LeaveCS(v, t)
  BY DEF BackLeaveCS
<1> HIDE DEF v
<1>4. Others(v, LeaveCS(v, t), t) /\ (LeaveCS(v, t)).obj[t] = Null
  BY <1>1, <1>2 DEF Others
<1>5. Others(r, LeaveCS(v, t), t)
  BY <1>2, <1>4, OthersTrans
<1>6. Others(r, LeaveCS(r, t), t) /\ (LeaveCS(r, t)).obj[t] = r.obj[t]
  BY <1>1
<1> QED
  BY <1>2, <1>3, <1>4, <1>5, <1>6 DEF v

\* Nor does the end of a wait for a mutex change it.
LEMMA AfterTurn ==
    ASSUME NEW r, TurnT(r), NEW t \in Thread, NEW s, s = AfterMutexWait(r, t)
    PROVE  Others(r, s, t) /\ Turn(s, t)
<1> DEFINE w == [r EXCEPT !.pc[t] = "Broadcast"]
<1>1. Others(r, w, t) /\ w.pc[t] = "Broadcast"
  BY SMT DEF Others, TurnT, Fields
<1>2. s = Back(r, t) \/ s = w
  BY DEF AfterMutexWait
<1> HIDE DEF w
<1> QED
  BY <1>1, <1>2, BackTurn, NullTurn

\* Taking a mutex is the thread's own affair.
LEMMA ClaimTurn ==
    ASSUME NEW r, TurnT(r), NEW t \in Thread, NEW m
    PROVE  /\ Others(r, Claim(r, t, m), t) /\ (Claim(r, t, m)).pc = r.pc
           /\ (Claim(r, t, m)).obj = r.obj
<1> DEFINE v == [r EXCEPT !.holder[m] = t, !.holdCount[m] = 1, !.clnPri[m] = HighestPriority(r, m),
                          !.cleanupQ[t] = @ \cup {m}]
           l == SetActualPriority(v, t, v.clnPri[m], 0)
<1>1. Others(r, v, t) /\ v.pc = r.pc /\ v.obj = r.obj
  BY SMT DEF Others, TurnT, Fields
<1>2. Claim(r, t, m) = v \/ Claim(r, t, m) = Settle(l)
  BY DEF Claim
<1> HIDE DEF v
<1>3. SameTurn(v, l.k)
  BY <1>1, ActualTurn DEF Others, TurnT
<1> HIDE DEF l
<1>4. SameTurn(l.k, Settle(l))
  BY <1>3, SettleTurn DEF SameTurn
<1>5. SameTurn(v, Settle(l))
  BY <1>3, <1>4, SameTurnTrans
<1>6. Others(r, Settle(l), t)
  BY <1>1, <1>5 DEF Others, SameTurn, TurnT
<1> QED
  BY <1>1, <1>2, <1>5, <1>6 DEF SameTurn

\* t takes m or waits for it.
LEMMA LoopTurn ==
    ASSUME NEW r, TurnT(r), NEW t \in Thread, NEW m,
           \A h \in r.cleanupQ[t] : (h = m /\ r.holder[m] = t) \/ Order[m] < Order[h],
           t # Null, NEW s, s = MutexWaitLoop(r, t, m)
    PROVE  Others(r, s, t) /\ Turn(s, t)
<1>1. CASE s = AfterMutexWait(r, t)
  BY <1>1, AfterTurn
<1>2. CASE s = AfterMutexWait(Claim(r, t, m), t)
  <2> DEFINE v == Claim(r, t, m)
  <2>1. Others(r, v, t) /\ TurnT(v)
    BY ClaimTurn DEF Others
  <2> HIDE DEF v
  <2>2. Others(v, s, t) /\ Turn(s, t)
    BY <1>2, <2>1, AfterTurn DEF v
  <2> QED
    BY <2>1, <2>2, OthersTrans
<1>3. CASE s = AfterMutexWait([r EXCEPT !.holdCount[m] = @ + 1], t)
  <2> DEFINE v == [r EXCEPT !.holdCount[m] = @ + 1]
  <2>1. Others(r, v, t) /\ TurnT(v)
    BY SMT DEF Others, TurnT, Fields
  <2>2. s = AfterMutexWait(v, t)
    BY <1>3
  <2> HIDE DEF v
  <2>3. Others(v, s, t) /\ Turn(s, t)
    BY <2>1, <2>2, AfterTurn
  <2> QED
    BY <2>1, <2>3, OthersTrans
<1>4. CASE /\ r.holder[m] # t
           /\ s = Block([Settle(WaitForMutex(r, t, m, 0)) EXCEPT !.pc[t] = "MutexWait", !.obj[t] = m],
                        t, t \in Timed /\ ~r.cs[t])
  <2> DEFINE l == WaitForMutex(r, t, m, 0)
             v == Settle(l)
             w == [v EXCEPT !.pc[t] = "MutexWait", !.obj[t] = m]
             b == t \in Timed /\ ~r.cs[t]
  <2>1. SameTurn(r, l.k)
    BY WaitForMutexTurn DEF TurnT
  <2>2. SameTurn(l.k, v)
    BY <2>1, SettleTurn DEF SameTurn
  <2>3. SameTurn(r, v) /\ s = Block(w, t, b)
    BY <1>4, <2>1, <2>2, SameTurnTrans
  <2> HIDE DEF v, b
  <2>4. /\ DOMAIN w = Fields /\ w.pc = [r.pc EXCEPT ![t] = "MutexWait"]
        /\ w.obj = [r.obj EXCEPT ![t] = m] /\ w.cleanupQ = r.cleanupQ
    BY <2>3, SMT DEF SameTurn, Fields
  <2> HIDE DEF w
  <2>5. SameTurn(w, s)
    BY <2>3, <2>4, WaitListTurn
  <2>6. /\ s.pc = [r.pc EXCEPT ![t] = "MutexWait"] /\ s.obj = [r.obj EXCEPT ![t] = m]
        /\ s.cleanupQ = r.cleanupQ
    BY <2>4, <2>5 DEF SameTurn
  <2>7. Others(r, s, t)
    BY <2>5, <2>6 DEF Others, TurnT, SameTurn
  <2>8. Turn(s, t)
    BY <1>4, <2>6 DEF Turn, TurnT
  <2> QED
    BY <2>7, <2>8
<1>5. Null # t
  OBVIOUS
<1> QED
  BY <1>1, <1>2, <1>3, <1>4, <1>5 DEF MutexWaitLoop

\* t goes on in DCondVar::Wait.
LEMMA CondLoopTurn ==
    ASSUME NEW r, TurnT(r), NEW t \in Thread, NEW m, r.pc[t] \in {"CondWindow", "CondWait"},
           Turn(r, t),
           NEW s, s = CondWaitLoop(r, t, m)
    PROVE  Others(r, s, t) /\ Turn(s, t)
<1> DEFINE v == [r EXCEPT !.pendQ[m] = Without(@, t)]
           x == IF r.mstate[t] = "EHoldMutexPending" THEN v ELSE r
<1>0. SameTurn(r, v) /\ SameTurn(r, r)
  BY SMT DEF SameTurn, TurnT, Fields
<1>1. SameTurn(r, x)
  BY <1>0
<1> HIDE DEF v
<1>2. ASSUME NEW w, SameTurn(r, w), NEW b, s = Block([w EXCEPT !.pc[t] = "CondWait"], t, b)
      PROVE  Others(r, s, t) /\ Turn(s, t)
  <2> DEFINE y == [w EXCEPT !.pc[t] = "CondWait"]
  <2>1. /\ DOMAIN y = Fields /\ y.pc = [r.pc EXCEPT ![t] = "CondWait"] /\ y.obj = r.obj
        /\ y.cleanupQ = r.cleanupQ
    BY <1>2, SMT DEF SameTurn, Fields
  <2>2. s = Block(y, t, b)
    BY <1>2
  <2> HIDE DEF y
  <2>3. SameTurn(y, s)
    BY <2>1, <2>2, WaitListTurn
  <2>4. s.pc = [r.pc EXCEPT ![t] = "CondWait"] /\ s.obj = r.obj /\ s.cleanupQ = r.cleanupQ
    BY <2>1, <2>3 DEF SameTurn
  <2>5. Others(r, s, t)
    BY <2>3, <2>4 DEF Others, TurnT, SameTurn
  <2>6. Turn(s, t)
    BY <2>4 DEF Turn, TurnT, MayWait
  <2> QED
    BY <2>5, <2>6
<1>3. CASE \E b : s = Block([r EXCEPT !.pc[t] = "CondWait"], t, b)
  BY <1>0, <1>2, <1>3
<1>4. CASE s = Block([Settle(WaitForMutex(x, t, m, 0)) EXCEPT !.pc[t] = "CondWait"], t, FALSE)
  <2> DEFINE l == WaitForMutex(x, t, m, 0)
             w == Settle(l)
             b == FALSE
  <2> HIDE DEF x
  <2>1. SameTurn(x, l.k)
    BY <1>1, WaitForMutexTurn DEF SameTurn
  <2>2. SameTurn(l.k, w)
    BY <2>1, SettleTurn DEF SameTurn
  <2>3. SameTurn(r, w) /\ s = Block([w EXCEPT !.pc[t] = "CondWait"], t, b)
    BY <1>1, <1>4, <2>1, <2>2, SameTurnTrans
  <2> HIDE DEF w, b
  <2> QED
    BY <1>2, <2>3
<1>5. CASE \E b : s = Back(Claim(Asserted(Ready(x, t), b), t, m), t)
  <2>1. PICK b : s = Back(Claim(Asserted(Ready(x, t), b), t, m), t)
    BY <1>5
  <2> DEFINE y == Ready(x, t)
             z == Asserted(y, b)
             w == Claim(z, t, m)
  <2> HIDE DEF x
  <2>2. SameTurn(x, y)
    BY <1>1, WaitListTurn DEF SameTurn
  <2> HIDE DEF y
  <2>3. SameTurn(y, z)
    BY <2>2, WaitListTurn DEF SameTurn
  <2> HIDE DEF z
  <2>4. SameTurn(r, z)
    BY <1>1, <2>2, <2>3, SameTurnTrans
  <2>5. Others(r, z, t) /\ TurnT(z)
    BY <2>4 DEF SameTurn, Others, TurnT
  <2>6. Others(z, w, t)
    BY <2>5, ClaimTurn
  <2>7. s = Back(w, t)
    BY <2>1 DEF y, z
  <2> HIDE DEF w
  <2>8. TurnT(w)
    BY <2>6 DEF Others
  <2>9. Others(w, Back(w, t), t) /\ (Back(w, t)).obj[t] = Null
    BY <2>8, BackTurn
  <2>10. Turn(Back(w, t), t)
    BY <2>9, NullTurn
  <2> QED
    BY <2>5, <2>6, <2>7, <2>9, <2>10, OthersTrans
<1> QED
  BY <1>3, <1>4, <1>5 DEF CondWaitLoop, v

\* Giving one up leaves fewer.
LEMMA GiveUpTurn ==
    ASSUME NEW r, TurnT(r), NEW t \in Thread, NEW m, NEW s, s = GiveUp(r, t, m)
    PROVE  Fewer(r, s) /\ s.cleanupQ[t] = r.cleanupQ[t] \ {m}
<1> DEFINE b == r.clnPri[m] = 0
           v == IF r.waitQ[m] # <<>> THEN WakeUpNextThread(r, m) ELSE Asserted(r, b)
<1>1. SameTurn(r, WakeUpNextThread(r, m)) /\ SameTurn(r, Asserted(r, b))
  BY WakeTurn, WaitListTurn DEF TurnT
<1>2. SameTurn(r, v) /\ s = [v EXCEPT !.holder[m] = Null, !.cleanupQ[t] = @ \ {m}]
  BY <1>1 DEF GiveUp
<1> HIDE DEF v
<1>3. /\ DOMAIN s = Fields /\ s.pc = r.pc /\ s.obj = r.obj
      /\ s.cleanupQ = [r.cleanupQ EXCEPT ![t] = @ \ {m}]
  BY <1>2, SMT DEF SameTurn, Fields
<1> QED
  BY <1>3 DEF Fewer, TurnT

\* So does DMutex::Signal,
LEMMA MutexSignalTurn ==
    ASSUME NEW r, TurnT(r), NEW t \in Thread, NEW m, NEW s, s = MutexSignal(r, t, m)
    PROVE  Fewer(r, s)
<1> DEFINE v == [r EXCEPT !.holdCount[m] = @ - 1]
           w == GiveUp(v, t, m)
           p == RequiredPriority(w, t)
<1>1. SameTurn(r, v) /\ SameTurn(r, r)
  BY SMT DEF SameTurn, TurnT, Fields
<1>2. s = r \/ s = v \/ s = w \/ s = [w EXCEPT !.pri[t] = p]
  BY DEF MutexSignal
<1> HIDE DEF v
<1>3. Fewer(r, r) /\ Fewer(r, v)
  BY <1>1, SameFewer
<1>4. Fewer(v, w)
  BY <1>3, GiveUpTurn DEF Fewer
<1> HIDE DEF w, p
<1>5. TurnT(w)
  BY <1>4 DEF Fewer
<1>6. Fewer(w, [w EXCEPT !.pri[t] = p])
  BY <1>5, SetPriTurn, SameFewer DEF TurnT
<1> QED
  BY <1>2, <1>3, <1>4, <1>6, FewerTrans

\* and a reset.
LEMMA ForgetTurn ==
    ASSUME NEW r, TurnT(r), NEW m, r.holder[m] \in Thread, NEW n, NEW s, s = ForgetHolder(r, m, n)
    PROVE  Fewer(r, s)
<1> DEFINE t == r.holder[m]
           v == [r EXCEPT !.cleanupQ[t] = @ \ {m}]
           l == SetRequiredPriority(v, t, n)
           w == IF r.clnPri[m] >= r.pri[t] THEN Settle(l) ELSE v
<1>1. Fewer(r, v)
  BY SMT DEF Fewer, TurnT, Fields
<1> HIDE DEF v
<1>2. SameTurn(v, l.k)
  BY <1>1, RequiredTurn DEF Fewer, TurnT
<1> HIDE DEF l
<1>3. SameTurn(l.k, Settle(l))
  BY <1>2, SettleTurn DEF SameTurn
<1>4. SameTurn(v, v)
  BY <1>1 DEF SameTurn, Fewer, TurnT
<1>5. SameTurn(v, w)
  BY <1>2, <1>3, <1>4, SameTurnTrans
<1>6. s = [w EXCEPT !.holder[m] = Null]
  BY DEF ForgetHolder, v, l
<1> HIDE DEF w
<1>7. SameTurn(w, s)
  BY <1>5, <1>6, SMT DEF SameTurn, Fields
<1>8. SameTurn(v, s) /\ TurnT(v)
  BY <1>1, <1>5, <1>7, SameTurnTrans DEF Fewer
<1> QED
  BY <1>1, <1>8, SameFewer, FewerTrans

\* A condition variable is signalled.
LEMMA CondSignalTurn ==
    ASSUME NEW r, DOMAIN r = Fields, NEW c
    PROVE  SameTurn(r, CondSignal(r, c))
<1> DEFINE t == Head(r.waitQ[c])
           u == Head(r.suspQ[c])
           v == WaitRemove(r, c, t)
           w == [r EXCEPT !.suspQ[c] = Tail(@)]
<1>1. SameTurn(r, v) /\ SameTurn(r, w) /\ SameTurn(r, r)
  BY SMT DEF SameTurn, Fields, WaitRemove
<1>2. \/ CondSignal(r, c) = r \/ CondSignal(r, c) = Settle(UnBlockThread(v, c, t))
      \/ CondSignal(r, c) = Settle(UnBlockThread(w, c, u))
  BY DEF CondSignal
<1> HIDE DEF v, w, t, u
<1>3. ASSUME NEW x, SameTurn(r, x), NEW q PROVE SameTurn(r, Settle(UnBlockThread(x, c, q)))
  <2> DEFINE l == UnBlockThread(x, c, q)
  <2>1. SameTurn(x, l.k)
    BY <1>3, UnBlockTurn DEF SameTurn
  <2> HIDE DEF l
  <2>2. SameTurn(l.k, Settle(l))
    BY <2>1, SettleTurn DEF SameTurn
  <2>3. SameTurn(r, Settle(l))
    BY <1>3, <2>1, <2>2, SameTurnTrans
  <2> QED
    BY <2>3 DEF l
<1> QED
  BY <1>1, <1>2, <1>3

\* A semaphore is signalled.
LEMMA SemSignalTurn ==
    ASSUME NEW r, DOMAIN r = Fields, NEW o
    PROVE  SameTurn(r, SemSignal(r, o))
<1> DEFINE v == [r EXCEPT !.count[o] = @ + 1]
<1>1. SameTurn(r, v) /\ SameTurn(r, r)
  BY SMT DEF SameTurn, Fields
<1>2. SemSignal(r, o) = r \/ SemSignal(r, o) = v \/ SemSignal(r, o) = ReleaseFirst(v, o, "KErrNone")
  BY DEF SemSignal
<1> HIDE DEF v
<1>3. SameTurn(v, ReleaseFirst(v, o, "KErrNone"))
  BY <1>1, SMT DEF SameTurn, Fields, ReleaseFirst, ThreadRelease, Ready, WaitRemove
<1> QED
  BY <1>1, <1>2, <1>3, SameTurnTrans

\* The whole chain of holders.
LEMMA ChainTurn ==
    ASSUME NEW r, NEW v, SameTurn(r, v), NEW m, NEW p, NEW n
    PROVE  SameTurn(r, Settle(Link(v, m, p, n)))
<1> DEFINE l == Link(v, m, p, n)
<1>1. l.k = v
  BY DEF Link
<1> HIDE DEF l
<1>2. SameTurn(l.k, Settle(l))
  BY <1>1, SettleTurn DEF SameTurn
<1>3. SameTurn(r, Settle(l))
  BY <1>1, <1>2, SameTurnTrans
<1> QED
  BY <1>3 DEF l

\* A priority is set.
LEMMA PriorityTurn ==
    ASSUME NEW r, DOMAIN r = Fields, NEW t, NEW p
    PROVE  SameTurn(r, SetDefaultPriority(r, t, p))
<1> DEFINE v == [r EXCEPT !.defPri[t] = p]
           l == SetRequiredPriority(v, t, 0)
<1>1. SameTurn(r, v)
  BY SMT DEF SameTurn, Fields
<1> HIDE DEF v
<1>2. SameTurn(v, l.k)
  BY <1>1, RequiredTurn DEF SameTurn
<1>3. SetDefaultPriority(r, t, p) = Settle(l)
  BY DEF SetDefaultPriority, v
<1> HIDE DEF l
<1>4. SameTurn(l.k, Settle(l))
  BY <1>2, SettleTurn DEF SameTurn
<1> QED
  BY <1>1, <1>2, <1>3, <1>4, SameTurnTrans

\* Another thread is offered the mutex.
LEMMA WakeAnotherTurn ==
    ASSUME NEW r, DOMAIN r = Fields, NEW m
    PROVE  SameTurn(r, WakeAnother(r, m))
<1>1. SameTurn(r, r) /\ SameTurn(r, WakeUpNextThread(r, m))
  BY WakeTurn DEF SameTurn
<1> QED
  BY <1>1 DEF WakeAnother

\* DThread::Suspend, Resume and ReleaseWait.
LEMMA SuspendTurn ==
    ASSUME NEW r, DOMAIN r = Fields, NEW u, NEW t
    PROVE  SameTurn(r, Suspend(r, u, t))
<1> DEFINE a == [r EXCEPT !.csFunction[t] = @ + 1]
           v == [r EXCEPT !.susp[t] = @ + 1]
<1>1. SameTurn(r, a) /\ SameTurn(r, v) /\ SameTurn(r, r)
  BY SMT DEF SameTurn, Fields
<1>2. Suspend(r, u, t) = r \/ Suspend(r, u, t) = a \/ Suspend(r, u, t) = v \/ Suspend(r, u, t) = SuspendWait(v, t)
  BY DEF Suspend
<1> HIDE DEF v
<1>3. SameTurn(v, SuspendWait(v, t))
  <2> DEFINE o == v.waitObj[t]
             w == [WaitRemove(v, o, t) EXCEPT !.suspQ[o] = Append(@, t), !.mstate[t] = "EWaitMutexSuspended"]
  <2>0. DOMAIN v = Fields
    BY <1>1 DEF SameTurn
  <2>1. /\ SameTurn(v, SemSuspendWaiting(v, o, t)) /\ SameTurn(v, CondSuspendWaiting(v, o, t))
        /\ SameTurn(v, w)
    BY <2>0, SMT DEF SameTurn, Fields, SemSuspendWaiting, CondSuspendWaiting, WaitRemove
  <2>2. MutexSuspendWaiting(v, o, t) = Settle(Link(w, o, HighestPriority(w, o), 0))
    BY DEF MutexSuspendWaiting
  <2> HIDE DEF w
  <2>3. SameTurn(v, MutexSuspendWaiting(v, o, t))
    BY <2>1, <2>2, ChainTurn
  <2>4. SameTurn(v, WakeAnother(v, o)) /\ SameTurn(v, v)
    BY <2>0, WakeAnotherTurn DEF SameTurn
  <2> QED
    BY <2>1, <2>3, <2>4 DEF SuspendWait
<1> QED
  BY <1>1, <1>2, <1>3, SameTurnTrans

\* A thread is resumed.
LEMMA ResumeTurn ==
    ASSUME NEW r, DOMAIN r = Fields, NEW t
    PROVE  SameTurn(r, Resume(r, t))
<1> DEFINE a == [r EXCEPT !.csFunction[t] = @ - 1]
           v == [r EXCEPT !.susp[t] = @ - 1]
<1>1. SameTurn(r, a) /\ SameTurn(r, v) /\ SameTurn(r, r)
  BY SMT DEF SameTurn, Fields
<1>2. Resume(r, t) = r \/ Resume(r, t) = a \/ Resume(r, t) = v \/ Resume(r, t) = ResumeWait(v, t)
  BY DEF Resume
<1> HIDE DEF v
<1>3. SameTurn(v, ResumeWait(v, t))
  <2> DEFINE o == v.waitObj[t]
  <2>0. DOMAIN v = Fields /\ SameTurn(v, v)
    BY <1>1 DEF SameTurn
  <2>1. SameTurn(v, SemResumeWaiting(v, o, t))
    <3> DEFINE x == [v EXCEPT !.suspQ[o] = Without(@, t)]
               y == [x EXCEPT !.count[o] = @ - 1]
    <3>1. SameTurn(v, x) /\ SameTurn(v, y)
      BY <2>0, SMT DEF SameTurn, Fields
    <3>2. \/ SemResumeWaiting(v, o, t) = ThreadRelease(Ready(x, t), t, "KErrGeneral")
          \/ SemResumeWaiting(v, o, t) = ThreadRelease(Ready(y, t), t, "KErrNone")
          \/ SemResumeWaiting(v, o, t) = Wait(y, o, t, "EWaitSemaphore")
      BY DEF SemResumeWaiting
    <3> HIDE DEF x, y
    <3>3. /\ SameTurn(x, ThreadRelease(Ready(x, t), t, "KErrGeneral"))
          /\ SameTurn(y, ThreadRelease(Ready(y, t), t, "KErrNone"))
      BY <3>1, SMT DEF SameTurn, Fields, ThreadRelease, Ready
    <3>4. SameTurn(y, Wait(y, o, t, "EWaitSemaphore"))
      BY <3>1, WaitTurn DEF SameTurn
    <3> QED
      BY <3>1, <3>2, <3>3, <3>4, SameTurnTrans
  <2>2. SameTurn(v, MutexResumeWaiting(v, o, t))
    <3> DEFINE x == [v EXCEPT !.suspQ[o] = Without(@, t)]
               y == [v EXCEPT !.suspQ[o] = Without(@, t), !.waitCount[o] = @ - 1]
               z == [y EXCEPT !.mstate[t] = "EHoldMutexPending", !.pendQ[o] = Append(@, t)]
               l == WaitForMutex(y, t, o, 0)
    <3>1. SameTurn(v, x) /\ SameTurn(v, y)
      BY <2>0, SMT DEF SameTurn, Fields
    <3>2. \/ MutexResumeWaiting(v, o, t) = ThreadRelease(Ready(x, t), t, "KErrGeneral")
          \/ MutexResumeWaiting(v, o, t) = Settle(l)
          \/ MutexResumeWaiting(v, o, t) = ThreadRelease(z, t, "KErrNone")
      BY DEF MutexResumeWaiting
    <3> HIDE DEF x, y
    <3>3. /\ SameTurn(x, ThreadRelease(Ready(x, t), t, "KErrGeneral"))
          /\ SameTurn(y, ThreadRelease(z, t, "KErrNone"))
      BY <3>1, SMT DEF SameTurn, Fields, ThreadRelease, Ready
    <3>4. SameTurn(y, l.k)
      BY <3>1, WaitForMutexTurn DEF SameTurn
    <3> HIDE DEF l
    <3>5. SameTurn(l.k, Settle(l))
      BY <3>4, SettleTurn DEF SameTurn
    <3> QED
      BY <3>1, <3>2, <3>3, <3>4, <3>5, SameTurnTrans
  <2>3. SameTurn(v, CondResumeWaiting(v, o, t))
    <3> DEFINE x == [v EXCEPT !.suspQ[o] = Without(@, t), !.mstate[t] = "EWaitCondVar"]
               l == UnBlockThread(x, o, t)
    <3>1. SameTurn(v, x)
      BY <2>0, SMT DEF SameTurn, Fields
    <3>2. CondResumeWaiting(v, o, t) = Settle(l)
      BY DEF CondResumeWaiting
    <3> HIDE DEF x
    <3>3. SameTurn(x, l.k)
      BY <3>1, UnBlockTurn DEF SameTurn
    <3> HIDE DEF l
    <3>4. SameTurn(l.k, Settle(l))
      BY <3>3, SettleTurn DEF SameTurn
    <3> QED
      BY <3>1, <3>2, <3>3, <3>4, SameTurnTrans
  <2> QED
    BY <2>0, <2>1, <2>2, <2>3 DEF ResumeWait
<1> QED
  BY <1>1, <1>2, <1>3, SameTurnTrans

\* A wait is ended from outside.
LEMMA ReleaseWaitTurn ==
    ASSUME NEW r, DOMAIN r = Fields, NEW t, r.mstate[t] \in MState, NEW c
    PROVE  SameTurn(r, ReleaseWait(r, t, c))
<1> DEFINE o == r.waitObj[t]
           deq == [r EXCEPT !.suspQ[o] = Without(@, t)]
           dec == [deq EXCEPT !.waitCount[o] = @ - 1]
           v == [WaitRemove(r, o, t) EXCEPT !.waitCount[o] = @ - 1]
           w == [r EXCEPT !.pendQ[o] = Without(@, t)]
           x == WaitRemove(r, o, t)
<1>1. /\ SameTurn(r, deq) /\ SameTurn(r, dec) /\ SameTurn(r, v) /\ SameTurn(r, w) /\ SameTurn(r, x)
      /\ SameTurn(r, SemWaitCancel(r, o, t)) /\ SameTurn(r, r)
  BY SMT DEF SameTurn, Fields, WaitRemove, SemWaitCancel
<1>2. SameTurn(r, MutexWaitCancel(r, o, t))
  <2>1. MutexWaitCancel(r, o, t) = Settle(Link(v, o, HighestPriority(v, o), 0))
    BY DEF MutexWaitCancel
  <2> HIDE DEF v
  <2> QED
    BY <1>1, <2>1, ChainTurn
<1>3. SameTurn(r, RemovePendingThread(r, o, t))
  <2>1. RemovePendingThread(r, o, t) = WakeAnother(w, o)
    BY DEF RemovePendingThread
  <2> HIDE DEF w
  <2>2. SameTurn(w, WakeAnother(w, o))
    BY <1>1, WakeAnotherTurn DEF SameTurn
  <2> QED
    BY <1>1, <2>1, <2>2, SameTurnTrans
<1>4. ASSUME NEW y, SameTurn(r, y) PROVE SameTurn(r, CondUncount(y, o))
  <2>1. SameTurn(y, CondUncount(y, o))
    BY <1>4, SMT DEF SameTurn, Fields, CondUncount
  <2> QED
    BY <1>4, <2>1, SameTurnTrans
<1>5. CondWaitCancel(r, o, t) = CondUncount(x, o)
  BY DEF CondWaitCancel
<1>6. ASSUME NEW y, SameTurn(r, y) PROVE SameTurn(r, ThreadRelease(Ready(y, t), t, c))
  <2>1. SameTurn(y, Ready(y, t))
    BY <1>6, SMT DEF SameTurn, Fields, Ready
  <2>2. \A z : DOMAIN z = Fields => SameTurn(z, ThreadRelease(z, t, c))
    BY SMT DEF SameTurn, Fields, ThreadRelease
  <2>3. SameTurn(Ready(y, t), ThreadRelease(Ready(y, t), t, c))
    BY <2>1, <2>2 DEF SameTurn
  <2> QED
    BY <1>6, <2>1, <2>3, SameTurnTrans
<1> DEFINE F(y) == ThreadRelease(Ready(y, t), t, c)
<1>7. \/ ReleaseWait(r, t, c) = r
      \/ ReleaseWait(r, t, c) = F(SemWaitCancel(r, o, t)) \/ ReleaseWait(r, t, c) = F(deq)
      \/ ReleaseWait(r, t, c) = F(MutexWaitCancel(r, o, t)) \/ ReleaseWait(r, t, c) = F(dec)
      \/ ReleaseWait(r, t, c) = F(RemovePendingThread(r, o, t))
      \/ ReleaseWait(r, t, c) = F(CondWaitCancel(r, o, t))
      \/ ReleaseWait(r, t, c) = F(CondUncount(deq, o))
  <2> USE DEF ReleaseWait
  <2>1. CASE r.mstate[t] \in {"EReady", "EDead"}
    BY <2>1
  <2>2. CASE r.mstate[t] = "EWaitSemaphore"
    BY <2>2
  <2>3. CASE r.mstate[t] = "EWaitSemaphoreSuspended"
    BY <2>3
  <2>4. CASE r.mstate[t] = "EWaitMutex"
    BY <2>4
  <2>5. CASE r.mstate[t] = "EWaitMutexSuspended"
    BY <2>5
  <2>6. CASE r.mstate[t] = "EHoldMutexPending"
    BY <2>6
  <2>7. CASE r.mstate[t] = "EWaitCondVar"
    BY <2>7
  <2>8. CASE r.mstate[t] = "EWaitCondVarSuspended"
    BY <2>8
  <2> HIDE DEF ReleaseWait, F, deq, dec
  <2> QED
    BY <2>1, <2>2, <2>3, <2>4, <2>5, <2>6, <2>7, <2>8 DEF MState
<1> HIDE DEF deq, dec, v, w, x
<1> QED
  BY <1>1, <1>2, <1>3, <1>4, <1>5, <1>6, <1>7

\* The step of a broadcast, of SignalN and of a reset.
LEMMA BroadcastTurn ==
    ASSUME NEW r, TurnT(r), NEW t \in Thread, NEW s, s = BroadcastLoop(r, t)
    PROVE  Others(r, s, t) /\ Turn(s, t)
<1> DEFINE m == r.obj[t]
           c == r.cond[t]
           v == CondSignal(r, c)
           w == IF r.todo[t] = 1 THEN MutexSignal(r, t, m) ELSE r
           x == [w EXCEPT !.todo[t] = 0]
<1>1. s = [v EXCEPT !.pc[t] = "Broadcast"] \/ s = BackLeaveCS(x, t)
  BY DEF BroadcastLoop
<1>2. SameTurn(r, v)
  BY CondSignalTurn DEF TurnT
<1>3. Fewer(r, w)
  BY MutexSignalTurn DEF Fewer
<1> HIDE DEF v, w
<1>4. CASE s = [v EXCEPT !.pc[t] = "Broadcast"]
  <2>1. /\ DOMAIN s = Fields /\ s.pc = [r.pc EXCEPT ![t] = "Broadcast"] /\ s.obj = r.obj
        /\ s.cleanupQ = r.cleanupQ
    BY <1>2, <1>4, SMT DEF SameTurn, Fields
  <2> QED
    BY <2>1, NullTurn DEF Others, TurnT
<1>5. CASE s = BackLeaveCS(x, t)
  <2>1. SameTurn(w, x)
    BY <1>3, SMT DEF SameTurn, Fewer, TurnT, Fields
  <2> HIDE DEF x
  <2>2. Others(r, x, t) /\ TurnT(x)
    BY <1>3, <2>1, SameFewer, FewerTrans, FewerOthers DEF Fewer
  <2>3. Others(x, s, t) /\ s.obj[t] = Null
    BY <1>5, <2>2, BackTurn
  <2> QED
    BY <2>2, <2>3, OthersTrans, NullTurn
<1> QED
  BY <1>1, <1>4, <1>5

\* A round of DSemaphore::SignalN.
LEMMA SignalNTurn ==
    ASSUME NEW r, TurnT(r), NEW t \in Thread, NEW o, NEW n, NEW s, s = SignalNLoop(r, t, o, n)
    PROVE  Others(r, s, t) /\ Turn(s, t)
<1> DEFINE v == [r EXCEPT !.todo[t] = 0]
           w == [r EXCEPT !.count[o] = @ + n, !.todo[t] = 0]
           x == SemSignal(r, o)
           y == [x EXCEPT !.pc[t] = "SignalN", !.obj[t] = o, !.todo[t] = n - 1]
<1>1. s = BackLeaveCS(v, t) \/ s = BackLeaveCS(w, t) \/ s = y
  BY DEF SignalNLoop
<1>2. SameTurn(r, v) /\ SameTurn(r, w)
  BY SMT DEF SameTurn, TurnT, Fields
<1>3. SameTurn(r, x)
  BY SemSignalTurn DEF TurnT
<1> HIDE DEF v, w, x
<1>4. ASSUME NEW z, SameTurn(r, z), s = BackLeaveCS(z, t)
      PROVE  Others(r, s, t) /\ Turn(s, t)
  <2>1. Others(r, z, t) /\ TurnT(z)
    BY <1>4, SameFewer, FewerOthers DEF Fewer
  <2>2. Others(z, s, t) /\ s.obj[t] = Null
    BY <1>4, <2>1, BackTurn
  <2> QED
    BY <2>1, <2>2, OthersTrans, NullTurn
<1>5. CASE s = y
  <2>1. /\ DOMAIN s = Fields /\ s.pc = [r.pc EXCEPT ![t] = "SignalN"]
        /\ s.obj = [r.obj EXCEPT ![t] = o]
        /\ s.cleanupQ = r.cleanupQ
    BY <1>3, <1>5, SMT DEF SameTurn, Fields
  <2> QED
    BY <2>1, NullTurn DEF Others, TurnT
<1> QED
  BY <1>1, <1>2, <1>4, <1>5

\* A round of a reset.
LEMMA ResetTurn ==
    ASSUME NEW r, TurnT(r), NEW t \in Thread, r.pc[t] = "Reset", NEW o,
           o \in Mutex => r.holder[o] \in Thread \cup {Null}, NEW n, NEW s, s = ResetLoop(r, t, o, n)
    PROVE  Others(r, s, t) /\ Turn(s, t)
<1> DEFINE u == Head(r.pendQ[o])
           a == [Ready(r, u) EXCEPT !.pendQ[o] = Tail(@)]
           b == [ReleaseFirst(r, o, "KErrGeneral") EXCEPT !.count = [x \in Sem |->
                   IF x = o THEN @[x] + 1 ELSE @[x]]]
           d == ThreadRelease(Ready([r EXCEPT !.suspQ[o] = Tail(@)], Head(r.suspQ[o])),
                              Head(r.suspQ[o]), "KErrGeneral")
           e == Destroyed(r, o, n)
<1>1. s = a \/ s = b \/ s = d \/ s = BackLeaveCS(e, t)
  BY DEF ResetLoop
<1>2. SameTurn(r, a) /\ SameTurn(r, d)
  BY SMT DEF SameTurn, TurnT, Fields, Ready, ThreadRelease
<1>3. SameTurn(r, b)
  BY SMT DEF SameTurn, TurnT, Fields, ReleaseFirst, Ready, ThreadRelease, WaitRemove
<1>4. Fewer(r, e)
  <2> DEFINE v == IF o \in Mutex /\ r.holder[o] # Null THEN ForgetHolder(r, o, n) ELSE r
  <2>1. Fewer(r, r)
    BY DEF Fewer
  <2>2. Fewer(r, v)
    BY <2>1, ForgetTurn
  <2>3. e = [v EXCEPT !.phase[o] = "deleted",
                   !.clnPri    = [m \in Mutex |-> IF m = o THEN 0 ELSE @[m]],
                   !.holdCount = [m \in Mutex |-> IF m = o THEN 0 ELSE @[m]],
                   !.count     = [x \in Sem   |-> IF x = o THEN 0 ELSE @[x]],
                   !.cvMutex   = [c \in Cond  |-> IF c = o THEN Null ELSE @[c]]]
    BY DEF Destroyed
  <2> HIDE DEF v
  <2>4. SameTurn(v, e)
    BY <2>2, <2>3, SMT DEF SameTurn, Fewer, TurnT, Fields
  <2> QED
    BY <2>2, <2>4, SameFewer, FewerTrans DEF Fewer
<1> HIDE DEF a, b, d, e
<1>5. ASSUME SameTurn(r, s) PROVE Others(r, s, t) /\ Turn(s, t)
  BY <1>5, NullTurn, SameFewer, FewerOthers DEF SameTurn
<1>6. CASE s = BackLeaveCS(e, t)
  <2>1. Others(r, e, t) /\ TurnT(e)
    BY <1>4, FewerOthers DEF Fewer
  <2>2. Others(e, s, t) /\ s.obj[t] = Null
    BY <1>6, <2>1, BackTurn
  <2> QED
    BY <2>1, <2>2, OthersTrans, NullTurn
<1> QED
  BY <1>1, <1>2, <1>3, <1>5, <1>6

\* Every mutex has an order that a debug build enforces.
Ordered == \A m \in Mutex : Order[m] < KMutexOrdUser

\* What the debug assertion on mutex orders says of a wait.
LEMMA InOrderIs ==
    ASSUME Ordered, World(k, {}), NEW t \in Thread, NEW m \in Mutex, InOrder(t, m)
    PROVE  \A h \in k.cleanupQ[t] : (h = m /\ k.holder[m] = t) \/ Order[m] < Order[h]
BY DEF Ordered, InOrder, World, HoldOK

\* The calls keep the order.
LEMMA TurnsCall ==
    ASSUME Ordered, World(k, {}), InTurn(k), NEW t \in Thread, Call(t)
    PROVE  InTurn(k')
<1>1. TurnT(k) /\ t # Null
  BY WorldTypes, SyncAssumption DEF TurnT, CtlT, Rec
<1>2. ASSUME SameTurn(k, k') PROVE InTurn(k')
  BY <1>1, <1>2, SameFewer, FewerTurn
<1>3. ASSUME NEW m \in Mutex, MutexWait(t, m) PROVE InTurn(k')
  <2>1. \A h \in k.cleanupQ[t] : (h = m /\ k.holder[m] = t) \/ Order[m] < Order[h]
    BY <1>3, InOrderIs DEF MutexWait
  <2>2. k' = MutexWaitLoop(k, t, m)
    BY <1>3 DEF MutexWait
  <2> QED
    BY <1>1, <2>1, <2>2, LoopTurn, OthersTurn
<1>4. ASSUME NEW m \in Mutex, MutexPoll(t, m) PROVE InTurn(k')
  <2>1. k' = Claim(k, t, m) /\ k.pc[t] = "run"
    BY <1>4 DEF MutexPoll, At
  <2>2. Others(k, k', t) /\ (k').pc = k.pc /\ (k').obj = k.obj
    BY <1>1, <2>1, ClaimTurn
  <2>3. Turn(k', t)
    BY <2>1, <2>2 DEF InTurn, Turn, MayWait
  <2> QED
    BY <2>2, <2>3, OthersTurn
<1>5. ASSUME NEW m \in Mutex, MutexSignals(t, m) PROVE InTurn(k')
  BY <1>1, <1>5, MutexSignalTurn, FewerTurn DEF MutexSignals
<1>6. ASSUME NEW s \in Sem, SemWait(t, s) PROVE InTurn(k')
  <2> DEFINE v == [k EXCEPT !.count[s] = @ - 1]
             w == Wait(v, s, t, "EWaitSemaphore")
             b == t \in Timed
  <2>1. k' = v \/ k' = Block(w, t, b)
    BY <1>6 DEF SemWait
  <2>2. SameTurn(k, v)
    BY <1>1, SMT DEF SameTurn, TurnT, Fields
  <2> HIDE DEF v, b
  <2>3. SameTurn(v, w)
    BY <2>2, WaitTurn DEF SameTurn
  <2> HIDE DEF w
  <2>4. SameTurn(w, Block(w, t, b))
    <3>1. DOMAIN w = Fields
      BY <2>3 DEF SameTurn
    <3> QED
      BY <3>1, WaitListTurn
  <2>5. SameTurn(k, Block(w, t, b))
    BY <2>2, <2>3, <2>4, SameTurnTrans
  <2> QED
    BY <1>2, <2>1, <2>2, <2>5
<1>7. ASSUME NEW s \in Sem, SemPoll(t, s) PROVE InTurn(k')
  <2>1. SameTurn(k, k')
    BY <1>1, <1>7, SMT DEF SemPoll, SameTurn, TurnT, Fields
  <2> QED
    BY <1>2, <2>1
<1>8. ASSUME NEW s \in Sem, SemSignals(t, s) PROVE InTurn(k')
  BY <1>1, <1>2, <1>8, SemSignalTurn DEF SemSignals, TurnT
<1>9. ASSUME NEW s \in Sem, SemSignalN(t, s, 2) PROVE InTurn(k')
  <2> DEFINE v == EnterCS(k, t)
  <2>1. k' = SignalNLoop(v, t, s, 2)
    BY <1>9 DEF SemSignalN
  <2>2. SameTurn(k, v)
    BY <1>1, SMT DEF SameTurn, TurnT, Fields, EnterCS
  <2> HIDE DEF v
  <2>3. Others(k, v, t) /\ TurnT(v)
    BY <1>1, <2>2, SameFewer, FewerOthers DEF Fewer
  <2>4. Others(v, k', t) /\ Turn(k', t)
    BY <2>1, <2>3, SignalNTurn
  <2> QED
    BY <2>3, <2>4, OthersTrans, OthersTurn
<1>10. ASSUME NEW c \in Cond, CondSignals(t, c) PROVE InTurn(k')
  BY <1>1, <1>2, <1>10, CondSignalTurn DEF CondSignals, TurnT
<1>11. ASSUME NEW c \in Cond, CondBroadcast(t, c) PROVE InTurn(k')
  <2> DEFINE m == k.cvMutex[c]
             v == [EnterCS(k, t) EXCEPT !.cond[t] = c, !.obj[t] = m, !.todo[t] = 1]
             w == [v EXCEPT !.todo[t] = 0]
  <2>1. InOrder(t, m) /\ (k' = BroadcastLoop(w, t) \/ k' = MutexWaitLoop(v, t, m)) /\ m # Null
    BY <1>11 DEF CondBroadcast
  <2>2. m \in Mutex
    BY <2>1, WorldTypes DEF CntT
  <2>3. Others(k, v, t) /\ Others(k, w, t)
    BY <1>1, SMT DEF Others, TurnT, Fields, EnterCS
  <2>4. v.cleanupQ = k.cleanupQ /\ v.holder = k.holder
    BY <1>1, SMT DEF TurnT, Fields, EnterCS
  <2> HIDE DEF v, w, m
  <2>5. \A h \in v.cleanupQ[t] : (h = m /\ v.holder[m] = t) \/ Order[m] < Order[h]
    BY <2>1, <2>2, <2>4, InOrderIs
  <2>6. CASE k' = BroadcastLoop(w, t)
    <3>1. Others(w, k', t) /\ Turn(k', t)
      BY <2>3, <2>6, BroadcastTurn DEF Others
    <3> QED
      BY <2>3, <3>1, OthersTrans, OthersTurn
  <2>7. CASE k' = MutexWaitLoop(v, t, m)
    <3>0. TurnT(v)
      BY <2>3 DEF Others
    <3>1. Others(v, k', t) /\ Turn(k', t)
      BY <1>1, <3>0, <2>5, <2>7, LoopTurn
    <3> QED
      BY <2>3, <3>1, OthersTrans, OthersTurn
  <2> QED
    BY <2>1, <2>6, <2>7
<1>12. ASSUME NEW c \in Cond, NEW m \in Mutex, CondWait(t, c, m) PROVE InTurn(k')
  <2> DEFINE a == [k EXCEPT !.cvMutex[c] = m, !.waitCount[c] = @ + 1]
             b == Wait(a, c, t, "EWaitCondVar")
             d == [b EXCEPT !.holdCount[m] = 0]
             e == GiveUp(d, t, m)
             p == RequiredPriority(e, t)
             f == IF e.clnPri[m] = 0 THEN e ELSE ChangePriority(e, c, t, p)
  <2>1. InOrder(t, m) /\ k' = [f EXCEPT !.pc[t] = "CondWindow", !.obj[t] = m, !.cond[t] = c]
    BY <1>12 DEF CondWait
  <2>2. SameTurn(k, a)
    BY <1>1, SMT DEF SameTurn, TurnT, Fields
  <2> HIDE DEF a
  <2>3. SameTurn(a, b)
    BY <2>2, WaitTurn DEF SameTurn
  <2> HIDE DEF b
  <2>4. SameTurn(b, d)
    BY <2>3, SMT DEF SameTurn, Fields
  <2> HIDE DEF d
  <2>5. SameTurn(k, d) /\ TurnT(d)
    BY <1>1, <2>2, <2>3, <2>4, SameTurnTrans DEF SameTurn, TurnT
  <2>6. Fewer(d, e) /\ e.cleanupQ[t] = d.cleanupQ[t] \ {m}
    BY <2>5, GiveUpTurn
  <2> HIDE DEF e, p
  <2>7. SameTurn(e, f)
    <3>1. SameTurn(e, e) /\ SameTurn(e, ChangePriority(e, c, t, p))
      BY <2>6, ChangePriorityTurn DEF Fewer, TurnT, SameTurn
    <3> QED
      BY <3>1
  <2> HIDE DEF f
  <2>8. /\ DOMAIN k' = Fields /\ (k').pc = [f.pc EXCEPT ![t] = "CondWindow"]
        /\ (k').obj = [f.obj EXCEPT ![t] = m] /\ (k').cleanupQ = f.cleanupQ
    BY <2>1, <2>7, SMT DEF SameTurn, Fields
  <2>9. /\ f.pc = k.pc /\ f.obj = k.obj /\ \A u \in Thread : f.cleanupQ[u] \subseteq k.cleanupQ[u]
        /\ f.cleanupQ[t] \subseteq k.cleanupQ[t] \ {m} /\ TurnT(f)
    BY <2>5, <2>6, <2>7 DEF SameTurn, Fewer, TurnT
  <2>10. Others(k, k', t)
    BY <2>8, <2>9 DEF Others, TurnT
  <2>11. \A h \in (k').cleanupQ[t] : Order[m] < Order[h]
    BY <2>1, <2>8, <2>9, InOrderIs
  <2>12. Turn(k', t)
    BY <2>8, <2>9, <2>11 DEF Turn, TurnT
  <2> QED
    BY <2>10, <2>12, OthersTurn
<1> QED
  BY <1>3, <1>4, <1>5, <1>6, <1>7, <1>8, <1>9, <1>10, <1>11, <1>12 DEF Call

\* So do calls that go on,
LEMMA TurnsGoesOn ==
    ASSUME Ordered, World(k, {}), InTurn(k), NEW t \in Thread, GoesOn(t)
    PROVE  InTurn(k')
<1>1. TurnT(k) /\ t # Null /\ ThreadOK(k, t) /\ Turn(k, t)
  BY WorldTypes, SyncAssumption DEF TurnT, CtlT, Rec, World, InTurn
<1>2. CASE MutexWaitReturns(t)
  <2> DEFINE m == k.obj[t]
             b == k.mstate[t] = "EReady"
             a == Asserted(k, b)
             v == [Ready(k, t) EXCEPT !.pendQ[m] = Without(@, t)]
  <2>1. k.pc[t] = "MutexWait" /\ (k' = AfterMutexWait(a, t) \/ k' = MutexWaitLoop(v, t, m))
    BY <1>2 DEF MutexWaitReturns, At
  <2>2. SameTurn(k, a)
    BY <1>1, WaitListTurn DEF TurnT
  <2>3. SameTurn(k, v) /\ v.holder = k.holder
    BY <1>1, SMT DEF SameTurn, TurnT, Fields, Ready
  <2> HIDE DEF a, v
  <2>4. /\ Others(k, a, t) /\ Others(k, v, t) /\ TurnT(a) /\ TurnT(v)
    BY <1>1, <2>2, <2>3, SameFewer, FewerOthers DEF Fewer
  <2>5. CASE k' = AfterMutexWait(a, t)
    BY <2>4, <2>5, AfterTurn, OthersTrans, OthersTurn
  <2>6. CASE k' = MutexWaitLoop(v, t, m)
    <3>1. m # Null
      BY <1>1, <2>1, SyncAssumption DEF ThreadOK, PcOK, Obj
    <3>2. \A h \in v.cleanupQ[t] : (h = m /\ v.holder[m] = t) \/ Order[m] < Order[h]
      BY <1>1, <2>1, <2>3, <3>1 DEF Turn, MayWait, SameTurn
    <3> HIDE DEF m
    <3>3. Others(v, k', t) /\ Turn(k', t)
      BY <1>1, <2>4, <2>6, <3>2, LoopTurn
    <3> QED
      BY <2>4, <3>3, OthersTrans, OthersTurn
  <2> QED
    BY <2>1, <2>5, <2>6
<1>3. CASE SemSignalNGoesOn(t)
  BY <1>1, <1>3, SignalNTurn, OthersTurn DEF SemSignalNGoesOn
<1>4. ASSUME NEW v, SameTurn(k, v), k.pc[t] \in {"CondWindow", "CondWait"}, NEW m,
             k' = Back(v, t) \/ k' = CondWaitLoop(v, t, m)
      PROVE  InTurn(k')
  <2>1. Others(k, v, t) /\ TurnT(v)
    BY <1>1, <1>4, SameFewer, FewerOthers DEF Fewer
  <2>2. Turn(v, t) /\ v.pc[t] \in {"CondWindow", "CondWait"}
    BY <1>1, <1>4 DEF Turn, SameTurn
  <2>3. CASE k' = Back(v, t)
    BY <2>1, <2>3, BackTurn, NullTurn, OthersTrans, OthersTurn
  <2>4. CASE k' = CondWaitLoop(v, t, m)
    BY <2>1, <2>2, <2>4, CondLoopTurn, OthersTrans, OthersTurn
  <2> QED
    BY <1>4, <2>3, <2>4
<1>5. \A b : SameTurn(k, Asserted(k, b)) /\ SameTurn(k, k)
  BY <1>1, WaitListTurn DEF TurnT, SameTurn
<1>6. CASE CondWindow(t)
  <2> DEFINE b == k.mstate[t] \in {"EWaitCondVar", "EWaitMutex", "EHoldMutexPending"}
             m == k.obj[t]
  <2>1. k.pc[t] = "CondWindow" /\ (k' = Back(k, t) \/ k' = CondWaitLoop(Asserted(k, b), t, m))
    BY <1>6 DEF CondWindow, At
  <2> HIDE DEF b, m
  <2> QED
    BY <1>4, <1>5, <2>1
<1>7. CASE CondWaitReturns(t)
  <2> DEFINE b == k.mstate[t] = "EReady"
             m == k.obj[t]
  <2>1. k.pc[t] = "CondWait" /\ (k' = Back(Asserted(k, b), t) \/ k' = CondWaitLoop(k, t, m))
    BY <1>7 DEF CondWaitReturns, At
  <2> HIDE DEF b, m
  <2> QED
    BY <1>4, <1>5, <2>1
<1>8. CASE BroadcastStep(t)
  BY <1>1, <1>8, BroadcastTurn, OthersTurn DEF BroadcastStep
<1>9. CASE ResetStep(t)
  <2>1. PICK n \in NestLevel : k.pc[t] = "Reset" /\ k' = ResetLoop(k, t, k.obj[t], n)
    BY <1>9 DEF ResetStep, At
  <2>2. k.obj[t] \in Mutex => k.holder[k.obj[t]] \in Thread \cup {Null}
    BY WorldTypes DEF CtlT
  <2> QED
    BY <1>1, <2>1, <2>2, ResetTurn, OthersTurn
<1>10. CASE ExitReleasesWait(t)
  <2> DEFINE v == ReleaseWait(k, t, "KErrDied")
  <2>1. k' = [v EXCEPT !.pc[t] = "Cleanup"]
    BY <1>10 DEF ExitReleasesWait
  <2>2. k.mstate[t] \in MState
    BY DEF World, QOK, RQ, QS, Placed, QTypes
  <2>3. SameTurn(k, v)
    BY <1>1, <2>2, ReleaseWaitTurn DEF TurnT
  <2> HIDE DEF v
  <2>4. /\ DOMAIN k' = Fields /\ (k').pc = [k.pc EXCEPT ![t] = "Cleanup"] /\ (k').obj = k.obj
        /\ (k').cleanupQ = k.cleanupQ
    BY <2>1, <2>3, SMT DEF SameTurn, Fields
  <2>5. Others(k, k', t) /\ Turn(k', t)
    BY <1>1, <2>4, NullTurn DEF Others, TurnT
  <2> QED
    BY <2>5, OthersTurn
<1>11. ASSUME NEW m \in Mutex, ExitCleansUp(t, m) PROVE InTurn(k')
  <2> DEFINE v == [k EXCEPT !.holdCount[m] = 1]
  <2>1. (Resetting(k, m) /\ k' = ForgetHolder(k, m, 0)) \/ k' = MutexSignal(v, t, m)
    BY <1>11 DEF ExitCleansUp
  <2>2. SameTurn(k, v)
    BY <1>1, SMT DEF SameTurn, TurnT, Fields
  <2> HIDE DEF v
  <2>3. Fewer(k, v) /\ TurnT(v)
    BY <1>1, <2>2, SameFewer DEF Fewer
  <2>4. k.holder[m] \in Thread
    BY <1>11 DEF World, HoldOK, ExitCleansUp
  <2>5. Fewer(k, k')
    BY <1>1, <2>1, <2>3, <2>4, ForgetTurn, MutexSignalTurn, FewerTrans
  <2> QED
    BY <2>5, FewerTurn
<1>12. CASE ExitEnds(t)
  <2>1. /\ DOMAIN k' = Fields /\ (k').pc = [k.pc EXCEPT ![t] = "dead"]
        /\ (k').obj = [k.obj EXCEPT ![t] = Null]
        /\ (k').cleanupQ = k.cleanupQ
    BY <1>1, <1>12, SMT DEF ExitEnds, TurnT, Fields
  <2>2. Others(k, k', t) /\ Turn(k', t)
    BY <1>1, <2>1, NullTurn DEF Others, TurnT
  <2> QED
    BY <2>2, OthersTurn
<1> QED
  BY <1>2, <1>3, <1>6, <1>7, <1>8, <1>9, <1>10, <1>11, <1>12 DEF GoesOn

\* and what is done to threads.
LEMMA TurnsControl ==
    ASSUME World(k, {}), InTurn(k), Control
    PROVE  InTurn(k')
<1>1. TurnT(k)
  BY WorldTypes DEF TurnT, CtlT, Rec
<1>2. ASSUME SameTurn(k, k') PROVE InTurn(k')
  BY <1>1, <1>2, SameFewer, FewerTurn
<1>3. ASSUME NEW u, NEW t, Suspends(u, t) \/ Resumes(u, t) PROVE InTurn(k')
  BY <1>1, <1>2, <1>3, SuspendTurn, ResumeTurn DEF Suspends, Resumes, TurnT
<1>4. ASSUME NEW u \in Thread, NEW t \in Thread, Kills(u, t) PROVE InTurn(k')
  <2> DEFINE a == [k EXCEPT !.csFunction[t] = -1]
             b == [ThreadRelease(k, t, "KErrDied") EXCEPT
                       !.susp[t] = 0, !.cs[t] = TRUE, !.csFunction[t] = -1, !.pc[t] = "Exit"]
             v == IF k.cs[t] THEN IF k.csFunction[t] < 0 THEN k ELSE a ELSE b
  <2>1. k' = SetDefaultPriority(v, t, ExitPri) /\ k.pc[t] # "dead"
    BY <1>4 DEF Kills, Die
  <2>2. SameTurn(k, a) /\ SameTurn(k, k)
    BY <1>1, SMT DEF SameTurn, TurnT, Fields
  <2>3. /\ DOMAIN b = Fields /\ b.pc = [k.pc EXCEPT ![t] = "Exit"] /\ b.obj = k.obj
        /\ b.cleanupQ = k.cleanupQ
    BY <1>1, SMT DEF TurnT, Fields, ThreadRelease
  <2> HIDE DEF a, b
  <2>4. ASSUME ~k.cs[t] PROVE Others(k, b, t) /\ Turn(b, t)
    <3>1. Others(k, b, t)
      BY <1>1, <2>3 DEF Others, TurnT
    <3>2. k.pc[t] \in MayWait \cup {"run"}
      <4>1. k.pc[t] \in Cont /\ SuspOK(k, t)
        BY WorldTypes DEF CtlT, World, ThreadOK
      <4> QED
        BY <2>1, <2>4, <4>1 DEF Cont, SuspOK, MayWait
    <3>3. Turn(k, t)
      BY DEF InTurn
    <3>4. b.pc[t] = "Exit" /\ b.obj[t] = k.obj[t] /\ b.cleanupQ[t] = k.cleanupQ[t]
      BY <1>1, <2>3 DEF TurnT
    <3> QED
      BY <3>1, <3>2, <3>3, <3>4 DEF Turn, MayWait
  <2>5. InTurn(v) /\ TurnT(v)
    <3>1. CASE v = k \/ v = a
      BY <1>1, <2>2, <3>1, SameFewer, FewerTurn DEF Fewer
    <3>2. CASE ~k.cs[t] /\ v = b
      BY <2>4, <3>2, OthersTurn DEF Others
    <3> QED
      BY <3>1, <3>2
  <2> HIDE DEF v
  <2>6. SameTurn(v, k')
    BY <2>1, <2>5, PriorityTurn DEF TurnT
  <2> QED
    BY <2>5, <2>6, SameFewer, FewerTurn
<1>5. ASSUME NEW t, NEW p, SetsPriority(t, p) PROVE InTurn(k')
  BY <1>1, <1>2, <1>5, PriorityTurn DEF SetsPriority, TurnT
<1>6. ASSUME NEW t \in Thread, NEW o \in Obj, Delete(t, o) PROVE InTurn(k')
  <2> DEFINE v == [EnterCS(k, t) EXCEPT !.phase[o] = "resetting", !.pc[t] = "Reset", !.obj[t] = o]
  <2>1. k' = ResetLoop(v, t, o, 0)
    BY <1>6 DEF Delete
  <2>2. Others(k, v, t) /\ v.pc[t] = "Reset" /\ v.holder = k.holder
    BY <1>1, SMT DEF Others, TurnT, Fields, EnterCS
  <2>3. o \in Mutex => v.holder[o] \in Thread \cup {Null}
    BY <2>2, WorldTypes DEF CtlT
  <2> HIDE DEF v
  <2>4. TurnT(v)
    BY <2>2 DEF Others
  <2>5. Others(v, k', t) /\ Turn(k', t)
    BY <2>1, <2>2, <2>3, <2>4, ResetTurn
  <2> QED
    BY <2>2, <2>5, OthersTrans, OthersTurn
<1>7. ASSUME NEW t \in Thread, ExitSelf(t) PROVE InTurn(k')
  <2> DEFINE a == EnterCS(k, t)
             v == SetDefaultPriority(a, t, ExitPri)
  <2>1. k' = [v EXCEPT !.csFunction[t] = -1, !.pc[t] = "Exit"] /\ k.pc[t] = "run"
    BY <1>7 DEF ExitSelf, At
  <2>2. SameTurn(k, a)
    BY <1>1, SMT DEF SameTurn, TurnT, Fields, EnterCS
  <2> HIDE DEF a
  <2>3. SameTurn(a, v)
    BY <2>2, PriorityTurn DEF SameTurn
  <2> HIDE DEF v
  <2>4. /\ DOMAIN k' = Fields /\ (k').pc = [k.pc EXCEPT ![t] = "Exit"] /\ (k').obj = k.obj
        /\ (k').cleanupQ = k.cleanupQ
    BY <2>1, <2>2, <2>3, SMT DEF SameTurn, Fields
  <2>5. (k').obj[t] = Null
    BY <2>1, <2>4 DEF InTurn, Turn
  <2>6. Others(k, k', t) /\ Turn(k', t)
    BY <1>1, <2>4, <2>5, NullTurn DEF Others, TurnT
  <2> QED
    BY <2>6, OthersTurn
<1>8. ASSUME NEW t, EntersCS(t) PROVE InTurn(k')
  <2>1. SameTurn(k, k')
    BY <1>1, <1>8, SMT DEF SameTurn, TurnT, Fields, EntersCS, EnterCS
  <2> QED
    BY <1>2, <2>1
<1>9. ASSUME NEW t \in Thread, LeavesCS(t) PROVE InTurn(k')
  <2>1. k' = LeaveCS(k, t) /\ k.obj[t] = Null
    BY <1>9 DEF LeavesCS, At, InTurn, Turn
  <2>2. Others(k, k', t) /\ (k').obj[t] = Null
    BY <1>1, <2>1, BackTurn
  <2> QED
    BY <2>2, NullTurn, OthersTurn
<1>10. ASSUME NEW t \in Thread, Timeout(t) PROVE InTurn(k')
  <2>1. k.mstate[t] \in MState
    BY DEF World, QOK, RQ, QS, Placed, QTypes
  <2>2. SameTurn(k, k')
    BY <1>1, <1>10, <2>1, ReleaseWaitTurn DEF Timeout, TurnT
  <2> QED
    BY <1>2, <2>2
<1>11. /\ \A p \in Suspenders \cup Killers : p[1] \in Thread /\ p[2] \in Thread
       /\ \A p \in Deleters : p[1] \in Thread /\ p[2] \in Obj
       /\ Exiters \cup CSUsers \subseteq Thread
  BY KThreadAssumption
<1> QED
  BY <1>3, <1>4, <1>5, <1>6, <1>7, <1>8, <1>9, <1>10, <1>11 DEF Control

\* Every step keeps the order.
LEMMA TurnsFine ==
    ASSUME Ordered, World(k, {}), InTurn(k), [Next]_k
    PROVE  InTurn(k')
<1>1. CASE Next
  BY <1>1, TurnsCall, TurnsGoesOn, TurnsControl DEF Next
<1>2. CASE k' = k
  BY <1>2
<1> QED
  BY <1>1, <1>2

-----------------------------------------------------------------------------
\* A thread that others wait for only waits for mutexes of lower order.
LEMMA WaitsInTurn ==
    ASSUME Ordered, World(k, {}), InTurn(k), NEW t \in Thread, NEW u \in Thread, WaitsFor(k, t, u)
    PROVE  /\ k.obj[t] \in Mutex /\ k.mstate[t] \in {"EWaitMutex", "EWaitCondVar"}
           /\ k.mstate[u] \in {"EWaitMutex", "EWaitCondVar"} =>
                 k.obj[u] \in Mutex /\ Order[k.obj[u]] < Order[k.obj[t]]
<1>1. ASSUME NEW x \in Thread, k.mstate[x] \in {"EWaitMutex", "EWaitCondVar"}
      PROVE  /\ k.pc[x] \in MayWait /\ k.obj[x] \in Mutex
             /\ k.mstate[x] = "EWaitMutex" => k.waitObj[x] = k.obj[x]
             /\ k.mstate[x] = "EWaitCondVar" => k.cvMutex[k.waitObj[x]] = k.obj[x]
  <2>0. k.pc[x] \in Cont
    BY WorldTypes DEF CtlT
  <2>1. WaitOK(k, x) /\ PcOK(k, x)
    BY DEF World, ThreadOK
  <2>2. k.pc[x] \in MayWait
    BY <1>1, <2>0, <2>1 DEF WaitOK, PcOK, Cont, MayWait, SemWaits
  <2>3. CASE k.mstate[x] = "EWaitMutex"
    BY <2>1, <2>2, <2>3 DEF WaitOK, PcOK, MayWait, MutexWaits
  <2>4. CASE k.mstate[x] = "EWaitCondVar"
    BY <2>1, <2>2, <2>4, SyncAssumption DEF WaitOK, CondWaits, Obj
  <2> QED
    BY <1>1, <2>2, <2>3, <2>4
<1>2. k.mstate[t] \in {"EWaitMutex", "EWaitCondVar"} /\ k.holder[k.obj[t]] = u
  BY <1>1 DEF WaitsFor
<1>3. k.obj[t] \in k.cleanupQ[u]
  BY <1>1, <1>2 DEF World, HoldOK
<1>4. ASSUME k.mstate[u] \in {"EWaitMutex", "EWaitCondVar"}
      PROVE  k.obj[u] \in Mutex /\ Order[k.obj[u]] < Order[k.obj[t]]
  <2>1. k.obj[u] \in Mutex /\ k.pc[u] \in MayWait /\ k.obj[u] # Null
    BY <1>1, <1>4, SyncAssumption DEF Obj
  <2> QED
    BY <1>3, <2>1 DEF InTurn, Turn
<1> QED
  BY <1>1, <1>2, <1>4

\* Numbers that threads are given rank them also when counted.
LEMMA RankBy ==
    ASSUME NEW r, NEW e \in [Thread -> Nat], RankedBy(r, e)
    PROVE  Ranked(r, Cardinality(Thread))
<1> DEFINE B(t) == {v \in Thread : e[v] < e[t]}
           d == [t \in Thread |-> Cardinality(B(t))]
<1>1. IsFiniteSet(Thread)
  BY SyncAssumption
<1>2. \A t \in Thread : B(t) \subseteq Thread
  OBVIOUS
<1>3. \A t \in Thread : IsFiniteSet(B(t)) /\ Cardinality(B(t)) =< Cardinality(Thread) /\ Cardinality(B(t)) \in Nat
  BY <1>1, <1>2, FS_Subset, FS_CardinalityType
<1>4. d \in [Thread -> 0..Cardinality(Thread)]
  BY <1>1, <1>3, FS_CardinalityType
<1>5. ASSUME NEW t \in Thread, NEW u \in Thread, WaitsFor(r, t, u) PROVE d[u] < d[t]
  <2>1. e[u] < e[t] /\ e[u] \in Nat /\ e[t] \in Nat
    BY <1>5 DEF RankedBy
  <2>2. B(u) \subseteq B(t)
    BY <2>1
  <2>3. u \in B(t) /\ u \notin B(u)
    BY <2>1
  <2>4. B(u) # B(t)
    BY <2>3
  <2> HIDE DEF B
  <2>5. Cardinality(B(u)) =< Cardinality(B(t)) /\ Cardinality(B(u)) # Cardinality(B(t))
    BY <1>3, <2>2, <2>4, FS_Subset
  <2> QED
    BY <1>3, <2>5
<1> HIDE DEF d
<1> QED
  BY <1>4, <1>5 DEF Ranked, RankedBy

\* The order ranks the threads: who waits for another waits for a mutex lower than
\* all it holds itself.
LEMMA OrderRanks ==
    ASSUME Ordered, World(k, {}), InTurn(k)
    PROVE  NoDeadlock
<1> DEFINE e == [t \in Thread |-> IF /\ k.mstate[t] \in {"EWaitMutex", "EWaitCondVar"}
                                     /\ k.obj[t] \in Mutex
                                  THEN Order[k.obj[t]] + 1 ELSE 0]
<1>1. \A m \in Mutex : Order[m] \in Nat
  BY SyncAssumption
<1>2. e \in [Thread -> Nat]
  BY <1>1
<1>3. ASSUME NEW t \in Thread, NEW u \in Thread, WaitsFor(k, t, u) PROVE e[u] < e[t]
  BY <1>1, <1>3, WaitsInTurn
<1> HIDE DEF e
<1> QED
  BY <1>2, <1>3, RankBy DEF NoDeadlock, RankedBy

\* The mutex order that debug builds assert prevents deadlock: where every mutex has
\* an order, no threads wait for each other in a circle, through mutexes or through
\* condition variables.
THEOREM OrderPreventsDeadlock == (\A m \in Mutex : Order[m] < KMutexOrdUser) /\ Spec => []NoDeadlock
<1> SUFFICES ASSUME \A m \in Mutex : Order[m] < KMutexOrdUser PROVE Spec => []NoDeadlock
  OBVIOUS
<1>0. Ordered
  BY DEF Ordered
<1>1. Init => InTurn(k)
  BY InitFields DEF InTurn, Turn, MayWait, Init
<1>2. World(k, {}) /\ InTurn(k) /\ [Next]_k => InTurn(k)'
  BY <1>0, TurnsFine
<1>3. World(k, {}) /\ InTurn(k) => NoDeadlock
  BY <1>0, OrderRanks
<1> QED
  BY <1>1, <1>2, <1>3, SyncInvariant, PTL DEF Spec

\* Where every mutex has an order, the agreement and the assertions hold in every
\* reachable state.
THEOREM OrderedSyncCorrect == (\A m \in Mutex : Order[m] < KMutexOrdUser) /\ Spec => []SyncExact
BY OrderPreventsDeadlock, SyncCorrect, PTL

\* Where every mutex has an order and there are fewer threads than chains may have
\* links, every thread has the priority that the threads it holds up require, unless a
\* mutex is reset whose holder waits for another thread.
THEOREM OrderedInheritanceCorrect ==
    /\ \A m \in Mutex : Order[m] < KMutexOrdUser
    /\ Cardinality(Thread) < KMaxPriorityInheritanceNesting
    /\ Spec /\ []ResetHoldersRun
    => []InheritanceExact
<1> SUFFICES ASSUME \A m \in Mutex : Order[m] < KMutexOrdUser,
                    Cardinality(Thread) < KMaxPriorityInheritanceNesting
             PROVE  Spec /\ []ResetHoldersRun => []InheritanceExact
  OBVIOUS
<1>1. NoDeadlock => ShortChains
  <2>1. Cardinality(Thread) \in Nat
    BY SyncAssumption, FS_CardinalityType
  <2>2. 0..Cardinality(Thread) \subseteq 0..KMaxPriorityInheritanceNesting - 1
    BY <2>1 DEF KMaxPriorityInheritanceNesting
  <2>3. \A d \in [Thread -> 0..Cardinality(Thread)] :
           d \in [Thread -> 0..KMaxPriorityInheritanceNesting - 1]
    BY <2>2, Zenon
  <2> QED
    BY <2>3, Zenon DEF NoDeadlock, ShortChains, Ranked
<1>2. Spec => []NoDeadlock
  BY OrderPreventsDeadlock
<1> QED
  BY <1>1, <1>2, InheritanceCorrect, PTL
===============================================================================
