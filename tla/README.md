# TLA+ verification of the EKA2 kernel (kernelhwsrv)

The repository holds the Symbian OS kernel EKA2: a nanokernel, the Symbian OS
kernel on top of it, memory models, device drivers, the user library and the
file server.  This directory specifies the parts whose correctness rests on
concurrency, checks them with TLC on small instances, and proves the most
important properties with TLAPS for every instance.

Everything is translated from the uniprocessor sources under
`src/kernel/eka/nkern` and `src/kernel/eka/kernel`.  Where a function exists in
C++ and in assembler (`.cia`), the C++ version is the reference and the
assembler versions were compared with it.

## 1. The system and its parts

| part | sources | state | operations |
|---|---|---|---|
| nanokernel scheduler | `nkern/nkern.cpp`, `nkern/sched.cpp`, `nkern/win32/ncsched.cpp` | per thread: state, priority, suspend count, critical section count and deferred action, fast mutex held and awaited, timeslice, request semaphore; the ready list; the reschedule flag | fast mutex wait, signal, flash; request semaphore wait, signal, signal n; suspend, resume, force resume, release, kill, exit, deferred exit; set priority; enter and leave critical section; block; yield, rotate, timeslice tick; reschedule |
| DFCs and IDFCs | `nkern/dfcs.cpp` | pending IDFC queue, final queue of each DFC thread, `iQueued`, `iOnFinalQ` | `Add`, `DoEnque`, `Enque`, `Cancel`, `QueueOnIdle`, `QueueDfcs`, the DFC thread's loop, `TAsyncRequest` |
| nanokernel timers | `nkern/nk_timer.cpp` | tick count, 32 final queue pairs, holding, ordered and completed queues, two "cancelled" flags | `OneShot`, `Again`, `Cancel`, `Tick`, the timer DFC, `IdleTime`, `Advance` |
| wait timeouts | `nkern/nkern.cpp` (`TimerExpired`, `Release`), thread timer | `iUserFlags`, the cookie bit in `iTimer.iPtr` | block with a timeout, release, expiry |
| kernel semaphores, mutexes, condition variables | `kernel/skernel.cpp` | counts, wait, pending and suspended queues, inherited priority in `TThreadCleanup` | wait with timeout, signal, reset, and the callbacks on kill, suspend, resume, change of priority |
| threads and processes | `kernel/sthread.cpp`, `kernel/sprocess.cpp` | M-state, cleanup queue, exit type, logon lists | suspend, resume, kill, exit, rendezvous, priority |
| kernel messages | `kernel/server.cpp` | message state, queue, ready flag | send, receive, poll, complete, forward, cancel |
| client-server IPC | `kernel/sipc.cpp` | sessions, messages and their reference counts, message pools, server state | connect, send, receive, complete, transfer, disconnect, server death |
| user requests | `kernel/sutils.cpp`, `kernel/sthread.cpp` (client requests, user mode callbacks) | `TClientRequest` state, callback lists | queue, complete, cancel, thread death |
| message queues | `kernel/smqueue.cpp` | circular buffer, one waiter for space and one for data | send, receive, notify, cancel |
| publish and subscribe | `kernel/sproperty.cpp` | properties, subscriptions, completion queues | define, delete, get, set, subscribe, cancel |
| objects and handles | `kernel/object.cpp`, `kernel/objectix.cpp` | access counts, containers, index slots | open, close, add, remove, find |
| change and death notifiers | `kernel/notifier.cpp` | pending request | logon, cancel, notify |
| event queue | `kernel/eventq.cpp` | circular buffer of raw events, one reader | add, request, cancel |
| Symbian OS timers | `kernel/stimer.cpp` | tick and second queues, timer states | after, at, lock, inactivity, cancel |
| power manager | `kernel/power.cpp` | handlers, shutdown state | enable, cancel, transition, shutdown notify |
| shared buffers | `kernel/sshbuf.cpp` | pools, buffers, watermarks | alloc, free, grow, shrink, notify |
| user library | `euser/`, `common/` | active schedulers, heaps, read-write locks, descriptors, containers | many |
| memory models, page cache | `memmodel/` | pages, mappings, page lists | map, page in and out, defragment |
| SMP nanokernel | `nkernsmp/` | as the first four parts, per processor with spin locks | as the first four parts |
| device drivers, boot loader, HAL, file server | `drivers/`, `brdbootldr/`, `halservices/`, `userlibandfileserver/` | many | many |

### How they interact

* Only the scheduler chooses the running thread.  Every other part of the
  nanokernel locks the kernel (`NKern::Lock`), changes thread states and the
  ready list, and unlocks it; the last unlock runs pending IDFCs and the
  reschedule.
* An interrupt never touches the ready list.  It queues an IDFC (`TDfc::Add`)
  or sets the reschedule flag from the tick; the tick also drives the timer
  queue, whose long work is a DFC run by the thread DfcThread1.
* The kernel layer protects its objects with the system lock, one of the fast
  mutexes.  It blocks with `NKern::Block`, which gives the system lock up and
  stops the thread in one locked section, and is woken with
  `NKern::ThreadRelease`.  Its notion of a wait (the M-state) lies over the
  nanokernel's (the N-state).
* Threads learn of completed requests through their request semaphore only.
* A thread sends a request to a driver with its one kernel message and sleeps.
  The driver's thread receives messages by a DFC that is queued with each; it
  keeps a reference to the sender until it has completed the message.
* What is dead is deleted by the supervisor thread, or by the DFC that empties
  the list of `DObject::AsyncDelete`; both lock the system first.

### What is hard, and what makes each part correct

* Scheduler: interleavings of all services with interrupts at every point at
  which the kernel is unlocked; suspensions and exits deferred by critical
  sections and fast mutexes.  Correct if fast mutexes exclude, holders are
  ready, the ready list holds exactly the ready threads, deferred actions are
  done at the right moment and once, and the processor goes to the highest
  priority ready thread or to the holder it waits for.
* DFCs: the same flag guards a queue that interrupts change and one they do
  not.  Correct if a queued function runs once, a cancelled one not at all, and
  a DFC thread never sleeps beside a full queue.
* Timers: the sort of long timers runs with windows in which ticks, callbacks
  and cancels come; the tick count wraps.  Correct if every timer expires
  exactly at its tick, once, or is cancelled, and skipped ticks skip nothing.
* Wait timeouts: an expiry that was taken off the queue but has not run yet,
  against a release and a new wait.  Correct if a wait ends once and an old
  expiry never ends a new wait.
* Kernel semaphores, mutexes, condition variables: priority inheritance through
  chains, with threads killed, suspended, timed out or given other priorities in
  each wait state, and objects deleted while threads wait.  Correct if queues,
  counts, thread states and holders agree, no free mutex has waiting threads and
  nobody who was woken for it, and a thread has just the priority that those who
  wait for it require.
* Kernel messages: senders die with their message in each state, drivers defer
  messages of the dead, the channel is closed by a message of its own, and the media of
  a drive opens, closes and outlives the channel.  Correct if a message has one place,
  is answered once, and what somebody points to exists.
* Message queues: a thread waits, its request completes but is not delivered, and
  it dies anywhere in between, or the queue is deleted.  Correct if statuses,
  signals, callbacks and references agree, and the queue is a bounded queue that
  tells those who wait.
* IPC: as kernel messages, with sessions and servers that die.

## 2. Modules

| module | what it is |
|---|---|
| `NThread` | the kernel state record and the functions that run with the kernel locked, one operator per function of `nkern.cpp` and `sched.cpp`, and `SelectThread` |
| `NSched` | the scheduler's state machine: thread calls, interrupts, IDFCs, `TScheduler::Reschedule`; properties and fairness; extends `NThread` |
| `FastMutex` | abstract specification of fast mutexes, implemented by `NSched` |
| `Queues`, `QueueProofs` | a queue without one of its members, and what taking from, adding to, inserting into and joining queues preserves, their order too |
| `NSchedProofs` | the scheduler's inductive invariants, their preservation by each function and each action, the theorems, the refinement |
| `NTimerQ`, `NTimerQProofs` | the timer queue: calls, `Tick`, the timer DFC with each window in which interrupts are enabled, `IdleTime`, `Advance`; its inductive invariants, theorems and refinement |
| `Timers` | abstract specification of timers, implemented by `NTimerQ` |
| `NDfc` | IDFCs, DFCs, their queues and the DFC threads |
| `NAsync` | `TAsyncRequest`, one statement at a time, on top of `TDfc` |
| `NTimeout` | timed waits: `Block`, `Release`, `TimerExpired` and the timeout handler of Symbian OS threads |
| `NDfcProofs` | the inductive invariants and theorems of `NDfc`, `NAsync` and `NTimeout`, one after the other: they share only lemmas, and it extends all three, which is why `Spec`, `Init` and the like have a prefix in `NAsync` and `NTimeout` |
| `KSync` | the state of the Symbian OS kernel's semaphores, mutexes and condition variables and of threads that wait for them, and the functions that run with the system lock, one operator each |
| `KThread` | threads that use them: a state machine over `KSync`; properties and fairness |
| `KSyncProofs` | the invariant of `KSync`'s state, and what each of its functions, chains of priority inheritance included, preserves of it |
| `KThreadProofs` | each action of `KThread` preserves the invariant; the theorems |
| `KMessage`, `KMessageProofs` | kernel messages, the channel (a `DLogicalChannel` with its own queue, or a `DLocalDrive` on a media), the death of senders, the media's deferred requests; its inductive invariant and theorems |
| `MessageQueue` | abstract specification of a message queue |
| `KMsgQueue`, `KMsgQueueProofs` | `DMsgQueue`, its client requests and user mode callbacks, threads that die and the supervisor; implements `MessageQueue`, which is proved |
| `MCSched`, `MCTimerQ`, `MCDfc`, `MCSync`, `MCMessage`, `MCMsgQueue` | constants of the TLC instances |

`map` in `PROJECT.json` gives, for each definition, the lines it is translated
from.  Definitions whose name ends in `Mutant` are wrong on purpose: each stands
for a plausible bug, and the property it is listed with fails when it replaces
the definition it is named after.

How the modules fit together: `NSched` justifies that a section with the kernel
locked is one step, and `FastMutex`, which it implements, that a section with the
system lock is one step to all who take the system lock (`KThread`, `KMsgQueue`)
or another fast mutex (`MsgLock` in `KMessage`).  `NTimeout` justifies that a
timeout ends only the wait it was started for (`KThread`'s `Timeout`), `NDfc` that a
queued DFC runs (`NAsync`, `KMessage`) and that `TDfc::Cancel` is atomic (`NAsync`).

### How the modules correspond to the code

**Scheduler.**  The record `k` holds the members of `NThreadBase`,
`NFastMutex` and `TScheduler`.  An operator of `NThread` maps a record to the
record that the C++ function of that name leaves behind.  An action of `NSched`
is one stretch of code with the kernel locked, from `NKern::Lock` up to the end
of `NKern::Unlock`; if a reschedule or an IDFC is pending, `kern` goes through
"locked" and "selecting", so that interrupts come between the clearing of the
flag and the choice of a thread.  `cont` says where a thread goes on when it is
given the processor: in its own code, in `NFastMutex::Wait` after `YieldTo`, in
`FMFlash`, in the claim at the end of `Block`, or in the code that a kill
diverted it to.  The initial state is that of a system in which every thread was
created, was resumed and waits on its request semaphore.  The sets `Suspenders`,
`Killers`, ... say which thread calls which service, so that an instance can
concentrate on some.  A kill diverts the victim as the ARM and x86 versions do
(`__DoForcedExit`).  `ImplicitSysLock` exempts a thread whose deferred exit begins in
`NKern::Block`: the code starts it before `RescheduleNeeded` is called
(`nkern.cpp:1748-1766`).  Not in this model: the DFC an exit handler may return,
timeouts (they are in `NTimeout`), personality layer states, user mode
callbacks, `ThreadSetTimeslice`.

**Timers.**  A step is one stretch of code with interrupts disabled; a call, a
tick or the end of a callback may come between any two.  `Tick` runs the
callbacks of the interrupt one by one, since it enables interrupts for each.
The number of queues (32 in the code) and the modulus of the tick count (2^32)
are parameters.  The latency is counted from the tick that queues the DFC to the
end of its transfers.  The members that no code reads before writing them again
(the trigger time of an idle timer that is not periodic, locals of the DFC after
their last use) are set to fixed values where they die.  The queue of delayed
callbacks, which only debug builds have, is left out.

**DFCs.**  A step is one stretch in which no interrupt may come, `Cancel` and
`QueueDfcs` being several.  Which thread executes is left open: threads queue and
cancel whenever the kernel is not locked.  DFC threads are not suspended here.
`Enque` with a fast mutex is `Enque` and `Signal` in one locked section.

**`TAsyncRequest`.**  The statements of `Send`, of `Complete` and of `Cancel` are
steps; `TDfc::Enque` and `TDfc::Cancel` are atomic, which `NDfc` justifies.

**Timed waits.**  A step is one stretch with the kernel or the system lock held.
Users of the system lock other than the timeout handler hold it for one step.
Only the waits `EBlocked` and `ESleep` have timers.  Threads are not suspended
and not in critical sections here; that is in `NSched`.

**Kernel semaphores, mutexes, condition variables.**  The record `k` holds the
members of `DThread`, `DSemaphore`, `DMutex` and `DCondVar`, and of a thread's
nanokernel state what they depend on: blocked, suspended (how often), in a critical
section, what is deferred until it ends.  A step of `KThread` is the code from where a
thread takes the system lock to where it releases or flashes it; `pc` is the label
it goes on at.  Any thread that is not blocked or suspended may take the lock
next, so the properties hold for every scheduler; a thread just woken may be
overtaken.  The loops that release the lock in each round (`SignalN`, `Broadcast`, the
`Reset` functions, `DThread::Exit`) are one step per round.  `iCleanupQ` is a set of
mutexes: its order, by priority, is derived.  `K::PINestLevel` is set to 0 where a chain
starts, and is the argument `n` of the functions.  One chain is started without that:
when a mutex is deleted, `TThreadCleanup::Remove` (`skernel.cpp:498`) comes after waits of
threads have been ended and the system lock released each time, so other threads' chains
may have left any level (`NestLevel`: those above 9 act as 9 does, and cut the chain at its
first link).  `ResetStep` takes any; a `Delete` that finds nobody to release has 0.
In the code the functions that pass a priority on call each other along the chain of
holders.  Here each returns a `Link`: the state it leaves and the call of
`TThreadCleanup::ChangePriority` it would end with, if any; `Settle` follows the links.
The lengths of chains are bounded as in the code (`KMaxPriorityInheritanceNesting`).  Threads take mutexes of the kernel in their
order, which a debug build enforces; mutexes of user code may be taken in any.

**Kernel messages.**  A step is one section with `MsgLock`, or the code between two.
A thread owns one message and both have one name.  `iMessage` is `Null` once
`MsgQFunc` has read it; the code leaves the pointer, and one later test of it
(`locmedia.cpp:6477`) is not modelled.  The channel is of one of two kinds, which the
initial state chooses (`localDrive`):

* a `DLogicalChannel` with an `iMsgQ` and a DFC of its own, as that of `d_comm.cpp`: it
  answers each message before it receives the next, may panic a client, and answers
  `ECloseMsg` without receiving again, after which the channel is deleted;
* a `DLocalDrive`, which connects itself to a media and sends requests to the media's queue
  (`DPrimaryMediaBase`).  `EConnect` and `EDisconnect` are answered whatever the media is
  doing.  The media is closed, opening or ready (`mState`); the request it opens for
  waits in `iCurrentReq`, others on the queue of deferred requests.  When it is ready its
  driver completes a request at once, or starts it (`current`), or has it deferred while
  another is started.  The media outlives the channel, with what is on its queues, and may
  close by itself (`SetClosed`, on loss of the medium or of power), which completes the
  deferred requests and `iCurrentReq`; the driver, which is then closed, completes the one
  it has started.

A driver here defers only while it has a request in hand.  The comment at
`locmedia.cpp:3411-3413` allows for background tasks, too, but no driver of the repository
returns `KMediaDriverDeferRequest` for one; with such a driver progress would rest on what
the task does.

**Message queues.**  Executive calls enter with the system lock held, and a step goes
up to its release; a completion, which works on callbacks and semaphores that
others change without the lock, is two steps.  `Dec` of the reference to the
waiting thread, `StartComplete` and queueing the callback are the first of them,
signalling the thread the second.  A callback is one step.  A killed thread that is
about to enter the executive may or may not do so first, since the call disables
interrupts only later.  The `TRequestStatus` and the semaphore of a thread that has
exited are not modelled.  Only threads in `Mortal` are panicked for asking twice.
`fault` is set where the code relies on what is not so, and the system halts.
The queue is created once.

## 3. Runs

| run | shows | bounds |
|---|---|---|
| `sched_mutex` | mutual exclusion (`HoldersExact`), priority inheritance and deferred round robins (`HolderFlagged`), waiters are served (`WaiterServed`), slices end (`RoundRobin`), `NSched` implements `FastMutex` | two threads of one priority with slices of two ticks, one of a higher priority, the system lock, requests from interrupts, one tick while the kernel is locked |
| `sched_control` | deferred suspensions and exits, states and request counts, the ready list, the choice of the next thread while priorities change, the implicit system lock | two threads, two mutexes, three priorities, slices of one tick, suspend counts to 2, critical sections of depth 1 |
| `timer_queues` | the queues and the DFC's pointers are right, `NTimerQ` implements `Timers` | two timers, 4 queues, tick count modulo 16, three delays: two below and at the number of queues, and the longest |
| `timer_sleep` | wrap, `Again`, `IdleTime`, `Advance`; nothing is forgotten (`EveryTimerEnds`) | one periodic timer, 8 queues, modulo 32, every delay, up to 16 ticks asleep, latency 2 |
| `dfc_queues` | DFCs are linked once, run once, never after a cancel, never slept beside; everything queued ends | one IDFC and three DFCs of two priorities on one queue |
| `async` | a request is completed once, with its own result, and its client woken | one client, two cancelling threads, three request numbers |
| `timeout` | an expiry ends its own wait only, every timed wait ends | two Symbian OS threads and one other |
| `sync_mutex` | queues, counts, states and holders agree (`SyncExact`), a free mutex is offered to a thread that can take it (`NoIdleMutex`) and is taken (`FreeMutexIsTaken`), inherited priority is exact along chains (`InheritanceExact`) | three threads of different priorities, two mutexes, holds of depth 2, one thread suspended, resumed, killed and timed out in each state |
| `sync_cond` | the same for semaphores and condition variables, for objects deleted while threads wait, and for priorities that are lowered | three threads, a mutex, a semaphore, a condition variable |
| `messages` | a message is in one place and answered once (`MessagesExact`), threads and the channel exist as long as somebody points to them, and a channel with its own queue until that is empty and its DFC idle (`ObjectsKept`); every request is answered, every dead thread deleted | three clients of a channel of either kind, one killed at any point, two that close and open it, a media that opens, fails and closes |
| `msgqueue` | requests, statuses, signals, callbacks and references agree (`RequestsExact`), the code implements the bounded queue `MessageQueue`, requests in use are delivered or cancelled and dead threads deleted | two threads, one mortal, two slots |
| `msgqueue_panic` | finding: a panic without the system lock | as `msgqueue` |

Why the bounds are enough to be worth something: the scheduler's hazards need a
holder, a waiter and a third party (an interrupt or a thread of another
priority), which each instance has, and the invariants are proved for every
number of threads and mutexes.  A timer meets at most two others in the DFC's
windows, the one in transfer and the one it stands at; with two timers each can
be either, and be cancelled and started again in any window.  A small number of
queues makes wrap, sleep and transfers frequent; `timer_sleep` has every delay
around each boundary.  DFC queues share nothing but the pending queue, so one
queue with several DFCs, two of them of one priority, has the interesting
cases.  What holds of DFCs and of asynchronous requests is
proved for any number of calls, queues and cancelling threads.  One bit tells the waits of a thread apart, whatever other threads do: the
theorems about `NTimeout` are for every number of threads.  With kernel mutexes a
chain needs two mutexes and three threads; the third is also the one that
suspends and kills.  Longer chains are left to the theorems of `KThreadProofs`.  A message meets a started request, or one that the media opens for, and a deferred one: three
clients.  In a message queue of two slots the ring is empty, full and neither, and
both pointers wrap; one thread waits while the other completes.  Larger instances
of the invariants passed outside the runs: `msgqueue` with two messages and with both threads closing the
queue (4.7 million states).

`CHECK_DEADLOCK FALSE` is set where the system may really stop, because all
threads may die, or block with nobody left to release them (`sched_control`,
`timeout`, `sync_mutex`, `sync_cond`, `msgqueue`), or where the model halts at a fault
(`msgqueue_panic`).

### Fairness

* `sched_mutex`: the processor goes on executing the scheduler (`KernelRuns`,
  weak); a thread that is given the processor again and again while it holds a
  fast mutex reaches its `Signal` (`HoldersRun`, strong, since others preempt it).
  The second is the rule for fast mutexes: they are held for a short time, and
  their holder may not block.  Nothing is assumed of threads that hold none.
  For `RoundRobin` the tick keeps coming (`TicksCome`, strong, since the model
  bounds the ticks within one locked section).
* `timer_sleep`: the tick comes, its callbacks return, and DfcThread1 gets the
  processor again and again (strong: ticks interrupt it).  DfcThread1 has a high
  priority, and the latency is a parameter.
* `dfc_queues`: locked sections end, functions return, DFC threads get the
  processor, interrupts come, and an idle system gets to `NKern::Idle` if it can
  again and again.  Nothing is assumed of those who queue.
* `async`: the client goes on with a `Send` it has begun, the handler's thread
  runs, and those who have begun to cancel or complete go on.  Nobody is obliged
  to send or to cancel.
* `timeout`: timers that run expire, and DfcThread1 goes on.
* `sync_mutex`: a thread that is neither blocked nor suspended gets through the kernel
  (weak).  Nobody is obliged to call, to signal or to resume.
* `messages`: threads, the supervisor and the driver's thread go on (weak).  What the
  hardware ends, the request that was started or the opening of the media
  (`CurrentCompletes`, `OpenCompletes`), and the receiving DFC (`RunMsgDfc`) are strong: they are DFCs of one priority on one queue, run in the order
  they were queued in, so neither keeps the other out.  The loop of `handleMsg`
  (`locmedia.cpp:1754-1778`) has no bound when the medium is not paged, nor has
  `RunDeferred`; that the driver comes to rest again and again (`Ends`) is therefore not
  assumed of the code but the hypothesis of `RequestsEnd` and `DeadAreDeleted`.
* `msgqueue`: a thread that has something to do in the kernel gets to do it, and so
  does the supervisor (strong: the system lock, held by others in between, is not kept
  for ever from a thread that wants it, which is `WaiterServed`).  User code need do
  nothing.


## 4. Proofs

The theorems hold for every set of threads and mutexes, every assignment of
priorities, timeslices and rights to call, under `ThreadAssumption` and
`ControlAssumption` (the idle thread calls no service that would stop it, nobody
suspends, kills or reprioritises it, and it needs no lock implicitly; `Null` is no
thread and no mutex; bounds are natural numbers), `TimeoutAssumption`
(`NoThread` is no thread), `SyncAssumption` (there are finitely many threads, an object is of
one kind, priorities are the kernel's 1 to 63 and orders of mutexes 0 to 255),
`KThreadAssumption` (who may call what; bounds are natural numbers),
`MessageAssumption` (there are finitely many threads, the supervisor is no
client, `Null` is not anything else), `MsgQueueAssumption` (the same, and a queue has at
least one slot), `DfcAssumption` (each DFC has a queue and
one of eight priorities), `TimerAssumption` (the number of queues is even, the modulus is
a multiple of twice that number and larger, delays are shorter than half the modulus) and
`AsyncAssumption` (the handler does not cancel).

**Scheduler** (`NSchedProofs`).  The invariant `IInv` says that
`KInv(k)` holds (types; the ready list is exactly the ready threads, each once and
at its priority; mutexes and holders agree; holders are ready; a deferred action
is flagged where it will be seen; request counts fit states; the idle thread is
ready), that nothing is pending while the kernel is unlocked, and that except while
a thread is being selected the current thread can go on (`RunsOn`).  `Invariance` states that it
always holds.  None of the
properties is inductive alone: that `NFastMutex::Wait` may take the mutex after
`YieldTo` without a test needs that the scheduler runs no waiter of a held mutex;
that needs holders to be ready; that needs suspensions and kills of holders to be
deferred and flagged.  There is one lemma per function (`...OK`: it preserves
`KInv`), one per action (`...Serves`: it preserves `IInv` and changes holders and
waiters as `FastMutex` allows), and the theorems are consequences:
`HoldersAreExact`, `ThreadStatesCorrect`, `NothingIsForgotten`, `ReadyListCorrect`,
their parts (`MutualExclusion`, `HoldersCanRun`, `RunningIsReady`, `NeverFaults`,
`DeferralsKept`, `SuspensionCorrect`, `RequestsCounted`, `TypeCorrect`), and
`Refinement`.  That mutexes never nest is proved of `FastMutex` alone
(`NestingNever`), and holds of the scheduler through the refinement
(`MutexesNeverNest`).

*Which thread runs* takes two more invariants.  `RightInv`: unless a thread is being
selected, the current thread is the highest ready one and does not stand in the way of
the holder of the system lock, or a reschedule is due, or its mutex is flagged, or
another thread waits for a mutex (or did until it was killed), or `Block` has made the
thread exit (`Right`).  Every function is `Calm`: it keeps the current thread right, or
sets one of the flags; `SelectThread` makes it right.  `HighestRuns` and
`SysLockIsRespected` follow.  `SteadyOK` is the stronger one for `HolderFlagged`, where
the last two excuses are gone.  It adds that holders and threads whose slice is over are
the first of their priority (`Turns`), that a waiter has flagged its mutex or does not
outrank the holder (`WaitersOK`), and that the slice of a thread that has lost its turn
cannot end before it gets a new one.  `Follows` is the rule for the functions,
`NoFlagIsMissed` the theorem.  Its hypothesis `Steady` is about the instance: each part
excludes a way in which the code does miss a flag.  A change of priority, the suspension
of a waiter or a rotation can make a waiter the first of its priority whose holder then
runs unflagged (section 5); `Block` clears the flag before the exit begins; and ticks
while the kernel is locked are charged to a thread that has just blocked, so that a slice
shorter than that is over when it comes back as the last of its priority.

**Timers** (`NTimerQProofs`), in three layers.  `QIInv`, which holds whatever the latency:
each timer is on the one queue that its state and its trigger time name, once (`Exact`);
`iPresent` has the bits of the final queues that are not empty; a timer that is in
transfer or critical is the one the DFC has, unless `Cancel` has told it so
(`Pointers`).  This gives `QueuesAreExact` and `PointersAreValid`.

`TimeInv` is about time, and holds while the latency is no more ticks than there are
queues.  The ordered queue is sorted by what remains to its timers, which is also its
order by trigger time across the wrap of the tick count, since no two remainders are
half the modulus apart (`Bounds`): a timer on the holding queue, on the ordered one or
in transfer has at least so many ticks left, by the age of the DFC's request and by where
the DFC is.  While the DFC walks, all it has passed is due no later than the timer it
inserts (`Behind`); `Cancel` of the critical timer sends it back to the start, and a timer
that is started meanwhile goes to other queues.  Hence `PointersAreExact`.

`ExpiryInv` adds that a timer on a final queue has less than one round of the queues left
(`FinalSoon`), so that the tick that finds it in its slot is its own, and that
completed timers have the DFC running or asked for, so that the system does not sleep
beside them.  While the latency is no more than a quarter of the queues, 8 ticks in the
code, `Bounds` keeps every timer that is not final above zero (`NotLate`), and with it
every step is one of `Timers` or leaves its variables alone (`Refines`, one lemma per
action): `NoTimerIsMissed`, `TimersAreImplemented`.  The hypothesis is not for the proof's convenience:
beyond it the code does miss timers (section 5).  For the code's 32 queues it says that
DfcThread1 takes no longer than 8 ticks.

**DFCs** (`NDfcProofs`).  Each call is in one of five places (pending queue, idle queue,
final queue, in the hands of `QueueDfcs`, in those of `Cancel`) exactly if `iQueued` is
set (`PlaceOK`); each queue holds a call once, and a final queue only its own DFCs
(`QueuesOK`).  `WakeOK` strengthens `NothingForgotten`: `iDfcPendingFlag` is set before
anything is pending, not only while `QueueDfcs` does not run.  That `Cancel` has not
cleared `iQueued` yet is what keeps interrupts from the call it unlinks (`HandsOK`).
Consequences: `QueuesAreExact`, `NothingIsForgotten`, and the action property
`OnlyQueuedRun`.

**`TAsyncRequest`** (`NDfcProofs`).  A request that is sent is queued, in one pair of
hands, or signalled (`OneStage`); the completion object is there until the owner of
these hands swaps it, so that the owner always finds it (`ObjectOK`); whose request the
hands hold is what the result says from when it is stored (`ResultOK`).  Theorems:
`RequestsCompleteOnce`, `ResultsAreMine`.

**Timed waits** (`NDfcProofs`).  `TimeoutInv` joins the fields' types, `TimerFree`,
`CookieExact` and `StatesAgree` with what makes them inductive: a timer in use is
flagged (`StateOK`); while the wait DfcThread1 was called for is valid, its thread
waits and its timer is idle (`WaitIsOn`); the only timer that is flagged and idle is
that of this wait, until DfcThread1 has looked at the cookie, so that `Release` flips
the cookie once (`FlaggedIdle`); the handler ends only valid waits of Symbian OS
threads (`HandlerPlace`); and nobody wakes a dead thread (`DeadForGood`).
Consequences: `TimersAreExact`, with its parts `TypeCorrect`, `CookieTells` and
`TimersAreFree`; `LayersAgree`; `TimeoutIsOwn`.

**Kernel messages** (`KMessageProofs`).  An accepted message is in exactly one pair of
hands (`OneHolder`) and a delivered one on exactly the queue it names (`OneQueue`).
That nobody else receives meanwhile rests on a token: either the DFC is queued, or
`iMsgQ` is ready, or the driver is at one of the points from which it will poll or
receive again (`InMain`), and of these at most one (`DriverOK`).  The semaphore of a
thread fits its message (`SemOK`).  The close message is the last one: whoever sends it
has taken the last reference to the channel, a thread that has sent a request has one,
so no request comes after it.  Requests of threads that died are another matter: they lie
on the queue before it, or the DFC has them, so they have been answered when it is.  A
driver with its own queue that has answered the close message is therefore idle with
nothing queued, and as it does not receive again it stays so until the channel is deleted
(`Quiet`, `PcOK`, `CloseOK`); this fails if it receives once more (`HandleCloseMsgMutant`).
A local drive leaves its media as it is.  A request waits in `iCurrentReq` while the media
opens, and one has been started only when it is ready (`MediaOK`).  The counts of the channel (`ChanOK`) and of
each thread (`AccessOK`) are those of the pointers.  There is one lemma per action; the
theorems are `MessagesCorrect` and `ObjectsAreKept`.

**Message queues** (`KMsgQueueProofs`).  The ring (two indices that
wrap, a state of three values) is read as a sequence, `Contents`: `SendAppends`
and `ReceiveTakesFirst` show what the pointer arithmetic does to it, for every number
of slots.  The invariant says that indices and state fit (`RingOK`), that a request is
ready only while the queue exists, and how far its deletion has come (`DtorPassed`).
With it every step is one of `MessageQueue` or leaves its variables alone
(`Refinement`).  `MessageQueue` implies that nobody waits in vain (`ToldInTime`), and
through the refinement the code does so too (`WaitsAreFit`).

That requests, statuses, semaphores and references agree (`RequestsAreExact`) needs
what happens between two steps of a completion, of the supervisor and of the destructor.
A request in use is in one place: on the callbacks of a thread, in the list that the
supervisor is cancelling, or in the hand of a thread that found its owner dead and is
about to give it to the supervisor (`OnePlace`).  It is its owner's on the owner's list,
and anywhere else the owner is dead, so that nothing is written to a running thread's
status behind its back (`OwnedBy`).  Whoever signals has the system lock, or is the one
destructor and nobody has it (`LockOK`): this is why the thread to be signalled is not
deleted in between.  What is about to be deleted has no reference left and stays dead
(`DeletedOK`), where each reference is counted (`CountOK`), and the supervisor has closed
the callbacks of exactly the threads that are dead (`SupOK`).  There is one lemma per
action, and one per conjunct for what a step does not touch; `StatusStep` and `CountStep`
are the rules for the counts.  That a request is out only for what is not there comes
from `WaitsAreFit`.

**Kernel semaphores, mutexes, condition variables** (`KSyncProofs`, `KThreadProofs`).  The
inductive invariant is `World` (`SyncInvariant`).  Each thread is on the one queue that its
state and `iWaitObj` name, once, the wait queues are sorted by priority (`QS`), and counters
agree with queues (`CountAt`); states fit what a thread is doing, its suspensions and its
place in a call (`ThreadOK`); holders and cleanup queues agree, and a held mutex is not
deleted (`HoldOK`); at most one thread resets an object (`OneResets`); a free mutex that is
waited for has been offered to a thread that is not suspended and is not outranked by a
waiter (`NoIdle`: `NoIdleMutex`, said of each waiter and not of the first one); and a
cleanup item has the priority of the first waiter (`HighBut`).

A call of the kernel is a composition of functions, in the middle of which little of this
is true: a thread has left one queue and is not yet on another, a counter has been taken
down, a priority is on its way along a chain.  So each part of `World` is stated with an
argument for what is not settled: a set of threads in flux, one mutex with its priority to
come, the threads that are acting.  There is one lemma per function saying what it does to
the parts, and one per action.  `SetActualPriority` and its callbacks change queues, states
and offers at every link; `Motion` says what they leave alone, so that what was true of
the other threads still is.

The end of a chain takes an argument of its own.  In each link the nesting level grows, or a
thread has left a condition variable for its mutex and the level starts again, which every
thread does at most once: so `Settle` gets to the end of every chain, deadlocked or not.
That the assertion in `TThreadWaitList::ChangePriority` holds (`AssertionsHold`) needs that
the chain does not come back to where it began, and that every thread ends with its required
priority that the chain ends before the limit on nesting does.  Both are about the threads
that wait for each other, and are stated by ranks of threads that fall along `WaitsFor`:
`NoDeadlock` and `ShortChains`.  The chain of a reset may start at any level.  It does no
harm where there is no link to follow: `ResetHoldersRun` says that the holder of a mutex
that is being reset does not wait for another thread.  The other invariants do not need
it, and a step that is not at the end of a reset does not either (`Firm`).

* `StructureCorrect`, `NoIdleCorrect`, `CleanupCorrect`: queues, counters, states and
  holders agree, no free mutex idles, cleanup items have the right priority.  No hypothesis.
* `SyncCorrect`: as long as threads do not deadlock, `SyncExact`, so that no debug assertion
  fails.  Section 5 has the deadlock of user mutexes in which one does.
* `InheritanceCorrect`: as long as no chain is longer than 9, and no mutex is reset while its
  holder waits for another thread, `InheritanceExact`.  With a longer chain the code gives up
  (`sthread.cpp:55`), and in a reset it may give up at the first link: section 5.  In
  `sync_cond` both hold because there is one mutex, in `sync_mutex` because none is deleted.
* `OrderPreventsDeadlock`: if every mutex has an order, which `DMutex::Wait` asserts
  (`skernel.cpp:354-363`; user mutexes have none, `KMutexOrdUser`), there is no deadlock,
  through mutexes or through condition variables whose mutex must be taken again: a thread
  waits only for mutexes lower than all it holds (`InTurn`).  Hence `OrderedSyncCorrect`,
  without the hypothesis, and `OrderedInheritanceCorrect` for fewer than 10 threads, still
  with `ResetHoldersRun`.

Only model-checked: all liveness (`WaiterServed`, `RoundRobin`, `EveryTimerEnds`,
`EveryCallEnds`, `EveryRequestEnds`, `TimedWaitEnds`, `FreeMutexIsTaken`, `RequestsEnd`,
`DeadAreDeleted`, `RequestsFreed`), which the prover cannot treat.  Every safety property
that a run checks is a theorem, but for `PanicHoldsLock`, which does not hold.

## 5. What was found

In a run:

* `msgqueue_panic`: a request for a notification may be complete although its callback
  has not run yet.  `IsReady` is then false, `SetStatus` fails, and
  `DMsgQueue::RequestNotification` panics the thread after `NKern::UnlockSystem`
  (`smqueue.cpp:297`), while `K::PanicCurrentThread` is to be called with the system
  locked, as it is a few lines above (`smqueue.cpp:268`).

Seen while modelling, with the behaviours TLC gave for them:

* A thread that executes on behalf of a waiter for its mutex may go on after it has
  signalled it, because `SelectThread` does not set `iWaiting` (`ncsched.cpp:91`; the
  comment at `nk_priv.h:61-62` says what would be needed).  This takes a change of priority after the
  mutex was signalled and taken again, and lasts until the next reschedule.  With three
  threads and four priorities the first ready thread, the one passed over, need not even
  be the waiter (TLC's behaviour has 29 steps).
  `HighestReadyRunsUnlessFMWait` is what does hold: some thread waits for a mutex, or
  did until it was killed.  `HolderFlagged` says where no flag is missed.
* The comment in `Tick` (`nk_timer.cpp:462`) allows a DFC latency of 16 ticks; above 8
  ticks a timer may expire one round (32 ticks) late, because `Tick` does not see a
  timer in transfer.  `timer_sleep` passes at a quarter of the number of queues.
* A DFC queued by an interrupt may be overtaken by one of the same priority that was
  queued later (`dfcs.cpp:167`; `dfcs.h:103-104` says first in, first out).
* The debug assertion in `Tick` (`nk_timer.cpp:470`) compares tick counts without regard
  to their wrap, and fails for a timer whose trigger time lies beyond it.
* `DPrimaryMediaBase::RunDeferred` (`locmedia.cpp:3482`) remembers the last request and
  runs up to it.  If that one is cancelled meanwhile and the others are deferred again,
  the loop does not end until one of them completes.
* When user code has deadlocked two mutexes and a waiter whose priority was lowered
  times out, `DMutex::WaitCancel` (`skernel.cpp:513`) follows the cycle and the
  assertion at `skernel.cpp:2141` fails.
* A mutex is deleted whose holder waits for a second mutex.  `TThreadCleanup::Remove` starts a
  chain of inheritance but does not set `K::PINestLevel`, and `DMutex::Reset` sets it only
  before it lets other threads run (`skernel.cpp:467-498`).  If they leave it at 9 or
  more, the holder's priority goes down and that of the thread it waits for does not:
  TLC finds it with four threads and two mutexes.
* If `DMsgQueue::Create` fails at `SetName` or at the first client request, the destructor
  calls `IsReady` on a null request (`smqueue.cpp:176-181`).
* `Block` acts on a deferred exit before `RescheduleNeeded` is called
  (`nkern.cpp:1748-1766`), and a thread that blocks in its last tick is charged for it.

## 6. Plan

What would come next, in this order: IPC (`sipc.cpp`) over `KMessage`'s conventions: sessions, message reference
counts, server death; properties, notifiers, the event queue and Symbian OS timers;
`WaitForIdle` (`sutils.cpp:2554`) as a composition of `NDfc` and `NTimerQ`, whose state
spaces are each near what TLC can search in minutes, and which needs smaller
specifications of both first.

Runs are to stay few and short: a theorem may take the place of a larger instance, and
properties of one module share a run where one instance serves.

## 7. Not modelled, and why

The SMP nanokernel is a second implementation with a much larger state space.
Memory models and the page cache are data and hardware.  The user library is
sequential code of one thread.  Drivers, boot loader, HAL and the file server are
input, output and data formats, apart from the way a driver treats messages.  The power
manager and shared buffers have little control.  `PROJECT.json` lists each part with
its status.
