# Verification of the mesosphère kernel's synchronization core

Atmosphère is a custom firmware. Its largest concurrent program is the kernel,
mesosphère (`src/libraries/libmesosphere`), and this project is about it: TLA+
models of the objects on which threads wait, lock, count and talk to each
other, model-checked with TLC, and theorems about them proved with TLAPS.

Paths below are relative to `src/libraries/libmesosphere/source` unless they
begin with `src/`; headers are in `src/libraries/libmesosphere/include/mesosphere`.

## 1. The system and its parts

| Part | State | Operations | What it must guarantee |
|---|---|---|---|
| `KLightLock` | `m_tag`: owner and "has waiters" bit | `Lock`, `Unlock`, slow paths | one owner; no sleeper passed over; a suspended owner still releases |
| `KThread` | state, suspend flags, lock owner, waiter list, wait queue, cancel and terminate flags | begin/end/cancel wait, suspend, resume, terminate, exit | a wait ends once; a suspension or cancellation is not lost |
| `KHandleTable`, `KAutoObject` | entries, free list, linear ids; reference counts | `Add`, `Reserve`, `Register`, `Unreserve`, `Remove`, look-ups, `Finalize` | a handle names its object or nothing; objects die once, after the last reference |
| `KResourceLimit`, `KLightConditionVariable` | values, hints, peaks, limits, waiters | `Reserve`, `Release`, `Add`, `SetLimitValue` | never above the limit; no missed release |
| `KConditionVariable` + user mutex/condition variable | lock word and waiter flag in user memory; waiter lists; tree | `ArbitrateLock/Unlock`, `WaitProcessWideKeyAtomic`, `SignalProcessWideKey` | a monitor, with user code changing the words at the same time |
| `KSynchronizationObject`, `KEvent` | intrusive waiter lists with nodes on the waiters' stacks; signal flags; timer tasks | `Wait`, `NotifyAvailable`, `Signal`, `Reset`, `CancelSynchronization`, `Sleep` | no missed signal; nothing of a wait outlives it |
| `KSession` and its two ends, `KSessionRequest` | request list, current request, state, reference counts | `SendSyncRequest`, `SendAsyncRequest`, `ReplyAndReceive`, close of each end | every request answered once; freed once; closing wakes all |
| `KPort` and its two ends; the life of sessions and light sessions | session count and peak, lists, reference counts; the session resource and the slab heap | `CreateSession`, `CreateLightSession`, `AcceptSession`, close of each end, `OnSessionFinalized` | the count is exact and within the maximum; every open end is held by one party; a place that becomes free is told |
| `KAddressArbiter` | tree of waiters by address and priority; words in user memory | three signals, two waits | signals wake the most urgent waiters, once; what a signal stores tells whether waiters are left |
| Light event, light semaphore (libstratosphere) | a word in user memory; a count | signal, wait, clear; acquire, release | an event that loses no signal; a semaphore no release of which passes a sleeper |
| `KScheduler`, `KPriorityQueue` | run queues, per-core selection | schedule, yield, migrate | not modelled |
| `KProcess`, debug | process state | start, terminate, attach | not modelled |
| Interrupt events, DPC, worker tasks | tasks per interrupt, queues | register, fire, unregister | not modelled |
| Page heap, memory blocks | bitmaps, block tree | allocate, free, split, merge | not modelled |
| Page tables, device spaces, boot, arch code | hardware formats | map, unmap | not modelled |
| exosphère, fusée, sept, emummc, thermosphère, troposphère, stratosphère, libraries | see `PROJECT.json` | | not modelled |

How they interact: everything that makes a thread wait goes through `KThread`'s
wait queue under the scheduler lock; kernel objects that sleep under a lock use
`KLightLock`; system calls reach objects through the handle table, which holds a
reference for the time of the call; creating an object reserves from the
process's resource limit; a session is waited for as a synchronization object, and
holds a place at its port from its creation to its end. User code reaches the
address arbiter only when the word it tested says somebody may have to sleep or
to be woken.

The behaviours that make the kernel hard: compare-exchange fast paths against
slow paths under a lock; user memory that changes while the kernel decides on
it; time-outs, cancellations and terminations racing with the event that a
thread waits for; destruction of one end of an object while threads of the other
are in calls; references closed after the lock was left. The 40 hazards in
`PROJECT.json` name the lines.

## 2. Modules

| Module | Models | Notes |
|---|---|---|
| `Mutex` | abstract | what a lock promises its callers |
| `KLightLock` | `kern_k_light_lock.{hpp,cpp}`, `kern_k_thread.cpp` (suspension, waiters) | implements `Mutex` |
| `KHandleTable` | `kern_k_handle_table.{hpp,cpp}`, `kern_k_auto_object.{hpp,cpp}` | |
| `KResourceLimit` | `kern_k_resource_limit.cpp`, `kern_k_light_condition_variable.cpp` | |
| `Monitor` | abstract | who is inside, who waits |
| `KConditionVariable` | `kern_k_condition_variable.cpp`, the user code in `src/libraries/libstratosphere/source/os/impl` | implements `Monitor` |
| `KSynchronizationObject` | `kern_k_synchronization_object.cpp`, `kern_k_readable_event.cpp`, `kern_k_event.cpp`, `kern_k_thread_queue.cpp`, `kern_k_thread.cpp` | waiter lists as sets of nodes |
| `WaiterQueues` | abstract | queues of waiters |
| `ThreadList` | `kern_k_synchronization_object.{hpp,cpp}` | the same lists, pointer by pointer; implements `WaiterQueues` |
| `KServerSession` | `kern_k_server_session.cpp`, `kern_k_session.cpp`, `kern_k_client_session.cpp`, `svc/kern_svc_ipc.cpp` | |
| `KPort` | `kern_k_port.cpp`, `kern_k_client_port.cpp`, `kern_k_server_port.cpp`, `kern_k_session.cpp`, `kern_k_light_session.cpp`, `kern_slab_helpers.hpp` | normal and light ports |
| `KAddressArbiter` | `kern_k_address_arbiter.{hpp,cpp}`, `kern_k_thread.cpp` (priority) | |
| `Event` | abstract | what an event promises, of either clear mode |
| `LightEvent` | `src/libraries/libstratosphere/source/os/impl/os_internal_light_event_impl.os.horizon.hpp`, `os_light_event.cpp` | extends `KAddressArbiter`; implements `Event` |
| `LightSemaphore` | `src/libraries/libstratosphere/source/os/os_light_semaphore.cpp` | extends `LightEvent` |
| `MC…` | | instances for TLC |
| `…Proofs` | | theorems, for TLAPS |

### Granularity

* A section under the scheduler lock is one action: one core at a time has it.
  Where user memory is touched more than once in a section (`KConditionVariable`)
  the section is several actions, with the variable `schedLock` held between
  them, because user threads do not take the lock. In `ThreadList` every link,
  every unlink and every step of a walk is an action of its own, so that what is
  said of the lists is said of each moment within a section; `phase` keeps all other
  sections out.
* A compare-exchange or a load outside a lock is one action.
* A method under a light lock is one action between two waits
  (`KResourceLimit`), or takes the lock with its first action and releases it
  with its last (`KServerSession`, where scheduler-locked sections of other
  threads come in between). This is sound because `KLightLock` implements `Mutex`,
  which is itself proved here.
* Which of several waiters is chosen is left open wherever the code uses
  priorities, so the results do not depend on priority inheritance. The exception
  is `KAddressArbiter`, which models the order of the tree and a change of a
  waiting thread's priority.

### State and actions, by module

`KLightLock`: `tag` is `m_tag`; `lockOwner` is `m_lock_owner`, whose inverse is the
waiter list; `suspendRequest` and `suspended` are the requested flags and those in
`m_thread_state`. `Lock()` is LoadTag, then the compare-exchange that takes a free
lock or marks a held one, or fails and tries again, then LockSlowPath; `Unlock()` is
UnlockFast or UnlockContended with HandOver. RequestSuspend and Resume are other
threads' calls. That a thread nests locks in ascending order (a guard of LoadTag) is an
assumption on the callers, not something `Lock()` checks; what `WaitChainAscends` then adds
is that hand-overs, which move waiters from owner to owner, keep the order.

`KHandleTable`: `info` is one cell for the linear id and the free-list link, as in
the code's union. `live`, `since` and `borrowed` are history variables: the handles
given out, the age of one watched handle, the references callers have opened.

`KResourceLimit`: `hints` and `current` differ by what is `ending`: a thread gives
back its hint in `Exit` and its value when destroyed. Sums wrap at `HalfRange`.

`KConditionVariable`: `owner` and `waitMask` are the lock word, `hasWaiter` the word
at the condition variable's key. EnterBegin to EnterReturn are the user's lock,
LeaveLock its unlock, WaitBegin to WaitReturn and SignalBegin to SignalEnd the
condition variable. The mutex itself is libnx's, outside the repository, and is
marked external. That threads nest mutexes in one order and wait with the innermost
(the guard of EnterBegin, and `Innermost`) is an assumption on the callers.

`KSynchronizationObject`: a wait is `call` → (`answered` | `wait`) → `answered` → `run`;
`linked` are the nodes in the objects' lists; `timer` the registered timer tasks.

`ThreadList`: head, tail and next pointers; a node is on a stack frame, and its pointer becomes
`Garbage` when the lock is released after the wait. `Wait`'s loop is BeginLinking,
LinkNext for each object, BeginWait; a time-out, cancellation or termination is
CancelWaiting, UnlinkNext for each object, EndWait; `NotifyAvailable` is NotifyObject,
Visit for each node that the walk comes to (with UnlinkNext and EndWait if its thread
still waits) and NotifyDone. `who` and `place` are the thread and the index of the loop,
`target` and `cursor` the object and `cur_node` of the walk. `WaiterQueues` sees a wait
from BeginWait on until it begins to leave; the order of a queue is there the relation
"not behind".

`KServerSession`: the clients' `SendRequest` … `Return`; the servers' `Call`, `Wait`,
`ReceiveRequest`, `SetCurrent`, `ReceiveFailed`, `SendReply`, `Reply`; the destruction of
either end, step by step (`CheckState`, `SetState`, then `CleanupNext`/`CleanupAnswer`
for the server and `VisitCurrent` … `ClientDestroyed` for the client). `pending` is a
history variable: requests accepted and not yet answered.

`KPort`: a connecting thread goes through Reserve, Create or Expand and Add, Load and
Count, LoadPeak and Peak, Initialize and Enqueue, and through Release if it fails;
`seen` and `new` are the locals of the two compare-and-swap loops. `phase` says how
far each session is between the slab heap and its return to it, `refs` how many of
its ends are open, `connected`, `list` and `accepted` who has them. Finalize, Free and
PostDestroy are the three parts of `Destroy`, in the order of the code, and other
threads run between them. `OnSessionFinalized` is one action: the fall of the count and
the notification, which it makes under the scheduler lock. In the code `NotifyAvailable`
looks at `IsSignaled` again, and a compare-and-swap outside the lock may have filled the
port in between, so that it wakes nobody; the port is then full, and the next session
that ends makes the notification. `highest` is a history variable. `Expands` says that the process has
the system's resource limit and that the limit may grow. A creation that expands the
limit and then finds the port full leaves the limit and its current value one
higher, with the session free in the slab heap.

`KAddressArbiter`: `queue` is the tree, one sequence for each address; `result` what a
thread's call returned. `Wrap` is s32 arithmetic. LightEvent's `pc` is the place in the
loops of the four kinds of wait and two of signal; every load, compare-and-swap and
system call is one action. `overlap`, a history variable, is what `Event` needs to say
that a wait on an event that is not cleared by itself may return if the event was
signaled at any time during the wait: the code returns on `ResultInvalidState`
without another look. `Event` tells a timed wait that returns true (`done`) from one that
returns false (`gaveUp`); `WaitResult` is `!timed_out`. `LightSemaphore` adds the count; what happens under its mutex is
one action.

## 3. What TLC checks

| Run | Instance | Distinct states | Shows |
|---|---|---|---|
| `light_lock` | 3 threads, 2 nested locks, 1 kind of suspension | 174 378 | sleepers wait on the present owner (`SleepersWaitOnOwner`), no cycle of waits (`WaitChainAscends`), suspensions are applied and held back when they must be (`SuspensionNotLost`, `KernelWaitersKeepRunning`), refinement of `Mutex` |
| `light_lock_live` | 3 threads, 1 lock | 68 960 | an owner that is slept on gives the lock up, even if suspended for good (`OwnerGivesUp`) |
| `light_lock_two_suspends` | 2 threads, 2 kinds of suspension | violation | see Finding |
| `handle_table` | 2 callers, 2 objects, 2 entries, linear ids up to 3 | 166 077 | `EntriesPartitioned`, `ResolvesIffLive`, `LifetimesExact`, `ReuseIsLate` |
| `resource_limit` | 2 threads, 2 resources, amounts up to one that wraps | 90 524 | `ValuesOrdered`, `Conservation`, `SleepersJustified`, `ReserveReturns` |
| `condition_variable` | 3 threads, 2 locks, 1 termination | 113 387 | `WaitersLinked`, `WaiterAnnounced`, refinement of `Monitor` |
| `condition_variable_live` | 2 threads, 2 locks | 3 766 | `LockGranted` |
| `synchronization` | 2 threads (objects too), 1 event, lists of 2 | 147 376 | `NothingOutlivesWait`, `NoMissedSignal`, `CancelNotLost`, `TerminationEnds` |
| `thread_list` | 3 threads, 2 objects, lists of 3 | 57 501 | `ListIntact`, `NotifiesExactly`, refinement of `WaiterQueues` |
| `session` | 2 clients, 2 servers, 2 requests | 112 038 | `RequestRefs`, `NoMissedRequest`, `NoRequestDropped`, `AnswersReachSender`, `CloseAnswers` |
| `port` | 2 threads, 3 sessions (2 in the slab heap, 1 for a light port), at most 2 at the port | 1 149 774 | `CountExact`, `PeakExact`, `NoMissedNotification`, `EndsHeld`, `ClientPortOutlivesUsers`, `ReservationBacked` |
| `arbiter` | 3 threads, 2 priorities, 3 addresses (1 not mapped); bare calls, a light event, or a light semaphore of at most 2 | 114 607 | `TreeOrdered`, `NewValueTells`, refinement of `Event`, `ReleaseReachesSleepers` |

The type invariants, and some properties that are stated in the modules but not in this
table (`NoBarging`, `SuspensionYields`, `AnswersFirstSignaled`, `TerminatingNeverWaits`, `AssertionsHold`),
are proved (Section 4). Every property of a run has a mutant of a mapped definition, a mistake the code could plausibly contain, which
TLC finds by that property.

### Bounds

* Light lock: a race needs an owner, a sleeper and a newcomer, hence three threads;
  a cycle of waits needs two locks.
* Handle table: `MaxLinearId` is 2^15 - 1 in the code; 3 makes it wrap within a few
  steps, and is the least value for which an early and a right reuse differ.
  `MaxBorrowed` bounds the references a caller has open.
* Resource limit: `HalfRange` stands for 2^63; with 4, the amount 3 overflows the
  sum. `Value`, `LimitValue` and `MaxAdded` bound the amounts.
* Condition variable: three threads so that a hand-over leaves a waiter behind;
  `MaxTerminated` bounds how many are asked to terminate. The liveness run has two
  threads, so that the free choice of the next owner cannot starve one.
* Synchronization: two places in a list let an object be given twice; threads are
  objects as well, so lists with two different objects exist with one event.
* Thread list: three threads make a list with a middle node; three places in a wait put
  a thread twice in one list and once in the other.
* Session: two requests put one in service and one in the queue, or two in the queue;
  two server threads race for them; each end closes at any point.
* Port: two threads are needed for a lost update of the count or the peak, a maximum of
  two for a port that is partly full, and a third session, outside the slab heap, for
  the expansion of the limit; fewer light sessions than the limit, as in the kernel.
* Arbiter: three sleepers are needed for a signal of two that leaves one, two
  priorities for an order. `HalfWord` stands for 2^31; with 3, the words are -3..2 and
  a value at each edge is among those passed. In the semaphore's part all threads
  have the same priority.

None of the bounds on the numbers of threads, locks, entries, objects or requests
is in the theorems of Section 4.

### Fairness

* `light_lock_live`: a thread that is in `Lock()` or `Unlock()` and schedulable runs
  (weak); a schedulable holder comes to its `Unlock()` (strong, since it may be
  suspended again and again). Nothing is assumed about `Resume`. With two nested
  locks the property does not hold for the same reason that no compare-exchange
  loop is wait-free: another thread may change the tag between load and exchange
  forever. The run has one lock.
* `resource_limit`: timers fire and woken threads run (weak).
* `condition_variable_live`: weak fairness for steps in the kernel and for woken threads;
  strong fairness for steps that need the scheduler lock, which others take and
  release, and for leaving a critical section (a property of the program).
* `synchronization`: threads in the kernel proceed, a registered timer fires, a
  thread asked to terminate gets to the end of its call (weak). Nothing is assumed
  about signals.
* `session`: strong fairness for steps that need `m_lock`, weak for the others. Nothing
  is assumed about clients sending or servers replying: the server's end
  just has to finish closing.

Deadlock is checked except where a system may stop for good: threads that have
terminated (`condition_variable`, `synchronization`, `arbiter`), closed sessions (`session`)
and closed ports (`port`).

### Finding

`light_lock_two_suspends`: `KThread::TrySuspend` (`kern_k_thread.cpp`) says "Ensure that we
have no waiters" and returns without suspending when the thread has kernel waiters.
With two kinds of suspension requested, e.g. by a debugger and by thread activity,
`Resume` of one calls `UpdateState` (`kern_k_thread.cpp:779`), which applies the other at
once, kernel waiters or not. The thread then runs on only after its next waiter
arrives (`LockSlowPath` continues a suspended owner) or it is resumed.

## 4. What TLAPS proves

For every set of threads, locks, objects, requests and every table size; the
assumptions are the `ASSUME`s of the modules (null values are not members; sizes are
positive; amounts fit the integer width), which TLC evaluates in the runs.

| Module | Theorems | Argument |
|---|---|---|
| `KLightLockProofs` | `TypeCorrect`, `Exclusion`, `NoLostWakeup`, `OrderedWaiting`, `SuspensionKept`, `WaitedOnYields`, `DirectHandOver`, `Refinement` | `SleepersWaitOnOwner` is inductive only with an account of where the owner in a tag comes from (`OwnerAccounted`), what a place in the code says of the locals (`PlacesAccounted`), and that the bit never stands alone |
| `KHandleTableProofs` | `TypeCorrect`, `FreeListWhole`, `ReservationsExclusive`, `Partition`, `HandlesResolve`, `LateReuse`, `Lifetimes`, `OneCloses` | the free list is an existentially quantified sequence; each action gives the new sequence. Resolution needs `LiveExact`, late reuse `SinceExact`. `Lifetimes` counts the references as two sets, the entries that hold an object and the pairs of a caller and a number (`Held`), so that each action moves, adds or takes one element; it needs that one caller finalizes (`OneFinalizer`), since the entries it has closed no longer count, and that both sets are finite (`HeldFinite`) |
| `KResourceLimitProofs` | `TypeCorrect`, `LimitsRespected`, `Conserved`, `WaitersExact`, `WaitsJustified` | the ordering of the values follows from `Conservation`; wake-ups need `WaitersCounted`, since `Release` broadcasts only if the count is not 0 |
| `KConditionVariableProofs` | `TypeCorrect`, `LocksExclude`, `WaitersNotStranded`, `WaitersFlagged`, `Refinement` | `Located` ties lists, tree and scheduler lock to the threads' places; `Owned` the lock word |
| `KSynchronizationObjectProofs` | `TypeCorrect`, `NodesNeverDangle`, `NoSignalMissed`, `TimersMatchWaits`, `WaitsLeaveNothing`, `TerminationWins`, `AnswerIsFirst`, `CancellationsKept`, `SleepsUndisturbed` | lists node by node (`Linked`); objects of a call are alive (`Held`) |
| `KServerSessionProofs` | `TypeCorrect`, `RequestsCounted`, `RequestsNoticed`, `RequestsKept`, `Asserted`, `AnswersMatch` | a request is in one place (`OnePlace`), one thread is under `m_lock` (`Places`), who has closed (`Closing`), what clients wait for (`Calls`), who clears (`Clears`) |
| `KPortProofs` | `TypeCorrect`, `CountIsExact`, `PeakIsExact`, `NotificationNotMissed`, `EndsAreHeld`, `ClientPortLives`, `ReservationsAreBacked` | what each place in `CreateSession` says of the thread's locals, and that no two threads make the same session (`Locals`); the counts of sessions and references as sums over phases (`Counts`, `PortRefs`); the balance of the resource with sessions, reservations and `owed` (`Backed`) |
| `LightSemaphoreProofs` | of the arbiter: `TreeInOrder`, `NewValueIsRight`; of the event: `TypeCorrect`, `EventTreeInOrder`, `SleepersAreAnnounced`, `Refinement`; of the semaphore: `SemaphoreTyped`, `SemaphoreTreeInOrder`, `SemaphoreSleepersAnnounced`, `ReleaseNeverLost` | the tree of the arbiter is in order under each of its operations, shown once and used for all three specifications. A queued thread is queued once and sleeps, at the event's word only (`Sleeping`), the word is 1 while there is one (`SleepersAnnounced`), `overlap` is right (`Overlapping`), and a wait that is to return with `InvalidState` has overlapped a signal (`LookedAt`). For the semaphore, units that the word does not announce have a releaser that is still before its compare-and-swap, or in the system call if the word is 1 (`Announced`) |

`WaitedOnYields` (`SuspensionYields`) is what holds of suspension for any kinds of it: a thread
that gets a waiter is continued, and the only call that suspends a thread with kernel
waiters is `Resume` of that thread while another kind is requested, the case of the
finding. `KernelWaitersKeepRunning` itself is false with two kinds, and is only model-checked
with one.

Only model-checked:

* the liveness properties (`OwnerGivesUp`, `ReserveReturns`, `LockGranted`, `TerminationEnds`,
  `CloseAnswers`), since fairness and `ENABLED` are beyond the prover;
* `KernelWaitersKeepRunning`, as just said;
* the linked lists: `ListIntact`, `NotifiesExactly` and the refinement of `WaiterQueues` by
  `ThreadList`. The proofs about waits in `KSynchronizationObjectProofs` take the lists as
  sets of nodes, so they rest on `thread_list` for the pointers, with three threads,
  two objects and waits of up to three places.

## 5. Not modelled

Left out within modelled parts: messages in inaccessible memory, handles of
dead threads in lock words, finalization of a thread that still has user-lock
waiters, contents of IPC messages (the outcome of copying is a free choice),
event and thread creation, ordering in the timer's tree, the exchange of requests over
light sessions, the table of named ports, the chain of priority inheritance.

Parts that are not modelled:

* `KScheduler` and `KPriorityQueue`: the selection of threads for the cores, the switch
  protocol between cores and the scheduler lock itself. Everything here takes the
  scheduler lock as given.
* `KProcess`, the debugger, and the pinning and exit of threads: they need the life of
  threads, the handle table and the resource limit in one composition, larger than
  what TLC enumerates with two threads of each.
* Interrupt events, DPC and worker tasks: which interrupt may still arrive after
  `UnbindHandler` is decided by the interrupt controller and not by the code.
* `KPageHeap`, `KPageBitmap`, `KMemoryBlockManager`: sequential algorithms under one lock.
* Page tables, caches, device spaces and boot work on hardware formats and have no
  state small enough to enumerate usefully.

The four hazards of `PROJECT.json` without a property are at the edge of these parts. The other
programs of the repository are listed with the reason in `PROJECT.json`.
