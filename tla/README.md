# Verification of bolt's execution core

Bolt is a query execution library: a *task* runs the pipelines of a plan
fragment, each with several *drivers*, on a shared executor. This directory has
TLA+ models of the parts of it in which several threads, callbacks or nested
calls meet, the TLC configurations that check them on small instances, and
proofs of their safety that TLAPS checks for instances of any size.

All source paths below are relative to `src/bolt/`. `PROJECT.json` maps every
definition to the lines it translates.

## The system and its models

```
 upstream tasks                                              downstream tasks
      |  pages                                                     ^  pages
      v                                                            |
  ExchangeClient/Queue  --->  drivers of the task  --->  OutputBuffer
     (Exchange)               (TaskDriver)               (OutputBuffer)
                                 |        |
                      hash join: |        | rows in blocks
                                 v        v
      HashJoin with SpillOperatorGroup    BufferManager  implements  BlockStore
```

| Part of the code | Module | What the module promises |
| --- | --- | --- |
| `exec/Driver.cpp`, thread accounting of `exec/Task.cpp` | `TaskDriver` | a driver runs on one thread at a time, a reclaimer that paused the task is alone, every driver is closed once |
| `exec/SpillOperatorGroup.cpp`, used by `exec/HashBuild.cpp` | `SpillOperatorGroup` | the last hash builder to arrive spills for all, alone, and wakes all |
| `exec/HashBuild.cpp`, `exec/HashProbe.cpp`, `exec/HashJoinBridge.cpp` | `HashJoin`, which extends `SpillOperatorGroup` | a join that spills, at whatever time and level, returns each result once, and ends |
| `exec/OutputBuffer.cpp`, `exec/OutputBufferManager.cpp` | `OutputBuffer` | consumers get every page once and in order, producers are not left blocked |
| `exec/Exchange*.cpp`, the splits of the exchange node in `exec/Task.cpp` | `Exchange` | pages of all upstream tasks reach the drivers, the end is seen only at the end |
| `common/memory/bm` | `BufferManager` | what was stored in a block is what the next pin shows |
| its interface, `BufferManager.h` and `Usage.md` | `BlockStore` | the same, with no trace of memory and disk |

The parts interact through narrow interfaces, and each model contains the other
side of the interface as far as it matters: `TaskDriver` has the reclaimer of the
arbitration and the consumer of the output, `SpillOperatorGroup` has
`Task::terminate`, `HashJoin` has the barriers of the task and the arbitration, `OutputBuffer` has the drivers and remote consumers,
`Exchange` has the task's splits and its termination, and `BufferManager` has a
user and the reclaim that the memory pool starts in the middle of a call.

## The modules

### TaskDriver

The variables are the members of `Task` guarded by `Task::mutex_`
(`numThreads_`, `pauseRequested_`, `toYield_`, `drivers_`, ...), the flags of
`ThreadState` (as sets of drivers), and for each driver where its thread is
(`pc`) and who else holds it (`held`: jobs of the executor, callbacks of
futures). A step is one critical section of `Task::mutex_`, or the code between
two of them; `Driver::run` is therefore split at the places where it holds the
driver without a lock (`yield`, `testBlocked`, `setResume`). The operators are
abstract: at any time they may block, fail, end, suspend (nested) or go on. One
reclaimer pauses the task, waits (and may time out), reclaims, and resumes or
aborts. The `BOLT_CHECK`s of this code are recorded in `failedChecks` and the
step goes on as if nothing happened, so that a failing check does not hide what
comes after it.

Two of them can fail, and `ChecksHold` says when, and that no other does:

* the check in `BlockingState::setResume`, when the task is terminated between a
  driver's test of `shouldStop` and its call of `setResume`: terminate has taken
  the driver and set its thread (`enterForTerminateLocked`), which is what is
  checked. The exception is thrown in a driver that is being closed anyway;
* the check in `Task::resume`, when the wait for the pause timed out and a driver
  is still on its thread (`Task.cpp:1066`). The exception is only logged
  (`Task.cpp:3266-3273`), and the drivers behind this one are in no place: not
  enqueued, not blocked, not on a thread. The failed reclaim makes the arbitration
  abort the task (`ArbitrationParticipant.cpp:315-318`), and it is this alone that
  closes them. `OneHolder` excludes the tasks that are about to be aborted;
  `NobodyStranded` says that the abort reaches their drivers.

### SpillOperatorGroup

One variable for each member guarded by `mutex_`, and the position of each
operator's driver. The spill itself takes place with no lock held and is the
interval between two steps (`"spilling"`). The promises that `runSpill` moved
out of the group are `held`, and are fulfilled one by one (`fulfilPromise`),
because an operator woken early can already request the next spill. A spill may
throw, the group may be restarted for a spilled partition, and the task may be
terminated at any time (constant `Terminates`). As a specification of its own
(`Spec`) the group has a free environment: operators may request spills, stop and
restart whenever the code would not fail a check.

### HashJoin

The spill group together with its client and with the other side of the join.
Each step is a step of the group or leaves its variables alone, so what is proved
of the group holds here, too. `bridge` is `HashJoinBridge`, `build` and
`probe` are the operators, and `arrived` is the two barriers of
`Task::allPeersFinished`. The states `at` of an operator are those of the code
(`kRunning`, `kWaitForBuild`, ...), and these places on its thread:

* `"merging"`: the last builder has passed the barrier and waits for memory for
  the table (`ensureTableFits`), when an arbitration may still spill it all;
* `"restarting"`, `"releasing"`: the table is in the bridge and can be probed, but
  the spill group is not restarted and the peers are still at the barrier;
* `"continuing"`: a builder that is about to ask for the next partition;
* `"asking"`: a prober that is about to ask for the table;
* `"lastProber"`: the last prober has passed the barrier but not moved on.

A row is its origin and its key; bit *l* of the key stands for the hash bits that
`HashBitRange` selects at level *l*. Spilled rows are kept by the files they are
in, one for each builder and partition, because `SpillPartition::split` deals
out files. `joined` and `unmatched` count what was in the output. An anti join
returns the probe rows that are in no pair, so the pairs are what has to be
right for it as well.

### OutputBuffer

A step is a critical section of `OutputBuffer::mutex_`. Pages freed and
promises taken under it are released afterwards (`release`); a consumer's
callback runs outside of it, too (`responses`). A page is its number and its
size; `nullptr` is the end marker 0. Partitioned, broadcast and arbitrary output
are the three values of `kind`. Consumers and network are external: consumers
follow the protocol that `OutputBuffer.h` documents, and requests may be
repeated, overtake each other or be lost. The number of drivers and of
destinations may become known late.

Whether a broadcast page counts as freed depends on `use_count() == 1` at the time
of an acknowledgement, and two acknowledgements may both see the other's
reference. Its bytes then stay in `bufferedBytes_`, so `BytesBuffered`, which is
what the header says of it, is violated. `BytesLeakOnlyShared` says how far the
count can be trusted: it is exact for the other kinds of output, and for
broadcast output it grows only in this case, or when a page comes for which no
destination is left, and never shrinks below the truth. A producer that
enqueues after `terminate` may block on a buffer that nobody reads any more; its
wait ends when the last reference to the buffer goes and its promises break
(`destroyBuffer`).

### Exchange

The records `queue`, `client`, `source`, `task` and `driver` are the objects
`ExchangeQueue`, `ExchangeClient`, `ExchangeSource`, the split store of the
node in `Task`, and the `Exchange` operator. Promises in `ExchangeQueue` are a
sequence, because `enqueueLocked` takes the last one, and an entry may be
`Stale`: a promise whose future nobody has. The sources are modelled after
`LocalExchangeSource`; they answer with pages, with none, or fail, and the
answer is handled by a callback on the executor (`responseCallback`).
Termination is three steps, in the order of `Task::terminate`.

`ExchangeSource::create` may throw, when the id is already in `remoteTaskIds_`.
In a driver this fails the task, in `addSplit` after the termination it goes to
the caller, and in `terminate` it is logged and the next split is handed over. In
each case the same id added again is taken for a duplicate. The history field
`uncreated` keeps these ids: nobody can tell such an upstream task that its data
is not needed, so `UpstreamIsTold` leaves it out, and with it the splits that a
failing driver had in hand.

### BufferManager and BlockStore

The manager belongs to one thread, so its operations do not interleave, but
they nest: decoding a block that is read back allocates from the pool, the pool
may start an arbitration, and that calls `Reclaim` on the same manager while
`BatchPin` is half done. `pin` and `spill` are the frames of these two
operations. A block is a `BlockMemory`: state, pin count, dirty flag, generation
and three optionals; its bytes are a version number, raised by each store of
the user. Every failure the code handles, or lets pass, is there: a read that
cannot be submitted, a read that fails, a decoding that throws (which leaves the
used-up future in the block), a write that cannot be submitted or fails with
others in flight. `content`, `handles` and `lost` are history: what the user
wrote last, the handles the user has, and the blocks whose bytes went with a
failed write.

The comments in `ReclaimWriteWindow.cpp` call a failed write fatal to the task.
The model lets the user go on after one, and the blocks of the window are then
lost. This shows that the manager's own state stays consistent. It does not show
that going on is safe: the segments of the other writes in flight are freed when
the window is destroyed (`ManagedFileSegment.cpp:28`), while the I/O into them may
still run, and files and their segments are below the model.

`BlockStore` is what a user of the manager relies on. Its blocks have contents
and pins; they change only through the user's own stores; a call that pins a list
of blocks pins all of them or none; contents may be lost only while nobody holds
a pin, and a lost block cannot be pinned. `BufferManager` is mapped to it by
taking the contents from where the bytes are (payload, segment, or the window of
writes in flight) and by not counting the pins of a call that has not returned.

## What TLC checks

| Run | Instance | Properties | Distinct states |
| --- | --- | --- | --- |
| `task_driver` | 2 drivers, nesting 2, 2 pauses, timeouts | `TypeOK`, `ThreadCount`, `ReclaimIsSafe`, `OneHolder`, `ClosedOnce`, `ChecksHold`, `PauseSettles`, `DriversAreClosed`, `NobodyStranded` | 271,184 |
| `task_yield` | 1 driver that yields, timeouts of the pause | `ReclaimIsSafe` | 172,968 |
| `task_enqueue` | 2 drivers that yield | `EnqueueCheckHolds`: violated | |
| `hash_join` | 2 builders, 2 probers, 3 joins, 2 levels of spilling | of the group: `TypeOK`, `SpillRunsAlone`, `ChecksHold`, `NoLostWaiter`; of the join: `JoinIsExact`, `NobodyLeftBehind`, `JoinChecksHold`, `JoinEnds` | 156,040 |
| `spill_closed_operator` | 3 operators | `SpillMeetsNoClosedOperator`: violated | |
| `output_buffer` | 4 tasks, see below | `TypeOK`, `Delivery`, `BytesLeakOnlyShared`, `NoMissedData`, `ChecksHold` | 623,973 |
| `output_liveness` | 1 task, lossy network, cancellation | `ProducerResumes`, `ConsumerEnds` | 30,640 |
| `output_bytes` | broadcast, 2 consumers | `BytesBuffered`: violated | |
| `output_producer` | broadcast, the consumer leaves | `ProducerResumes`: violated | |
| `exchange` | 4 pipelines, see below | `TypeOK`, `Delivery`, `EndIsComplete`, `NoSourceLost`, `QueueIsBounded`, `SomebodyIsAwake`, `UpstreamIsTold`, `DriversEnd` | 170,628 |
| `exchange_wakeup` | the same | `PageResumesWaiter`: violated | |
| `buffer_manager` | 2 blocks, see below | `TypeOK`, `HandlesArePins`, `DataSurvives`, `EvictableIsQueued`, `AccountingIsExact`, `ReclaimIsComplete`, `ImplementsBlockStore` | 640,678 |

Each property has a mutant in `PROJECT.json`: a plausible mistake in one
definition under which TLC finds the property violated. Deadlock is not checked,
because all these systems may stop: a task ends, a manager is no longer called.
That nothing stops too early is what the liveness properties say.

### The bounds, and why they are enough

* **Task and drivers.** Two drivers are the fewest for which one executes while
  another is suspended, blocked or being closed; a third is in no position the
  second cannot be in. Two pauses are needed for residue of the first to meet the
  second. Yielding (which adds a queue position and the counter of requested
  yields) is checked with one driver and for `ReclaimIsSafe` only; the theorems
  cover both together and any number of drivers. `OneHolder` and the liveness
  properties are checked without yields: with them a driver can be enqueued twice,
  which is the violation of `EnqueueCheckHolds`. Without yields `OneHolder` and
  `ChecksHold` are proved for any number of drivers.
* **Spill group and hash join.** Two builders and two probers are the fewest with
  a last one at each barrier, and with an operator that a peer can overtake. Keys
  are chosen so that each partition of the first level can be spilled again, that
  both of its parts come up in one case and only one in the other, and that one
  prober has no row for a partition the other has rows for. There is a build row
  without a match, and a key that is there twice on each side. With three operators two can wait
  while one coordinates, and one that was woken early can wait again before the
  last one is woken. This is not reached in the run: the theorems about the
  group cover it, for any number of operators.
* **Output.** A buffer of 10 bytes is full with the two pages of 6 and 5, and
  producers are resumed when less than 9 are left, so every page matters. `MaxBytes` of 6
  makes a fetch return one page or two. Four tasks: each kind of output with two
  consumers, one of which may leave early where the protocol allows it, and
  partitioned output of two drivers of which the planned number was three, with
  cancellation. At most two requests and answers are under way for a consumer,
  which is enough for one to overtake another.
* **Exchange.** Two drivers and two upstream tasks, one of them empty
  (`Competing`); failing requests and source creations, and drivers that give up
  (`Failing`); pages that exceed the queue and a split that is added twice
  (`Filling`); cancellation while splits arrive, with failures (`Cancelled`).
* **Buffer manager.** Two blocks of sizes 1 and 2, lists of up to two blocks
  (also twice the same), a window of one write, so that it has to be refilled,
  reclaim targets of 2 bytes and of everything, two handles of a block, two
  versions of its bytes. `MaxSequences` bounds how often a block is pinned and
  evicted: both blocks up to generation 2, or the first alone up to 5, through
  two spills and two reads. With a window of one write a failed write is never
  followed by others in flight; that their blocks are safe, too, is shown by the
  theorems `BytesSurvive` and `Refinement` only. The theorems need none of these
  bounds.

### Fairness

* `TaskDriver`: weak fairness of each driver's thread, of operators that return
  to the loop (`stopAtBoundary`), of the end of suspended sections, and of the
  reclaimer. This is what an executor with a thread for every job gives, and what
  the code requires of operators. Blocking, failing, suspending and yielding are
  not fair: they may never happen.
* `HashJoin`: weak fairness of the operators that are not blocked, and of
  `cancel`, the end of a termination that has begun. Spill requests, reclaims and
  termination are not fair.
* `OutputBuffer`: weak fairness of producers, of the calls that announce the
  final number of drivers and destinations, and of consumers that repeat their
  request. Strong fairness of serving a fetch and of receiving an answer: not
  every repetition is lost. Acknowledgements need only weak fairness, because a
  lost one is made up for by the next fetch. Weak fairness of `removeTask` and
  `destroyBuffer`: a task that has ended is removed, and calls return.
* `Exchange`: weak fairness of drivers, callbacks, the end of the splits and a
  termination that has begun. Strong fairness of `respond`: a source does not
  time out for ever.
* `BufferManager`: no liveness. It is sequential; that its loops end shows in
  `ReclaimIsComplete` being about the state in which they end.

### What the violated properties show

* `EnqueueCheckHolds`: `Driver::run` enqueues a driver that yielded without
  `Task::mutex_`, when `resume()` may already have done so; the check of
  `enqueueInternal` then fails on the driver's own thread.
* `SpillMeetsNoClosedOperator`: the spill coordinator makes sure that the
  drivers of all operators exist, not that they are open. A waiting operator
  that `Task::terminate` has closed still has its driver, kept by the callback of
  its future.
* `ProducerResumes` in `output_producer`: once all the destinations of a
  broadcast are deleted and no more are to come, a page that is enqueued is held
  by no buffer and stays counted in `bufferedBytes_`. A producer that blocks then
  is never resumed: no acknowledgement or delete can come any more.
* `BytesBuffered`: two destinations acknowledge a broadcast page, the second before
  the first one's acknowledgement has released its reference. Neither subtracts
  the page, and the buffer counts it for good.
* `PageResumesWaiter`: a page that arrives may take the promise of a future that
  nobody has, and resume nobody, while another driver waits. `SomebodyIsAwake` and
  `DriversEnd` show that this costs parallelism, not progress: some driver is
  always awake.

## What TLAPS proves

The theorems hold for all values of the constants that satisfy the `ASSUME`s of
the modules: positive numbers of drivers, operators and writes in flight,
positive block sizes, and bounds that are natural numbers. Each rests on an
inductive invariant, since none of the properties is inductive by itself.

* **`SpillOperatorGroupProof`**: `TypeCorrect`, `SpillIsExclusive`,
  `ChecksNeverFire`, `WaitersAreKnown`. `SpillRunsAlone` depends on a count:
  the coordinator is the operator whose arrival makes `numWaitingOperators_`
  reach the number of active ones. The invariant says that between spills this
  count is the number of promises, that promises belong to different active
  operators that wait, and that a coordinator has taken those of all other active
  operators. `LastArrival` turns the equality of cardinalities into equality of
  sets.
* **`TaskDriverSteps`, `TaskDriverProof`**: `TypeCorrect`,
  `ThreadsAreCounted`, `ReclaimIsExclusive`, `DriversCloseOnce`, and without
  yields `DriversHaveOneHolder` and `LifeCycleChecksHold`. The invariant `IInv`
  ties `pc`, `isOnThread`, `isTerminated`, `numSuspensions` and membership in
  `drivers_` together for each driver, and says that with a pause requested and
  the count at zero nobody executes. Every step changes the set of executing
  threads by at most one driver (`CountUp`, `CountDown`). The types are shown
  apart: they hold step by step given that the count stays natural.

  `DriversHaveOneHolder` (`OneHolder`) and `LifeCycleChecksHold` (`ChecksHold`)
  assume `~Yields`, since with yields the violation of `EnqueueCheckHolds` is a
  violation of both; pauses may time out. They rest on a second invariant,
  `Holding`. `HeldOf`: at most one job, callback or thread has the driver, and
  `isEnqueued` and `hasBlockingFuture` say which. `FlagsOf`: a driver leaves its
  thread because it is blocked, or because of a pause that is still requested;
  otherwise nobody would enqueue it again. `NotLost`: a driver that nobody has
  waits for `resume`. `Settled`: when `resume` comes to a running task, nothing
  executes, unless the wait for the pause timed out and its promise is still
  open. The last needs `IInv` of the next state: the promise is fulfilled when
  the count reaches zero, and the count is right (`StopDrains`).
* **`BufferManagerBlocks`, `BufferManagerFrames`, `BufferManagerRefinement`,
  `BufferManagerProof`** (with `Counting`, lemmas on how often an element occurs
  in a sequence): `TypeCorrect`, `PinsProtect`, `BytesSurvive`,
  `NothingStranded` and `Refinement`. The invariant `IInv` has these parts.
  `Sound`: in each state of a block, where its latest bytes are, and that a clean
  resident block and its segment agree, without which dropping a clean block
  could lose bytes. `Window`: writes in flight are of different blocks, each with
  the latest version; without it an older write could complete after a newer one.
  `Calls`: the blocks a call has done and has still to do are the blocks it was
  given. `Counted`: handles made by a call under way are among the handles, so
  that giving them back cannot go below zero. `Fresh`: block ids are not used
  again. And `EvictableIsQueued` itself. `BufferManagerBlocks` shows that each
  step keeps bytes and queue, `BufferManagerFrames` the rest,
  `BufferManagerRefinement` that each step of the manager is a step of
  `BlockStore` or leaves its variables alone: the steps of `Reclaim` and of the
  unwinding are invisible, the last handle of a call is `Pinned`, an exception is
  `PinFailed`, a failed write is `Lose`.

Only model-checked:

* all liveness properties, which are about fairness and `ENABLED`;
* `AccountingIsExact`, which is about sums over sets, and `ReclaimIsComplete`,
  which is about sums along a loop: both need induction over data;
* what `HashJoin` adds to the group: `JoinIsExact` is about what becomes of sets
  of rows over an unbounded number of rounds;
* all of `OutputBuffer` and `Exchange`, whose delivery properties are about folds
  over sequences and sums of page sizes.

## Not modelled

The models cover about 4,900 of the library's 750,000 lines. Most of the rest is
vectorised computation, file formats and functions: sequential code whose
behaviour is the data it computes, which these models abstract from. TLC and
TLAPS have nothing to say about it that its unit tests do not say better. The
components are listed in `PROJECT.json` with the reason; the ones that a further
model would serve best are:

* **Local exchange and merge sources** (`exec/LocalPartition.cpp`,
  `exec/MergeSource.cpp`): bounded queues like the ones of `Exchange`, inside a
  task, and the morsel-driven pipelines that create drivers while the task runs.
* **Splits, grouped execution and barriers** in `exec/Task.cpp`. The split store
  of an exchange is part of `Exchange`, with one split group.
* **Memory arbitration** between queries (`common/memory/SharedArbitrator.cpp`).
  `TaskDriver` has its effect on one task, `BufferManager` its effect on one
  manager. The arbitration participant serialises the reclaims of a task, hence
  one reclaimer.
* **Data cache** (`common/caching`), and the disk scheduler and file allocator
  below the buffer manager.

Within the modelled files these are left out: statistics and tracing, splits and
serial execution in `Task.cpp`, the special cases of hash joins (sub-ranges of
skewed partitions and row-based spilling, which need a single builder; dynamic
filters, join filters, left and semi joins, tables reused from a cache), the skew and size heuristics of requests beyond
what decides their sizes, block descriptors, pool reservations and the
destruction of the buffer manager, and the rows of pages and blocks.
