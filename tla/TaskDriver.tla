----------------------------- MODULE TaskDriver -----------------------------
(***************************************************************************)
(* The life of the Drivers of one Task in parallel execution: Driver::run  *)
(* and runInternal on the executor, BlockingState, and the thread          *)
(* accounting of Task (enter, leave, suspension, yield, pause, resume,     *)
(* terminate), with one memory reclaimer that pauses the Task to reclaim   *)
(* from its operators (Task::MemoryReclaimer::reclaimTask; the arbitration *)
(* participant serialises reclaims with reclaimMutex_).                    *)
(*                                                                         *)
(* A step is a critical section of Task::mutex_, or code between two of    *)
(* them.  The thread that runs a Driver is at pc:                          *)
(*   "off"        no thread is inside runInternal                          *)
(*   "run"        in the operator loop, suspended if numSuspensions > 0    *)
(*   "leaving"    runInternal returned 'why'; ~CancelGuard is to leave     *)
(*   "failing"    in Task::setError, about to call terminate               *)
(*   "unwinding"  setError is done; ~CancelGuard is to close the driver    *)
(*   "closing"    in Driver::close                                         *)
(*   "finishing"  in removeDriver, about to call terminate(kFinished)      *)
(*   "gone"       closed; ~CancelGuard is to leave for good                *)
(* Apart from that thread a Driver is held by                              *)
(*   "queued"     jobs of the executor that call Driver::run               *)
(*   "yielding"   jobs past runInternal, about to enqueue the Driver       *)
(*   "blocking"   jobs past runInternal, about to test shouldStop          *)
(*   "arming"     jobs past that test, about to call setResume             *)
(*   "armed"      futures whose callback has the Driver                    *)
(***************************************************************************)
EXTENDS Integers, FiniteSets

CONSTANTS
    NumDrivers,         \* the number of drivers of the task
    OutputDriver,       \* the ones of the output pipeline
    PartitionedOutput,  \* hasPartitionedOutput()
    Yields,             \* whether time slices expire and yields are requested
    Timeouts,           \* whether waiting for a pause may time out
    MaxSuspensions,     \* bound on the nesting of suspended sections
    MaxPauses           \* bound on the number of pauses

Driver == 1 .. NumDrivers

ASSUME NumDriversAssumption == NumDrivers \in Nat \ {0}
ASSUME OutputAssumption == OutputDriver \subseteq Driver /\ OutputDriver # {}
ASSUME SwitchAssumption ==
    PartitionedOutput \in BOOLEAN /\ Yields \in BOOLEAN /\ Timeouts \in BOOLEAN
ASSUME BoundAssumption == MaxSuspensions \in Nat \ {0} /\ MaxPauses \in Nat

VARIABLES
    \* Task
    taskState,          \* state_; terminateRequested_ is taskState # "kRunning"
    exception,          \* whether exception_ is set
    failPending,        \* a thread is between setError and its terminate
    pauseRequested,     \* pauseRequested_
    toYield,            \* toYield_
    numThreads,         \* numThreads_
    inTask,             \* the drivers that drivers_ still holds
    offThreadDrivers,   \* the ones terminate and resume took from it, to close
    outputConsumed,     \* partitionedOutputConsumed_
    consumer,           \* the caller of setAllOutputConsumed
    \* ThreadState: the drivers of which each flag is set
    isOnThread, isEnqueued, isTerminated, hasBlockingFuture,
    numSuspensions,     \* numSuspensions of each driver
    \* Driver
    closes,             \* how often closeOperators ran; closed_ is closes > 0
    pc, why, held,
    \* the reclaimer
    reclaimer,          \* where the reclaimer is
    waiter,             \* its promise is in threadFinishPromises_
    pauses,             \* the number of pauses so far
    \* the BOLT_CHECKs that have failed
    failedChecks

taskVars == <<taskState, exception, failPending, pauseRequested, toYield,
              numThreads, inTask, offThreadDrivers, outputConsumed, consumer>>
threadVars == <<isOnThread, isEnqueued, isTerminated, hasBlockingFuture,
                numSuspensions>>
driverVars == <<closes, pc, why, held>>
reclaimVars == <<reclaimer, waiter, pauses>>
vars == <<taskVars, threadVars, driverVars, reclaimVars, failedChecks>>

Holder == {"queued", "yielding", "blocking", "arming", "armed"}

\* Task::createAndStartDrivers enqueues all the drivers under the mutex.
Init ==
    /\ taskState = "kRunning"
    /\ exception = FALSE
    /\ failPending = FALSE
    /\ pauseRequested = FALSE
    /\ toYield = 0
    /\ numThreads = 0
    /\ inTask = Driver
    /\ offThreadDrivers = {}
    /\ outputConsumed = FALSE
    /\ consumer = "consuming"
    /\ isOnThread = {}
    /\ isEnqueued = Driver
    /\ isTerminated = {}
    /\ hasBlockingFuture = {}
    /\ numSuspensions = [d \in Driver |-> 0]
    /\ closes = [d \in Driver |-> 0]
    /\ pc = [d \in Driver |-> "off"]
    /\ why = [d \in Driver |-> "kNone"]
    /\ held = [d \in Driver |-> [h \in Holder |-> IF h = "queued" THEN 1 ELSE 0]]
    /\ reclaimer = "idle"
    /\ waiter = FALSE
    /\ pauses = 0
    /\ failedChecks = {}

-----------------------------------------------------------------------------
(***************************************************************************)
(* Helpers.                                                                *)
(***************************************************************************)
isRunning == taskState = "kRunning"
terminateRequested == ~isRunning

\* shouldStopLocked without its effect on toYield_: a pause wins over the rest.
shouldStop ==
    CASE pauseRequested -> "kPause"
      [] ~pauseRequested /\ terminateRequested -> "kTerminate"
      [] ~pauseRequested /\ isRunning /\ toYield > 0 -> "kYield"
      [] OTHER -> "kNone"

\* The effect of shouldStopLocked on toYield_.
countYield == toYield' = IF shouldStop = "kYield" THEN toYield - 1 ELSE toYield

\* Mutant: the last thread to stop does not fulfil the promises.
threadStopsSilent ==
    /\ numThreads' = numThreads - 1
    /\ UNCHANGED waiter

\* A thread stops running the task; the last one fulfils the waiting promises.
threadStops ==
    /\ numThreads' = numThreads - 1
    /\ waiter' = (waiter /\ numThreads' # 0)

hold(d, h) == [held EXCEPT ![d][h] = @ + 1]
drop(d, h) == [held EXCEPT ![d][h] = @ - 1]
move(d, h, g) == [held EXCEPT ![d][h] = @ - 1, ![d][g] = @ + 1]

\* Task::setError up to its call of terminate.
setError ==
    IF isRunning /\ ~exception
      THEN exception' = TRUE /\ failPending' = TRUE
      ELSE UNCHANGED <<exception, failPending>>

\* Mutant: a pause does not keep terminate from the drivers off thread.
takenInPause == inTask \ (isOnThread \cup isTerminated)

\* Task::enterForTerminateLocked: the drivers it takes off the task's hands.
takenByTerminate ==
    IF pauseRequested THEN {} ELSE inTask \ (isOnThread \cup isTerminated)

\* The critical section of Task::terminate.
terminate(state) ==
    IF isRunning
      THEN /\ taskState' = state
           /\ isTerminated' = isTerminated \cup takenByTerminate
                                \cup (inTask \cap isOnThread)
           /\ isOnThread' = isOnThread \cup takenByTerminate
           /\ inTask' = inTask \ takenByTerminate
           /\ offThreadDrivers' = offThreadDrivers \cup takenByTerminate
      ELSE UNCHANGED <<taskState, isTerminated, isOnThread, inTask,
                       offThreadDrivers>>

\* checkIfFinishedLocked once 'drivers' are the ones left in drivers_.
checkIfFinished(drivers, consumed) ==
    /\ isRunning
    /\ OutputDriver \cap drivers = {}
    /\ ~PartitionedOutput \/ consumed

-----------------------------------------------------------------------------
(***************************************************************************)
(* Driver::run and runInternal: coming on thread.                          *)
(***************************************************************************)

\* A job finds the driver closed: it fails the task, if that still runs.
runClosed(d) ==
    /\ held[d]["queued"] > 0
    /\ closes[d] > 0
    /\ held' = drop(d, "queued")
    /\ setError
    /\ UNCHANGED <<taskState, pauseRequested, toYield, numThreads, inTask,
                   offThreadDrivers, outputConsumed, consumer, threadVars,
                   closes, pc, why, reclaimVars, failedChecks>>

\* Task::enter does not let the job in: it checks that the driver is enqueued
\* (another job may have come first).  Driver::run enqueues the driver again on a
\* yield; it has no case for a driver that is on another thread.
enterRefused(d) ==
    /\ held[d]["queued"] > 0
    /\ closes[d] = 0
    /\ \/ d \notin isEnqueued
       \/ d \in isTerminated \cup isOnThread
       \/ shouldStop # "kNone"
    /\ isEnqueued' = isEnqueued \ {d}
    /\ IF d \notin isEnqueued \/ d \in isTerminated \cup isOnThread
         THEN /\ held' = drop(d, "queued")
              /\ failedChecks' = failedChecks \cup
                   (IF d \notin isEnqueued THEN {"enter"}
                    ELSE IF d \in isTerminated THEN {} ELSE {"run"})
              /\ UNCHANGED <<toYield, isTerminated>>
         ELSE /\ held' = IF shouldStop = "kYield" THEN move(d, "queued", "yielding")
                         ELSE drop(d, "queued")
              /\ isTerminated' = IF shouldStop = "kTerminate"
                                 THEN isTerminated \cup {d} ELSE isTerminated
              /\ countYield
              /\ UNCHANGED failedChecks
    /\ UNCHANGED <<taskState, exception, failPending, pauseRequested,
                   numThreads, inTask, offThreadDrivers, outputConsumed,
                   consumer, isOnThread, hasBlockingFuture, numSuspensions,
                   closes, pc, why, reclaimVars>>

enter(d) ==
    /\ held[d]["queued"] > 0
    /\ closes[d] = 0
    /\ d \in isEnqueued
    /\ d \notin isTerminated
    /\ d \notin isOnThread
    /\ shouldStop = "kNone"
    /\ held' = drop(d, "queued")
    /\ isEnqueued' = isEnqueued \ {d}
    /\ numThreads' = numThreads + 1
    /\ isOnThread' = isOnThread \cup {d}
    /\ hasBlockingFuture' = hasBlockingFuture \ {d}
    /\ pc' = [pc EXCEPT ![d] = "run"]
    /\ UNCHANGED <<taskState, exception, failPending, pauseRequested, toYield,
                   inTask, offThreadDrivers, outputConsumed, consumer,
                   isTerminated, numSuspensions, closes, why, reclaimVars,
                   failedChecks>>

-----------------------------------------------------------------------------
(***************************************************************************)
(* On thread.                                                              *)
(***************************************************************************)
onThread(d) == pc[d] = "run" /\ numSuspensions[d] = 0

\* The test at every operator boundary.
stopAtBoundary(d) ==
    /\ onThread(d)
    /\ shouldStop # "kNone"
    /\ pc' = [pc EXCEPT ![d] = "leaving"]
    /\ why' = [why EXCEPT ![d] = shouldStop]
    /\ countYield
    /\ UNCHANGED <<taskState, exception, failPending, pauseRequested,
                   numThreads, inTask, offThreadDrivers, outputConsumed,
                   consumer, threadVars, closes, held, reclaimVars,
                   failedChecks>>

\* The time slice of the driver is over.
stopAtSlice(d) ==
    /\ Yields
    /\ onThread(d)
    /\ pc' = [pc EXCEPT ![d] = "leaving"]
    /\ why' = [why EXCEPT ![d] = "kYield"]
    /\ UNCHANGED <<taskVars, threadVars, closes, held, reclaimVars,
                   failedChecks>>

\* An operator is blocked; the BlockingState is made before going off thread.
block(d) ==
    /\ onThread(d)
    /\ hasBlockingFuture' = hasBlockingFuture \cup {d}
    /\ pc' = [pc EXCEPT ![d] = "leaving"]
    /\ why' = [why EXCEPT ![d] = "kBlock"]
    /\ UNCHANGED <<taskVars, isOnThread, isEnqueued, isTerminated,
                   numSuspensions, closes, held, reclaimVars, failedChecks>>

\* The sink is finished: the driver closes itself before it leaves.
atEnd(d) ==
    /\ onThread(d)
    /\ pc' = [pc EXCEPT ![d] = "closing"]
    /\ why' = [why EXCEPT ![d] = "kAtEnd"]
    /\ UNCHANGED <<taskVars, threadVars, closes, held, reclaimVars,
                   failedChecks>>

\* An operator throws, or enterSuspended finds the task terminated.
throw(d) ==
    /\ onThread(d)
    /\ setError
    /\ pc' = [pc EXCEPT ![d] =
                IF isRunning /\ ~exception THEN "failing" ELSE "unwinding"]
    /\ why' = [why EXCEPT ![d] = "kAlreadyTerminated"]
    /\ UNCHANGED <<taskState, pauseRequested, toYield, numThreads, inTask,
                   offThreadDrivers, outputConsumed, consumer, threadVars,
                   closes, held, reclaimVars, failedChecks>>

\* ~CancelGuard after an exception: 'isTerminated' is set without the mutex.
unwind(d) ==
    /\ \/ pc[d] = "unwinding"
       \/ pc[d] = "failing" /\ ~failPending
    /\ isTerminated' = isTerminated \cup {d}
    /\ pc' = [pc EXCEPT ![d] = "closing"]
    /\ UNCHANGED <<taskVars, isOnThread, isEnqueued, hasBlockingFuture,
                   numSuspensions, closes, why, held, reclaimVars,
                   failedChecks>>

\* Mutant: close does not see that the driver is closed already.
neverClosed(d) == FALSE

\* closed_
isClosed(d) == closes[d] > 0

\* Driver::close and Task::removeDriver up to its call of terminate.
close(d) ==
    LET finished == d \notin inTask \/ checkIfFinished(inTask \ {d}, outputConsumed)
        after == IF why[d] = "kAtEnd" THEN "leaving" ELSE "gone"
    IN
    /\ pc[d] = "closing"
    /\ IF isClosed(d)
         THEN /\ pc' = [pc EXCEPT ![d] = "gone"]
              /\ UNCHANGED <<closes, inTask>>
         ELSE /\ closes' = [closes EXCEPT ![d] = @ + 1]
              /\ inTask' = inTask \ {d}
              /\ pc' = [pc EXCEPT ![d] = IF finished THEN "finishing" ELSE after]
    /\ UNCHANGED <<taskState, exception, failPending, pauseRequested, toYield,
                   numThreads, offThreadDrivers, outputConsumed, consumer,
                   threadVars, why, held, reclaimVars, failedChecks>>

\* The call of terminate in removeDriver.
finishTask(d) ==
    /\ pc[d] = "finishing"
    /\ terminate("kFinished")
    /\ pc' = [pc EXCEPT ![d] = IF why[d] = "kAtEnd" THEN "leaving" ELSE "gone"]
    /\ UNCHANGED <<exception, failPending, pauseRequested, toYield, numThreads,
                   outputConsumed, consumer, isEnqueued, hasBlockingFuture,
                   numSuspensions, closes, why, held, reclaimVars,
                   failedChecks>>

\* What Driver::run does next with a driver that left the thread.
holderAfter(d) ==
    CASE why[d] = "kYield" -> hold(d, "yielding")
      [] why[d] = "kBlock" -> hold(d, "blocking")
      [] OTHER -> held

\* Task::leave: the driver goes off thread, or it has to close itself first.
leave(d) ==
    LET reason == IF d \in isTerminated THEN "kTerminate" ELSE shouldStop IN
    /\ pc[d] = "leaving"
    /\ IF d \in isTerminated THEN UNCHANGED toYield ELSE countYield
    /\ IF reason # "kTerminate"
         THEN /\ threadStops
              /\ isOnThread' = isOnThread \ {d}
              /\ pc' = [pc EXCEPT ![d] = "off"]
              /\ held' = holderAfter(d)
              /\ UNCHANGED <<isTerminated, exception, failPending>>
         ELSE /\ isTerminated' = isTerminated \cup {d}
              /\ setError
              /\ pc' = [pc EXCEPT ![d] = "closing"]
              /\ UNCHANGED <<numThreads, waiter, isOnThread, held>>
    /\ UNCHANGED <<taskState, pauseRequested, inTask, offThreadDrivers,
                   outputConsumed, consumer, isEnqueued, hasBlockingFuture,
                   numSuspensions, closes, why, reclaimer, pauses,
                   failedChecks>>

\* The end of Task::leave for a driver that is closed.
leaveClosed(d) ==
    /\ pc[d] = "gone"
    /\ threadStops
    /\ isOnThread' = isOnThread \ {d}
    /\ pc' = [pc EXCEPT ![d] = "off"]
    /\ held' = holderAfter(d)
    /\ UNCHANGED <<taskState, exception, failPending, pauseRequested, toYield,
                   inTask, offThreadDrivers, outputConsumed, consumer,
                   isEnqueued, isTerminated, hasBlockingFuture, numSuspensions,
                   closes, why, reclaimer, pauses, failedChecks>>

\* Mutant: nested suspensions are counted, too.
suspendThreadAgain(d) == threadStops

\* Only the first suspension takes the thread out of the count.
suspendThread(d) ==
    IF numSuspensions[d] = 0 THEN threadStops ELSE UNCHANGED <<numThreads,
                                                               waiter>>

enterSuspended(d) ==
    /\ pc[d] = "run"
    /\ numSuspensions[d] < MaxSuspensions
    /\ d \notin isTerminated
    /\ shouldStop # "kTerminate"
    /\ countYield
    /\ numSuspensions' = [numSuspensions EXCEPT ![d] = @ + 1]
    /\ suspendThread(d)
    /\ UNCHANGED <<taskState, exception, failPending, pauseRequested, inTask,
                   offThreadDrivers, outputConsumed, consumer, isOnThread,
                   isEnqueued, isTerminated, hasBlockingFuture, driverVars,
                   reclaimer, pauses, failedChecks>>

\* The thread of a suspended driver waits for the end of a pause, unless the
\* section is nested or the task is terminated.
mayLeaveSuspended(d) ==
    \/ d \in isTerminated
    \/ terminateRequested
    \/ numSuspensions[d] > 1
    \/ ~pauseRequested

\* Mutant: the end of a nested section brings the thread back, too.
unsuspendThreadEarly(d) == numThreads' = numThreads + 1

\* Only the end of the outermost section brings it back.
unsuspendThread(d) ==
    numThreads' = IF numSuspensions[d] = 1 THEN numThreads + 1 ELSE numThreads

leaveSuspended(d) ==
    /\ pc[d] = "run"
    /\ numSuspensions[d] > 0
    /\ mayLeaveSuspended(d)
    /\ isTerminated' = IF terminateRequested THEN isTerminated \cup {d}
                       ELSE isTerminated
    /\ numSuspensions' = [numSuspensions EXCEPT ![d] = @ - 1]
    /\ unsuspendThread(d)
    /\ UNCHANGED <<taskState, exception, failPending, pauseRequested, toYield,
                   inTask, offThreadDrivers, outputConsumed, consumer,
                   isOnThread, isEnqueued, hasBlockingFuture, driverVars,
                   reclaimVars, failedChecks>>

-----------------------------------------------------------------------------
(***************************************************************************)
(* Off thread: the end of Driver::run, and BlockingState.                  *)
(***************************************************************************)

\* Driver::enqueue by a holder 'h' of the driver: 'ok' tells its check.
enqueueOk(d) == d \notin isEnqueued

enqueue(d, h) ==
    /\ isEnqueued' = isEnqueued \cup {d}
    /\ held' = IF closes[d] > 0 THEN drop(d, h) ELSE move(d, h, "queued")

\* Driver::run enqueues a driver that yielded, without holding the mutex.
yield(d) ==
    /\ held[d]["yielding"] > 0
    /\ IF enqueueOk(d)
         THEN enqueue(d, "yielding") /\ UNCHANGED failedChecks
         ELSE /\ failedChecks' = failedChecks \cup {"enqueue"}
              /\ held' = drop(d, "yielding")
              /\ UNCHANGED isEnqueued
    /\ UNCHANGED <<taskVars, isOnThread, isTerminated, hasBlockingFuture,
                   numSuspensions, closes, pc, why, reclaimVars>>

\* Driver::run does not wait for the future of a driver that is terminated.
testBlocked(d) ==
    /\ held[d]["blocking"] > 0
    /\ held' = IF shouldStop = "kTerminate" THEN drop(d, "blocking")
               ELSE move(d, "blocking", "arming")
    /\ countYield
    /\ UNCHANGED <<taskState, exception, failPending, pauseRequested,
                   numThreads, inTask, offThreadDrivers, outputConsumed,
                   consumer, threadVars, closes, pc, why, reclaimVars,
                   failedChecks>>

setResume(d) ==
    /\ held[d]["arming"] > 0
    /\ IF d \in isOnThread
         THEN /\ failedChecks' = failedChecks \cup {"setResume"}
              /\ held' = drop(d, "arming")
         ELSE held' = move(d, "arming", "armed") /\ UNCHANGED failedChecks
    /\ UNCHANGED <<taskVars, threadVars, closes, pc, why, reclaimVars>>

\* The promise is fulfilled: the callback of setResume.
futureDone(d) ==
    /\ held[d]["armed"] > 0
    /\ numSuspensions[d] = 0
    /\ d \in hasBlockingFuture
    /\ pauseRequested \/ enqueueOk(d)
    /\ hasBlockingFuture' = hasBlockingFuture \ {d}
    /\ IF pauseRequested
         THEN held' = drop(d, "armed") /\ UNCHANGED isEnqueued
         ELSE enqueue(d, "armed")
    /\ UNCHANGED <<taskVars, isOnThread, isTerminated, numSuspensions, closes,
                   pc, why, reclaimVars, failedChecks>>

\* A check of the callback fails, or the promise is broken: thenError.
futureFailed(d) ==
    /\ held[d]["armed"] > 0
    /\ held' = drop(d, "armed")
    /\ setError
    /\ LET passed == numSuspensions[d] = 0 /\ d \in hasBlockingFuture IN
       \/ UNCHANGED <<hasBlockingFuture, failedChecks>>
       \/ /\ ~passed
          /\ failedChecks' = failedChecks \cup {"callback"}
          /\ UNCHANGED hasBlockingFuture
       \/ /\ passed
          /\ ~pauseRequested
          /\ ~enqueueOk(d)
          /\ failedChecks' = failedChecks \cup {"enqueue"}
          /\ hasBlockingFuture' = hasBlockingFuture \ {d}
    /\ UNCHANGED <<taskState, pauseRequested, toYield, numThreads, inTask,
                   offThreadDrivers, outputConsumed, consumer, isOnThread,
                   isEnqueued, isTerminated, numSuspensions, closes, pc, why,
                   reclaimVars>>

-----------------------------------------------------------------------------
(***************************************************************************)
(* The rest of the world: termination, output, yields, the reclaimer.      *)
(***************************************************************************)

\* setError goes on to terminate.
failTask ==
    /\ failPending
    /\ failPending' = FALSE
    /\ terminate("kFailed")
    /\ UNCHANGED <<exception, pauseRequested, toYield, numThreads,
                   outputConsumed, consumer, isEnqueued, hasBlockingFuture,
                   numSuspensions, driverVars, reclaimVars, failedChecks>>

\* requestCancel or requestAbort.
cancel ==
    /\ isRunning
    /\ terminate("kCanceled")
    /\ exception' = TRUE
    /\ UNCHANGED <<failPending, pauseRequested, toYield, numThreads,
                   outputConsumed, consumer, isEnqueued, hasBlockingFuture,
                   numSuspensions, driverVars, reclaimVars, failedChecks>>

\* The thread that called terminate or resume closes the drivers it took.
closeByTask(d) ==
    /\ d \in offThreadDrivers
    /\ offThreadDrivers' = offThreadDrivers \ {d}
    /\ closes' = [closes EXCEPT ![d] = @ + 1]
    /\ UNCHANGED <<taskState, exception, failPending, pauseRequested, toYield,
                   numThreads, inTask, outputConsumed, consumer, threadVars, pc,
                   why, held, reclaimVars, failedChecks>>

setAllOutputConsumed ==
    /\ PartitionedOutput
    /\ consumer = "consuming"
    /\ outputConsumed' = TRUE
    /\ consumer' = IF checkIfFinished(inTask, TRUE) THEN "finishing" ELSE "done"
    /\ UNCHANGED <<taskState, exception, failPending, pauseRequested, toYield,
                   numThreads, inTask, offThreadDrivers, threadVars, driverVars,
                   reclaimVars, failedChecks>>

consumerFinishes ==
    /\ consumer = "finishing"
    /\ consumer' = "done"
    /\ terminate("kFinished")
    /\ UNCHANGED <<exception, failPending, pauseRequested, toYield, numThreads,
                   outputConsumed, isEnqueued, hasBlockingFuture,
                   numSuspensions, driverVars, reclaimVars, failedChecks>>

\* requestYield and yieldIfDue.
requestYield ==
    /\ Yields
    /\ toYield # numThreads
    /\ toYield' = numThreads
    /\ UNCHANGED <<taskState, exception, failPending, pauseRequested,
                   numThreads, inTask, offThreadDrivers, outputConsumed,
                   consumer, threadVars, driverVars, reclaimVars, failedChecks>>

requestPause ==
    /\ reclaimer = "idle"
    /\ pauses < MaxPauses
    /\ pauses' = pauses + 1
    /\ pauseRequested' = TRUE
    /\ waiter' = (numThreads # 0)
    /\ reclaimer' = "pausing"
    /\ UNCHANGED <<taskState, exception, failPending, toYield, numThreads,
                   inTask, offThreadDrivers, outputConsumed, consumer,
                   threadVars, driverVars, failedChecks>>

\* The wait for the pause is over.  A cancelled task is not reclaimed from.
pauseDone ==
    /\ reclaimer = "pausing"
    /\ ~waiter
    /\ reclaimer' = IF terminateRequested THEN "resuming" ELSE "reclaiming"
    /\ UNCHANGED <<taskVars, threadVars, driverVars, waiter, pauses,
                   failedChecks>>

\* The wait times out, or the reclaim itself throws: the exception passes the
\* guard that resumes the task and makes the participant abort the query.
reclaimFails ==
    /\ \/ reclaimer = "reclaiming"
       \/ Timeouts /\ reclaimer = "pausing" /\ waiter
    /\ reclaimer' = "failed"
    /\ UNCHANGED <<taskVars, threadVars, driverVars, waiter, pauses,
                   failedChecks>>

reclaimDone ==
    /\ reclaimer = "reclaiming"
    /\ reclaimer' = "resuming"
    /\ UNCHANGED <<taskVars, threadVars, driverVars, waiter, pauses,
                   failedChecks>>

\* Mutants: resume does not skip the drivers that wait for a thread, or that are
\* suspended.
resumeQueued == {d \in inTask : numSuspensions[d] = 0}
resumeSuspended == {d \in inTask : d \notin isEnqueued}

\* The drivers that resume looks at: not suspended and not waiting for a thread.
resumeCandidates == {d \in inTask : numSuspensions[d] = 0 /\ d \notin isEnqueued}

\* The ones on which the checks of resume fail.
resumeOffenders ==
    IF isRunning THEN resumeCandidates \cap (isOnThread \cup isTerminated)
    ELSE (inTask \cap isOnThread) \ isTerminated

\* The drivers that resume enqueues: the loop ends at the first offender.
resumeEnqueues ==
    {d \in resumeCandidates \ hasBlockingFuture :
        \A o \in resumeOffenders : d < o}

\* Mutant: resume leaves the drivers of a terminated task alone.
resumeClosesNone == {}

\* The drivers of a terminated task that resume closes.
resumeCloses == inTask \ (isOnThread \cup isTerminated)

\* Task::resume: a running task gets its drivers enqueued, a terminated one has
\* the drivers closed that terminate left alone because of the pause.
resume ==
    /\ reclaimer \in {"resuming", "failed"}
    /\ pauseRequested' = FALSE
    /\ failedChecks' = IF resumeOffenders = {} THEN failedChecks
                       ELSE failedChecks \cup {"resume"}
    /\ reclaimer' = IF reclaimer = "failed" THEN "aborting" ELSE "idle"
    /\ IF isRunning
         THEN /\ isEnqueued' = isEnqueued \cup resumeEnqueues
              /\ held' = [d \in Driver |->
                            IF d \in resumeEnqueues
                            THEN [held[d] EXCEPT !["queued"] = @ + 1]
                            ELSE held[d]]
              /\ UNCHANGED <<isTerminated, isOnThread, inTask,
                             offThreadDrivers>>
         ELSE /\ isTerminated' = isTerminated \cup resumeCloses
              /\ isOnThread' = isOnThread \cup resumeCloses
              /\ inTask' = inTask \ resumeCloses
              /\ offThreadDrivers' = offThreadDrivers \cup resumeCloses
              /\ UNCHANGED <<isEnqueued, held>>
    /\ UNCHANGED <<taskState, exception, failPending, toYield, numThreads,
                   outputConsumed, consumer, hasBlockingFuture, numSuspensions,
                   closes, pc, why, waiter, pauses>>

\* Mutant: the reclaimer drops the failure of the reclaim.
abortTaskIgnored ==
    /\ reclaimer = "aborting"
    /\ reclaimer' = "idle"
    /\ UNCHANGED <<taskVars, threadVars, driverVars, waiter, pauses, failedChecks>>

\* Task::MemoryReclaimer::abort after a failed reclaim.
abortTask ==
    /\ reclaimer = "aborting"
    /\ reclaimer' = "idle"
    /\ setError
    /\ UNCHANGED <<taskState, pauseRequested, toYield, numThreads, inTask,
                   offThreadDrivers, outputConsumed, consumer, threadVars,
                   driverVars, waiter, pauses, failedChecks>>

-----------------------------------------------------------------------------
\* The code that runs once a thread is inside Driver::run or a callback.
DriverStep(d) ==
    \/ runClosed(d)
    \/ enterRefused(d)
    \/ enter(d)
    \/ unwind(d)
    \/ close(d)
    \/ finishTask(d)
    \/ leave(d)
    \/ leaveClosed(d)
    \/ yield(d)
    \/ testBlocked(d)
    \/ setResume(d)
    \/ closeByTask(d)

\* What the operators of the driver, and whoever they wait for, choose to do.
OperatorStep(d) ==
    \/ stopAtSlice(d)
    \/ block(d)
    \/ atEnd(d)
    \/ throw(d)
    \/ enterSuspended(d)
    \/ futureDone(d)
    \/ futureFailed(d)

TaskStep ==
    \/ failTask
    \/ cancel
    \/ setAllOutputConsumed
    \/ consumerFinishes
    \/ requestYield

ReclaimStep ==
    \/ requestPause
    \/ pauseDone
    \/ reclaimFails
    \/ reclaimDone
    \/ resume
    \/ abortTask

Next ==
    \/ TaskStep
    \/ ReclaimStep
    \/ \E d \in Driver :
         DriverStep(d) \/ OperatorStep(d) \/ stopAtBoundary(d) \/ leaveSuspended(d)

Spec == Init /\ [][Next]_vars

\* The executor gives every job a thread, operators return to the loop, suspended
\* sections end, and the reclaimer makes progress.
Fairness ==
    /\ WF_vars(failTask)
    /\ WF_vars(consumerFinishes)
    /\ WF_vars(pauseDone \/ reclaimDone \/ resume \/ abortTask)
    /\ \A d \in Driver :
         /\ WF_vars(DriverStep(d))
         /\ WF_vars(stopAtBoundary(d))
         /\ WF_vars(leaveSuspended(d))

FairSpec == Spec /\ Fairness

-----------------------------------------------------------------------------
(***************************************************************************)
(* Properties.                                                             *)
(***************************************************************************)
Position == {"off", "run", "leaving", "failing", "unwinding", "closing",
             "finishing", "gone"}

Reason == {"kNone", "kPause", "kTerminate", "kAlreadyTerminated", "kYield",
           "kBlock", "kAtEnd"}

\* The type of every variable (Task.h and ThreadState in Driver.h).
TypeOK ==
    /\ taskState \in {"kRunning", "kFinished", "kFailed", "kCanceled"}
    /\ exception \in BOOLEAN
    /\ failPending \in BOOLEAN
    /\ pauseRequested \in BOOLEAN
    /\ toYield \in Nat
    /\ numThreads \in Nat
    /\ inTask \in SUBSET Driver
    /\ offThreadDrivers \in SUBSET Driver
    /\ outputConsumed \in BOOLEAN
    /\ consumer \in {"consuming", "finishing", "done"}
    /\ isOnThread \in SUBSET Driver
    /\ isEnqueued \in SUBSET Driver
    /\ isTerminated \in SUBSET Driver
    /\ hasBlockingFuture \in SUBSET Driver
    /\ numSuspensions \in [Driver -> Nat]
    /\ closes \in [Driver -> Nat]
    /\ pc \in [Driver -> Position]
    /\ why \in [Driver -> Reason]
    /\ held \in [Driver -> [Holder -> Nat]]
    /\ reclaimer \in {"idle", "pausing", "reclaiming", "resuming", "failed",
                      "aborting"}
    /\ waiter \in BOOLEAN
    /\ pauses \in Nat
    /\ failedChecks \in SUBSET {"run", "enter", "enqueue", "setResume",
                                "callback", "resume"}

\* The drivers whose thread runs operators or closes them.
executing == {d \in Driver : pc[d] # "off" /\ numSuspensions[d] = 0}

\* numThreads_ counts the threads that execute a driver outside of a suspended
\* section, whatever the order of entering, suspending, terminating and leaving.
ThreadCount == numThreads = Cardinality(executing)

\* While the memory of the operators is reclaimed, no thread executes a driver of
\* a running task.  Once the task is terminated only terminated drivers execute
\* (the check of Operator::MemoryReclaimer::reclaim), and the task closes no
\* driver itself (the reason why terminate leaves them to resume).
ReclaimIsSafe ==
    reclaimer = "reclaiming" =>
        /\ pauseRequested
        /\ isRunning => executing = {}
        /\ executing \subseteq isTerminated
        /\ offThreadDrivers = {}

holders(d) ==
    held[d]["queued"] + held[d]["yielding"] + held[d]["blocking"]
        + held[d]["arming"] + held[d]["armed"]
        + (IF pc[d] = "off" THEN 0 ELSE 1)

\* A driver of a healthy task is in exactly one place: queued, on a thread, between
\* the two, or waiting for one future.  It is nowhere only when resume will pick
\* it up.  A task is healthy until an error is set or, after a pause that timed
\* out, until resume has met a driver on its thread: the drivers behind it are
\* then in no place, and the reclaimer is about to abort the task.
OneHolder ==
    isRunning /\ ~exception /\ reclaimer # "aborting" => \A d \in inTask :
        /\ holders(d) \in {0, 1}
        /\ holders(d) = 0 =>
             /\ pauseRequested
             /\ d \notin isEnqueued \cup isOnThread \cup hasBlockingFuture

\* The operators of a driver are closed once: by the driver or by the task.
ClosedOnce == \A d \in Driver : closes[d] <= 1

\* The checks that a step may fail: setResume's when the task is terminated
\* after the test of shouldStop, and resume's when the pause timed out and its
\* promise is still to be fulfilled.
mayFail ==
    (IF terminateRequested THEN {"setResume"} ELSE {})
        \cup (IF reclaimer = "failed" /\ waiter THEN {"resume"} ELSE {})

\* No other check of the thread life cycle fails.
ChecksHold == [][failedChecks' \subseteq failedChecks \cup mayFail]_vars

\* The reclaimer is let in: the drivers leave their threads or are suspended.
PauseSettles == reclaimer = "pausing" ~> reclaimer # "pausing"

\* Once the task is terminated all its drivers are closed and off their threads.
DriversAreClosed ==
    taskState # "kRunning" ~>
        \A d \in Driver : closes[d] > 0 /\ pc[d] = "off"

\* A driver that is in no place is not forgotten: it is resumed, or it is closed
\* with its task.
NobodyStranded ==
    \A d \in Driver :
        d \in inTask /\ holders(d) = 0 ~> holders(d) > 0 \/ closes[d] > 0

\* BOLT_CHECK(!state_.isEnqueued): a driver is not enqueued twice.
EnqueueCheckHolds == "enqueue" \notin failedChecks

=============================================================================
