-------------------------- MODULE TaskDriverSteps --------------------------
(***************************************************************************)
(* The inductive invariant of TaskDriver, and the proof that its steps     *)
(* keep it.                                                                *)
(***************************************************************************)
EXTENDS TaskDriver, TLAPS

-----------------------------------------------------------------------------
(***************************************************************************)
(* The inductive invariant.                                                *)
(***************************************************************************)

\* Where a driver is: on a thread, in the task, or in the hands of the thread
\* that closes it.
Places ==
    \A d \in Driver :
        /\ pc[d] # "off" => d \in isOnThread
        /\ numSuspensions[d] > 0 => pc[d] = "run"
        /\ d \in offThreadDrivers =>
             d \notin inTask /\ pc[d] = "off" /\ closes[d] = 0
        /\ d \in inTask => closes[d] = 0

\* A running task has closed no driver itself, and a driver in its operator loop
\* has not been told to terminate.
Running ==
    isRunning =>
        /\ offThreadDrivers = {}
        /\ \A d \in Driver :
             /\ pc[d] = "run" => d \notin isTerminated

\* Between requestPause and resume the pause is requested.  Nothing executes once
\* the reclaimer has nobody to wait for, as long as the task runs.
Pausing ==
    /\ reclaimer \in {"pausing", "reclaiming", "resuming", "failed"} =>
         pauseRequested
    /\ reclaimer = "pausing" /\ ~waiter /\ isRunning => executing = {}

IInv ==
    /\ TypeOK
    /\ ThreadCount
    /\ Places
    /\ Running
    /\ Pausing
    /\ ReclaimIsSafe
    /\ ClosedOnce

\* IInv without the types.
Core == ThreadCount /\ Places /\ Running /\ Pausing /\ ReclaimIsSafe /\ ClosedOnce

-----------------------------------------------------------------------------
(***************************************************************************)
(* Types: the steps keep them, given that the count of threads stays       *)
(* natural.                                                                *)
(***************************************************************************)

\* Passing a driver from one holder to another keeps the counters natural.
LEMMA HeldType ==
    ASSUME held \in [Driver -> [Holder -> Nat]],
           NEW d \in Driver, NEW h \in Holder, NEW g \in Holder, g # h
    PROVE  /\ hold(d, h) \in [Driver -> [Holder -> Nat]]
           /\ held[d][h] > 0 => drop(d, h) \in [Driver -> [Holder -> Nat]]
           /\ held[d][h] > 0 => move(d, h, g) \in [Driver -> [Holder -> Nat]]
<1>1. held[d] \in [Holder -> Nat] /\ held[d][h] \in Nat /\ held[d][g] \in Nat
  BY Zenon
<1>2. hold(d, h) \in [Driver -> [Holder -> Nat]]
  BY <1>1 DEF hold
<1>3. ASSUME held[d][h] > 0
      PROVE  drop(d, h) \in [Driver -> [Holder -> Nat]]
  BY <1>1, <1>3 DEF drop
<1>4. ASSUME held[d][h] > 0
      PROVE  move(d, h, g) \in [Driver -> [Holder -> Nat]]
  BY <1>1, <1>4 DEF move
<1> QED
  BY Zenon, <1>2, <1>3, <1>4

\* The helpers keep the types of what they assign.
LEMMA HelperTypes ==
    ASSUME TypeOK
    PROVE  /\ countYield => toYield' \in Nat
           /\ setError => exception' \in BOOLEAN /\ failPending' \in BOOLEAN
           /\ shouldStop \in Reason
           /\ threadStops => waiter' \in BOOLEAN
           /\ \A s \in {"kFinished", "kFailed", "kCanceled"} : terminate(s) =>
                /\ taskState' \in {"kRunning", "kFinished", "kFailed", "kCanceled"}
                /\ isTerminated' \in SUBSET Driver
                /\ isOnThread' \in SUBSET Driver
                /\ inTask' \in SUBSET Driver
                /\ offThreadDrivers' \in SUBSET Driver
           /\ \A d \in Driver : holderAfter(d) \in [Driver -> [Holder -> Nat]]
<1>1. countYield => toYield' \in Nat
  BY DEF TypeOK, countYield, shouldStop
<1>2. setError => exception' \in BOOLEAN /\ failPending' \in BOOLEAN
  BY Zenon DEF TypeOK, setError
<1>3. shouldStop \in Reason
  BY Zenon DEF shouldStop, Reason
<1>6. threadStops => waiter' \in BOOLEAN
  BY Zenon DEF threadStops
<1>4. ASSUME NEW s \in {"kFinished", "kFailed", "kCanceled"}, terminate(s)
      PROVE  /\ taskState' \in {"kRunning", "kFinished", "kFailed", "kCanceled"}
             /\ isTerminated' \in SUBSET Driver
             /\ isOnThread' \in SUBSET Driver
             /\ inTask' \in SUBSET Driver
             /\ offThreadDrivers' \in SUBSET Driver
  <2>1. takenByTerminate \subseteq Driver
    BY Zenon DEF takenByTerminate, TypeOK
  <2>2. CASE isRunning
    BY <1>4, <2>1, <2>2 DEF terminate, TypeOK
  <2>3. CASE ~isRunning
    BY <1>4, <2>3 DEF terminate, TypeOK
  <2> QED
    BY Zenon, <2>2, <2>3
<1>5. ASSUME NEW d \in Driver
      PROVE  holderAfter(d) \in [Driver -> [Holder -> Nat]]
  <2>1. /\ hold(d, "yielding") \in [Driver -> [Holder -> Nat]]
        /\ hold(d, "blocking") \in [Driver -> [Holder -> Nat]]
    BY Zenon, HeldType, "yielding" \in Holder, "blocking" \in Holder DEF TypeOK, Holder
  <2> QED
    BY Zenon, <2>1 DEF holderAfter, TypeOK
<1> QED
  BY Zenon, <1>1, <1>2, <1>3, <1>4, <1>5, <1>6

\* A job, or a callback, lets go of the driver or passes it on.
LEMMA PassType ==
    ASSUME TypeOK, NEW d \in Driver, NEW h \in Holder, held[d][h] > 0
    PROVE  /\ drop(d, h) \in [Driver -> [Holder -> Nat]]
           /\ h # "queued" => move(d, h, "queued") \in [Driver -> [Holder -> Nat]]
           /\ h # "yielding" => move(d, h, "yielding") \in [Driver -> [Holder -> Nat]]
           /\ h # "arming" => move(d, h, "arming") \in [Driver -> [Holder -> Nat]]
           /\ h # "armed" => move(d, h, "armed") \in [Driver -> [Holder -> Nat]]
<1>1. PICK g \in Holder : g # h
  BY Zenon DEF Holder
<1>2. drop(d, h) \in [Driver -> [Holder -> Nat]]
  BY Zenon, <1>1, HeldType DEF TypeOK
<1>3. \A k \in Holder : k # h => move(d, h, k) \in [Driver -> [Holder -> Nat]]
  BY Zenon, HeldType DEF TypeOK
<1> QED
  BY Zenon, <1>2, <1>3 DEF Holder

\* Types are kept by the steps off the thread of the driver.
LEMMA JobTypes ==
    ASSUME TypeOK, numThreads' \in Nat, NEW d \in Driver
    PROVE  (\/ runClosed(d) \/ enterRefused(d) \/ yield(d)
            \/ testBlocked(d) \/ setResume(d) \/ futureDone(d)
            \/ futureFailed(d) \/ closeByTask(d)) => TypeOK'
<1> USE DEF taskVars, threadVars, driverVars, reclaimVars
<1>1. ASSUME runClosed(d) PROVE TypeOK'
  <2>1. held[d]["queued"] > 0 /\ "queued" \in Holder
    BY Zenon, <1>1 DEF runClosed, Holder
  <2>2. held' = drop(d, "queued")
    BY Zenon, <1>1 DEF runClosed
  <2>3. held' \in [Driver -> [Holder -> Nat]]
    BY Zenon, <2>1, <2>2, PassType
  <2>4. exception' \in BOOLEAN /\ failPending' \in BOOLEAN
    BY Zenon, <1>1, HelperTypes DEF runClosed
  <2> QED
    BY <1>1, <2>3, <2>4 DEF runClosed, TypeOK
<1>2. ASSUME enterRefused(d) PROVE TypeOK'
  <2>1. held[d]["queued"] > 0 /\ "queued" \in Holder
    BY Zenon, <1>2 DEF enterRefused, Holder
  <2>2. held' \in {drop(d, "queued"), move(d, "queued", "yielding")}
    BY Zenon, <1>2 DEF enterRefused
  <2>3. held' \in [Driver -> [Holder -> Nat]]
    BY <2>1, <2>2, PassType
  <2>4. toYield' \in Nat
    BY Zenon, <1>2, HelperTypes DEF enterRefused, TypeOK
  <2>5. isTerminated' \in SUBSET Driver
    BY Zenon, <1>2 DEF enterRefused, TypeOK
  <2>6. failedChecks' \in SUBSET {"run", "enter", "enqueue", "setResume",
                                 "callback", "resume"}
    BY <1>2, Zenon DEF enterRefused, TypeOK
  <2> QED
    BY <1>2, <2>3, <2>4, <2>5, <2>6 DEF enterRefused, TypeOK
<1>3. ASSUME yield(d) PROVE TypeOK'
  <2>1. held[d]["yielding"] > 0 /\ "yielding" \in Holder
    BY Zenon, <1>3 DEF yield, Holder
  <2>2. held' \in {drop(d, "yielding"), move(d, "yielding", "queued")}
    BY Zenon, <1>3 DEF yield, enqueue
  <2>3. held' \in [Driver -> [Holder -> Nat]]
    BY <2>1, <2>2, PassType
  <2>4. isEnqueued' \in SUBSET Driver
    BY Zenon, <1>3 DEF yield, enqueue, TypeOK
  <2>5. failedChecks' \in SUBSET {"run", "enter", "enqueue", "setResume",
                                 "callback", "resume"}
    BY <1>3, Zenon DEF yield, TypeOK
  <2> QED
    BY <1>3, <2>3, <2>4, <2>5 DEF yield, TypeOK
<1>4. ASSUME testBlocked(d) PROVE TypeOK'
  <2>1. held[d]["blocking"] > 0 /\ "blocking" \in Holder
    BY Zenon, <1>4 DEF testBlocked, Holder
  <2>2. held' \in {drop(d, "blocking"), move(d, "blocking", "arming")}
    BY Zenon, <1>4 DEF testBlocked
  <2>3. held' \in [Driver -> [Holder -> Nat]]
    BY <2>1, <2>2, PassType
  <2>4. toYield' \in Nat
    BY Zenon, <1>4, HelperTypes DEF testBlocked
  <2> QED
    BY <1>4, <2>3, <2>4 DEF testBlocked, TypeOK
<1>5. ASSUME setResume(d) PROVE TypeOK'
  <2>1. held[d]["arming"] > 0 /\ "arming" \in Holder
    BY Zenon, <1>5 DEF setResume, Holder
  <2>2. held' \in {drop(d, "arming"), move(d, "arming", "armed")}
    BY Zenon, <1>5 DEF setResume
  <2>3. held' \in [Driver -> [Holder -> Nat]]
    BY <2>1, <2>2, PassType
  <2>4. failedChecks' \in SUBSET {"run", "enter", "enqueue", "setResume",
                                 "callback", "resume"}
    BY <1>5, Zenon DEF setResume, TypeOK
  <2> QED
    BY <1>5, <2>3, <2>4 DEF setResume, TypeOK
<1>6. ASSUME futureDone(d) PROVE TypeOK'
  <2>1. held[d]["armed"] > 0 /\ "armed" \in Holder
    BY Zenon, <1>6 DEF futureDone, Holder
  <2>2. held' \in {drop(d, "armed"), move(d, "armed", "queued")}
    BY Zenon, <1>6 DEF futureDone, enqueue
  <2>3. held' \in [Driver -> [Holder -> Nat]]
    BY <2>1, <2>2, PassType
  <2>4. isEnqueued' \in SUBSET Driver
    BY Zenon, <1>6 DEF futureDone, enqueue, TypeOK
  <2> QED
    BY <1>6, <2>3, <2>4 DEF futureDone, TypeOK
<1>7. ASSUME futureFailed(d) PROVE TypeOK'
  <2>1. held[d]["armed"] > 0 /\ "armed" \in Holder
    BY Zenon, <1>7 DEF futureFailed, Holder
  <2>2. held' = drop(d, "armed")
    BY Zenon, <1>7 DEF futureFailed
  <2>3. held' \in [Driver -> [Holder -> Nat]]
    BY Zenon, <2>1, <2>2, PassType
  <2>4. exception' \in BOOLEAN /\ failPending' \in BOOLEAN
    BY Zenon, <1>7, HelperTypes DEF futureFailed
  <2>5. hasBlockingFuture' \in SUBSET Driver
    BY Zenon, <1>7 DEF futureFailed, TypeOK
  <2>6. failedChecks' \in SUBSET {"run", "enter", "enqueue", "setResume",
                                 "callback", "resume"}
    BY <1>7, Zenon DEF futureFailed, TypeOK
  <2> QED
    BY <1>7, <2>3, <2>4, <2>5, <2>6 DEF futureFailed, TypeOK
<1>8. ASSUME closeByTask(d) PROVE TypeOK'
  <2>1. closes' \in [Driver -> Nat]
    BY <1>8 DEF closeByTask, TypeOK
  <2> QED
    BY <1>8, <2>1 DEF closeByTask, TypeOK
<1> QED
  BY <1>1, <1>2, <1>3, <1>4, <1>5, <1>6, <1>7, <1>8

\* Types are kept by the steps that begin, end or suspend the execution of a driver.
LEMMA ThreadTypes ==
    ASSUME TypeOK, numThreads' \in Nat, NEW d \in Driver
    PROVE  (\/ enter(d) \/ leave(d) \/ leaveClosed(d) \/ enterSuspended(d)
            \/ leaveSuspended(d)) => TypeOK'
<1> USE DEF taskVars, threadVars, driverVars, reclaimVars
<1>1. ASSUME enter(d) PROVE TypeOK'
  <2>1. held[d]["queued"] > 0 /\ "queued" \in Holder
    BY Zenon, <1>1 DEF enter, Holder
  <2>2. held' = drop(d, "queued")
    BY Zenon, <1>1 DEF enter
  <2>3. held' \in [Driver -> [Holder -> Nat]]
    BY Zenon, <2>1, <2>2, PassType
  <2>4. pc' \in [Driver -> Position]
    BY Zenon, <1>1 DEF enter, TypeOK, Position
  <2> QED
    BY <1>1, <2>3, <2>4 DEF enter, TypeOK
<1>2. ASSUME leave(d) PROVE TypeOK'
  <2>1. held' \in {held, holderAfter(d)}
    BY Zenon, <1>2 DEF leave
  <2>2. held' \in [Driver -> [Holder -> Nat]]
    BY Zenon, <2>1, HelperTypes DEF TypeOK
  <2>3. toYield' \in Nat
    BY Zenon, <1>2, HelperTypes DEF leave, TypeOK
  <2>4. exception' \in BOOLEAN /\ failPending' \in BOOLEAN
    BY <1>2, HelperTypes DEF leave, TypeOK
  <2>5. isOnThread' \in SUBSET Driver
    BY Zenon, <1>2 DEF leave, TypeOK
  <2>6. isTerminated' \in SUBSET Driver
    BY Zenon, <1>2 DEF leave, TypeOK
  <2>7. waiter' \in BOOLEAN
    BY Zenon, <1>2, HelperTypes DEF leave, TypeOK
  <2>8. pc' \in [Driver -> Position]
    <3>1. \E p \in {"off", "closing"} : pc' = [pc EXCEPT ![d] = p]
      BY Zenon, <1>2 DEF leave
    <3> QED
      BY Zenon, <3>1 DEF TypeOK, Position
  <2> QED
    BY <1>2, <2>1, <2>2, <2>3, <2>4, <2>5, <2>6, <2>7, <2>8 DEF leave, TypeOK
<1>3. ASSUME leaveClosed(d) PROVE TypeOK'
  <2>1. held' \in [Driver -> [Holder -> Nat]]
    BY Zenon, <1>3, HelperTypes DEF leaveClosed
  <2>2. waiter' \in BOOLEAN
    BY Zenon, <1>3, HelperTypes DEF leaveClosed
  <2>3. pc' \in [Driver -> Position]
    <3>1. \E p \in {"off"} : pc' = [pc EXCEPT ![d] = p]
      BY Zenon, <1>3 DEF leaveClosed
    <3> QED
      BY Zenon, <3>1 DEF TypeOK, Position
  <2> QED
    BY <1>3, <2>1, <2>2, <2>3 DEF leaveClosed, TypeOK
<1>4. ASSUME enterSuspended(d) PROVE TypeOK'
  <2>1. toYield' \in Nat
    BY Zenon, <1>4, HelperTypes DEF enterSuspended
  <2>2. numSuspensions' \in [Driver -> Nat]
    BY <1>4 DEF enterSuspended, TypeOK
  <2>3. waiter' \in BOOLEAN
    BY Zenon, <1>4, HelperTypes DEF enterSuspended, suspendThread, TypeOK
  <2> QED
    BY <1>4, <2>1, <2>2, <2>3 DEF enterSuspended, TypeOK
<1>5. ASSUME leaveSuspended(d) PROVE TypeOK'
  <2>1. isTerminated' \in SUBSET Driver
    BY Zenon, <1>5 DEF leaveSuspended, TypeOK
  <2>2. numSuspensions' \in [Driver -> Nat]
    BY <1>5 DEF leaveSuspended, TypeOK
  <2> QED
    BY <1>5, <2>1, <2>2 DEF leaveSuspended, TypeOK
<1> QED
  BY <1>1, <1>2, <1>3, <1>4, <1>5

\* Types are kept by the steps of the thread that executes a driver.
LEMMA DriverTypes ==
    ASSUME TypeOK, numThreads' \in Nat, NEW d \in Driver
    PROVE  (\/ stopAtSlice(d) \/ block(d) \/ atEnd(d) \/ throw(d)
            \/ stopAtBoundary(d) \/ unwind(d) \/ close(d) \/ finishTask(d)) => TypeOK'
<1> USE DEF taskVars, threadVars, driverVars, reclaimVars
<1>1. ASSUME stopAtSlice(d) PROVE TypeOK'
  <2>1. pc' \in [Driver -> Position]
    <3>1. \E p \in {"leaving"} : pc' = [pc EXCEPT ![d] = p]
      BY Zenon, <1>1 DEF stopAtSlice
    <3> QED
      BY Zenon, <3>1 DEF TypeOK, Position
  <2>2. why' \in [Driver -> Reason]
    BY Zenon, <1>1 DEF stopAtSlice, TypeOK, Reason
  <2> QED
    BY <1>1, <2>1, <2>2 DEF stopAtSlice, TypeOK
<1>2. ASSUME block(d) PROVE TypeOK'
  <2>1. pc' \in [Driver -> Position]
    <3>1. \E p \in {"leaving"} : pc' = [pc EXCEPT ![d] = p]
      BY Zenon, <1>2 DEF block
    <3> QED
      BY Zenon, <3>1 DEF TypeOK, Position
  <2>2. why' \in [Driver -> Reason]
    BY Zenon, <1>2 DEF block, TypeOK, Reason
  <2> QED
    BY <1>2, <2>1, <2>2 DEF block, TypeOK
<1>3. ASSUME atEnd(d) PROVE TypeOK'
  <2>1. pc' \in [Driver -> Position]
    <3>1. \E p \in {"closing"} : pc' = [pc EXCEPT ![d] = p]
      BY Zenon, <1>3 DEF atEnd
    <3> QED
      BY Zenon, <3>1 DEF TypeOK, Position
  <2>2. why' \in [Driver -> Reason]
    BY Zenon, <1>3 DEF atEnd, TypeOK, Reason
  <2> QED
    BY <1>3, <2>1, <2>2 DEF atEnd, TypeOK
<1>4. ASSUME throw(d) PROVE TypeOK'
  <2>1. pc' \in [Driver -> Position]
    <3>1. \E p \in {"failing", "unwinding"} : pc' = [pc EXCEPT ![d] = p]
      BY <1>4, Zenon DEF throw
    <3> QED
      BY Zenon, <3>1 DEF TypeOK, Position
  <2>2. why' \in [Driver -> Reason]
    BY Zenon, <1>4 DEF throw, TypeOK, Reason
  <2>3. exception' \in BOOLEAN /\ failPending' \in BOOLEAN
    BY Zenon, <1>4, HelperTypes DEF throw
  <2> QED
    BY <1>4, <2>1, <2>2, <2>3 DEF throw, TypeOK
<1>5. ASSUME stopAtBoundary(d) PROVE TypeOK'
  <2>1. pc' \in [Driver -> Position]
    <3>1. \E p \in {"leaving"} : pc' = [pc EXCEPT ![d] = p]
      BY Zenon, <1>5 DEF stopAtBoundary
    <3> QED
      BY Zenon, <3>1 DEF TypeOK, Position
  <2>2. shouldStop \in Reason
    BY Zenon, HelperTypes
  <2>3. why' \in [Driver -> Reason]
    BY Zenon, <1>5, <2>2 DEF stopAtBoundary, TypeOK
  <2>4. toYield' \in Nat
    BY Zenon, <1>5, HelperTypes DEF stopAtBoundary
  <2> QED
    BY <1>5, <2>1, <2>2, <2>3, <2>4 DEF stopAtBoundary, TypeOK
<1>6. ASSUME unwind(d) PROVE TypeOK'
  <2>1. pc' \in [Driver -> Position]
    BY Zenon, <1>6 DEF unwind, TypeOK, Position
  <2> QED
    BY <1>6, <2>1 DEF unwind, TypeOK
<1>7. ASSUME close(d) PROVE TypeOK'
  <2>1. closes' \in [Driver -> Nat]
    BY <1>7 DEF close, TypeOK
  <2>2. inTask' \in SUBSET Driver
    BY Zenon, <1>7 DEF close, TypeOK
  <2>3. pc' \in [Driver -> Position]
    <3>1. \E p \in {"gone", "finishing", "leaving"} : pc' = [pc EXCEPT ![d] = p]
      BY <1>7, Zenon DEF close
    <3> QED
      BY Zenon, <3>1 DEF TypeOK, Position
  <2> QED
    BY <1>7, <2>1, <2>2, <2>3 DEF close, TypeOK
<1>8. ASSUME finishTask(d) PROVE TypeOK'
  <2>1. /\ taskState' \in {"kRunning", "kFinished", "kFailed", "kCanceled"}
        /\ isTerminated' \in SUBSET Driver /\ isOnThread' \in SUBSET Driver
        /\ inTask' \in SUBSET Driver /\ offThreadDrivers' \in SUBSET Driver
    BY Zenon, <1>8, HelperTypes DEF finishTask
  <2>2. pc' \in [Driver -> Position]
    <3>1. \E p \in {"gone", "leaving"} : pc' = [pc EXCEPT ![d] = p]
      BY <1>8, Zenon DEF finishTask
    <3> QED
      BY Zenon, <3>1 DEF TypeOK, Position
  <2> QED
    BY <1>8, <2>1, <2>2 DEF finishTask, TypeOK
<1> QED
  BY Zenon, <1>1, <1>2, <1>3, <1>4, <1>5, <1>6, <1>7, <1>8

\* Types are kept by the steps of the task.
LEMMA TaskTypes ==
    ASSUME TypeOK, numThreads' \in Nat
    PROVE  (\/ failTask \/ cancel \/ setAllOutputConsumed \/ consumerFinishes
            \/ requestYield) => TypeOK'
<1> USE DEF taskVars, threadVars, driverVars, reclaimVars
<1>1. ASSUME failTask PROVE TypeOK'
  <2>1. /\ taskState' \in {"kRunning", "kFinished", "kFailed", "kCanceled"}
        /\ isTerminated' \in SUBSET Driver /\ isOnThread' \in SUBSET Driver
        /\ inTask' \in SUBSET Driver /\ offThreadDrivers' \in SUBSET Driver
    BY Zenon, <1>1, HelperTypes DEF failTask
  <2>2. failPending' \in BOOLEAN
    BY <1>1, Zenon DEF failTask
  <2> QED
    BY <1>1, <2>1, <2>2 DEF failTask, TypeOK
<1>2. ASSUME cancel PROVE TypeOK'
  <2>1. /\ taskState' \in {"kRunning", "kFinished", "kFailed", "kCanceled"}
        /\ isTerminated' \in SUBSET Driver /\ isOnThread' \in SUBSET Driver
        /\ inTask' \in SUBSET Driver /\ offThreadDrivers' \in SUBSET Driver
    BY Zenon, <1>2, HelperTypes DEF cancel
  <2>2. exception' \in BOOLEAN
    BY <1>2, Zenon DEF cancel
  <2> QED
    BY <1>2, <2>1, <2>2 DEF cancel, TypeOK
<1>3. ASSUME setAllOutputConsumed PROVE TypeOK'
  BY <1>3 DEF setAllOutputConsumed, TypeOK
<1>4. ASSUME consumerFinishes PROVE TypeOK'
  <2>1. /\ taskState' \in {"kRunning", "kFinished", "kFailed", "kCanceled"}
        /\ isTerminated' \in SUBSET Driver /\ isOnThread' \in SUBSET Driver
        /\ inTask' \in SUBSET Driver /\ offThreadDrivers' \in SUBSET Driver
    BY Zenon, <1>4, HelperTypes DEF consumerFinishes
  <2> QED
    BY Zenon, <1>4, <2>1 DEF consumerFinishes, TypeOK
<1>5. ASSUME requestYield PROVE TypeOK'
  BY <1>5 DEF requestYield, TypeOK
<1> QED
  BY Zenon, <1>1, <1>2, <1>3, <1>4, <1>5

\* Types are kept by the steps of the reclaimer.
LEMMA ReclaimTypes ==
    ASSUME TypeOK, numThreads' \in Nat
    PROVE  (\/ requestPause \/ pauseDone \/ reclaimFails \/ reclaimDone
            \/ resume \/ abortTask) => TypeOK'
<1> USE DEF taskVars, threadVars, driverVars, reclaimVars
<1>1. ASSUME requestPause PROVE TypeOK'
  BY <1>1 DEF requestPause, TypeOK
<1>2. ASSUME pauseDone PROVE TypeOK'
  BY Zenon, <1>2 DEF pauseDone, TypeOK
<1>3. ASSUME reclaimFails PROVE TypeOK'
  BY <1>3 DEF reclaimFails, TypeOK
<1>4. ASSUME reclaimDone PROVE TypeOK'
  BY <1>4 DEF reclaimDone, TypeOK
<1>5. ASSUME resume PROVE TypeOK'
  <2>1. resumeEnqueues \subseteq Driver
    BY Zenon DEF TypeOK, resumeEnqueues, resumeCandidates
  <2>2. resumeCloses \subseteq Driver
    BY Zenon DEF TypeOK, resumeCloses
  <2>3. \A d \in Driver : [held[d] EXCEPT !["queued"] = @ + 1] \in [Holder -> Nat]
    BY DEF TypeOK, Holder
  <2>4. held' \in [Driver -> [Holder -> Nat]]
    BY <1>5, <2>3 DEF resume, TypeOK
  <2>5. isEnqueued' \in SUBSET Driver
    BY Zenon, <1>5, <2>1 DEF resume, TypeOK
  <2>6. /\ isTerminated' \in SUBSET Driver /\ isOnThread' \in SUBSET Driver
        /\ inTask' \in SUBSET Driver /\ offThreadDrivers' \in SUBSET Driver
    <3>1. CASE isRunning
      BY Zenon, <1>5, <3>1 DEF resume, TypeOK
    <3>2. CASE ~isRunning
      BY <1>5, <2>2, <3>2 DEF resume, TypeOK
    <3> QED
      BY Zenon, <3>1, <3>2
  <2>7. failedChecks' \in SUBSET {"run", "enter", "enqueue", "setResume",
                                 "callback", "resume"}
    BY <1>5, Zenon DEF resume, TypeOK
  <2>8. pauseRequested' \in BOOLEAN
    BY <1>5, Zenon DEF resume
  <2>9. reclaimer' \in {"idle", "aborting"}
    BY Zenon, <1>5 DEF resume
  <2> QED
    BY <1>5, <2>4, <2>5, <2>6, <2>7, <2>8, <2>9 DEF resume, TypeOK
<1>6. ASSUME abortTask PROVE TypeOK'
  <2>1. exception' \in BOOLEAN /\ failPending' \in BOOLEAN
    BY Zenon, <1>6, HelperTypes DEF abortTask
  <2> QED
    BY Zenon, <1>6, <2>1 DEF abortTask, TypeOK
<1> QED
  BY Zenon, <1>1, <1>2, <1>3, <1>4, <1>5, <1>6

\* Every step keeps the types, given that the count of threads stays natural.
LEMMA TypeStep ==
    ASSUME TypeOK, numThreads' \in Nat, Next
    PROVE  TypeOK'
  BY Zenon, JobTypes, ThreadTypes, DriverTypes, TaskTypes, ReclaimTypes
  DEF Next, TaskStep, ReclaimStep, DriverStep, OperatorStep

-----------------------------------------------------------------------------
(***************************************************************************)
(* Counting.                                                               *)
(***************************************************************************)

\* What TaskDriverProof shows of the number of drivers in a set.
CountFacts ==
    \A S \in SUBSET Driver :
        /\ Cardinality(S) \in Nat
        /\ Cardinality(S) = 0 <=> S = {}
        /\ \A d \in Driver \ S : Cardinality(S \cup {d}) = Cardinality(S) + 1

\* The drivers that execute are none iff their number is 0.
LEMMA ExecutingCount ==
    ASSUME CountFacts
    PROVE  /\ Cardinality(executing) \in Nat /\ Cardinality(executing') \in Nat
           /\ Cardinality(executing) = 0 <=> executing = {}
           /\ Cardinality(executing') = 0 <=> executing' = {}
<1>1. executing \in SUBSET Driver /\ executing' \in SUBSET Driver
  BY Zenon DEF executing
<1> QED
  BY Zenon, <1>1 DEF CountFacts

\* Adding a driver to the ones that execute adds one to their number.
LEMMA CountUp ==
    ASSUME CountFacts, NEW d \in Driver, d \notin executing, executing' = executing \cup {d}
    PROVE  Cardinality(executing') = Cardinality(executing) + 1
<1>1. executing \in SUBSET Driver
  BY Zenon DEF executing
<1> QED
  BY Zenon, <1>1 DEF CountFacts

\* Removing one subtracts one.
LEMMA CountDown ==
    ASSUME CountFacts, NEW d \in Driver, d \in executing, executing' = executing \ {d}
    PROVE  /\ Cardinality(executing') = Cardinality(executing) - 1
           /\ Cardinality(executing) > 0
<1>1. executing' \in SUBSET Driver /\ executing = executing' \cup {d} /\ d \notin executing'
  BY Zenon DEF executing
<1>2. Cardinality(executing) = Cardinality(executing') + 1 /\ Cardinality(executing') \in Nat
  BY Zenon, <1>1 DEF CountFacts
<1> QED
  BY <1>2

-----------------------------------------------------------------------------
(***************************************************************************)
(* Kinds of steps, for everything but the types.                           *)
(***************************************************************************)
\* The variables that Core is about, but for the position of the drivers.
coreVars == <<taskState, pauseRequested, numThreads, inTask, offThreadDrivers,
              isOnThread, numSuspensions, closes, reclaimer, waiter>>

\* A step that touches nothing of Core.
LEMMA QuietStep ==
    ASSUME Core, UNCHANGED <<coreVars, isTerminated, pc>>
    PROVE  Core'
  BY Zenon DEF Core, coreVars, ThreadCount, Places, Running, Pausing, ReclaimIsSafe,
         ClosedOnce, executing, isRunning

\* A thread that executes a driver goes on to something else than its loop, or
\* closes it; the driver may get terminated.
LEMMA MoveStep ==
    ASSUME TypeOK, Core, NEW d \in Driver, NEW p \in Position \ {"off", "run"},
           UNCHANGED coreVars,
           pc[d] # "off", numSuspensions[d] = 0, pc' = [pc EXCEPT ![d] = p],
           isTerminated \subseteq isTerminated', isTerminated' \subseteq isTerminated \cup {d}
    PROVE  Core'
<1>1. executing' = executing
  BY Zenon DEF executing, TypeOK, coreVars
<1>2. ThreadCount' /\ Places'
  BY <1>1 DEF Core, ThreadCount, Places, TypeOK, coreVars
<1>3. Running' /\ Pausing' /\ ClosedOnce'
  BY Zenon, <1>1 DEF Core, Running, Pausing, ClosedOnce, isRunning, TypeOK, coreVars
<1>4. ReclaimIsSafe'
  BY Zenon, <1>1 DEF Core, ReclaimIsSafe, isRunning, coreVars
<1> QED
  BY Zenon, <1>2, <1>3, <1>4 DEF Core

\* A thread calls terminate; it may be one that executes a driver, which then goes
\* on to something else than its loop.
LEMMA TerminateStep ==
    ASSUME TypeOK, Core, NEW s \in {"kFinished", "kFailed", "kCanceled"}, terminate(s),
           UNCHANGED <<pauseRequested, numThreads, numSuspensions, closes, reclaimer, waiter>>,
           \/ UNCHANGED pc
           \/ \E d \in Driver, p \in Position \ {"off", "run"} :
                /\ pc[d] # "off" /\ numSuspensions[d] = 0
                /\ pc' = [pc EXCEPT ![d] = p]
    PROVE  Core'
<1>1. executing' = executing
  BY Zenon DEF executing, TypeOK
<1>2. taskState' # "kRunning" /\ isTerminated \subseteq isTerminated'
  BY Zenon DEF terminate, isRunning
<1>3. \A d \in Driver : (pc[d] = "off") <=> (pc'[d] = "off")
  BY Zenon DEF TypeOK
<1>4. \A d \in Driver : pc[d] = "run" /\ numSuspensions[d] > 0 => pc'[d] = "run"
  BY DEF TypeOK
<1>5. takenByTerminate \subseteq inTask \ isOnThread
  BY Zenon DEF takenByTerminate
<1>6. Places'
  <2>1. CASE isRunning
    <3>1. /\ isOnThread' = isOnThread \cup takenByTerminate
          /\ inTask' = inTask \ takenByTerminate
          /\ offThreadDrivers' = offThreadDrivers \cup takenByTerminate
      BY Zenon, <2>1 DEF terminate
    <3> QED
      BY Zenon, <3>1, <1>3, <1>4, <1>5 DEF Core, Places, TypeOK
  <2>2. CASE ~isRunning
    <3>1. UNCHANGED <<isOnThread, inTask, offThreadDrivers>>
      BY Zenon, <2>2 DEF terminate
    <3> QED
      BY Zenon, <3>1, <1>3, <1>4 DEF Core, Places
  <2> QED
    BY Zenon, <2>1, <2>2
<1>7. ThreadCount' /\ Running' /\ Pausing' /\ ClosedOnce'
  BY Zenon, <1>1, <1>2 DEF Core, ThreadCount, Running, Pausing, ClosedOnce, isRunning
<1>8. ReclaimIsSafe'
  <2> SUFFICES ASSUME reclaimer = "reclaiming"
               PROVE  executing \subseteq isTerminated' /\ offThreadDrivers' = {}
    BY Zenon, <1>1, <1>2 DEF ReclaimIsSafe, Core, isRunning
  <2>1. executing \subseteq isTerminated /\ offThreadDrivers = {} /\ pauseRequested
    BY Zenon DEF Core, ReclaimIsSafe
  <2>2. offThreadDrivers' = {}
    BY Zenon, <2>1 DEF terminate, takenByTerminate
  <2> QED
    BY Zenon, <2>1, <2>2, <1>2
<1> QED
  BY Zenon, <1>6, <1>7, <1>8 DEF Core

\* The reclaimer moves on without having finished a pause.
LEMMA ReclaimerStep ==
    ASSUME Core,
           UNCHANGED <<taskState, numThreads, inTask, offThreadDrivers, isOnThread,
                       isTerminated, numSuspensions, closes, pc, waiter>>,
           reclaimer' \notin {"pausing", "reclaiming"},
           reclaimer' \in {"resuming", "failed"} => pauseRequested'
    PROVE  Core'
  BY Zenon DEF Core, ThreadCount, Places, Running, Pausing, ReclaimIsSafe,
         ClosedOnce, executing, isRunning

-----------------------------------------------------------------------------
(***************************************************************************)
(* The steps that change what executes, what is closed or what is paused.  *)
(***************************************************************************)

\* enter: no pause and no termination is requested, so nobody is told that the
\* task stands still.
LEMMA EnterStep ==
    ASSUME CountFacts, TypeOK, Core, NEW d \in Driver, enter(d)
    PROVE  Core'
<1>1. isRunning /\ ~pauseRequested
  BY Zenon DEF enter, shouldStop, terminateRequested
<1>2. pc[d] = "off" /\ numSuspensions[d] = 0
  BY DEF enter, Core, Places, TypeOK
<1>3. d \notin executing /\ executing' = executing \cup {d}
  BY Zenon, <1>2 DEF enter, executing, TypeOK
<1>4. ThreadCount'
  BY Zenon, <1>3, CountUp DEF enter, Core, ThreadCount
<1>5. Places'
  <2>1. offThreadDrivers = {}
    BY Zenon, <1>1 DEF Core, Running
  <2> QED
    BY Zenon, <1>2, <2>1 DEF enter, Core, Places, TypeOK
<1>6. Running' /\ Pausing' /\ ReclaimIsSafe' /\ ClosedOnce'
  BY Zenon, <1>1 DEF enter, Core, Running, Pausing, ReclaimIsSafe, ClosedOnce, isRunning,
              TypeOK, reclaimVars
<1> QED
  BY Zenon, <1>4, <1>5, <1>6 DEF Core

\* A thread that executes a driver stops: it leaves, or its driver is suspended.
LEMMA StopStep ==
    ASSUME CountFacts, TypeOK, Core, NEW d \in Driver, pc[d] # "off", numSuspensions[d] = 0,
           threadStops, executing' = executing \ {d}, Places',
           UNCHANGED <<taskState, pauseRequested, offThreadDrivers, isTerminated,
                       closes, reclaimer>>,
           \A e \in Driver : pc'[e] = "run" => pc[e] = "run"
    PROVE  Core' /\ numThreads' \in Nat
<1>1. d \in executing
  BY Zenon DEF executing
<1>2. Cardinality(executing') = Cardinality(executing) - 1 /\ Cardinality(executing) > 0
  BY Zenon, <1>1, CountDown
<1>3. ThreadCount' /\ numThreads' \in Nat
  BY <1>2, ExecutingCount DEF threadStops, Core, ThreadCount
<1>4. executing' = {} <=> numThreads' = 0
  BY Zenon, <1>3, ExecutingCount DEF ThreadCount
<1>5. Pausing'
  BY Zenon, <1>4 DEF Core, Pausing, threadStops, isRunning, TypeOK
<1>6. Running' /\ ReclaimIsSafe' /\ ClosedOnce'
  BY Zenon DEF Core, Running, ReclaimIsSafe, ClosedOnce, isRunning
<1> QED
  BY Zenon, <1>3, <1>5, <1>6 DEF Core

LEMMA LeaveStep ==
    ASSUME CountFacts, TypeOK, Core, NEW d \in Driver, leave(d)
    PROVE  Core' /\ numThreads' \in Nat
<1>1. numSuspensions[d] = 0
  BY DEF leave, Core, Places, TypeOK
<1>2. CASE pc' = [pc EXCEPT ![d] = "closing"] /\ isTerminated' = isTerminated \cup {d}
            /\ UNCHANGED <<numThreads, waiter, isOnThread>>
  <2>1. UNCHANGED coreVars
    BY Zenon, <1>2 DEF leave, coreVars
  <2>2. pc[d] # "off" /\ "closing" \in Position \ {"off", "run"}
    BY Zenon DEF leave, Position
  <2>3. Core'
    BY <1>1, <1>2, <2>1, <2>2, MoveStep, Zenon
  <2> QED
    BY Zenon, <1>2, <2>3 DEF TypeOK
<1>3. CASE pc' = [pc EXCEPT ![d] = "off"] /\ threadStops
            /\ isOnThread' = isOnThread \ {d} /\ UNCHANGED isTerminated
  <2>1. executing' = executing \ {d}
    BY Zenon, <1>3 DEF leave, executing, TypeOK
  <2>2. Places'
    BY Zenon, <1>1, <1>3 DEF leave, Core, Places, TypeOK
  <2> QED
    BY Zenon, <1>1, <1>3, <2>1, <2>2, StopStep DEF leave, TypeOK
<1> QED
  BY Zenon, <1>2, <1>3 DEF leave

LEMMA LeaveClosedStep ==
    ASSUME CountFacts, TypeOK, Core, NEW d \in Driver, leaveClosed(d)
    PROVE  Core' /\ numThreads' \in Nat
<1>1. numSuspensions[d] = 0
  BY DEF leaveClosed, Core, Places, TypeOK
<1>2. executing' = executing \ {d}
  BY Zenon DEF leaveClosed, executing, TypeOK
<1>3. Places'
  BY Zenon, <1>1 DEF leaveClosed, Core, Places, TypeOK
<1> QED
  BY <1>1, <1>2, <1>3, StopStep DEF leaveClosed, TypeOK

LEMMA EnterSuspendedStep ==
    ASSUME CountFacts, TypeOK, Core, NEW d \in Driver, enterSuspended(d)
    PROVE  Core' /\ numThreads' \in Nat
<1>1. Places'
  BY SMTT(20) DEF enterSuspended, driverVars, Core, Places, TypeOK
<1>2. CASE numSuspensions[d] = 0
  <2>1. executing' = executing \ {d}
    BY <1>2 DEF enterSuspended, driverVars, executing, TypeOK
  <2> QED
    BY Zenon, <1>1, <1>2, <2>1, StopStep DEF enterSuspended, suspendThread, driverVars
<1>3. CASE numSuspensions[d] # 0
  <2>1. executing' = executing
    BY <1>3 DEF enterSuspended, driverVars, executing, TypeOK
  <2> QED
    BY Zenon, <1>1, <1>3, <2>1
    DEF enterSuspended, suspendThread, driverVars, Core, ThreadCount, Running,
        Pausing, ReclaimIsSafe, ClosedOnce, isRunning, TypeOK
<1> QED
  BY Zenon, <1>2, <1>3

\* leaveSuspended: in a pause a thread comes back only if the task is terminated.
LEMMA LeaveSuspendedStep ==
    ASSUME CountFacts, TypeOK, Core, NEW d \in Driver, leaveSuspended(d)
    PROVE  Core' /\ numThreads' \in Nat
<1>1. Places'
  BY Zenon DEF leaveSuspended, driverVars, Core, Places, TypeOK
<1>2. Running' /\ ClosedOnce'
  BY Zenon DEF leaveSuspended, driverVars, Core, Running, ClosedOnce, isRunning,
         terminateRequested
<1>3. CASE numSuspensions[d] = 1
  <2>1. d \notin executing /\ executing' = executing \cup {d}
    BY <1>3 DEF leaveSuspended, driverVars, executing, TypeOK
  <2>2. ThreadCount' /\ numThreads' \in Nat
    <3>1. numThreads' = numThreads + 1
      BY Zenon, <1>3 DEF leaveSuspended, unsuspendThread
    <3>2. Cardinality(executing') = Cardinality(executing) + 1
      BY Zenon, <2>1, CountUp
    <3> QED
      BY <3>1, <3>2, SMTT(20) DEF Core, ThreadCount, TypeOK
  <2>3. isRunning => ~pauseRequested
    BY <1>3 DEF leaveSuspended, mayLeaveSuspended, terminateRequested, Core, Running
  <2>4. Pausing'
    BY Zenon, <2>3 DEF leaveSuspended, reclaimVars, Core, Pausing, isRunning
  <2>5. ReclaimIsSafe'
    BY Zenon, <2>1, <2>3
    DEF leaveSuspended, reclaimVars, Core, ReclaimIsSafe, isRunning, terminateRequested
  <2> QED
    BY Zenon, <1>1, <1>2, <2>2, <2>4, <2>5 DEF Core
<1>4. CASE numSuspensions[d] # 1
  <2>1. executing' = executing
    BY <1>4 DEF leaveSuspended, driverVars, executing, TypeOK
  <2>2. ThreadCount' /\ numThreads' \in Nat
    BY Zenon, <1>4, <2>1 DEF leaveSuspended, unsuspendThread, Core, ThreadCount, TypeOK
  <2>3. Pausing' /\ ReclaimIsSafe'
    BY Zenon, <2>1 DEF leaveSuspended, reclaimVars, Core, Pausing, ReclaimIsSafe, isRunning
  <2> QED
    BY Zenon, <1>1, <1>2, <2>2, <2>3 DEF Core
<1> QED
  BY Zenon, <1>3, <1>4

\* close: the driver leaves the task and is closed for the first time.
LEMMA CloseStep ==
    ASSUME TypeOK, Core, NEW d \in Driver, close(d)
    PROVE  Core'
<1>1. numSuspensions[d] = 0 /\ pc[d] # "off"
  BY DEF close, Core, Places, TypeOK
<1>2. PICK p \in Position \ {"off", "run"} : pc' = [pc EXCEPT ![d] = p]
  BY Zenon DEF close, Position
<1>3. executing' = executing
  BY Zenon, <1>1, <1>2 DEF close, threadVars, executing, TypeOK
<1>4. Places'
  <2>1. CASE isClosed(d)
    BY Zenon, <1>1, <1>2, <2>1 DEF close, threadVars, Core, Places, TypeOK
  <2>2. CASE ~isClosed(d)
    BY <1>1, <1>2, <2>2 DEF close, threadVars, Core, Places, TypeOK
  <2> QED
    BY Zenon, <2>1, <2>2
<1>5. ClosedOnce'
  BY DEF close, isClosed, Core, ClosedOnce, TypeOK
<1>6. ThreadCount' /\ Running' /\ Pausing' /\ ReclaimIsSafe'
  BY Zenon, <1>2, <1>3 DEF close, threadVars, reclaimVars, Core, ThreadCount, Running,
                    Pausing, ReclaimIsSafe, isRunning, TypeOK
<1> QED
  BY Zenon, <1>4, <1>5, <1>6 DEF Core

\* closeByTask: the driver was taken out of the task and not closed before.
LEMMA CloseByTaskStep ==
    ASSUME TypeOK, Core, NEW d \in Driver, closeByTask(d)
    PROVE  Core'
<1>1. executing' = executing
  BY Zenon DEF closeByTask, threadVars, executing
<1>2. d \notin inTask /\ closes[d] = 0 /\ reclaimer # "reclaiming" /\ ~isRunning
  BY Zenon DEF closeByTask, Core, Places, ReclaimIsSafe, Running
<1>3. Places' /\ ClosedOnce'
  BY <1>2 DEF closeByTask, threadVars, Core, Places, ClosedOnce, TypeOK
<1>4. ThreadCount' /\ Running' /\ Pausing' /\ ReclaimIsSafe'
  BY Zenon, <1>1, <1>2 DEF closeByTask, reclaimVars, Core, ThreadCount, Running, Pausing,
                    ReclaimIsSafe, isRunning
<1> QED
  BY <1>3, <1>4, SMTT(20) DEF Core

\* resume: the pause is over, and a terminated task has its drivers closed.
LEMMA ResumeStep ==
    ASSUME TypeOK, Core, resume
    PROVE  Core'
<1>1. executing' = executing
  BY Zenon DEF resume, executing
<1>2. reclaimer' \in {"idle", "aborting"} /\ reclaimer # "reclaiming"
  BY Zenon DEF resume
<1>3. CASE isRunning
  BY Zenon, <1>2, <1>3, ReclaimerStep DEF resume
<1>4. CASE ~isRunning
  <2>1. /\ isOnThread' = isOnThread \cup resumeCloses
        /\ inTask' = inTask \ resumeCloses
        /\ offThreadDrivers' = offThreadDrivers \cup resumeCloses
        /\ UNCHANGED <<taskState, numThreads, numSuspensions, closes, pc>>
    BY Zenon, <1>4 DEF resume
  <2>2. resumeCloses \subseteq inTask \ isOnThread
    BY Zenon DEF resumeCloses
  <2>3. Places'
    BY <2>1, <2>2, SMTT(20) DEF Core, Places, TypeOK
  <2>4. ThreadCount' /\ Running' /\ Pausing' /\ ReclaimIsSafe' /\ ClosedOnce'
    BY <1>1, <1>2, <1>4, <2>1
    DEF Core, ThreadCount, Running, Pausing, ReclaimIsSafe, ClosedOnce, isRunning
  <2> QED
    BY Zenon, <2>3, <2>4 DEF Core
<1> QED
  BY Zenon, <1>3, <1>4

\* requestPause: there is nobody to wait for only if nothing executes.
LEMMA RequestPauseStep ==
    ASSUME CountFacts, TypeOK, Core, requestPause
    PROVE  Core'
<1>1. executing' = executing
  BY Zenon DEF requestPause, threadVars, driverVars, executing
<1>2. ~waiter' => executing = {}
  BY ExecutingCount, Zenon DEF requestPause, Core, ThreadCount
<1>3. Places' /\ ClosedOnce'
  BY Zenon DEF requestPause, threadVars, driverVars, Core, Places, ClosedOnce
<1>4. ThreadCount' /\ Running' /\ Pausing' /\ ReclaimIsSafe'
  BY <1>1, <1>2 DEF requestPause, threadVars, driverVars, Core, ThreadCount,
                    Running, Pausing, ReclaimIsSafe, isRunning
<1> QED
  BY Zenon, <1>3, <1>4 DEF Core

\* pauseDone: nothing executes in a running task once there is nobody to wait for.
LEMMA PauseDoneStep ==
    ASSUME CountFacts, TypeOK, Core, pauseDone
    PROVE  Core'
<1>1. UNCHANGED <<taskState, pauseRequested, numThreads, inTask, offThreadDrivers,
                  isOnThread, isTerminated, numSuspensions, closes, pc, waiter>>
  BY Zenon DEF pauseDone, taskVars, threadVars, driverVars
<1>2. executing' = executing
  BY Zenon, <1>1 DEF executing
<1>3. reclaimer' = "reclaiming" => isRunning /\ executing = {} /\ offThreadDrivers = {}
  BY Zenon DEF pauseDone, terminateRequested, Core, Pausing, Running
<1>4. ThreadCount' /\ Places' /\ Running' /\ ClosedOnce'
  BY <1>1, <1>2 DEF Core, ThreadCount, Places, Running, ClosedOnce, isRunning
<1>5. Pausing' /\ ReclaimIsSafe'
  BY <1>1, <1>2, <1>3, SMTT(20) DEF pauseDone, Core, Pausing, ReclaimIsSafe, isRunning
<1> QED
  BY Zenon, <1>4, <1>5 DEF Core

\* enterRefused: a driver is marked terminated, off its thread.
LEMMA EnterRefusedStep ==
    ASSUME TypeOK, Core, NEW d \in Driver, enterRefused(d)
    PROVE  Core'
<1>1. UNCHANGED <<coreVars, pc>> /\ isTerminated \subseteq isTerminated'
  BY Zenon DEF enterRefused, coreVars, reclaimVars
<1>2. isRunning => isTerminated' = isTerminated
  BY Zenon DEF enterRefused, shouldStop, terminateRequested
<1> QED
  BY <1>1, <1>2, SMTT(20) DEF Core, coreVars, ThreadCount, Places, Running, Pausing,
                    ReclaimIsSafe, ClosedOnce, executing, isRunning

-----------------------------------------------------------------------------
(***************************************************************************)
(* The invariant is inductive.                                             *)
(***************************************************************************)

\* Steps that do not concern the rest of the invariant.
LEMMA QuietSteps ==
    ASSUME TypeOK, Core, NEW d \in Driver
    PROVE  (\/ runClosed(d) \/ yield(d) \/ testBlocked(d)
            \/ setResume(d) \/ futureDone(d) \/ futureFailed(d)
            \/ setAllOutputConsumed \/ requestYield) => Core' /\ numThreads' \in Nat
<1> USE DEF taskVars, threadVars, reclaimVars, driverVars
<1> DEFINE Quiet == UNCHANGED <<coreVars, isTerminated, pc>>
<1>1. runClosed(d) => Quiet
  BY Zenon DEF runClosed, coreVars
<1>2. yield(d) => Quiet
  BY Zenon DEF yield, coreVars
<1>3. testBlocked(d) => Quiet
  BY Zenon DEF testBlocked, coreVars
<1>4. setResume(d) => Quiet
  BY Zenon DEF setResume, coreVars
<1>5. futureDone(d) => Quiet
  BY Zenon DEF futureDone, coreVars
<1>6. futureFailed(d) => Quiet
  BY Zenon DEF futureFailed, coreVars
<1>7. setAllOutputConsumed => Quiet
  BY Zenon DEF setAllOutputConsumed, coreVars
<1>8. requestYield => Quiet
  BY Zenon DEF requestYield, coreVars
<1>9. Quiet => Core' /\ numThreads' \in Nat
  BY Zenon, QuietStep DEF coreVars, TypeOK
<1> HIDE DEF Quiet
<1> QED
  BY <1>1, <1>2, <1>3, <1>4, <1>5, <1>6, <1>7, <1>8, <1>9, SMTT(20)

\* Steps of a thread that executes a driver and goes on executing it.
LEMMA MoveSteps ==
    ASSUME TypeOK, Core, NEW d \in Driver
    PROVE  (\/ stopAtBoundary(d) \/ stopAtSlice(d) \/ block(d) \/ atEnd(d)
            \/ throw(d) \/ unwind(d)) => Core' /\ numThreads' \in Nat
<1> USE DEF taskVars, threadVars, reclaimVars, driverVars
<1> DEFINE Moves(p) ==
             /\ UNCHANGED coreVars
             /\ pc[d] # "off" /\ numSuspensions[d] = 0
             /\ pc' = [pc EXCEPT ![d] = p]
             /\ isTerminated \subseteq isTerminated'
             /\ isTerminated' \subseteq isTerminated \cup {d}
<1>1. stopAtBoundary(d) => Moves("leaving")
  BY Zenon DEF stopAtBoundary, onThread, coreVars
<1>2. stopAtSlice(d) => Moves("leaving")
  BY Zenon DEF stopAtSlice, onThread, coreVars
<1>3. block(d) => Moves("leaving")
  BY Zenon DEF block, onThread, coreVars
<1>4. atEnd(d) => Moves("closing")
  BY Zenon DEF atEnd, onThread, coreVars
<1>5. throw(d) => Moves("failing") \/ Moves("unwinding")
  BY Zenon DEF throw, onThread, coreVars
<1>6. unwind(d) => Moves("closing")
  BY DEF unwind, coreVars, Core, Places, TypeOK
<1>7. ASSUME NEW p \in {"leaving", "closing", "failing", "unwinding"}, Moves(p)
      PROVE  Core' /\ numThreads' \in Nat
  <2>1. p \in Position \ {"off", "run"}
    BY Zenon DEF Position
  <2>2. Core'
    BY <1>7, <2>1, MoveStep, Zenon
  <2> QED
    BY Zenon, <1>7, <2>2 DEF coreVars, TypeOK
<1> HIDE DEF Moves
<1> QED
  BY <1>1, <1>2, <1>3, <1>4, <1>5, <1>6, <1>7, SMTT(20)

\* Steps that call terminate.
LEMMA TerminateSteps ==
    ASSUME TypeOK, Core, NEW d \in Driver,
           finishTask(d) \/ failTask \/ cancel \/ consumerFinishes
    PROVE  Core' /\ numThreads' \in Nat
<1> USE DEF taskVars, threadVars, reclaimVars, driverVars
<1>1. UNCHANGED <<pauseRequested, numThreads, numSuspensions, closes, reclaimer, waiter>>
  BY Zenon DEF finishTask, failTask, cancel, consumerFinishes
<1>2. PICK s \in {"kFinished", "kFailed", "kCanceled"} : terminate(s)
  BY Zenon DEF finishTask, failTask, cancel, consumerFinishes
<1>3. CASE finishTask(d)
  <2>1. pc[d] # "off" /\ numSuspensions[d] = 0
    BY <1>3 DEF finishTask, Core, Places, TypeOK
  <2>2. pc' \in {[pc EXCEPT ![d] = "leaving"], [pc EXCEPT ![d] = "gone"]}
    BY <1>3, Zenon DEF finishTask
  <2>3. PICK p \in Position \ {"off", "run"} : pc' = [pc EXCEPT ![d] = p]
    BY Zenon, <2>2 DEF Position
  <2>4. Core'
    BY <1>1, <1>2, <2>1, <2>3, TerminateStep, Zenon
  <2> QED
    BY <1>1, <2>4, SMTT(20) DEF TypeOK
<1>4. CASE failTask \/ cancel \/ consumerFinishes
  <2>1. UNCHANGED pc
    BY Zenon, <1>4 DEF failTask, cancel, consumerFinishes
  <2>2. Core'
    BY Zenon, <1>1, <1>2, <2>1, TerminateStep
  <2> QED
    BY Zenon, <1>1, <2>2 DEF TypeOK
<1> QED
  BY Zenon, <1>3, <1>4

\* Steps of the reclaimer.
LEMMA ReclaimerSteps ==
    ASSUME CountFacts, TypeOK, Core, ReclaimStep
    PROVE  Core' /\ numThreads' \in Nat
<1> USE DEF taskVars, threadVars, reclaimVars, driverVars
<1>1. numThreads' = numThreads
  BY Zenon DEF ReclaimStep, requestPause, pauseDone, reclaimFails, reclaimDone, resume,
         abortTask
<1>2. CASE reclaimFails
  BY <1>1, <1>2, ReclaimerStep, SMTT(20) DEF reclaimFails, Core, Pausing, TypeOK
<1>3. CASE reclaimDone
  BY <1>1, <1>3, ReclaimerStep DEF reclaimDone, Core, Pausing, TypeOK
<1>4. CASE abortTask
  BY <1>1, <1>4, ReclaimerStep DEF abortTask, TypeOK
<1>5. CASE requestPause \/ pauseDone \/ resume
  <2>1. Core'
    BY <1>5, RequestPauseStep, PauseDoneStep, ResumeStep
  <2> QED
    BY <1>1, <2>1 DEF TypeOK
<1> QED
  BY <1>2, <1>3, <1>4, <1>5, SMTT(20) DEF ReclaimStep

\* Steps that begin or end the execution of a driver, or close it.
LEMMA ThreadSteps ==
    ASSUME CountFacts, TypeOK, Core, NEW d \in Driver
    PROVE  (\/ enter(d) \/ enterRefused(d) \/ close(d) \/ closeByTask(d)
            \/ leave(d) \/ leaveClosed(d) \/ enterSuspended(d) \/ leaveSuspended(d))
           => Core' /\ numThreads' \in Nat
<1>1. enter(d) => numThreads' \in Nat
  BY DEF enter, TypeOK
<1>2. enterRefused(d) => numThreads' \in Nat
  BY Zenon DEF enterRefused, TypeOK
<1>3. close(d) => numThreads' \in Nat
  BY Zenon DEF close, TypeOK
<1>4. closeByTask(d) => numThreads' \in Nat
  BY Zenon DEF closeByTask, TypeOK
<1> QED
  BY <1>1, <1>2, <1>3, <1>4, EnterStep, EnterRefusedStep, CloseStep, CloseByTaskStep,
     LeaveStep, LeaveClosedStep, EnterSuspendedStep, LeaveSuspendedStep, SMTT(20)

\* Every step keeps the rest of the invariant.
LEMMA CoreStep ==
    ASSUME CountFacts, TypeOK, Core, Next
    PROVE  Core' /\ numThreads' \in Nat
<1>1. CASE TaskStep
  <2>1. 1 \in Driver
    BY NumDriversAssumption DEF Driver
  <2> QED
    BY Zenon, <1>1, <2>1, QuietSteps, TerminateSteps DEF TaskStep
<1>2. CASE ReclaimStep
  BY Zenon, <1>2, ReclaimerSteps
<1>3. ASSUME NEW d \in Driver,
             DriverStep(d) \/ OperatorStep(d) \/ stopAtBoundary(d) \/ leaveSuspended(d)
      PROVE  Core' /\ numThreads' \in Nat
  BY <1>3, QuietSteps, MoveSteps, TerminateSteps, ThreadSteps
  DEF DriverStep, OperatorStep
<1> QED
  BY Zenon, <1>1, <1>2, <1>3 DEF Next
=============================================================================
