-------------------------- MODULE TaskDriverProof --------------------------
(***************************************************************************)
(* Proofs about TaskDriver for any number of drivers, any set of output    *)
(* drivers, any bounds, with or without yields and timeouts.               *)
(***************************************************************************)
EXTENDS TaskDriverSteps, FiniteSetTheorems

\* Sets of drivers are finite.
LEMMA CountingHolds == CountFacts
<1> SUFFICES ASSUME NEW S \in SUBSET Driver
             PROVE  /\ Cardinality(S) \in Nat
                    /\ Cardinality(S) = 0 <=> S = {}
                    /\ \A d \in Driver \ S : Cardinality(S \cup {d}) = Cardinality(S) + 1
  BY Zenon DEF CountFacts
<1>1. IsFiniteSet(Driver)
  BY FS_Interval, NumDriversAssumption DEF Driver
<1>2. IsFiniteSet(S)
  BY Zenon, <1>1, FS_Subset
<1> QED
  BY Zenon, <1>2, FS_CardinalityType, FS_EmptySet, FS_AddElement

\* The invariant holds in every state of every behaviour.
THEOREM Invariant == Spec => []IInv
<1>1. Init => IInv
  <2> SUFFICES ASSUME Init PROVE IInv
    BY Zenon
  <2>1. TypeOK
    BY ZenonT(20) DEF Init, TypeOK, Position, Reason, Holder
  <2>2. executing = {}
    BY Zenon DEF Init, executing
  <2>3. ThreadCount
    BY Zenon, <2>2, CountingHolds, ExecutingCount DEF Init, ThreadCount
  <2>4. Places /\ Running /\ Pausing /\ ReclaimIsSafe /\ ClosedOnce
    BY DEF Init, Places, Running, Pausing, ReclaimIsSafe, ClosedOnce, isRunning
  <2> QED
    BY Zenon, <2>1, <2>3, <2>4 DEF IInv
<1>2. IInv /\ [Next]_vars => IInv'
  <2> SUFFICES ASSUME IInv, [Next]_vars PROVE IInv'
    BY Zenon
  <2>1. TypeOK /\ Core
    BY Zenon DEF IInv, Core
  <2>2. CASE Next
    BY <2>1, <2>2, CountingHolds, CoreStep, TypeStep DEF IInv, Core
  <2>3. CASE UNCHANGED vars
    <3>1. Core'
      BY <2>1, <2>3, QuietStep DEF vars, taskVars, threadVars, driverVars,
                                   reclaimVars, coreVars
    <3>2. TypeOK'
      BY <2>1, <2>3 DEF vars, taskVars, threadVars, driverVars, reclaimVars, TypeOK
    <3> QED
      BY Zenon, <3>1, <3>2 DEF IInv, Core
  <2> QED
    BY Zenon, <2>2, <2>3
<1> QED
  BY <1>1, <1>2, PTL DEF Spec

\* The variables keep their types.
THEOREM TypeCorrect == Spec => []TypeOK
  BY Invariant, PTL DEF IInv

\* numThreads_ is the number of threads that execute a driver: a pause and the
\* end of the task are never reported early or missed because of a wrong count.
THEOREM ThreadsAreCounted == Spec => []ThreadCount
  BY Invariant, PTL DEF IInv

\* The memory of the operators is reclaimed only while nothing can touch it, for
\* any number of drivers, yields, timeouts, nested suspensions and terminations.
THEOREM ReclaimIsExclusive == Spec => []ReclaimIsSafe
  BY Invariant, PTL DEF IInv

\* Between the driver's own thread, terminate and resume, exactly one of them
\* closes the operators.
THEOREM DriversCloseOnce == Spec => []ClosedOnce
  BY Invariant, PTL DEF IInv

-----------------------------------------------------------------------------
(***************************************************************************)
(* The holders of a driver: without yields each driver of a healthy task   *)
(* has one, and the checks of its life cycle fail only where ChecksHold    *)
(* says.                                                                   *)
(***************************************************************************)

\* At most one job, callback or thread has the driver.  One that waits for a
\* thread is enqueued, one that waits for a future has it.
HeldOf(d) ==
    /\ holders(d) <= 1
    /\ held[d]["yielding"] = 0
    /\ held[d]["queued"] > 0 => d \in isEnqueued /\ d \notin hasBlockingFuture
    /\ held[d]["blocking"] + held[d]["arming"] + held[d]["armed"] > 0 =>
         d \in hasBlockingFuture /\ d \notin isEnqueued
    /\ d \in isEnqueued => pc[d] = "off"
    /\ pc[d] = "run" => d \notin hasBlockingFuture
    /\ pc[d] \notin {"off", "run"} =>
         (d \in hasBlockingFuture <=> why[d] = "kBlock")
    /\ why[d] # "kYield"

\* The reclaimer has found that the task was not paused in time, or an error is set.
Failing == exception \/ reclaimer = "aborting"

\* What the flags of a driver say about its thread.
FlagsOf(d) ==
    /\ isRunning /\ d \in isOnThread => pc[d] # "off"
    /\ d \in inTask =>
        /\ pc[d] \notin {"finishing", "gone"}
        /\ isRunning =>
             /\ d \in isTerminated => pc[d] = "closing"
             /\ pc[d] = "leaving" =>
                  why[d] = "kBlock" \/ (why[d] = "kPause" /\ (pauseRequested \/ Failing))
        /\ ~isRunning /\ d \in isOnThread => d \in isTerminated
    /\ d \notin inTask /\ closes[d] = 0 => d \in isTerminated

\* A driver that nobody holds will be found by resume.
NotLost(d) ==
    isRunning /\ ~Failing /\ d \in inTask /\ holders(d) = 0 =>
        /\ pauseRequested
        /\ d \notin isEnqueued \cup isOnThread \cup hasBlockingFuture

PlaceOf(d) == HeldOf(d) /\ FlagsOf(d) /\ NotLost(d)

\* The wait for the pause timed out and is not over yet.
TimedOut == reclaimer = "failed" /\ waiter

\* Nobody asks for a yield, and nothing executes until a pause ends that was granted.
Settled ==
    /\ toYield = 0
    /\ isRunning /\ reclaimer \in {"resuming", "failed"} => executing = {} \/ TimedOut

\* What holds of the holders without yields.
Holding == (\A d \in Driver : PlaceOf(d)) /\ Settled

\* A step that ends the wait for the pause leaves nothing executing.
Draining == waiter => waiter' \/ executing' = {} \/ reclaimer' = "pausing"

\* The counters of 'd' after a holder takes it, drops it or passes it on.
LEMMA HeldCounts ==
    ASSUME held \in [Driver -> [Holder -> Nat]], NEW d \in Driver
    PROVE  \A h \in Holder :
             /\ \A k \in Holder :
                  /\ drop(d, h)[d][k] = IF k = h THEN held[d][k] - 1 ELSE held[d][k]
                  /\ hold(d, h)[d][k] = IF k = h THEN held[d][k] + 1 ELSE held[d][k]
             /\ \A g \in Holder \ {h}, k \in Holder :
                  move(d, h, g)[d][k] = CASE k = h -> held[d][k] - 1
                                          [] k = g -> held[d][k] + 1
                                          [] OTHER -> held[d][k]
             /\ \A e \in Driver \ {d} :
                  /\ drop(d, h)[e] = held[e]
                  /\ hold(d, h)[e] = held[e]
                  /\ \A g \in Holder : move(d, h, g)[e] = held[e]
  BY DEF drop, hold, move

\* All that the invariant says about a driver is as it was.
Keeps(e) ==
    /\ pc'[e] = pc[e] /\ why'[e] = why[e] /\ held'[e] = held[e] /\ closes'[e] = closes[e]
    /\ e \in isEnqueued' <=> e \in isEnqueued
    /\ e \in hasBlockingFuture' <=> e \in hasBlockingFuture
    /\ e \in isOnThread' <=> e \in isOnThread
    /\ e \in isTerminated' <=> e \in isTerminated
    /\ e \in inTask' <=> e \in inTask

\* A step that concerns no driver but 'd'.
LEMMA OneDriverStep ==
    ASSUME Core, Holding, Draining, NEW d \in Driver, UNCHANGED <<taskState, pauseRequested, reclaimer>>,
           exception => exception', toYield' = 0,
           isRunning /\ pauseRequested => executing' \subseteq executing,
           \A e \in Driver \ {d} : Keeps(e), HeldOf(d)', FlagsOf(d)', NotLost(d)'
    PROVE  Holding'
<1>1. ASSUME NEW e \in Driver \ {d} PROVE PlaceOf(e)'
    <2>1. PlaceOf(e) /\ Keeps(e)
        BY Zenon DEF Holding
    <2>2. HeldOf(e)'
        BY Zenon, <2>1 DEF PlaceOf, HeldOf, Keeps, holders
    <2>3. FlagsOf(e)'
        BY Zenon, <2>1 DEF PlaceOf, FlagsOf, Keeps, isRunning, Failing
    <2>4. NotLost(e)'
        BY Zenon, <2>1 DEF PlaceOf, NotLost, Keeps, isRunning, holders, Failing
    <2>. QED BY Zenon, <2>2, <2>3, <2>4 DEF PlaceOf
<1>2. \A e \in Driver : PlaceOf(e)'
    BY Zenon, <1>1 DEF PlaceOf
<1>3. Settled'
    <2>1. CASE executing = {}
        BY Zenon, <2>1 DEF Holding, Settled, isRunning, Core, Pausing
    <2>2. CASE TimedOut
        BY Zenon, <2>2 DEF Settled, Draining, TimedOut
    <2>. QED BY Zenon, <2>1, <2>2 DEF Holding, Settled, isRunning
<1>. QED BY Zenon, <1>2, <1>3 DEF Holding

\* A driver that waits for a future or for a thread, and nothing but that.
LEMMA OneCount ==
    ASSUME held \in [Driver -> [Holder -> Nat]], NEW d \in Driver, HeldOf(d)
    PROVE  /\ \A h \in Holder : held[d][h] \in Nat
           /\ holders(d) \in {0, 1}
           /\ pc[d] # "off" => \A h \in Holder : held[d][h] = 0
           /\ \A h \in Holder : held[d][h] > 0 =>
                /\ pc[d] = "off" /\ held[d][h] = 1
                /\ \A k \in Holder \ {h} : held[d][k] = 0
  BY DEF HeldOf, holders, Holder

\* Without yields shouldStop never says so.
LEMMA NoYield ==
    ASSUME TypeOK, Settled
    PROVE  /\ shouldStop # "kYield"
           /\ countYield => toYield' = 0
           /\ shouldStop = "kPause" <=> pauseRequested
           /\ shouldStop = "kTerminate" <=> ~pauseRequested /\ ~isRunning
           /\ shouldStop = "kNone" <=> ~pauseRequested /\ isRunning
  BY DEF Settled, shouldStop, countYield, terminateRequested, TypeOK

\* setError on behalf of a healthy task ends its health.
LEMMA ErrorStep ==
    ASSUME setError
    PROVE  /\ exception => exception'
           /\ isRunning => exception'
<1>1. CASE isRunning /\ ~exception
    BY Zenon, <1>1 DEF setError
<1>2. CASE ~(isRunning /\ ~exception)
    BY Zenon, <1>2 DEF setError
<1>. QED BY Zenon, <1>1, <1>2

-----------------------------------------------------------------------------
(***************************************************************************)
(* Coming on thread.                                                       *)
(***************************************************************************)

LEMMA RunClosedHolds ==
    ASSUME TypeOK, Core, Holding, Draining, NEW d \in Driver, runClosed(d)
    PROVE  Holding'
<1>1. /\ held' = drop(d, "queued") /\ held[d]["queued"] > 0
      /\ d \notin inTask /\ closes[d] # 0
      /\ UNCHANGED <<taskState, pauseRequested, toYield, inTask, isOnThread, isEnqueued,
                     isTerminated, hasBlockingFuture, numSuspensions, closes, pc, why,
                     reclaimer, failedChecks>>
      /\ exception => exception'
    BY ErrorStep DEF runClosed, threadVars, reclaimVars, Core, Places, TypeOK
<1>2. held \in [Driver -> [Holder -> Nat]] /\ HeldOf(d) /\ FlagsOf(d)
    BY Zenon DEF TypeOK, Holding, PlaceOf
<1>3. \A k \in Holder : held'[d][k] = 0
    BY <1>1, <1>2, HeldCounts, OneCount DEF Holder
<1>4. HeldOf(d)' /\ FlagsOf(d)' /\ NotLost(d)'
    BY <1>1, <1>2, <1>3, OneCount DEF HeldOf, FlagsOf, NotLost, holders, Holder, isRunning
<1>5. \A e \in Driver \ {d} : Keeps(e)
    BY <1>1, <1>2, HeldCounts DEF Keeps, Holder
<1>6. executing' = executing /\ toYield' = 0
    BY Zenon, <1>1 DEF executing, Holding, Settled
<1>. QED BY Zenon, <1>1, <1>4, <1>5, <1>6, OneDriverStep

LEMMA EnterRefusedHolds ==
    ASSUME TypeOK, Core, Holding, Draining, NEW d \in Driver, enterRefused(d)
    PROVE  Holding'
<1>1. /\ held[d]["queued"] > 0 /\ isEnqueued' = isEnqueued \ {d}
      /\ UNCHANGED <<taskState, exception, pauseRequested, inTask, isOnThread,
                     hasBlockingFuture, numSuspensions, closes, pc, why, reclaimer>>
    BY Zenon DEF enterRefused, reclaimVars
<1>2. held \in [Driver -> [Holder -> Nat]] /\ PlaceOf(d) /\ HeldOf(d) /\ Settled
    BY Zenon DEF TypeOK, Holding, PlaceOf
<1>3. d \in isEnqueued /\ pc[d] = "off" /\ d \notin hasBlockingFuture
    BY Zenon, <1>1, <1>2 DEF HeldOf
<1>4. d \in isOnThread => d \in isTerminated
    BY Zenon, <1>1, <1>2, <1>3 DEF PlaceOf, FlagsOf, enterRefused, isRunning
<1>5. /\ held' = drop(d, "queued") /\ toYield' = 0 /\ failedChecks' = failedChecks
      /\ isTerminated' \subseteq isTerminated \cup {d} /\ isTerminated \subseteq isTerminated'
      /\ d \in isTerminated' => d \in isTerminated \/ ~isRunning
      /\ isRunning => d \in isTerminated \/ pauseRequested
    BY Zenon, <1>2, <1>3, <1>4, NoYield DEF enterRefused, Settled
<1>6. \A k \in Holder : held'[d][k] = 0
    BY <1>1, <1>2, <1>5, HeldCounts, OneCount DEF Holder
<1>7. HeldOf(d)'
    BY <1>1, <1>2, <1>3, <1>6 DEF HeldOf, holders, Holder
<1>8. FlagsOf(d)' /\ NotLost(d)'
    BY Zenon, <1>1, <1>2, <1>3, <1>5 DEF PlaceOf, FlagsOf, NotLost, isRunning
<1>9. \A e \in Driver \ {d} : Keeps(e)
    BY <1>1, <1>2, <1>5, HeldCounts DEF Keeps, Holder
<1>10. executing' = executing
    BY Zenon, <1>1, <1>5 DEF executing
<1>. QED BY Zenon, <1>1, <1>5, <1>7, <1>8, <1>9, <1>10, OneDriverStep

LEMMA EnterHolds ==
    ASSUME TypeOK, Core, Holding, Draining, NEW d \in Driver, enter(d)
    PROVE  Holding'
<1>1. /\ held[d]["queued"] > 0 /\ held' = drop(d, "queued") /\ pc' = [pc EXCEPT ![d] = "run"]
      /\ isEnqueued' = isEnqueued \ {d} /\ d \notin isTerminated
      /\ hasBlockingFuture' = hasBlockingFuture \ {d} /\ isOnThread' = isOnThread \cup {d}
      /\ UNCHANGED <<taskState, exception, pauseRequested, toYield, inTask, isTerminated,
                     numSuspensions, closes, why, reclaimer, failedChecks>>
    BY Zenon DEF enter, reclaimVars
<1>2. held \in [Driver -> [Holder -> Nat]] /\ pc \in [Driver -> Position]
      /\ PlaceOf(d) /\ HeldOf(d) /\ Settled
    BY Zenon DEF TypeOK, Holding, PlaceOf
<1>3. isRunning /\ ~pauseRequested
    BY Zenon, <1>2, NoYield DEF enter
<1>4. \A k \in Holder : held'[d][k] = 0
    BY <1>1, <1>2, HeldCounts, OneCount DEF Holder
<1>5. HeldOf(d)'
    BY <1>1, <1>2, <1>4 DEF HeldOf, holders, Holder
<1>6. FlagsOf(d)' /\ NotLost(d)'
    BY <1>1, <1>2, <1>3, <1>4 DEF PlaceOf, FlagsOf, NotLost, isRunning, holders, Holder
<1>7. \A e \in Driver \ {d} : Keeps(e)
    BY <1>1, <1>2, HeldCounts DEF Keeps, Holder
<1>8. toYield' = 0
    BY Zenon, <1>1, <1>2 DEF Holding, Settled
<1>. QED BY Zenon, <1>1, <1>3, <1>5, <1>6, <1>7, <1>8, OneDriverStep

-----------------------------------------------------------------------------
(***************************************************************************)
(* On thread.                                                              *)
(***************************************************************************)

\* A thread that has a driver goes on with it; nobody else gets it.
LEMMA ThreadStep ==
    ASSUME TypeOK, Core, Holding, Draining, NEW d \in Driver, NEW p \in Position \ {"off"},
           pc[d] # "off", pc' = [pc EXCEPT ![d] = p], held' = held,
           \A e \in Driver \ {d} : why'[e] = why[e] /\ closes'[e] = closes[e],
           UNCHANGED <<taskState, pauseRequested, toYield, isOnThread, isEnqueued,
                       reclaimer, failedChecks>>,
           exception => exception',
           \A e \in Driver \ {d} :
               /\ e \in inTask' <=> e \in inTask
               /\ e \in isTerminated' <=> e \in isTerminated
               /\ e \in hasBlockingFuture' <=> e \in hasBlockingFuture,
           executing' \subseteq executing \/ ~isRunning \/ ~pauseRequested,
           p = "run" => d \notin hasBlockingFuture',
           p # "run" => (d \in hasBlockingFuture' <=> why'[d] = "kBlock"),
           why'[d] # "kYield", FlagsOf(d)'
    PROVE  Holding'
<1>1. held \in [Driver -> [Holder -> Nat]] /\ pc \in [Driver -> Position]
      /\ PlaceOf(d) /\ HeldOf(d) /\ Settled
    BY Zenon DEF TypeOK, Holding, PlaceOf
<1>2. \A k \in Holder : held'[d][k] = 0
    BY Zenon, <1>1, OneCount
<1>3. HeldOf(d)' /\ NotLost(d)'
    BY <1>1, <1>2 DEF HeldOf, NotLost, holders, Holder
<1>4. \A e \in Driver \ {d} : Keeps(e)
    BY Zenon, <1>1 DEF Keeps
<1>5. toYield' = 0
    BY Zenon, <1>1 DEF Holding, Settled
<1>. QED BY Zenon, <1>3, <1>4, <1>5, OneDriverStep

\* A driver on a thread of a running task is in its loop, leaving or closing.
LEMMA OnThreadFacts ==
    ASSUME TypeOK, Core, Holding, NEW d \in Driver
    PROVE  /\ HeldOf(d) /\ FlagsOf(d) /\ NotLost(d) /\ Settled /\ toYield = 0
           /\ d \in inTask => closes[d] = 0
           /\ pc[d] # "off" => d \in isOnThread
           /\ pc[d] = "run" /\ isRunning => d \notin isTerminated
           /\ pc[d] # "run" => numSuspensions[d] = 0
  BY DEF TypeOK, Core, Places, Running, Holding, PlaceOf, Settled

LEMMA StopAtBoundaryHolds ==
    ASSUME TypeOK, Core, Holding, Draining, NEW d \in Driver, stopAtBoundary(d)
    PROVE  Holding'
<1>1. /\ pc[d] = "run" /\ pc' = [pc EXCEPT ![d] = "leaving"]
      /\ why' = [why EXCEPT ![d] = shouldStop] /\ shouldStop # "kNone" /\ countYield
      /\ UNCHANGED <<taskState, exception, pauseRequested, inTask, isOnThread, isEnqueued,
                     isTerminated, hasBlockingFuture, numSuspensions, closes, held,
                     reclaimer, failedChecks>>
    BY Zenon DEF stopAtBoundary, onThread, threadVars, reclaimVars
<1>2. why \in [Driver -> Reason] /\ pc \in [Driver -> Position] /\ "leaving" \in Position \ {"off"}
    BY Zenon DEF TypeOK, Position
<1>3. /\ toYield' = toYield
      /\ shouldStop \notin {"kYield", "kBlock"} /\ (isRunning => shouldStop = "kPause" /\ pauseRequested)
    BY Zenon, <1>1, OnThreadFacts, NoYield DEF shouldStop
<1>4. FlagsOf(d)'
    BY Zenon, <1>1, <1>2, <1>3, OnThreadFacts DEF FlagsOf, isRunning
<1>5. executing' \subseteq executing
    BY Zenon, <1>1, <1>2 DEF executing
<1>6. d \notin hasBlockingFuture
    BY Zenon, <1>1, OnThreadFacts DEF HeldOf
<1>. QED BY Zenon, <1>1, <1>2, <1>3, <1>4, <1>5, <1>6, ThreadStep

LEMMA BlockHolds ==
    ASSUME TypeOK, Core, Holding, Draining, NEW d \in Driver, block(d)
    PROVE  Holding'
<1>1. /\ pc[d] = "run" /\ pc' = [pc EXCEPT ![d] = "leaving"]
      /\ why' = [why EXCEPT ![d] = "kBlock"]
      /\ hasBlockingFuture' = hasBlockingFuture \cup {d}
      /\ UNCHANGED <<taskState, exception, pauseRequested, toYield, inTask, isOnThread,
                     isEnqueued, isTerminated, numSuspensions, closes, held, reclaimer,
                     failedChecks>>
    BY Zenon DEF block, onThread, taskVars, reclaimVars
<1>2. why \in [Driver -> Reason] /\ pc \in [Driver -> Position] /\ "leaving" \in Position \ {"off"}
    BY Zenon DEF TypeOK, Position
<1>3. FlagsOf(d)'
    BY Zenon, <1>1, <1>2, OnThreadFacts DEF FlagsOf, isRunning
<1>4. executing' \subseteq executing
    BY Zenon, <1>1, <1>2 DEF executing
<1>. QED BY Zenon, <1>1, <1>2, <1>3, <1>4, ThreadStep

LEMMA AtEndHolds ==
    ASSUME TypeOK, Core, Holding, Draining, NEW d \in Driver, atEnd(d)
    PROVE  Holding'
<1>1. /\ pc[d] = "run" /\ pc' = [pc EXCEPT ![d] = "closing"]
      /\ why' = [why EXCEPT ![d] = "kAtEnd"]
      /\ UNCHANGED <<taskState, exception, pauseRequested, toYield, inTask, isOnThread,
                     isEnqueued, isTerminated, hasBlockingFuture, numSuspensions, closes,
                     held, reclaimer, failedChecks>>
    BY Zenon DEF atEnd, onThread, taskVars, threadVars, reclaimVars
<1>2. why \in [Driver -> Reason] /\ pc \in [Driver -> Position] /\ "closing" \in Position \ {"off"}
    BY Zenon DEF TypeOK, Position
<1>3. FlagsOf(d)'
    BY Zenon, <1>1, <1>2, OnThreadFacts DEF FlagsOf, isRunning
<1>4. executing' \subseteq executing
    BY Zenon, <1>1, <1>2 DEF executing
<1>5. d \notin hasBlockingFuture
    BY Zenon, <1>1, OnThreadFacts DEF HeldOf
<1>. QED BY Zenon, <1>1, <1>2, <1>3, <1>4, <1>5, ThreadStep

LEMMA ThrowHolds ==
    ASSUME TypeOK, Core, Holding, Draining, NEW d \in Driver, throw(d)
    PROVE  Holding'
<1>. DEFINE p == IF isRunning /\ ~exception THEN "failing" ELSE "unwinding"
<1>1. /\ pc[d] = "run" /\ pc' = [pc EXCEPT ![d] = p]
      /\ why' = [why EXCEPT ![d] = "kAlreadyTerminated"]
      /\ exception => exception'
      /\ UNCHANGED <<taskState, pauseRequested, toYield, inTask, isOnThread,
                     isEnqueued, isTerminated, hasBlockingFuture, numSuspensions, closes,
                     held, reclaimer, failedChecks>>
    BY Zenon, ErrorStep DEF throw, onThread, threadVars, reclaimVars
<1>2. why \in [Driver -> Reason] /\ pc \in [Driver -> Position]
      /\ p \in Position \ {"off"} /\ p \notin {"run", "leaving", "finishing", "gone"}
    BY Zenon DEF TypeOK, Position
<1>. HIDE DEF p
<1>3. FlagsOf(d)'
    BY Zenon, <1>1, <1>2, OnThreadFacts DEF FlagsOf, isRunning
<1>4. executing' \subseteq executing
    BY Zenon, <1>1, <1>2 DEF executing
<1>5. d \notin hasBlockingFuture
    BY Zenon, <1>1, OnThreadFacts DEF HeldOf
<1>. QED BY Zenon, <1>1, <1>2, <1>3, <1>4, <1>5, ThreadStep

LEMMA UnwindHolds ==
    ASSUME TypeOK, Core, Holding, Draining, NEW d \in Driver, unwind(d)
    PROVE  Holding'
<1>1. /\ pc[d] \in {"unwinding", "failing"} /\ pc' = [pc EXCEPT ![d] = "closing"]
      /\ isTerminated' = isTerminated \cup {d}
      /\ UNCHANGED <<taskState, exception, pauseRequested, toYield, inTask, isOnThread,
                     isEnqueued, hasBlockingFuture, numSuspensions, closes, why,
                     held, reclaimer, failedChecks>>
    BY Zenon DEF unwind, taskVars, reclaimVars
<1>2. pc \in [Driver -> Position] /\ "closing" \in Position \ {"off"}
    BY Zenon DEF TypeOK, Position
<1>3. FlagsOf(d)'
    BY Zenon, <1>1, <1>2, OnThreadFacts DEF FlagsOf, isRunning
<1>4. executing' \subseteq executing
    BY Zenon, <1>1, <1>2 DEF executing
<1>5. why[d] # "kYield" /\ (d \in hasBlockingFuture <=> why[d] = "kBlock")
    BY Zenon, <1>1, OnThreadFacts DEF HeldOf
<1>. QED BY Zenon, <1>1, <1>2, <1>3, <1>4, <1>5, ThreadStep

LEMMA CloseHolds ==
    ASSUME TypeOK, Core, Holding, Draining, NEW d \in Driver, close(d)
    PROVE  Holding'
<1>1. /\ pc[d] = "closing"
      /\ UNCHANGED <<taskState, exception, pauseRequested, toYield, isOnThread, isEnqueued,
                     isTerminated, hasBlockingFuture, numSuspensions, why, held,
                     reclaimer, failedChecks>>
    BY Zenon DEF close, threadVars, reclaimVars
<1>2. pc \in [Driver -> Position] /\ closes \in [Driver -> Nat] /\ inTask \subseteq Driver
    BY Zenon DEF TypeOK
<1>3. PICK p \in {"gone", "finishing", "leaving"} :
         /\ pc' = [pc EXCEPT ![d] = p] /\ inTask' = inTask \ {d} /\ closes'[d] # 0
         /\ \A e \in Driver \ {d} : closes'[e] = closes[e]
    <2>1. CASE isClosed(d)
        BY <1>2, <2>1, OnThreadFacts DEF close, isClosed
    <2>2. CASE ~isClosed(d)
        BY <1>2, <2>2 DEF close
    <2>. QED BY Zenon, <2>1, <2>2
<1>4. p \in Position \ {"off"} /\ p # "run"
    BY Zenon DEF Position
<1>5. FlagsOf(d)'
    BY Zenon, <1>2, <1>3 DEF FlagsOf
<1>6. executing' \subseteq executing
    BY Zenon, <1>1, <1>2, <1>3 DEF executing
<1>7. why[d] # "kYield" /\ (d \in hasBlockingFuture <=> why[d] = "kBlock")
    BY Zenon, <1>1, OnThreadFacts DEF HeldOf
<1>. QED BY Zenon, <1>1, <1>2, <1>3, <1>4, <1>5, <1>6, <1>7, ThreadStep

\* A thread lets go of a driver: the job of Driver::run gets a blocked one.
LEMMA OffThread ==
    ASSUME TypeOK, Core, Holding, Draining, NEW d \in Driver, pc[d] \notin {"off", "run"},
           pc' = [pc EXCEPT ![d] = "off"], held' = holderAfter(d),
           isOnThread' = isOnThread \ {d}, toYield' = 0,
           UNCHANGED <<taskState, exception, pauseRequested, inTask, isEnqueued, isTerminated,
                       hasBlockingFuture, numSuspensions, closes, why, reclaimer,
                       failedChecks>>,
           d \in inTask => pc[d] = "leaving" /\ d \notin isTerminated
    PROVE  Holding'
<1>1. held \in [Driver -> [Holder -> Nat]] /\ pc \in [Driver -> Position]
    BY Zenon DEF TypeOK
<1>2. /\ HeldOf(d) /\ FlagsOf(d) /\ why[d] # "kYield"
      /\ d \in hasBlockingFuture <=> why[d] = "kBlock"
      /\ d \notin isEnqueued
    BY Zenon, OnThreadFacts DEF HeldOf
<1>3. \A k \in Holder : held[d][k] = 0
    BY Zenon, <1>1, <1>2, OneCount
<1>4. held' = IF why[d] = "kBlock" THEN hold(d, "blocking") ELSE held
    BY Zenon, <1>2 DEF holderAfter
<1>5. \A k \in Holder : held'[d][k] = IF why[d] = "kBlock" /\ k = "blocking" THEN 1 ELSE 0
    BY <1>1, <1>3, <1>4, HeldCounts DEF Holder
<1>6. HeldOf(d)'
    BY <1>1, <1>2, <1>5 DEF HeldOf, holders, Holder
<1>7. FlagsOf(d)'
    BY Zenon, <1>1, <1>2 DEF FlagsOf, isRunning
<1>8. NotLost(d)'
    BY <1>1, <1>2, <1>5 DEF FlagsOf, NotLost, Failing, isRunning, holders, Holder
<1>9. \A e \in Driver \ {d} : Keeps(e)
    BY <1>1, <1>4, HeldCounts DEF Keeps, Holder
<1>10. executing' \subseteq executing
    BY Zenon, <1>1 DEF executing
<1>. QED BY Zenon, <1>6, <1>7, <1>8, <1>9, <1>10, OneDriverStep

LEMMA LeaveHolds ==
    ASSUME TypeOK, Core, Holding, Draining, NEW d \in Driver, leave(d)
    PROVE  Holding'
<1>1. /\ pc[d] = "leaving"
      /\ UNCHANGED <<taskState, pauseRequested, inTask, isEnqueued, hasBlockingFuture,
                     numSuspensions, closes, why, reclaimer, failedChecks>>
      /\ toYield' = 0
    BY Zenon, OnThreadFacts, NoYield DEF leave
<1>2. CASE d \notin isTerminated /\ shouldStop # "kTerminate"
    BY Zenon, <1>1, <1>2, OffThread DEF leave
<1>3. CASE d \in isTerminated \/ shouldStop = "kTerminate"
    <2>1. /\ isTerminated' = isTerminated \cup {d} /\ pc' = [pc EXCEPT ![d] = "closing"]
          /\ setError /\ UNCHANGED <<isOnThread, held>>
        BY Zenon, <1>3 DEF leave
    <2>2. exception => exception'
        BY Zenon, <2>1, ErrorStep
    <2>3. pc \in [Driver -> Position] /\ "closing" \in Position \ {"off"}
        BY Zenon DEF TypeOK, Position
    <2>4. FlagsOf(d)'
        BY Zenon, <1>1, <2>1, <2>3, OnThreadFacts DEF FlagsOf, isRunning
    <2>5. executing' \subseteq executing
        BY Zenon, <1>1, <2>1, <2>3 DEF executing
    <2>6. why[d] # "kYield" /\ (d \in hasBlockingFuture <=> why[d] = "kBlock") /\ toYield = 0
        BY Zenon, <1>1, OnThreadFacts DEF HeldOf
    <2>. QED BY Zenon, <1>1, <2>1, <2>2, <2>3, <2>4, <2>5, <2>6, ThreadStep
<1>. QED BY Zenon, <1>2, <1>3

LEMMA LeaveClosedHolds ==
    ASSUME TypeOK, Core, Holding, Draining, NEW d \in Driver, leaveClosed(d)
    PROVE  Holding'
<1>1. d \notin inTask
    BY Zenon, OnThreadFacts DEF leaveClosed, FlagsOf
<1>2. toYield = 0
    BY Zenon, OnThreadFacts
<1>. QED BY Zenon, <1>1, <1>2, OffThread DEF leaveClosed

LEMMA EnterSuspendedHolds ==
    ASSUME TypeOK, Core, Holding, Draining, NEW d \in Driver, enterSuspended(d)
    PROVE  Holding'
<1>1. /\ pc[d] = "run" /\ numSuspensions' = [numSuspensions EXCEPT ![d] = @ + 1]
      /\ UNCHANGED <<taskState, exception, pauseRequested, inTask, isOnThread, isEnqueued,
                     isTerminated, hasBlockingFuture, closes, pc, why, held, reclaimer,
                     failedChecks>>
      /\ toYield' = 0
    BY Zenon, OnThreadFacts, NoYield DEF enterSuspended, driverVars
<1>2. pc \in [Driver -> Position] /\ numSuspensions \in [Driver -> Nat]
      /\ "run" \in Position \ {"off"}
    BY Zenon DEF TypeOK, Position
<1>3. pc' = [pc EXCEPT ![d] = "run"]
    BY Zenon, <1>1, <1>2
<1>4. FlagsOf(d)' /\ d \notin hasBlockingFuture /\ why[d] # "kYield" /\ toYield = 0
    BY Zenon, <1>1, OnThreadFacts DEF FlagsOf, HeldOf, isRunning
<1>5. executing' \subseteq executing
    BY <1>1, <1>2 DEF executing
<1>. QED BY Zenon, <1>1, <1>2, <1>3, <1>4, <1>5, ThreadStep

\* A driver comes back from a suspended section when no pause is requested, from a
\* nested section to the outer one, or in a terminated task.
LEMMA LeaveSuspendedHolds ==
    ASSUME TypeOK, Core, Holding, Draining, NEW d \in Driver, leaveSuspended(d)
    PROVE  Holding'
<1>1. /\ pc[d] = "run" /\ numSuspensions' = [numSuspensions EXCEPT ![d] = @ - 1]
      /\ mayLeaveSuspended(d) /\ numSuspensions[d] > 0
      /\ isTerminated' = IF isRunning THEN isTerminated ELSE isTerminated \cup {d}
      /\ UNCHANGED <<taskState, exception, pauseRequested, toYield, inTask, isOnThread,
                     isEnqueued, hasBlockingFuture, closes, pc, why, held, reclaimer,
                     failedChecks>>
    BY Zenon DEF leaveSuspended, driverVars, reclaimVars, terminateRequested
<1>2. pc \in [Driver -> Position] /\ numSuspensions \in [Driver -> Nat]
      /\ "run" \in Position \ {"off"}
    BY Zenon DEF TypeOK, Position
<1>3. pc' = [pc EXCEPT ![d] = "run"]
    BY Zenon, <1>1, <1>2
<1>4. FlagsOf(d)' /\ d \notin hasBlockingFuture /\ why[d] # "kYield"
    BY Zenon, <1>1, OnThreadFacts DEF FlagsOf, HeldOf, isRunning
<1>5. isRunning /\ pauseRequested => numSuspensions[d] > 1
    BY Zenon, <1>1, OnThreadFacts DEF mayLeaveSuspended, terminateRequested
<1>6. executing' \subseteq executing \/ ~isRunning \/ ~pauseRequested
    BY <1>1, <1>2, <1>5 DEF executing
<1>7. \A e \in Driver \ {d} : e \in isTerminated' <=> e \in isTerminated
    BY Zenon, <1>1
<1>. QED BY Zenon, <1>1, <1>2, <1>3, <1>4, <1>6, <1>7, ThreadStep

-----------------------------------------------------------------------------
(***************************************************************************)
(* Off thread.                                                             *)
(***************************************************************************)

\* A driver that a job or a callback holds is off thread and waits for a future.
LEMMA WaitFacts ==
    ASSUME TypeOK, Core, Holding, NEW d \in Driver, NEW h \in {"blocking", "arming", "armed"},
           held[d][h] > 0
    PROVE  /\ held \in [Driver -> [Holder -> Nat]] /\ HeldOf(d) /\ FlagsOf(d) /\ toYield = 0
           /\ pc[d] = "off" /\ held[d][h] = 1 /\ \A k \in Holder \ {h} : held[d][k] = 0
           /\ d \in hasBlockingFuture /\ d \notin isEnqueued /\ numSuspensions[d] = 0
           /\ isRunning => d \notin isOnThread
<1>1. held \in [Driver -> [Holder -> Nat]] /\ HeldOf(d) /\ FlagsOf(d) /\ toYield = 0
    BY Zenon, OnThreadFacts DEF TypeOK
<1>2. pc[d] = "off" /\ held[d][h] = 1 /\ \A k \in Holder \ {h} : held[d][k] = 0
    BY Zenon, <1>1, OneCount DEF Holder
<1>3. d \in hasBlockingFuture /\ d \notin isEnqueued
    BY <1>1, <1>2 DEF HeldOf, Holder
<1>. QED BY Zenon, <1>1, <1>2, <1>3, OnThreadFacts DEF FlagsOf

LEMMA TestBlockedHolds ==
    ASSUME TypeOK, Core, Holding, Draining, NEW d \in Driver, testBlocked(d)
    PROVE  Holding'
<1>1. /\ held[d]["blocking"] > 0
      /\ held' = IF shouldStop = "kTerminate" THEN drop(d, "blocking")
                 ELSE move(d, "blocking", "arming")
      /\ UNCHANGED <<taskState, exception, pauseRequested, inTask, isOnThread, isEnqueued,
                     isTerminated, hasBlockingFuture, numSuspensions, closes, pc, why,
                     reclaimer, failedChecks>>
      /\ toYield' = 0
    BY Zenon, OnThreadFacts, NoYield DEF testBlocked, threadVars, reclaimVars
<1>2. held \in [Driver -> [Holder -> Nat]] /\ HeldOf(d) /\ FlagsOf(d)
    BY Zenon, OnThreadFacts DEF TypeOK
<1>3. /\ pc[d] = "off" /\ held[d]["blocking"] = 1 /\ \A k \in Holder \ {"blocking"} : held[d][k] = 0
      /\ d \in hasBlockingFuture /\ d \notin isEnqueued
    BY Zenon, <1>1, WaitFacts
<1>4. /\ \A k \in Holder \ {"arming"} : held'[d][k] = 0
      /\ held'[d]["arming"] = IF shouldStop = "kTerminate" THEN 0 ELSE 1
    BY <1>1, <1>2, <1>3, HeldCounts DEF Holder
<1>5. HeldOf(d)' /\ FlagsOf(d)'
    BY <1>1, <1>2, <1>3, <1>4 DEF HeldOf, FlagsOf, holders, Holder, isRunning
<1>6. NotLost(d)'
    BY <1>1, <1>3, <1>4, OnThreadFacts, NoYield DEF NotLost, holders, Holder, isRunning
<1>7. \A e \in Driver \ {d} : Keeps(e)
    BY <1>1, <1>2, HeldCounts DEF Keeps, Holder
<1>8. executing' \subseteq executing
    BY Zenon, <1>1 DEF executing
<1>. QED BY Zenon, <1>1, <1>5, <1>6, <1>7, <1>8, OneDriverStep

\* setResume finds a driver on a thread only if the task is terminated.
LEMMA SetResumeHolds ==
    ASSUME TypeOK, Core, Holding, Draining, NEW d \in Driver, setResume(d)
    PROVE  Holding'
<1>1. /\ held[d]["arming"] > 0
      /\ held' = IF d \in isOnThread THEN drop(d, "arming") ELSE move(d, "arming", "armed")
      /\ failedChecks' \subseteq failedChecks \cup {"setResume"}
      /\ UNCHANGED <<taskState, exception, pauseRequested, toYield, inTask, isOnThread,
                     isEnqueued, isTerminated, hasBlockingFuture, numSuspensions, closes,
                     pc, why, reclaimer>>
    BY Zenon DEF setResume, taskVars, threadVars, reclaimVars
<1>2. held \in [Driver -> [Holder -> Nat]] /\ HeldOf(d) /\ FlagsOf(d) /\ toYield' = 0
    BY Zenon, <1>1, OnThreadFacts DEF TypeOK
<1>3. /\ pc[d] = "off" /\ held[d]["arming"] = 1 /\ \A k \in Holder \ {"arming"} : held[d][k] = 0
      /\ d \in hasBlockingFuture /\ d \notin isEnqueued
      /\ isRunning => d \notin isOnThread
    BY Zenon, <1>1, WaitFacts
<1>4. /\ \A k \in Holder \ {"armed"} : held'[d][k] = 0
      /\ held'[d]["armed"] = IF d \in isOnThread THEN 0 ELSE 1
    BY <1>1, <1>2, <1>3, HeldCounts DEF Holder
<1>5. HeldOf(d)' /\ FlagsOf(d)'
    BY <1>1, <1>2, <1>3, <1>4 DEF HeldOf, FlagsOf, holders, Holder, isRunning
<1>6. NotLost(d)'
    BY <1>1, <1>3, <1>4 DEF NotLost, holders, Holder, isRunning
<1>7. \A e \in Driver \ {d} : Keeps(e)
    BY <1>1, <1>2, HeldCounts DEF Keeps, Holder
<1>8. executing' \subseteq executing
    BY Zenon, <1>1 DEF executing
<1>. QED BY Zenon, <1>1, <1>2, <1>5, <1>6, <1>7, <1>8, OneDriverStep

\* A wake-up enqueues the driver, or leaves it to the resume that ends the pause.
LEMMA FutureDoneHolds ==
    ASSUME TypeOK, Core, Holding, Draining, NEW d \in Driver, futureDone(d)
    PROVE  Holding'
<1>1. /\ held[d]["armed"] > 0
      /\ hasBlockingFuture' = hasBlockingFuture \ {d}
      /\ UNCHANGED <<taskState, exception, pauseRequested, toYield, inTask, isOnThread,
                     isTerminated, numSuspensions, closes, pc, why, reclaimer, failedChecks>>
    BY Zenon DEF futureDone, taskVars, reclaimVars
<1>2. held \in [Driver -> [Holder -> Nat]] /\ HeldOf(d) /\ FlagsOf(d) /\ toYield' = 0
    BY Zenon, <1>1, OnThreadFacts DEF TypeOK
<1>3. /\ pc[d] = "off" /\ held[d]["armed"] = 1 /\ \A k \in Holder \ {"armed"} : held[d][k] = 0
      /\ d \in hasBlockingFuture /\ d \notin isEnqueued
      /\ isRunning => d \notin isOnThread
    BY Zenon, <1>1, WaitFacts
<1>4. /\ held' = IF pauseRequested \/ closes[d] > 0 THEN drop(d, "armed")
                 ELSE move(d, "armed", "queued")
      /\ isEnqueued' = IF pauseRequested THEN isEnqueued ELSE isEnqueued \cup {d}
    BY Zenon DEF futureDone, enqueue
<1>5. /\ \A k \in Holder \ {"queued"} : held'[d][k] = 0
      /\ held'[d]["queued"] = IF pauseRequested \/ closes[d] > 0 THEN 0 ELSE 1
    BY <1>2, <1>3, <1>4, HeldCounts DEF Holder
<1>6. HeldOf(d)' /\ FlagsOf(d)'
    BY <1>1, <1>2, <1>3, <1>4, <1>5 DEF HeldOf, FlagsOf, holders, Holder, isRunning
<1>7. NotLost(d)'
    BY <1>1, <1>3, <1>4, <1>5, OnThreadFacts DEF NotLost, holders, Holder, isRunning
<1>8. \A e \in Driver \ {d} : Keeps(e)
    BY <1>1, <1>2, <1>4, HeldCounts DEF Keeps, Holder
<1>9. executing' \subseteq executing
    BY Zenon, <1>1 DEF executing
<1>. QED BY Zenon, <1>1, <1>2, <1>6, <1>7, <1>8, <1>9, OneDriverStep

\* A broken promise drops the driver and fails the task.
LEMMA FutureFailedHolds ==
    ASSUME TypeOK, Core, Holding, Draining, NEW d \in Driver, futureFailed(d)
    PROVE  Holding'
<1>1. /\ held[d]["armed"] > 0 /\ held' = drop(d, "armed")
      /\ exception => exception'
      /\ isRunning => exception'
      /\ UNCHANGED <<taskState, pauseRequested, toYield, inTask, isOnThread, isEnqueued,
                     isTerminated, numSuspensions, closes, pc, why, reclaimer>>
    BY Zenon, ErrorStep DEF futureFailed, reclaimVars
<1>2. held \in [Driver -> [Holder -> Nat]] /\ HeldOf(d) /\ FlagsOf(d) /\ toYield' = 0
    BY Zenon, <1>1, OnThreadFacts DEF TypeOK
<1>3. /\ pc[d] = "off" /\ held[d]["armed"] = 1 /\ \A k \in Holder \ {"armed"} : held[d][k] = 0
      /\ d \in hasBlockingFuture /\ d \notin isEnqueued /\ numSuspensions[d] = 0
    BY Zenon, <1>1, WaitFacts
<1>4. UNCHANGED <<hasBlockingFuture, failedChecks>>
    BY Zenon, <1>3 DEF futureFailed, enqueueOk
<1>5. \A k \in Holder : held'[d][k] = 0
    BY <1>1, <1>2, <1>3, HeldCounts DEF Holder
<1>6. HeldOf(d)' /\ FlagsOf(d)' /\ NotLost(d)'
    BY <1>1, <1>2, <1>3, <1>4, <1>5 DEF HeldOf, FlagsOf, NotLost, Failing, holders, Holder, isRunning
<1>7. \A e \in Driver \ {d} : Keeps(e)
    BY <1>1, <1>2, <1>4, HeldCounts DEF Keeps, Holder
<1>8. executing' \subseteq executing
    BY Zenon, <1>1, <1>4 DEF executing
<1>. QED BY Zenon, <1>1, <1>2, <1>6, <1>7, <1>8, OneDriverStep

-----------------------------------------------------------------------------
(***************************************************************************)
(* The rest of the world.                                                  *)
(***************************************************************************)

\* The task closes a driver that it took before.
LEMMA CloseByTaskHolds ==
    ASSUME TypeOK, Core, Holding, Draining, NEW d \in Driver, closeByTask(d)
    PROVE  Holding'
<1>1. /\ d \in offThreadDrivers /\ closes' = [closes EXCEPT ![d] = @ + 1]
      /\ UNCHANGED <<taskState, exception, pauseRequested, toYield, inTask, isOnThread,
                     isEnqueued, isTerminated, hasBlockingFuture, numSuspensions, pc, why,
                     held, reclaimer, failedChecks>>
    BY Zenon DEF closeByTask, threadVars, reclaimVars
<1>2. closes \in [Driver -> Nat] /\ d \notin inTask /\ HeldOf(d) /\ FlagsOf(d) /\ toYield = 0
    BY Zenon, <1>1, OnThreadFacts DEF TypeOK, Core, Places
<1>3. closes'[d] # 0
    BY <1>1, <1>2
<1>4. HeldOf(d)' /\ FlagsOf(d)' /\ NotLost(d)'
    BY Zenon, <1>1, <1>2, <1>3 DEF HeldOf, FlagsOf, NotLost, holders, isRunning
<1>5. \A e \in Driver \ {d} : Keeps(e)
    BY Zenon, <1>1, <1>2 DEF Keeps
<1>6. executing' \subseteq executing
    BY Zenon, <1>1 DEF executing
<1>. QED BY Zenon, <1>1, <1>2, <1>4, <1>5, <1>6, OneDriverStep

\* A step that takes drivers from a task that does not run afterwards: the ones that
\* are on no thread, or nobody's; the ones on a thread are told.
LEMMA TakeStep ==
    ASSUME TypeOK, Core, Holding, NEW taken \in SUBSET (inTask \ isOnThread),
           taskState' # "kRunning",
           inTask' = inTask \ taken, isOnThread' = isOnThread \cup taken,
           isTerminated \cup taken \cup (inTask \cap isOnThread) = isTerminated',
           \A e \in Driver : \/ pc'[e] = pc[e]
                             \/ pc[e] = "finishing" /\ pc'[e] \in {"leaving", "gone"},
           toYield' = 0,
           UNCHANGED <<isEnqueued, hasBlockingFuture, closes, why, held>>
    PROVE  Holding'
<1>1. ASSUME NEW e \in Driver PROVE PlaceOf(e)'
    <2>1. HeldOf(e) /\ FlagsOf(e)
        BY Zenon, OnThreadFacts
    <2>2. HeldOf(e)'
        BY Zenon, <2>1 DEF HeldOf, holders
    <2>3. FlagsOf(e)'
        BY Zenon, <2>1 DEF FlagsOf, isRunning
    <2>4. NotLost(e)'
        BY Zenon DEF NotLost, isRunning
    <2>. QED BY Zenon, <2>2, <2>3, <2>4 DEF PlaceOf
<1>2. Settled'
    BY Zenon DEF Settled, isRunning
<1>. QED BY Zenon, <1>1, <1>2 DEF Holding

LEMMA TerminateHolds ==
    ASSUME TypeOK, Core, Holding, NEW s \in {"kFinished", "kFailed", "kCanceled"},
           terminate(s),
           \A e \in Driver : \/ pc'[e] = pc[e]
                             \/ pc[e] = "finishing" /\ pc'[e] \in {"leaving", "gone"},
           UNCHANGED <<toYield, isEnqueued, hasBlockingFuture, closes, why, held, failedChecks>>
    PROVE  Holding'
<1>1. toYield' = 0
    BY Zenon DEF Holding, Settled
<1>2. CASE isRunning
    <2>1. takenByTerminate \in SUBSET (inTask \ isOnThread)
        BY Zenon DEF takenByTerminate
    <2>2. /\ taskState' # "kRunning"
          /\ inTask' = inTask \ takenByTerminate /\ isOnThread' = isOnThread \cup takenByTerminate
          /\ isTerminated \cup takenByTerminate \cup (inTask \cap isOnThread) = isTerminated'
        BY Zenon, <1>2 DEF terminate
    <2>. QED BY Zenon, <1>1, <2>1, <2>2, TakeStep
<1>3. CASE ~isRunning
    <2>1. UNCHANGED <<taskState, isTerminated, isOnThread, inTask>>
        BY Zenon, <1>3 DEF terminate
    <2>2. \A e \in inTask \cap isOnThread : e \in isTerminated
        BY Zenon, <1>3, OnThreadFacts DEF FlagsOf, TypeOK
    <2>3. /\ {} \in SUBSET (inTask \ isOnThread) /\ taskState' # "kRunning"
          /\ inTask' = inTask \ {} /\ isOnThread' = isOnThread \cup {}
          /\ isTerminated \cup {} \cup (inTask \cap isOnThread) = isTerminated'
        BY Zenon, <1>3, <2>1, <2>2 DEF isRunning
    <2>. QED BY Zenon, <1>1, <2>3, TakeStep
<1>. QED BY Zenon, <1>2, <1>3

LEMMA FinishTaskHolds ==
    ASSUME TypeOK, Core, Holding, NEW d \in Driver, finishTask(d)
    PROVE  Holding'
<1>1. \A e \in Driver : \/ pc'[e] = pc[e]
                        \/ pc[e] = "finishing" /\ pc'[e] \in {"leaving", "gone"}
    BY Zenon DEF finishTask, TypeOK
<1>. QED BY Zenon, <1>1, TerminateHolds DEF finishTask

LEMMA TerminatingHolds ==
    ASSUME TypeOK, Core, Holding, failTask \/ cancel \/ consumerFinishes
    PROVE  Holding'
<1>1. CASE failTask
    BY Zenon, <1>1, TerminateHolds DEF failTask, driverVars
<1>2. CASE cancel
    BY Zenon, <1>2, TerminateHolds DEF cancel, driverVars
<1>3. CASE consumerFinishes
    BY Zenon, <1>3, TerminateHolds DEF consumerFinishes, driverVars
<1>. QED BY Zenon, <1>1, <1>2, <1>3

\* A step that leaves the drivers alone; a pause may start and an error may be set.
LEMMA QuietHolds ==
    ASSUME Holding, isRunning /\ Failing => Failing', pauseRequested => pauseRequested',
           UNCHANGED <<taskState, toYield, inTask, threadVars, driverVars>>,
           isRunning /\ reclaimer' \in {"resuming", "failed"} => executing = {} \/ TimedOut'
    PROVE  Holding'
<1>1. ASSUME NEW e \in Driver PROVE PlaceOf(e)'
    <2>1. PlaceOf(e)
        BY Zenon DEF Holding
    <2>2. HeldOf(e)'
        BY Zenon, <2>1 DEF PlaceOf, HeldOf, holders, threadVars, driverVars
    <2>3. FlagsOf(e)'
        BY Zenon, <2>1 DEF PlaceOf, FlagsOf, isRunning, threadVars, driverVars
    <2>4. NotLost(e)'
        BY Zenon, <2>1 DEF PlaceOf, NotLost, isRunning, holders, threadVars, driverVars
    <2>. QED BY Zenon, <2>2, <2>3, <2>4 DEF PlaceOf
<1>2. Settled'
    BY Zenon DEF Holding, Settled, isRunning, executing, threadVars, driverVars
<1>. QED BY Zenon, <1>1, <1>2 DEF Holding

LEMMA QuietActionsHold ==
    ASSUME TypeOK, Core, Holding,
           \/ setAllOutputConsumed \/ requestPause \/ pauseDone \/ reclaimFails \/ reclaimDone
           \/ abortTask \/ UNCHANGED vars
    PROVE  Holding'
<1>1. pauseRequested \in BOOLEAN /\ exception \in BOOLEAN
    BY Zenon DEF TypeOK
<1>2. isRunning /\ reclaimer \in {"resuming", "failed"} => executing = {} \/ TimedOut
    BY Zenon DEF Holding, Settled
<1>3. isRunning /\ reclaimer = "reclaiming" => executing = {}
    BY Zenon DEF Core, ReclaimIsSafe
<1>4. CASE setAllOutputConsumed
    BY Zenon, <1>1, <1>2, <1>4, QuietHolds DEF setAllOutputConsumed, reclaimVars, Failing, TimedOut
<1>5. CASE requestPause
    BY Zenon, <1>1, <1>5, QuietHolds DEF requestPause, Failing
<1>6. CASE pauseDone
    BY Zenon, <1>1, <1>6, QuietHolds DEF pauseDone, taskVars, terminateRequested, Failing
<1>7. CASE reclaimFails
    BY Zenon, <1>1, <1>3, <1>7, QuietHolds DEF reclaimFails, taskVars, Failing, TimedOut
<1>8. CASE reclaimDone
    BY Zenon, <1>1, <1>3, <1>8, QuietHolds DEF reclaimDone, taskVars, Failing
<1>9. CASE abortTask
    <2>1. isRunning => exception'
        BY Zenon, <1>9, ErrorStep DEF abortTask
    <2>. QED BY Zenon, <1>1, <1>9, <2>1, QuietHolds DEF abortTask, Failing
<1>10. CASE UNCHANGED vars
    BY Zenon, <1>1, <1>2, <1>10, QuietHolds DEF vars, taskVars, reclaimVars, Failing, TimedOut
<1>. QED BY Zenon, <1>4, <1>5, <1>6, <1>7, <1>8, <1>9, <1>10

\* resume finds a driver on a thread only if the wait for the pause timed out.
LEMMA NoOffenders ==
    ASSUME TypeOK, Core, Holding, reclaimer \in {"resuming", "failed"}, ~TimedOut
    PROVE  /\ resumeOffenders = {}
           /\ isRunning => \A d \in Driver : pc[d] # "off" => pc[d] = "run" /\ numSuspensions[d] # 0
<1>1. CASE isRunning
    <2>1. executing = {}
        BY Zenon, <1>1 DEF Holding, Settled
    <2>2. \A d \in Driver : pc[d] # "off" => pc[d] = "run" /\ numSuspensions[d] # 0
        BY Zenon, <2>1, OnThreadFacts DEF executing
    <2>3. \A d \in inTask : d \in isOnThread \cup isTerminated => numSuspensions[d] # 0
        BY Zenon, <1>1, <2>2, OnThreadFacts DEF FlagsOf, TypeOK
    <2>4. resumeOffenders = {}
        BY Zenon, <1>1, <2>3 DEF resumeOffenders, resumeCandidates
    <2>. QED BY Zenon, <2>2, <2>4
<1>2. CASE ~isRunning
    BY Zenon, <1>2, OnThreadFacts DEF FlagsOf, TypeOK, resumeOffenders
<1>. QED BY Zenon, <1>1, <1>2

\* The drivers that resume enqueues before its check fails are on no thread and wait
\* for nothing; when no check fails they are all that are so.
LEMMA Enqueued ==
    ASSUME TypeOK, isRunning
    PROVE  /\ \A d \in resumeEnqueues :
                d \in inTask /\ d \notin isEnqueued \cup hasBlockingFuture \cup isOnThread
           /\ resumeOffenders = {} =>
                resumeEnqueues = {d \in inTask : /\ numSuspensions[d] = 0
                                                 /\ d \notin isEnqueued \cup hasBlockingFuture}
<1>1. inTask \subseteq Driver
    BY Zenon DEF TypeOK
<1>2. \A d \in Driver : ~(d < d)
    BY NumDriversAssumption DEF Driver
<1>. QED BY Zenon, <1>1, <1>2 DEF resumeEnqueues, resumeOffenders, resumeCandidates

\* resume enqueues drivers that nobody holds: all of them, or the reclaimer goes on to
\* abort the task.  It closes what terminate left to it.
LEMMA ResumeHolds ==
    ASSUME TypeOK, Core, Holding, resume
    PROVE  Holding'
<1>1. /\ reclaimer \in {"resuming", "failed"}
      /\ reclaimer' = IF reclaimer = "failed" THEN "aborting" ELSE "idle"
      /\ pauseRequested' = FALSE
      /\ UNCHANGED <<taskState, exception, toYield, hasBlockingFuture, numSuspensions, closes,
                     pc, why>>
    BY Zenon DEF resume
<1>2. reclaimer' \in {"aborting", "idle"} /\ toYield' = 0
    BY Zenon, <1>1 DEF Holding, Settled
<1>3. Settled'
    BY Zenon, <1>2 DEF Settled
<1>4. CASE isRunning
    <2>1. /\ isEnqueued' = isEnqueued \cup resumeEnqueues
          /\ held' = [d \in Driver |-> IF d \in resumeEnqueues
                                       THEN [held[d] EXCEPT !["queued"] = @ + 1]
                                       ELSE held[d]]
          /\ UNCHANGED <<isTerminated, isOnThread, inTask>>
        BY Zenon, <1>4 DEF resume
    <2>2. ASSUME NEW d \in Driver PROVE PlaceOf(d)'
        <3>1. HeldOf(d) /\ FlagsOf(d) /\ NotLost(d) /\ held \in [Driver -> [Holder -> Nat]]
            BY Zenon, OnThreadFacts DEF TypeOK
        <3>2. Failing' \/ (reclaimer = "resuming" /\ ~Failing /\ ~TimedOut)
            BY Zenon, <1>1 DEF Failing, TimedOut
        <3>3. ~Failing' /\ pc[d] # "off" => pc[d] = "run" /\ numSuspensions[d] # 0
            BY Zenon, <1>1, <1>4, <3>2, NoOffenders
        <3>4. FlagsOf(d)'
            BY Zenon, <1>1, <2>1, <3>1, <3>3, OnThreadFacts DEF FlagsOf, isRunning
        <3>5. CASE d \in resumeEnqueues
            <4>1. d \notin isEnqueued \cup hasBlockingFuture /\ pc[d] = "off"
                BY Zenon, <1>4, <3>5, Enqueued, OnThreadFacts
            <4>2. \A k \in Holder : held[d][k] = 0
                BY <3>1, <4>1, OneCount DEF HeldOf, Holder
            <4>3. \A k \in Holder : held'[d][k] = IF k = "queued" THEN 1 ELSE 0
                BY <2>1, <3>1, <3>5, <4>2
            <4>4. HeldOf(d)'
                BY <1>1, <2>1, <3>1, <3>5, <4>1, <4>3 DEF HeldOf, holders, Holder
            <4>5. NotLost(d)'
                BY <1>1, <4>1, <4>3 DEF NotLost, holders, Holder
            <4>. QED BY Zenon, <3>4, <4>4, <4>5 DEF PlaceOf
        <3>6. CASE d \notin resumeEnqueues
            <4>1. held'[d] = held[d] /\ (d \in isEnqueued' <=> d \in isEnqueued)
                BY Zenon, <2>1, <3>6
            <4>2. HeldOf(d)'
                BY Zenon, <1>1, <3>1, <4>1 DEF HeldOf, holders
            <4>3. pc[d] # "off" => holders(d) = 1
                BY <3>1, OneCount DEF holders, Holder
            <4>4. pc[d] = "off" => numSuspensions[d] = 0
                BY Zenon, OnThreadFacts
            <4>5. ~Failing' => ~(d \in inTask /\ numSuspensions[d] = 0
                                 /\ d \notin isEnqueued \cup hasBlockingFuture)
                BY Zenon, <1>1, <1>4, <3>2, <3>6, NoOffenders, Enqueued
            <4>6. NotLost(d)'
                BY <1>1, <1>4, <2>1, <3>1, <3>2, <4>1, <4>3, <4>4, <4>5
                   DEF NotLost, isRunning, holders
            <4>. QED BY Zenon, <3>4, <4>2, <4>6 DEF PlaceOf
        <3>. QED BY Zenon, <3>5, <3>6
    <2>. QED BY Zenon, <1>3, <2>2 DEF Holding
<1>5. CASE ~isRunning
    <2>1. /\ resumeCloses \in SUBSET (inTask \ isOnThread)
          /\ taskState' # "kRunning"
          /\ inTask' = inTask \ resumeCloses /\ isOnThread' = isOnThread \cup resumeCloses
          /\ isTerminated' = isTerminated \cup resumeCloses
          /\ UNCHANGED <<isEnqueued, held>>
        BY Zenon, <1>1, <1>5 DEF resume, resumeCloses, isRunning
    <2>2. \A e \in inTask \cap isOnThread : e \in isTerminated
        BY Zenon, <1>5, OnThreadFacts DEF FlagsOf, TypeOK
    <2>3. isTerminated \cup resumeCloses \cup (inTask \cap isOnThread) = isTerminated'
        BY Zenon, <2>1, <2>2
    <2>. QED BY Zenon, <1>1, <1>2, <2>1, <2>3, TakeStep
<1>. QED BY Zenon, <1>4, <1>5

-----------------------------------------------------------------------------
\* The last thread to stop fulfils the promise of the pause.
LEMMA StopDrains ==
    ASSUME Core', UNCHANGED <<numThreads, waiter>> \/ threadStops
    PROVE  Draining
<1>1. CASE threadStops
    <2>1. numThreads' = Cardinality(executing')
        BY Zenon DEF Core, ThreadCount
    <2>2. waiter /\ ~waiter' => numThreads' = 0
        BY Zenon, <1>1 DEF threadStops
    <2>. QED BY Zenon, <2>1, <2>2, CountingHolds, ExecutingCount DEF Draining
<1>. QED BY Zenon, <1>1 DEF Draining

\* All the steps.
LEMMA HoldingStep ==
    ASSUME TypeOK, Core, Core', Holding, ~Yields, [Next]_vars
    PROVE  Holding'
<1>1. ASSUME NEW d \in Driver, DriverStep(d) PROVE Holding'
    <2>1. ~yield(d)
        BY OnThreadFacts DEF HeldOf, yield
    <2>2. CASE leave(d) \/ leaveClosed(d)
        <3>1. UNCHANGED <<numThreads, waiter>> \/ threadStops
            BY Zenon, <2>2 DEF leave, leaveClosed
        <3>. QED BY Zenon, <2>2, <3>1, StopDrains, LeaveHolds, LeaveClosedHolds
    <2>3. CASE finishTask(d)
        BY Zenon, <2>3, FinishTaskHolds
    <2>4. CASE \/ runClosed(d) \/ enterRefused(d) \/ enter(d) \/ unwind(d) \/ close(d)
               \/ testBlocked(d) \/ setResume(d) \/ closeByTask(d)
        <3>1. UNCHANGED waiter
            BY Zenon, <2>4 DEF runClosed, enterRefused, enter, unwind, close, testBlocked,
                               setResume, closeByTask, reclaimVars
        <3>2. Draining
            BY Zenon, <3>1 DEF Draining
        <3>. QED BY Zenon, <2>4, <3>2, RunClosedHolds, EnterRefusedHolds, EnterHolds, UnwindHolds,
                    CloseHolds, TestBlockedHolds, SetResumeHolds, CloseByTaskHolds
    <2>. QED BY Zenon, <1>1, <2>1, <2>2, <2>3, <2>4 DEF DriverStep
<1>2. ASSUME NEW d \in Driver, OperatorStep(d) \/ stopAtBoundary(d) \/ leaveSuspended(d)
      PROVE Holding'
    <2>1. ~stopAtSlice(d)
        BY Zenon DEF stopAtSlice
    <2>2. CASE enterSuspended(d)
        <3>1. UNCHANGED <<numThreads, waiter>> \/ threadStops
            BY Zenon, <2>2 DEF enterSuspended, suspendThread
        <3>. QED BY Zenon, <2>2, <3>1, StopDrains, EnterSuspendedHolds
    <2>3. CASE \/ block(d) \/ atEnd(d) \/ throw(d) \/ futureDone(d) \/ futureFailed(d)
               \/ stopAtBoundary(d) \/ leaveSuspended(d)
        <3>1. UNCHANGED waiter
            BY Zenon, <2>3 DEF block, atEnd, throw, futureDone, futureFailed, stopAtBoundary,
                               leaveSuspended, onThread, reclaimVars
        <3>2. Draining
            BY Zenon, <3>1 DEF Draining
        <3>. QED BY Zenon, <2>3, <3>2, BlockHolds, AtEndHolds, ThrowHolds, FutureDoneHolds,
                    FutureFailedHolds, StopAtBoundaryHolds, LeaveSuspendedHolds
    <2>. QED BY Zenon, <1>2, <2>1, <2>2, <2>3 DEF OperatorStep
<1>3. CASE TaskStep
    BY Zenon, <1>3, TerminatingHolds, QuietActionsHold DEF TaskStep, requestYield
<1>4. CASE ReclaimStep
    BY Zenon, <1>4, QuietActionsHold, ResumeHolds DEF ReclaimStep
<1>5. CASE UNCHANGED vars
    BY Zenon, <1>5, QuietActionsHold
<1>. QED BY Zenon, <1>1, <1>2, <1>3, <1>4, <1>5 DEF Next

LEMMA HoldingInit == Init => Holding
<1>. SUFFICES ASSUME Init PROVE Holding
    BY Zenon
<1>1. ASSUME NEW d \in Driver PROVE PlaceOf(d)
    BY DEF Init, PlaceOf, HeldOf, FlagsOf, NotLost, holders, Holder, isRunning
<1>. QED BY Zenon, <1>1 DEF Init, Holding, Settled

\* What the run says about the holders follows.
LEMMA HoldingGives ==
    ASSUME TypeOK, Holding
    PROVE  OneHolder
<1>1. held \in [Driver -> [Holder -> Nat]] /\ inTask \subseteq Driver
    BY Zenon DEF TypeOK
<1>2. \A d \in Driver : holders(d) \in {0, 1} /\ NotLost(d)
    BY Zenon, <1>1, OneCount DEF Holding, PlaceOf
<1>. QED BY Zenon, <1>1, <1>2 DEF OneHolder, NotLost, Failing

\* The steps that make checks: no other than the ones of mayFail fails.
LEMMA ChecksStep ==
    ASSUME TypeOK, Core, Holding, ~Yields, [Next]_vars
    PROVE  failedChecks' \subseteq failedChecks \cup mayFail
<1>1. ASSUME NEW d \in Driver, DriverStep(d)
      PROVE  failedChecks' \subseteq failedChecks \cup mayFail
    <2>1. ~yield(d)
        BY OnThreadFacts DEF HeldOf, yield
    <2>2. CASE enterRefused(d)
        <3>1. d \in isEnqueued /\ (d \in isOnThread => d \in isTerminated)
            BY Zenon, <2>2, OnThreadFacts DEF HeldOf, FlagsOf, enterRefused
        <3>. QED BY Zenon, <2>2, <3>1 DEF enterRefused
    <2>3. CASE setResume(d)
        <3>1. d \in isOnThread => ~isRunning
            BY Zenon, <2>3, WaitFacts DEF setResume
        <3>2. d \in isOnThread => "setResume" \in mayFail
            BY Zenon, <3>1 DEF mayFail, terminateRequested
        <3>. QED BY Zenon, <2>3, <3>2 DEF setResume
    <2>4. CASE \/ runClosed(d) \/ enter(d) \/ unwind(d) \/ close(d) \/ finishTask(d)
               \/ leave(d) \/ leaveClosed(d) \/ testBlocked(d) \/ closeByTask(d)
        <3>1. UNCHANGED failedChecks
            BY Zenon, <2>4 DEF runClosed, enter, unwind, close, finishTask, leave, leaveClosed,
                               testBlocked, closeByTask
        <3>. QED BY Zenon, <3>1
    <2>. QED BY Zenon, <1>1, <2>1, <2>2, <2>3, <2>4 DEF DriverStep
<1>2. ASSUME NEW d \in Driver, OperatorStep(d) \/ stopAtBoundary(d) \/ leaveSuspended(d)
      PROVE  failedChecks' \subseteq failedChecks \cup mayFail
    <2>1. CASE futureFailed(d)
        <3>1. d \in hasBlockingFuture /\ d \notin isEnqueued /\ numSuspensions[d] = 0
            BY Zenon, <2>1, WaitFacts DEF futureFailed
        <3>2. UNCHANGED failedChecks
            BY Zenon, <2>1, <3>1 DEF futureFailed, enqueueOk
        <3>. QED BY Zenon, <3>2
    <2>2. CASE ~futureFailed(d)
        <3>1. UNCHANGED failedChecks
            BY Zenon, <1>2, <2>2 DEF OperatorStep, stopAtSlice, block, atEnd, throw,
                      enterSuspended, futureDone, stopAtBoundary, leaveSuspended, onThread
        <3>. QED BY Zenon, <3>1
    <2>. QED BY Zenon, <2>1, <2>2
<1>3. CASE resume
    <2>1. ~TimedOut => resumeOffenders = {}
        BY Zenon, <1>3, NoOffenders DEF resume
    <2>2. TimedOut => "resume" \in mayFail
        BY Zenon DEF mayFail, TimedOut
    <2>. QED BY Zenon, <1>3, <2>1, <2>2 DEF resume
<1>4. CASE (TaskStep \/ ReclaimStep) /\ ~resume
    <2>1. UNCHANGED failedChecks
        BY Zenon, <1>4 DEF TaskStep, ReclaimStep, failTask, cancel, setAllOutputConsumed,
                  consumerFinishes, requestYield, requestPause, pauseDone, reclaimFails,
                  reclaimDone, abortTask
    <2>. QED BY Zenon, <2>1
<1>5. CASE UNCHANGED vars
    BY Zenon, <1>5 DEF vars
<1>. QED BY Zenon, <1>1, <1>2, <1>3, <1>4, <1>5 DEF Next

-----------------------------------------------------------------------------
\* Without yields the holders of a driver are as the code means them.
THEOREM HoldersInvariant ==
    ASSUME ~Yields
    PROVE  Spec => []Holding
<1>1. IInv => TypeOK /\ Core
  BY Zenon DEF IInv, Core
<1>2. IInv' => Core'
  BY Zenon DEF IInv, Core
<1>3. IInv /\ IInv' /\ Holding /\ [Next]_vars => Holding'
  BY Zenon, <1>1, <1>2, HoldingStep
<1> QED
  BY <1>3, HoldingInit, Invariant, PTL DEF Spec

\* A driver of a healthy task is held by exactly one job, thread or future, or is
\* left to resume: no driver runs twice and no wake-up is lost, for any number of
\* drivers, pauses that are granted or time out, suspensions and blocked operators,
\* as long as nothing yields.
THEOREM DriversHaveOneHolder ==
    ASSUME ~Yields
    PROVE  Spec => []OneHolder
<1>1. IInv /\ Holding => OneHolder
  BY HoldingGives DEF IInv
<1> QED
  BY <1>1, Invariant, HoldersInvariant, PTL

\* In the same executions the checks of enter, enqueue, the callback and Driver::run
\* never fail; the one of setResume may in a terminated task, and the one of resume
\* after a pause that timed out.
THEOREM LifeCycleChecksHold ==
    ASSUME ~Yields
    PROVE  Spec => ChecksHold
<1>1. IInv => TypeOK /\ Core
  BY Zenon DEF IInv, Core
<1>2. IInv /\ Holding /\ [Next]_vars => [failedChecks' \subseteq failedChecks \cup mayFail]_vars
  BY Zenon, <1>1, ChecksStep
<1> QED
  BY <1>2, Invariant, HoldersInvariant, PTL DEF Spec, ChecksHold
=============================================================================
