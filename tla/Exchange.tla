------------------------------ MODULE Exchange ------------------------------
(***************************************************************************)
(* The receiving side of a shuffle: the Exchange operators of one pipeline *)
(* (bolt/exec/Exchange.cpp), the ExchangeClient and the ExchangeQueue they *)
(* share, the exchange sources, and the splits of the exchange node in the *)
(* Task, each of which names an upstream task.                             *)
(*                                                                         *)
(* A critical section of the mutex of the queue or of the mutex of the     *)
(* task is one step.  What the code does after it has released the mutex   *)
(* (closing sources and the queue, running the callback of a response)     *)
(* are steps of their own where another thread can tell.                   *)
(*                                                                         *)
(* Where the driver of an Exchange is, pc, is one of                       *)
(*   "ready"   on thread or in the queue of the executor, before isBlocked *)
(*   "splits"  in the loop of getSplits                                    *)
(*   "adding"  in addTaskIds                                               *)
(*   "next"    before ExchangeClient::next                                 *)
(*   "wait"    blocked on the futures that isBlocked returned              *)
(*   "pages"   currentPages_ is not empty                                  *)
(*   "end"     atEnd_ and no pages                                         *)
(*   "failed"  an exception left the operator                              *)
(*   "closed"  Exchange::close has been called                             *)
(***************************************************************************)
EXTENDS Integers, FiniteSets, Sequences, SequencesExt, FiniteSetsExt

CONSTANTS
    TaskIds,            \* the upstream tasks
    SplitDriver,        \* the driver with driverId 0, which processes the splits
    Scenarios,          \* the pipelines to look at, and what may happen to each
    MaxQueuedBytes,     \* maxQueuedBytes_
    DefaultPageBytes,   \* the page size assumed before the first page (1 MB)
    MaxBytes            \* the batch size a driver asks the client for

\* A scenario: the drivers of the pipeline, the sizes of the pages of each
\* upstream task, how often its split may be added, and whether requests and the
\* creation of sources may fail, the task may be cancelled and a driver may end before its input does.
ASSUME ScenarioAssumption ==
    \A s \in Scenarios :
        /\ SplitDriver \in s.drivers
        /\ s.output \in [TaskIds -> Seq(Nat \ {0})]
        /\ s.copies \in [TaskIds -> Nat]
        /\ s.failures \in BOOLEAN /\ s.cancels \in BOOLEAN /\ s.earlyEnd \in BOOLEAN

VARIABLES
    task,       \* Task: its scenario and state, the splits of the node
    added,      \* how often the split of each task was added
    queue,      \* ExchangeQueue
    client,     \* ExchangeClient
    source,     \* the ExchangeSource of each task
    driver,     \* the Exchange operator of each driver and its thread
    delivered,  \* the number of pages of each task that drivers dequeued
    told        \* the upstream tasks told that their data is not needed

vars == <<task, added, queue, client, source, driver, delivered, told>>

Drivers == task.scenario.drivers
Output == task.scenario.output

\* The entry in promises_ of a future that nobody holds any more.
Stale == "stale"

NewSource == [state |-> "idle",         \* of its request
              maxBytes |-> 0,           \* of its request
              received |-> 0,           \* pages in the queue or beyond
              atEnd |-> FALSE,          \* atEnd_
              productive |-> FALSE]     \* the last response had data

Init ==
    /\ \E s \in Scenarios :
         task = [scenario |-> s, state |-> "running", splits |-> <<>>, noMoreSplits |-> FALSE]
    /\ added = [t \in TaskIds |-> 0]
    /\ queue = [pages |-> <<>>, totalBytes |-> 0, receivedPages |-> 0,
                receivedBytes |-> 0, numSources |-> 0, numCompleted |-> 0,
                noMoreSources |-> FALSE, atEnd |-> FALSE, error |-> FALSE,
                promises |-> <<>>, closed |-> FALSE]
    /\ client = [remoteTaskIds |-> {}, sources |-> {}, closed |-> FALSE,
                 producing |-> <<>>, empty |-> <<>>, toClose |-> {},
                 uncreated |-> {}]
    /\ source = [t \in TaskIds |-> NewSource]
    /\ driver = [d \in Drivers |-> [pc |-> "ready", taskIds |-> {},
                                    noMoreSplits |-> FALSE, atEnd |-> FALSE,
                                    splitFuture |-> "none"]]
    /\ delivered = [t \in TaskIds |-> 0]
    /\ told = {}

pages(t, first, last) == [i \in 1..(last - first + 1) |->
                            [task |-> t, number |-> first + i - 1]]
bytes(page) == Output[page.task][page.number]
bytesOf(ps) == FoldSeq(LAMBDA page, sum : bytes(page) + sum, 0, ps)

-----------------------------------------------------------------------------
(***************************************************************************)
(* ExchangeClient: which sources to ask for more data.                     *)
(***************************************************************************)
isRequestPending(src, t) == src[t].state = "pending"

getAveragePageSize(q) ==
    LET average == IF q.receivedPages > 0 THEN q.receivedBytes \div q.receivedPages ELSE 0
    IN  IF average = 0 THEN DefaultPageBytes ELSE Min({MaxQueuedBytes, average})

getNumSourcesToRequest(c, q, src) ==
    LET numPending == Cardinality({t \in c.sources : isRequestPending(src, t)})
        numToRequest ==
            Max({1, (MaxQueuedBytes - q.totalBytes) \div getAveragePageSize(q)})
    IN  Max({0, numToRequest - numPending})

shouldRequest(src, t) == ~src[t].atEnd /\ ~isRequestPending(src, t)

\* How many sources the loop pops from 'sources' to find n to request.
numPopped(src, sources, n) ==
    LET found(i) == Len(SelectSeq(SubSeq(sources, 1, i), LAMBDA t : shouldRequest(src, t)))
    IN  Min({i \in 0..Len(sources) : found(i) = n \/ i = Len(sources)})

\* Mutant: sources are asked however much is queued.
neverFull(q) == FALSE

isFull(q) == q.totalBytes >= MaxQueuedBytes

\* The client and the sources after pickSourcesToRequestLocked, which marks
\* the picked ones as pending.  The requests leave after the mutex; as they may
\* be answered at any time after that, this needs no step of its own.
pickSourcesToRequest(c, q, src) ==
    LET requested(sources, k) ==
            {t \in ToSet(SubSeq(sources, 1, k)) : shouldRequest(src, t)}
    IN  IF c.closed \/ isFull(q)
          THEN client' = c /\ source' = src
          ELSE \E n \in {getNumSourcesToRequest(c, q, src)} :
               \E k1 \in {numPopped(src, c.producing, n)} :
               \E k2 \in {numPopped(src, c.empty, n - Cardinality(requested(c.producing, k1)))} :
               \E picked \in {requested(c.producing, k1) \cup requested(c.empty, k2)} :
                 /\ client' = [c EXCEPT !.producing = SubSeq(@, k1 + 1, Len(@)),
                                        !.empty = SubSeq(@, k2 + 1, Len(@))]
                 /\ source' = [t \in TaskIds |->
                                 IF t \in picked
                                   THEN [src[t] EXCEPT !.state = "pending",
                                                       !.maxBytes = getAveragePageSize(q)]
                                   ELSE src[t]]

-----------------------------------------------------------------------------
(***************************************************************************)
(* ExchangeQueue.                                                          *)
(***************************************************************************)

\* Mutant: the bytes of a page are not added to the total.
enqueueUncounted(q, ps) ==
    [q EXCEPT !.pages = @ \o ps,
              !.receivedPages = @ + Len(ps),
              !.receivedBytes = @ + bytesOf(ps),
              !.promises = SubSeq(@, 1, Len(@) - Len(ps))]

\* Mutant: a page goes to the front of the queue.
enqueueFront(q, ps) ==
    [q EXCEPT !.pages = ps \o @,
              !.totalBytes = @ + bytesOf(ps),
              !.receivedPages = @ + Len(ps),
              !.receivedBytes = @ + bytesOf(ps),
              !.promises = SubSeq(@, 1, Len(@) - Len(ps))]

\* Mutant: a page resumes nobody.
enqueueSilent(q, ps) ==
    [q EXCEPT !.pages = @ \o ps,
              !.totalBytes = @ + bytesOf(ps),
              !.receivedPages = @ + Len(ps),
              !.receivedBytes = @ + bytesOf(ps)]

\* A page resumes the driver whose promise was added last.
enqueue(q, ps) ==
    [q EXCEPT !.pages = @ \o ps,
              !.totalBytes = @ + bytesOf(ps),
              !.receivedPages = @ + Len(ps),
              !.receivedBytes = @ + bytesOf(ps),
              !.promises = SubSeq(@, 1, Len(@) - Len(ps))]

\* Mutant: the end does not wait for the last source to be added.
checkCompleteEarly(q) ==
    IF q.numCompleted = q.numSources
      THEN [q EXCEPT !.atEnd = TRUE, !.promises = <<>>]
      ELSE q

checkComplete(q) ==
    IF q.noMoreSources /\ q.numCompleted = q.numSources
      THEN [q EXCEPT !.atEnd = TRUE, !.promises = <<>>]
      ELSE q

setError(q) ==
    IF q.error
      THEN q
      ELSE [q EXCEPT !.error = TRUE, !.atEnd = TRUE, !.pages = <<>>, !.promises = <<>>]

\* The number of pages dequeueLocked takes: what fits, and at least one.
numDequeued ==
    Max({n \in 0..Len(queue.pages) : n <= 1 \/ bytesOf(SubSeq(queue.pages, 1, n)) <= MaxBytes})

\* The promises that left the queue are fulfilled.  A driver resumed by data
\* drops its future for a split.
resume(q) ==
    [d \in Drivers |->
        IF /\ driver[d].pc = "wait"
           /\ d \in ToSet(queue.promises) \ ToSet(q.promises)
          THEN [driver[d] EXCEPT !.pc = "ready", !.splitFuture = "none"]
          ELSE driver[d]]

becomes(q) == queue' = q /\ driver' = resume(q)

queueBecomes(e) == \E q \in {e} : becomes(q)

-----------------------------------------------------------------------------
(***************************************************************************)
(* ExchangeClient: sources come and go.                                    *)
(***************************************************************************)

\* What ExchangeSource::create may do: no factory may match the task id, or
\* the factory may fail.
createOutcomes == IF task.scenario.failures THEN BOOLEAN ELSE {TRUE}

\* create throws, after the id is in remoteTaskIds_, or addSourceLocked does,
\* after the source is in sources_.
addThrows(t, created) ==
    /\ t \notin client.remoteTaskIds
    /\ ~created \/ (~client.closed /\ queue.noMoreSources)

\* The history field 'uncreated' keeps the ids without a source: the same id
\* added again is a duplicate.
addRemoteTaskId(t, created) ==
    LET known == [client EXCEPT !.remoteTaskIds = @ \cup {t}]
        withSource == [known EXCEPT !.sources = @ \cup {t}]
        counted == [queue EXCEPT !.numSources = @ + 1]
    IN  CASE t \in client.remoteTaskIds ->
               UNCHANGED <<client, queue, source, told>>
          [] t \notin client.remoteTaskIds /\ ~created ->
               /\ client' = [known EXCEPT !.uncreated = @ \cup {t}]
               /\ UNCHANGED <<queue, source, told>>
          [] t \notin client.remoteTaskIds /\ created /\ client.closed ->
               /\ client' = known
               /\ told' = told \cup {t}
               /\ UNCHANGED <<queue, source>>
          [] created /\ addThrows(t, created) ->
               /\ client' = withSource
               /\ UNCHANGED <<queue, source, told>>
          [] OTHER ->
               /\ queue' = counted
               /\ \E c \in {[withSource EXCEPT !.producing = Append(@, t)]} :
                    pickSourcesToRequest(c, counted, source)
               /\ UNCHANGED told

noMoreSources == checkComplete([queue EXCEPT !.noMoreSources = TRUE])

\* The first part of close, under the mutex of the queue.
closeClient ==
    client' = IF client.closed
                THEN client
                ELSE [client EXCEPT !.closed = TRUE, !.sources = {},
                                    !.toClose = client.sources]

\* The second part: the sources that were open, then the queue.  The pages are
\* dropped, their bytes are not.
closeQueue ==
    /\ client.closed
    /\ ~queue.closed
    /\ client' = [client EXCEPT !.toClose = {}]
    /\ told' = told \cup client.toClose
    /\ queueBecomes([queue EXCEPT !.closed = TRUE, !.pages = <<>>, !.promises = <<>>])
    /\ UNCHANGED <<task, added, source, delivered>>

-----------------------------------------------------------------------------
(***************************************************************************)
(* The life of a request.  The answers are those of an exchange source,    *)
(* which enqueues the pages itself and then fulfils the promise of the     *)
(* request; the callback of the client runs later, on the executor.        *)
(***************************************************************************)
\* At least one page if there is any, and no more than was asked for.
respond(t) ==
    /\ source[t].state = "pending"
    /\ \E n \in 0..(Len(Output[t]) - source[t].received), atEnd \in BOOLEAN :
         \E ps \in {pages(t, source[t].received + 1, source[t].received + n)} :
         \E filled \in {enqueue(queue, ps)} :
             /\ n > 0 \/ atEnd
             /\ n > 1 => bytesOf(ps) <= source[t].maxBytes
             /\ atEnd => source[t].received + n = Len(Output[t])
             /\ source' = [source EXCEPT ![t].state = "answered",
                                         ![t].received = @ + n,
                                         ![t].maxBytes = 0,
                                         ![t].atEnd = atEnd,
                                         ![t].productive = n > 0]
             /\ queueBecomes(IF atEnd
                               THEN checkComplete([filled EXCEPT !.numCompleted = @ + 1])
                               ELSE filled)
             /\ told' = IF atEnd THEN told \cup {t} ELSE told
    /\ UNCHANGED <<task, added, client, delivered>>

\* The upstream task has no data within maxWaitSeconds.
timeOut(t) ==
    /\ source[t].state = "pending"
    /\ source' = [source EXCEPT ![t].state = "answered", ![t].maxBytes = 0]
    /\ UNCHANGED <<task, added, queue, client, driver, delivered, told>>

requestFails(t) ==
    /\ task.scenario.failures
    /\ source[t].state = "pending"
    /\ source' = [source EXCEPT ![t].state = "idle", ![t].maxBytes = 0]
    /\ queueBecomes(setError(queue))
    /\ UNCHANGED <<task, added, client, delivered, told>>

\* Mutant: a source that had no data is not asked again.
requeuedProductive(t) ==
    IF ~source[t].atEnd /\ source[t].productive
      THEN [client EXCEPT !.producing = Append(@, t)]
      ELSE client

\* The client as the callback leaves it, before it picks the next sources.
requeued(t) ==
    CASE source[t].atEnd -> client
      [] ~source[t].atEnd /\ source[t].productive ->
           [client EXCEPT !.producing = Append(@, t)]
      [] OTHER -> [client EXCEPT !.empty = Append(@, t)]

\* Mutant: the callback leaves the next request to the drivers.
responseCallbackIdle(t) ==
    /\ source[t].state = "answered"
    /\ source' = [source EXCEPT ![t].state = "idle", ![t].productive = FALSE]
    /\ client' = IF client.closed THEN client ELSE requeued(t)
    /\ UNCHANGED <<task, added, queue, driver, delivered, told>>

responseCallback(t) ==
    /\ source[t].state = "answered"
    /\ \E answered \in {[source EXCEPT ![t].state = "idle", ![t].productive = FALSE]},
         c \in {IF client.closed THEN client ELSE requeued(t)} :
           pickSourcesToRequest(c, queue, answered)
    /\ UNCHANGED <<task, added, queue, driver, delivered, told>>

-----------------------------------------------------------------------------
(***************************************************************************)
(* The Exchange operator.                                                  *)
(***************************************************************************)
processesSplits(d) ==
    d = SplitDriver /\ driver[d].splitFuture = "none" /\ ~driver[d].noMoreSplits

isBlocked(d) ==
    /\ driver[d].pc = "ready"
    /\ processesSplits(d)
    /\ driver' = [driver EXCEPT ![d].pc = "splits"]
    /\ UNCHANGED <<task, added, queue, client, source, delivered, told>>

\* isBlocked has come to the call of ExchangeClient::next.
callsNext(d) == driver[d].pc = "next" \/ (driver[d].pc = "ready" /\ ~processesSplits(d))

\* One round of the loop of getSplits: a split, a future, or the end.
getSplits(d) ==
    /\ driver[d].pc = "splits"
    /\ IF task.splits # <<>>
         THEN /\ driver' = [driver EXCEPT ![d].taskIds = @ \cup {Head(task.splits)}]
              /\ task' = [task EXCEPT !.splits = Tail(@)]
         ELSE /\ driver' = IF task.noMoreSplits
                             THEN [driver EXCEPT ![d].pc = "adding", ![d].noMoreSplits = TRUE]
                             ELSE [driver EXCEPT ![d].pc = "adding", ![d].splitFuture = "held"]
              /\ UNCHANGED task
    /\ UNCHANGED <<added, queue, client, source, delivered, told>>

\* The task ids are shuffled.
addTaskIds(d) ==
    /\ driver[d].pc = "adding"
    /\ \E t \in driver[d].taskIds, created \in createOutcomes :
         /\ addRemoteTaskId(t, created)
         /\ driver' = [driver EXCEPT ![d].taskIds = @ \ {t},
                                     ![d].pc = IF addThrows(t, created) THEN "failed" ELSE @]
    /\ UNCHANGED <<task, added, delivered>>

noMoreRemoteTasks(d) ==
    /\ driver[d].pc = "adding"
    /\ driver[d].taskIds = {}
    /\ \E q \in {IF driver[d].noMoreSplits THEN noMoreSources ELSE queue} :
           /\ queue' = q
           /\ driver' = [resume(q) EXCEPT ![d].pc = "next"]
    /\ UNCHANGED <<task, added, client, source, delivered, told>>

\* dequeueLocked adds a promise whenever it drains the queue, also when it
\* returns pages and the caller drops the future.  A driver whose split is
\* there already does not wait either.
dequeue(d, n, waits) ==
    [queue EXCEPT
       !.pages = SubSeq(@, n + 1, Len(@)),
       !.totalBytes = @ - bytesOf(SubSeq(queue.pages, 1, n)),
       !.promises = IF n = Len(queue.pages) /\ ~queue.atEnd
                      THEN Append(@, IF waits THEN d ELSE Stale)
                      ELSE @]

next(d) ==
    /\ callsNext(d)
    /\ ~queue.error
    /\ \E n \in {numDequeued} :
       \E atEnd \in {n = Len(queue.pages) /\ queue.atEnd} :
       \E waits \in {n = 0 /\ ~atEnd /\ driver[d].splitFuture # "ready"} :
       \E q \in {dequeue(d, n, waits)} :
         /\ queue' = q
         /\ delivered' = [t \in TaskIds |-> delivered[t] +
              Len(SelectSeq(SubSeq(queue.pages, 1, n), LAMBDA page : page.task = t))]
         /\ driver' = [driver EXCEPT
              ![d].atEnd = atEnd,
              ![d].pc = CASE n > 0 -> "pages"
                          [] n = 0 /\ atEnd -> "end"
                          [] waits -> "wait"
                          [] OTHER -> "ready",
              ![d].splitFuture = CASE n > 0 \/ atEnd -> @
                                   [] waits /\ @ = "held" -> "armed"
                                   [] OTHER -> "none"]
         /\ IF atEnd \/ (n > 0 /\ q.totalBytes > MaxQueuedBytes)
              THEN UNCHANGED <<client, source>>
              ELSE pickSourcesToRequest(client, q, source)
    /\ UNCHANGED <<task, added, told>>

nextThrows(d) ==
    /\ callsNext(d)
    /\ queue.error
    /\ driver' = [driver EXCEPT ![d].pc = "failed"]
    /\ UNCHANGED <<task, added, queue, client, source, delivered, told>>

getOutput(d) ==
    /\ driver[d].pc = "pages"
    /\ driver' = [driver EXCEPT ![d].pc = IF driver[d].atEnd THEN "end" ELSE "ready"]
    /\ UNCHANGED <<task, added, queue, client, source, delivered, told>>

\* A driver closes its operators at its end, after an error, when an operator
\* downstream needs no more input, and when the task has terminated.
mayClose(d) ==
    \/ driver[d].pc = "end"
    \/ task.scenario.earlyEnd /\ driver[d].pc \in {"ready", "pages"}
    \/ task.state # "running" /\ driver[d].pc \in {"ready", "pages", "wait", "failed"}

close(d) ==
    /\ mayClose(d)
    /\ closeClient
    /\ driver' = [driver EXCEPT ![d].pc = "closed", ![d].splitFuture = "none"]
    /\ UNCHANGED <<task, added, queue, source, delivered, told>>

-----------------------------------------------------------------------------
(***************************************************************************)
(* Task: splits and termination.                                           *)
(***************************************************************************)

\* The promise for the next split is fulfilled.  The split driver is the only
\* one to add promises and the last one is the one to be taken, so a promise
\* whose future was dropped is never taken instead of one that is waited for.
splitArrives ==
    /\ driver' = [driver EXCEPT ![SplitDriver] =
         CASE @.splitFuture = "armed" -> [@ EXCEPT !.pc = "ready", !.splitFuture = "none"]
           [] @.splitFuture = "held" -> [@ EXCEPT !.splitFuture = "ready"]
           [] OTHER -> @]
    /\ queue' = IF driver[SplitDriver].splitFuture = "armed"
                  THEN [queue EXCEPT !.promises =
                          [i \in DOMAIN @ |-> IF @[i] = SplitDriver THEN Stale ELSE @[i]]]
                  ELSE queue

\* After termination an exception of addRemoteTaskId goes to the caller.
addSplit(t) ==
    /\ ~task.noMoreSplits
    /\ added[t] < task.scenario.copies[t]
    /\ added' = [added EXCEPT ![t] = @ + 1]
    /\ IF task.state = "running"
         THEN /\ task' = [task EXCEPT !.splits = Append(@, t)]
              /\ splitArrives
              /\ UNCHANGED <<client, source, told>>
         ELSE /\ \E created \in createOutcomes : addRemoteTaskId(t, created)
              /\ UNCHANGED <<task, driver>>
    /\ UNCHANGED delivered

noMoreSplits ==
    /\ ~task.noMoreSplits
    /\ task' = [task EXCEPT !.noMoreSplits = TRUE]
    /\ IF task.state = "running"
         THEN splitArrives
         ELSE queueBecomes(noMoreSources)
    /\ UNCHANGED <<added, client, source, delivered, told>>

\* terminate, in the order of its critical sections: the drivers off thread
\* are taken and closed, the client is closed, the splits left over go to the
\* client, which is closed by then and only tells the upstream tasks.
terminate ==
    /\ task.state = "running"
    /\ \/ task.scenario.cancels
       \/ \E d \in Drivers : driver[d].pc = "failed"
       \/ \A d \in Drivers : driver[d].pc = "closed"
    /\ task' = [task EXCEPT !.state = "terminated"]
    /\ driver' = [d \in Drivers |->
                    IF driver[d].pc = "wait"
                      THEN [driver[d] EXCEPT !.pc = "closed", !.splitFuture = "none"]
                      ELSE driver[d]]
    /\ UNCHANGED <<added, queue, client, source, delivered, told>>

terminateClient ==
    /\ task.state = "terminated"
    /\ task' = [task EXCEPT !.state = "clientClosed"]
    /\ closeClient
    /\ UNCHANGED <<added, queue, source, driver, delivered, told>>

\* Mutant: the first split whose source cannot be created ends the loop.
terminateSplitsUncaught ==
    /\ task.state = "clientClosed"
    /\ LET new == ToSet(task.splits) \ client.remoteTaskIds
       IN  \E failing \in SUBSET new, reached \in SUBSET new :
             /\ failing # {} => task.scenario.failures /\ Cardinality(failing) = 1
             /\ failing = {} => reached = new
             /\ failing \subseteq reached
             /\ client' = [client EXCEPT !.remoteTaskIds = @ \cup reached,
                                        !.uncreated = @ \cup failing]
             /\ told' = told \cup (reached \ failing)
    /\ task' = [task EXCEPT !.state = "done", !.splits = <<>>]
    /\ UNCHANGED <<added, queue, source, driver, delivered>>

\* A split whose source cannot be created is logged and the loop goes on: what
\* create throws is a BoltRuntimeError, or made one by addRemoteTaskId.
terminateSplits ==
    /\ task.state = "clientClosed"
    /\ LET left == ToSet(task.splits)
           new == left \ client.remoteTaskIds
       IN  /\ \E failing \in SUBSET new :
                /\ failing # {} => task.scenario.failures
                /\ client' = [client EXCEPT !.remoteTaskIds = @ \cup left,
                                           !.uncreated = @ \cup failing]
                /\ told' = told \cup (new \ failing)
           /\ queueBecomes(IF left # {} /\ task.noMoreSplits THEN noMoreSources ELSE queue)
    /\ task' = [task EXCEPT !.state = "done", !.splits = <<>>]
    /\ UNCHANGED <<added, source, delivered>>

-----------------------------------------------------------------------------
DriverStep(d) == \/ isBlocked(d) \/ getSplits(d) \/ addTaskIds(d) \/ noMoreRemoteTasks(d)
                 \/ next(d) \/ nextThrows(d) \/ getOutput(d)

Next ==
    \/ \E d \in Drivers : DriverStep(d) \/ close(d)
    \/ \E t \in TaskIds : \/ respond(t) \/ timeOut(t) \/ requestFails(t)
                          \/ responseCallback(t) \/ addSplit(t)
    \/ closeQueue \/ noMoreSplits \/ terminate \/ terminateClient \/ terminateSplits

Spec == Init /\ [][Next]_vars

\* Drivers, the executor, the client and a terminating task keep running; an
\* upstream task does not answer for ever that it has no data yet; the end of
\* the splits is announced.  Failing, cancelling and ending early are optional.
Fairness ==
    /\ \A d \in UNION {s.drivers : s \in Scenarios} :
         /\ WF_vars(d \in Drivers /\ DriverStep(d))
         /\ WF_vars(d \in Drivers /\ close(d) /\ (driver[d].pc = "end" \/ task.state # "running"))
    /\ \A t \in TaskIds :
         /\ WF_vars(responseCallback(t))
         /\ SF_vars(respond(t))
    /\ WF_vars(closeQueue \/ noMoreSplits \/ terminateClient \/ terminateSplits
                \/ (terminate /\ \E d \in Drivers : driver[d].pc = "failed"))

FairSpec == Spec /\ Fairness

-----------------------------------------------------------------------------
(***************************************************************************)
(* Properties.                                                             *)
(***************************************************************************)

\* Every member has its type; the byte counter never wraps below zero.
TypeOK ==
    /\ task \in [scenario : Scenarios, state : {"running", "terminated", "clientClosed", "done"},
                 splits : Seq(TaskIds), noMoreSplits : BOOLEAN]
    /\ added \in [TaskIds -> Nat]
    /\ queue.totalBytes \in Nat
    /\ queue.promises \in Seq(Drivers \cup {Stale})
    /\ queue.numCompleted \in 0..queue.numSources
    /\ client.producing \in Seq(TaskIds) /\ client.empty \in Seq(TaskIds)
    /\ source \in [TaskIds -> [state : {"idle", "pending", "answered"},
                               maxBytes : Nat, received : Nat, atEnd : BOOLEAN,
                               productive : BOOLEAN]]
    /\ driver \in [Drivers -> [pc : {"ready", "splits", "adding", "next", "wait", "pages",
                                     "end", "failed", "closed"},
                               taskIds : SUBSET TaskIds, noMoreSplits : BOOLEAN,
                               atEnd : BOOLEAN,
                               splitFuture : {"none", "held", "ready", "armed"}]]

\* A driver was closed although its input had not ended.
endedEarly == \E d \in Drivers : driver[d].pc = "closed" /\ ~driver[d].atEnd

\* While the exchange works, the pages of an upstream task pass through the
\* queue in order and each reaches exactly one driver, although several
\* drivers dequeue and the responses of the sources interleave.
Delivery ==
    ~queue.closed /\ ~queue.error =>
        \A t \in TaskIds :
            SelectSeq(queue.pages, LAMBDA page : page.task = t)
                = pages(t, delivered[t] + 1, source[t].received)

\* A driver sees the end of the exchange only after all the splits are known
\* and every page of every upstream task was dequeued: sources that are added
\* late, duplicate splits and empty upstream tasks do not end it early.
EndIsComplete ==
    (\E d \in Drivers : driver[d].atEnd) /\ task.state = "running"
            /\ ~queue.error /\ ~endedEarly =>
        /\ task.noMoreSplits
        /\ \A t \in TaskIds : added[t] > 0 => delivered[t] = Len(Output[t])

\* A source that has more data is in exactly one place: in one of the two
\* queues of the client, or in a request whose callback will put it there.
NoSourceLost ==
    ~client.closed /\ ~queue.error /\ task.state = "running" =>
        \A t \in client.sources :
            LET places == Len(SelectSeq(client.producing \o client.empty, LAMBDA s : s = t))
            IN  places = IF source[t].state = "idle" /\ ~source[t].atEnd THEN 1 ELSE 0

\* No response is larger than the request allows, but for a single page.
largestResponse(t) == Max({MaxQueuedBytes, DefaultPageBytes} \cup ToSet(Output[t]))

\* Flow control: the queue exceeds maxQueuedBytes_ by less than one response
\* of each source, because no request is made once it is full and no source
\* has two requests.
QueueIsBounded ==
    client.remoteTaskIds # {} =>
        queue.totalBytes < MaxQueuedBytes + MapThenSumSet(largestResponse, client.remoteTaskIds)

\* Drivers do not all sleep while there is something to do: a page in the
\* queue has a driver that is awake to dequeue it, and nobody waits for a
\* queue that has come to its end.
SomebodyIsAwake ==
    ~client.closed /\ task.state = "running" =>
        /\ queue.pages # <<>> => \E d \in Drivers : driver[d].pc \notin {"wait", "closed"}
        /\ queue.atEnd => \A d \in Drivers : driver[d].pc # "wait"

\* A page that arrives while a driver waits for data resumes a driver that
\* waits ("Resume one of the waiting drivers.", ExchangeQueue.cpp:108).
PageResumesWaiter ==
    [][Len(queue'.pages) > Len(queue.pages)
         /\ (\E d \in Drivers : driver[d].pc = "wait") =>
            \E d \in Drivers : driver[d].pc = "wait" /\ driver'[d].pc = "ready"]_vars

\* Every driver closes, whatever the order of splits, responses and wake-ups,
\* also when a request or the creation of a source fails and when the task is
\* cancelled.  The exception is a pipeline one of whose drivers gave up its
\* input by itself, which closes the exchange for all of them.
DriversEnd ==
    <>(\/ \A d \in Drivers : driver[d].pc = "closed"
       \/ task.scenario.earlyEnd /\ endedEarly)

\* Once a terminated task has come to rest, every upstream task whose split
\* was handed to it, before or after its termination, has learned that its
\* data is not needed.  Left out are the tasks for which no source could be
\* created, which nobody can tell, and the splits that the split driver had in
\* hand when addRemoteTaskId threw.  One failure leaves out only its own task
\* where terminate hands over the splits (Task.cpp:2241-2248).
UpstreamIsTold ==
    task.state = "done" /\ queue.closed /\ (\A d \in Drivers : driver[d].pc = "closed") =>
        \A t \in TaskIds :
            added[t] > 0 => t \in told \cup client.uncreated \cup driver[SplitDriver].taskIds

=============================================================================
