---------------------------- MODULE OutputBuffer ----------------------------
(***************************************************************************)
(* The output of a task: OutputBuffer, its DestinationBuffers and the      *)
(* ArbitraryBuffer, between the drivers that produce pages and the remote  *)
(* consumers that fetch, acknowledge and delete them.                      *)
(*                                                                         *)
(* A step is a critical section of OutputBuffer::mutex_.  What the code    *)
(* does after the mutex is released is a step of its own: freeing pages    *)
(* and waking producers (release), and calling the consumer's callback     *)
(* (the response stays in 'responses' until the consumer takes it).        *)
(*                                                                         *)
(* Consumers and network are not part of the code.  They follow the        *)
(* protocol that OutputBuffer.h documents: fetch from the sequence number  *)
(* one has got to, acknowledge what was received, delete after the end     *)
(* marker or when no more data is wanted.  Requests may overtake each      *)
(* other, be repeated, and in an unreliable scenario be lost.              *)
(***************************************************************************)
EXTENDS Integers, Sequences, FiniteSets, SequencesExt, FiniteSetsExt

CONSTANTS
    Scenarios,          \* the tasks considered
    MaxSize,            \* maxSize_
    MaxBytes,           \* maxBytes of the requests
    MaxInFlight         \* bound on requests and answers under way

\* A task, its plan and its surroundings:
\*   kind          "kPartitioned", "kBroadcast" or "kArbitrary"
\*   drivers       the drivers that produce output
\*   planned       numDrivers_ until updateNumDrivers sets the real number
\*   initial       destinations at the start, unless output is partitioned
\*   destinations  destinations in the end
\*   pages         bytes of each page; its length bounds the pages produced
\*   early         the consumers that may delete before the end marker
\*   unreliable    whether requests and answers get lost for good
\*   cancels       whether the task may be cancelled
ASSUME ScenarioAssumption ==
    \A s \in Scenarios :
        /\ s.kind \in {"kPartitioned", "kBroadcast", "kArbitrary"}
        /\ s.drivers \in Nat \ {0} /\ s.planned >= s.drivers
        /\ s.initial \in 1 .. s.destinations
        /\ s.pages \in Seq(Nat \ {0})
ASSUME SizeAssumption == MaxSize \in Nat \ {0} /\ MaxBytes \in Nat \ {0}

EndMarker == 0                  \* nullptr

VARIABLES
    \* OutputBuffer
    scenario,           \* one of Scenarios
    numDrivers, numFinished, atEnd, noMoreBuffers,
    numBuffers,         \* buffers_.size()
    deleted,            \* the destinations whose pointer in buffers_ is null
    buffers,            \* the DestinationBuffers
    dataToBroadcast,
    arbitraryPages,     \* pages_ of arbitraryBuffer_
    nextArbitrary,      \* nextArbitraryLoadBufferIndex_
    bufferedBytes,
    promises,           \* the drivers with a promise in promises_
    releasing,          \* pages freed and promises taken, after the mutex
    noMoreDrivers,      \* updateNumDrivers is about to call noMoreDrivers
    \* Task and drivers
    isRunning,          \* Task::isRunning
    late,               \* the drivers that tested it before it became false
    removed,            \* removeTask was called
    outputConsumed,     \* setAllOutputConsumed was called
    driver,             \* where each producer is
    \* consumers and network
    messages, responses,
    next, received, consumer,
    \* history
    produced            \* the destination each page was enqueued for

taskVars == <<scenario, isRunning, late, removed, outputConsumed>>
countVars == <<numDrivers, numFinished, atEnd, noMoreDrivers>>
bufferVars == <<numBuffers, deleted, buffers, noMoreBuffers, dataToBroadcast,
                arbitraryPages, nextArbitrary>>
sizeVars == <<bufferedBytes, promises, releasing>>
consumerVars == <<next, received, consumer>>
vars == <<taskVars, countVars, bufferVars, sizeVars, consumerVars, driver,
          messages, responses, produced>>

kind == scenario.kind
NumDrivers == scenario.drivers
MaxDestinations == scenario.destinations
PageSize == scenario.pages

Driver == 1 .. NumDrivers
Dest == 0 .. MaxDestinations - 1
Page == 1 .. Len(PageSize)

\* The drivers and destinations of any scenario.
AnyDriver == UNION {1 .. s.drivers : s \in Scenarios}
AnyDest == UNION {0 .. s.destinations - 1 : s \in Scenarios}

isPartitioned == kind = "kPartitioned"
isBroadcast == kind = "kBroadcast"
isArbitrary == kind = "kArbitrary"

-----------------------------------------------------------------------------
(***************************************************************************)
(* Pages.                                                                  *)
(***************************************************************************)
size(page) == IF page = EndMarker THEN 0 ELSE PageSize[page]
bytes(pages) == MapThenSumSet(size, pages)

\* The pages at the front of 'pages' up to MaxBytes bytes: the page that reaches
\* the limit is the last one.
fetch(pages) ==
    LET full == {n \in 1 .. Len(pages) :
                   \/ pages[n] = EndMarker
                   \/ bytes(ToSet(SubSeq(pages, 1, n))) >= MaxBytes}
    IN  SubSeq(pages, 1, IF full = {} THEN Len(pages) ELSE Min(full))

-----------------------------------------------------------------------------
(***************************************************************************)
(* ArbitraryBuffer.                                                        *)
(***************************************************************************)
isEmpty(pages) == pages \in {<<>>, <<EndMarker>>}
hasNoMoreData(pages) == pages # <<>> /\ Last(pages) = EndMarker

\* What getPages leaves in the buffer: the end marker stays.
leftover(pages) ==
    LET rest == SubSeq(pages, Len(fetch(pages)) + 1, Len(pages)) IN
    IF hasNoMoreData(fetch(pages)) THEN <<EndMarker>> ELSE rest

-----------------------------------------------------------------------------
(***************************************************************************)
(* DestinationBuffer.                                                      *)
(***************************************************************************)
NewBuffer == [data |-> <<>>, sequence |-> 0, notify |-> FALSE, notifySequence |-> 0]

\* enqueue drops duplicate end markers.
enqueuePage(b, page) ==
    IF page = EndMarker /\ hasNoMoreData(b.data) THEN b
    ELSE [b EXCEPT !.data = Append(@, page)]

loadData(b, pages) == FoldLeft(enqueuePage, b, pages)

\* The pages that getData returns for 'sequence'.
available(b, sequence) ==
    fetch(SubSeq(b.data, sequence - b.sequence + 1, Len(b.data)))

setNotify(b, sequence) == [b EXCEPT !.notify = TRUE, !.notifySequence = sequence]
clearNotify(b) == [b EXCEPT !.notify = FALSE, !.notifySequence = 0]

\* The call of the consumer that getAndClearNotify prepares.
notification(d, b) ==
    IF b.notify THEN {[dest |-> d, sequence |-> b.notifySequence,
                       data |-> available(b, b.notifySequence)]}
    ELSE {}

\* Mutant: the pages are dropped and sequence_ stays where it is.
acknowledgeUncounted(b, sequence) ==
    IF sequence <= b.sequence THEN b
    ELSE [b EXCEPT !.data = SubSeq(@, sequence - b.sequence + 1, Len(@))]

\* An acknowledgement out of order has no effect.
acknowledge(b, sequence) ==
    IF sequence <= b.sequence THEN b
    ELSE [b EXCEPT !.data = SubSeq(@, sequence - b.sequence + 1, Len(@)),
                   !.sequence = sequence]

pagesIn(b) == ToSet(b.data) \ {EndMarker}

-----------------------------------------------------------------------------
(***************************************************************************)
(* OutputBuffer: accounting.                                               *)
(***************************************************************************)
live(d) == d < numBuffers /\ d \notin deleted
continueSize == (MaxSize * 90) \div 100

\* Mutant: shared pages are counted as freed.
unsharedAll(freed, bufs, broadcast) == freed

\* The pages of 'freed' to which no other pointer is left: use_count() = 1.
unshared(freed, bufs, broadcast) ==
    freed \ (UNION {pagesIn(bufs[d]) : d \in Dest}
               \cup ToSet(broadcast) \cup UNION {r.pages : r \in releasing})

\* The producers that updateAfterAcknowledgeLocked resumes.
woken(gone, left) == IF gone # {} /\ left < continueSize THEN promises ELSE {}

\* updateAfterAcknowledgeLocked on behalf of destination 'd', or of -1 for
\* dataToBroadcast_; releaseAfterAcknowledge follows as a step of its own.
updateAfterAcknowledge(d, freed, bufs, broadcast) ==
    LET gone == unshared(freed, bufs, broadcast)
        left == bufferedBytes - bytes(gone)
    IN
    /\ bufferedBytes' = left
    /\ promises' = promises \ woken(gone, left)
    /\ releasing' = IF freed = {} THEN releasing
                    ELSE releasing \cup {[of |-> d, pages |-> freed,
                                          woken |-> woken(gone, left)]}

\* isFinishedLocked once 'gone' are the destinations deleted out of 'n'.
isFinished(gone, n, noMore) ==
    /\ isBroadcast => noMore
    /\ \A d \in 0 .. n - 1 : d \in gone

\* addOutputBuffersLocked
withBuffers(n) ==
    [d \in Dest |->
        IF d < numBuffers \/ d >= n THEN buffers[d]
        ELSE IF isBroadcast
          THEN loadData(NewBuffer, IF atEnd THEN Append(dataToBroadcast, EndMarker)
                                   ELSE dataToBroadcast)
          ELSE NewBuffer]

-----------------------------------------------------------------------------
(***************************************************************************)
(* Producers.                                                              *)
(***************************************************************************)

\* Mutant: data for a deleted destination is counted although it is dropped.
enqueuePartitionedCounted(d, page) ==
    LET b == enqueuePage(buffers[d], page) IN
    /\ IF d \in deleted THEN UNCHANGED <<buffers, responses>>
       ELSE /\ buffers' = [buffers EXCEPT ![d] = clearNotify(b)]
            /\ responses' = responses \cup notification(d, b)
    /\ bufferedBytes' = bufferedBytes + size(page)
    /\ UNCHANGED <<dataToBroadcast, arbitraryPages, nextArbitrary>>

\* Mutant: data for a deleted destination is subtracted without having been added.
enqueuePartitionedSubtracted(d, page) ==
    LET b == enqueuePage(buffers[d], page) IN
    /\ IF d \in deleted
         THEN /\ bufferedBytes' = bufferedBytes - size(page)
              /\ UNCHANGED <<buffers, responses>>
         ELSE /\ buffers' = [buffers EXCEPT ![d] = clearNotify(b)]
              /\ responses' = responses \cup notification(d, b)
              /\ bufferedBytes' = bufferedBytes + size(page)
    /\ UNCHANGED <<dataToBroadcast, arbitraryPages, nextArbitrary>>

enqueuePartitioned(d, page) ==
    LET b == enqueuePage(buffers[d], page) IN
    /\ IF d \in deleted
         THEN UNCHANGED <<buffers, responses, bufferedBytes>>
         ELSE /\ buffers' = [buffers EXCEPT ![d] = clearNotify(b)]
              /\ responses' = responses \cup notification(d, b)
              /\ bufferedBytes' = bufferedBytes + size(page)
    /\ UNCHANGED <<dataToBroadcast, arbitraryPages, nextArbitrary>>

\* Every destination gets 'page' and its pending request is answered.
enqueueToAll(page) ==
    LET b(d) == enqueuePage(buffers[d], page) IN
    /\ buffers' = [d \in Dest |-> IF live(d) THEN clearNotify(b(d)) ELSE buffers[d]]
    /\ responses' = responses \cup UNION {notification(d, b(d)) : d \in {e \in Dest : live(e)}}

\* Pages are kept for the destinations to come.
keepForLate(page) ==
    dataToBroadcast' = IF noMoreBuffers THEN dataToBroadcast
                       ELSE Append(dataToBroadcast, page)

enqueueBroadcast(page) ==
    /\ enqueueToAll(page)
    /\ keepForLate(page)
    /\ bufferedBytes' = bufferedBytes + size(page)
    /\ UNCHANGED <<arbitraryPages, nextArbitrary>>

\* Mutant: the destination loads pages, and its request is not answered.
serveSilent(acc, d, inactive) ==
    IF d \in deleted \/ ~acc.buffers[d].notify THEN acc
    ELSE [acc EXCEPT !.pages = leftover(@), !.buffers[d] = loadData(@, fetch(acc.pages))]

\* maybeLoadData and getAndClearNotify of destination 'd'; the consumers of
\* 'inactive' fail their activeCheck.
serve(acc, d, inactive) ==
    LET b == acc.buffers[d]
        loads == b.notify /\ d \notin inactive
        c == IF loads THEN loadData(b, fetch(acc.pages)) ELSE clearNotify(b)
    IN  IF d \in deleted THEN acc
        ELSE [acc EXCEPT !.pages = IF loads THEN leftover(@) ELSE @,
                         !.buffers[d] = clearNotify(c),
                         !.out = @ \cup notification(d, c)]

\* The destinations are served round robin until the arbitrary buffer is empty.
enqueueArbitrary(page, inactive) ==
    LET ids == [i \in 1 .. numBuffers |-> (nextArbitrary + i - 1) % numBuffers]
        step(acc, d) ==
            IF acc.stopped THEN acc
            ELSE IF isEmpty(acc.pages) THEN [acc EXCEPT !.stopped = TRUE, !.next = d]
            ELSE serve(acc, d, inactive)
        done == FoldLeft(step, [pages |-> Append(arbitraryPages, page),
                                buffers |-> buffers, out |-> {},
                                stopped |-> FALSE, next |-> nextArbitrary], ids)
    IN
    /\ arbitraryPages' = done.pages
    /\ buffers' = done.buffers
    /\ responses' = responses \cup done.out
    /\ nextArbitrary' = done.next
    /\ bufferedBytes' = bufferedBytes + size(page)
    /\ UNCHANGED dataToBroadcast

\* A driver enqueues a page.  It blocks only if it passes a future: it does not when
\* it flushes its last pages, nor when it flushes the other destinations after it
\* was blocked.  It checks that the task is running before it takes the mutex.
enqueue(p, d, flush, inactive) ==
    LET page == Len(produced) + 1
        blocked == ~flush /\ bufferedBytes' > MaxSize
    IN
    /\ isRunning \/ p \in late
    /\ driver[p] = "run" \/ (driver[p] = "blocked" /\ flush /\ isPartitioned)
    /\ page \in Page
    /\ CASE isPartitioned -> enqueuePartitioned(d, page)
         [] isBroadcast -> enqueueBroadcast(page)
         [] isArbitrary -> enqueueArbitrary(page, inactive)
    /\ promises' = IF blocked THEN promises \cup {p} ELSE promises
    /\ driver' = IF blocked THEN [driver EXCEPT ![p] = "blocked"] ELSE driver
    /\ late' = late \ {p}
    /\ produced' = Append(produced, d)
    /\ UNCHANGED <<scenario, isRunning, removed, outputConsumed, countVars, numBuffers,
                   deleted, noMoreBuffers, releasing, consumerVars, messages>>

\* checkIfDone: at the end all destinations get the end marker.
checkIfDone(finished, inactive) ==
    LET ids == [i \in 1 .. numBuffers |-> i - 1]
        marked == IF hasNoMoreData(arbitraryPages) THEN arbitraryPages
                  ELSE Append(arbitraryPages, EndMarker)
        done == FoldLeft(LAMBDA acc, d : serve(acc, d, inactive),
                         [pages |-> marked, buffers |-> buffers, out |-> {}], ids)
    IN
    /\ numFinished' = finished
    /\ atEnd' = (finished = numDrivers)
    /\ CASE ~atEnd' -> UNCHANGED <<buffers, arbitraryPages, responses>>
         [] atEnd' /\ isArbitrary ->
              /\ arbitraryPages' = done.pages
              /\ buffers' = done.buffers
              /\ responses' = responses \cup done.out
         [] atEnd' /\ ~isArbitrary ->
              enqueueToAll(EndMarker) /\ UNCHANGED arbitraryPages
    /\ UNCHANGED <<taskVars, numBuffers, deleted, noMoreBuffers, dataToBroadcast,
                   nextArbitrary, sizeVars, consumerVars, messages, produced>>

\* A driver has produced all its data.
noMoreData(p, inactive) ==
    /\ ~removed \/ p \in late
    /\ driver[p] = "run"
    /\ driver' = [driver EXCEPT ![p] = "done"]
    /\ checkIfDone(numFinished + 1, inactive)
    /\ UNCHANGED <<numDrivers, noMoreDrivers>>

\* Mutant: drivers that finished before the number is known are not noticed.
updateNumDriversOnly ==
    /\ numDrivers # NumDrivers
    /\ numDrivers' = NumDrivers
    /\ UNCHANGED <<taskVars, numFinished, atEnd, noMoreDrivers, bufferVars, sizeVars,
                   consumerVars, driver, messages, responses, produced>>

\* Grouped execution: the real number of drivers becomes known.
updateNumDrivers ==
    /\ numDrivers # NumDrivers
    /\ numDrivers' = NumDrivers
    /\ noMoreDrivers' = (NumDrivers = numFinished)
    /\ UNCHANGED <<taskVars, numFinished, atEnd, bufferVars, sizeVars,
                   consumerVars, driver, messages, responses, produced>>

\* Mutant: updateNumDrivers goes on to call noMoreData.
finishDriversCounted(inactive) ==
    /\ noMoreDrivers
    /\ noMoreDrivers' = FALSE
    /\ checkIfDone(numFinished + 1, inactive)
    /\ UNCHANGED <<numDrivers, driver>>

\* updateNumDrivers goes on to call noMoreDrivers.
finishDrivers(inactive) ==
    /\ noMoreDrivers
    /\ noMoreDrivers' = FALSE
    /\ checkIfDone(numFinished, inactive)
    /\ UNCHANGED <<numDrivers, driver>>

\* releaseAfterAcknowledge: pages are freed, then producers resumed.
release(r) ==
    /\ r \in releasing
    /\ releasing' = releasing \ {r}
    /\ driver' = [p \in Driver |-> IF p \in r.woken THEN "run" ELSE driver[p]]
    /\ UNCHANGED <<taskVars, countVars, bufferVars, bufferedBytes, promises,
                   consumerVars, messages, responses, produced>>

-----------------------------------------------------------------------------
(***************************************************************************)
(* Requests of the consumers.                                              *)
(***************************************************************************)

\* The request is carried out: it is for a destination that is or can be added,
\* was not deleted, and for data produced and not yet acknowledged.
accepts(m) ==
    /\ m.dest \notin deleted
    /\ m.dest < numBuffers \/ (m.type = "getData" /\ ~isPartitioned /\ ~noMoreBuffers)
    /\ m.type = "acknowledge" => m.sequence <= buffers[m.dest].sequence + Len(buffers[m.dest].data)
    /\ m.type = "getData" =>
         LET b == withBuffers(m.dest + 1)[m.dest] IN
         m.sequence \in b.sequence .. b.sequence + Len(b.data)

getData(m) ==
    LET d == m.dest
        bufs == withBuffers(d + 1)
        acked == acknowledge(bufs[d], m.sequence)
        loaded == IF isArbitrary THEN loadData(acked, fetch(arbitraryPages)) ELSE acked
        data == available(loaded, m.sequence)
        after == IF data = <<>> THEN setNotify(loaded, m.sequence) ELSE loaded
    IN
    /\ m.type = "getData"
    /\ accepts(m)
    /\ messages' = messages \ {m}
    /\ numBuffers' = IF d < numBuffers THEN numBuffers ELSE d + 1
    /\ buffers' = [bufs EXCEPT ![d] = after]
    /\ arbitraryPages' = IF isArbitrary THEN leftover(arbitraryPages) ELSE arbitraryPages
    /\ updateAfterAcknowledge(d, pagesIn(bufs[d]) \ pagesIn(acked),
                              [bufs EXCEPT ![d] = acked], dataToBroadcast)
    /\ responses' = IF data = <<>> THEN responses
                    ELSE responses \cup {[dest |-> d, sequence |-> m.sequence, data |-> data]}
    /\ UNCHANGED <<taskVars, countVars, deleted, noMoreBuffers, dataToBroadcast,
                   nextArbitrary, consumerVars, driver, produced>>

acknowledgePages(m) ==
    LET d == m.dest
        acked == acknowledge(buffers[d], m.sequence)
        bufs == [buffers EXCEPT ![d] = acked]
    IN
    /\ m.type = "acknowledge"
    /\ accepts(m)
    /\ messages' = messages \ {m}
    /\ buffers' = bufs
    /\ updateAfterAcknowledge(d, pagesIn(buffers[d]) \ pagesIn(acked), bufs, dataToBroadcast)
    /\ UNCHANGED <<taskVars, countVars, numBuffers, deleted, noMoreBuffers,
                   dataToBroadcast, arbitraryPages, nextArbitrary,
                   consumerVars, driver, responses, produced>>

\* deleteResults answers a pending request with no data.
deleteResults(m) ==
    LET d == m.dest
        bufs == [buffers EXCEPT ![d] = NewBuffer]
    IN
    /\ m.type = "delete"
    /\ accepts(m)
    /\ messages' = messages \ {m}
    /\ buffers' = bufs
    /\ deleted' = deleted \cup {d}
    /\ updateAfterAcknowledge(d, pagesIn(buffers[d]), bufs, dataToBroadcast)
    /\ responses' = responses \cup notification(d, [buffers[d] EXCEPT !.data = <<>>])
    /\ outputConsumed' = (outputConsumed \/ isFinished(deleted', numBuffers, noMoreBuffers))
    /\ UNCHANGED <<scenario, isRunning, late, removed, countVars, numBuffers, noMoreBuffers,
                   dataToBroadcast, arbitraryPages, nextArbitrary,
                   consumerVars, driver, produced>>

\* The request is ignored, or fails a check and throws back to the caller.  Once the
\* task is removed only requests that looked the buffer up before are carried out.
refuse(m) ==
    /\ removed \/ ~accepts(m)
    /\ messages' = messages \ {m}
    /\ UNCHANGED <<taskVars, countVars, bufferVars, sizeVars, consumerVars,
                   driver, responses, produced>>

\* The number of destinations changes, and may become final; for partitioned
\* output this only checks that nothing changes.
updateOutputBuffers(n, noMore) ==
    LET bufs == withBuffers(n) IN
    /\ ~isPartitioned
    /\ ~removed
    /\ ~noMoreBuffers
    /\ numBuffers' = n
    /\ buffers' = bufs
    /\ noMoreBuffers' = noMore
    /\ IF noMore
         THEN /\ updateAfterAcknowledge(-1, ToSet(dataToBroadcast), bufs, <<>>)
              /\ dataToBroadcast' = <<>>
              /\ outputConsumed' = (outputConsumed \/ isFinished(deleted, n, TRUE))
         ELSE UNCHANGED <<sizeVars, dataToBroadcast, outputConsumed>>
    /\ UNCHANGED <<scenario, isRunning, late, removed, countVars, deleted, arbitraryPages,
                   nextArbitrary, consumerVars, driver, messages, responses,
                   produced>>

-----------------------------------------------------------------------------
(***************************************************************************)
(* Task: OutputBufferManager::removeTask is called when it terminates.     *)
(***************************************************************************)
terminateTask ==
    /\ isRunning
    /\ scenario.cancels \/ (outputConsumed /\ \A p \in Driver : driver[p] = "done")
    /\ isRunning' = FALSE
    /\ late' \in SUBSET {p \in Driver : driver[p] = "run"}
    /\ UNCHANGED <<scenario, removed, outputConsumed, countVars, bufferVars, sizeVars,
                   consumerVars, driver, messages, responses, produced>>

\* OutputBuffer::terminate resumes the producers that wait.
removeTask ==
    /\ ~isRunning
    /\ ~removed
    /\ removed' = TRUE
    /\ promises' = {}
    /\ driver' = [p \in Driver |-> IF p \in promises THEN "run" ELSE driver[p]]
    /\ UNCHANGED <<scenario, isRunning, late, outputConsumed, countVars, bufferVars,
                   bufferedBytes, releasing, consumerVars, messages, responses,
                   produced>>

\* The last call that uses the buffer returns and the buffer is destroyed: its
\* promises are broken, which ends the wait of a producer that came too late.
destroyBuffer ==
    /\ removed
    /\ late = {}
    /\ messages = {}
    /\ promises # {}
    /\ promises' = {}
    /\ driver' = [p \in Driver |-> IF p \in promises THEN "done" ELSE driver[p]]
    /\ UNCHANGED <<taskVars, countVars, bufferVars, bufferedBytes, releasing,
                   consumerVars, messages, responses, produced>>

-----------------------------------------------------------------------------
(***************************************************************************)
(* Consumers and network.                                                  *)
(***************************************************************************)

\* A consumer asks for data, again if an answer does not come.
request(d) ==
    LET m == [type |-> "getData", dest |-> d, sequence |-> next[d]] IN
    /\ ~removed
    /\ consumer[d] = "fetching"
    /\ m \notin messages
    /\ Cardinality(messages) + Cardinality(responses) < MaxInFlight
    /\ messages' = messages \cup {m}
    /\ UNCHANGED <<taskVars, countVars, bufferVars, sizeVars, consumerVars,
                   driver, responses, produced>>

\* Data from the sequence number it waits for is taken and acknowledged; after
\* the end marker the results are deleted.
receive(r) ==
    LET d == r.dest
        pages == SelectSeq(r.data, LAMBDA page : page # EndMarker)
        taken == consumer[d] = "fetching" /\ r.sequence = next[d] /\ r.data # <<>>
        ends == taken /\ Last(r.data) = EndMarker
        ack == [type |-> "acknowledge", dest |-> d, sequence |-> next'[d]]
        del == [type |-> "delete", dest |-> d, sequence |-> 0]
    IN
    /\ r \in responses
    /\ responses' = responses \ {r}
    /\ next' = IF taken THEN [next EXCEPT ![d] = @ + Len(pages)] ELSE next
    /\ received' = IF taken THEN [received EXCEPT ![d] = @ \o pages] ELSE received
    /\ consumer' = IF ends THEN [consumer EXCEPT ![d] = "ended"] ELSE consumer
    /\ messages' = CASE ends -> messages \cup {del}
                     [] taken /\ ~ends -> messages \cup {ack}
                     [] OTHER -> messages
    /\ UNCHANGED <<taskVars, countVars, bufferVars, sizeVars, driver, produced>>

\* A consumer has seen enough, as below a limit.
close(d) ==
    /\ d \in scenario.early
    /\ consumer[d] = "fetching"
    /\ live(d)
    /\ consumer' = [consumer EXCEPT ![d] = "closed"]
    /\ messages' = messages \cup {[type |-> "delete", dest |-> d, sequence |-> 0]}
    /\ UNCHANGED <<taskVars, countVars, bufferVars, sizeVars, next, received,
                   driver, responses, produced>>

lose ==
    /\ scenario.unreliable
    /\ \/ \E m \in messages : /\ m.type # "delete"
                              /\ messages' = messages \ {m}
                              /\ UNCHANGED responses
       \/ \E r \in responses : responses' = responses \ {r} /\ UNCHANGED messages
    /\ UNCHANGED <<taskVars, countVars, bufferVars, sizeVars, consumerVars,
                   driver, produced>>

-----------------------------------------------------------------------------
Init ==
    /\ scenario \in Scenarios
    /\ numDrivers = scenario.planned
    /\ numFinished = 0
    /\ atEnd = FALSE
    /\ noMoreBuffers = FALSE
    /\ numBuffers = IF isPartitioned THEN MaxDestinations ELSE scenario.initial
    /\ deleted = {}
    /\ buffers = [d \in Dest |-> NewBuffer]
    /\ dataToBroadcast = <<>>
    /\ arbitraryPages = <<>>
    /\ nextArbitrary = 0
    /\ bufferedBytes = 0
    /\ promises = {}
    /\ releasing = {}
    /\ noMoreDrivers = FALSE
    /\ isRunning = TRUE
    /\ late = {}
    /\ removed = FALSE
    /\ outputConsumed = FALSE
    /\ driver = [p \in Driver |-> "run"]
    /\ messages = {}
    /\ responses = {}
    /\ next = [d \in Dest |-> 0]
    /\ received = [d \in Dest |-> <<>>]
    /\ consumer = [d \in Dest |-> "fetching"]
    /\ produced = <<>>

\* The destination of a page; only partitioned output has a choice.
Target == IF isPartitioned THEN Dest ELSE {0}
\* The waiting consumers that may turn out to be inactive.
Inactive ==
    IF isArbitrary THEN SUBSET {d \in Dest : live(d) /\ buffers[d].notify} ELSE {{}}

ProducerStep(p) ==
    \/ \E d \in Target, flush \in BOOLEAN, inactive \in Inactive :
         enqueue(p, d, flush, inactive)
    \/ \E inactive \in Inactive : noMoreData(p, inactive)

DriverCountStep ==
    \/ updateNumDrivers
    \/ \E inactive \in Inactive : finishDrivers(inactive)

RequestStep(m) ==
    /\ m \in messages
    /\ getData(m) \/ acknowledgePages(m) \/ deleteResults(m) \/ refuse(m)

BuffersStep == \E n \in numBuffers .. MaxDestinations, noMore \in BOOLEAN :
    /\ IF noMore THEN n = MaxDestinations ELSE n > numBuffers
    /\ updateOutputBuffers(n, noMore)

Next ==
    \/ \E p \in Driver : ProducerStep(p)
    \/ DriverCountStep
    \/ \E r \in releasing : release(r)
    \/ \E m \in messages : RequestStep(m)
    \/ BuffersStep
    \/ terminateTask
    \/ removeTask
    \/ destroyBuffer
    \/ \E d \in Dest : request(d) \/ close(d)
    \/ \E r \in responses : receive(r)
    \/ lose

Spec == Init /\ [][Next]_vars

\* Threads make progress and the final number of drivers and of destinations is
\* announced.  Consumers repeat their requests; of requests, and of answers, that
\* are sent again and again not all get lost.
Fairness ==
    /\ \A p \in AnyDriver : WF_vars(p \in Driver /\ ProducerStep(p))
    /\ WF_vars(DriverCountStep)
    /\ WF_vars(\E r \in releasing : release(r))
    /\ WF_vars(updateOutputBuffers(MaxDestinations, TRUE))
    /\ WF_vars(removeTask \/ destroyBuffer)
    /\ \A d \in AnyDest :
         /\ WF_vars(d \in Dest /\ request(d))
         /\ SF_vars(\E m \in messages : m.dest = d /\ m.type = "getData" /\ RequestStep(m))
         /\ WF_vars(\E m \in messages : m.dest = d /\ m.type # "getData" /\ RequestStep(m))
         /\ SF_vars(\E r \in responses : r.dest = d /\ receive(r))

FairSpec == Spec /\ Fairness

-----------------------------------------------------------------------------
(***************************************************************************)
(* Properties.                                                             *)
(***************************************************************************)
Buffer == [data : Seq(Page \cup {EndMarker}), sequence : Nat, notify : BOOLEAN,
           notifySequence : Nat]

\* The type of every variable; bufferedBytes_ does not go below zero.
TypeOK ==
    /\ scenario \in Scenarios
    /\ numDrivers \in Nat
    /\ numFinished \in Nat
    /\ {atEnd, noMoreBuffers, noMoreDrivers} \subseteq BOOLEAN
    /\ {isRunning, removed, outputConsumed} \subseteq BOOLEAN
    /\ numBuffers \in 1 .. MaxDestinations
    /\ deleted \in SUBSET Dest
    /\ buffers \in [Dest -> Buffer]
    /\ bufferedBytes \in Nat
    /\ promises \in SUBSET Driver
    /\ late \in SUBSET Driver
    /\ dataToBroadcast \in Seq(Page)
    /\ arbitraryPages \in Seq(Page \cup {EndMarker})
    /\ nextArbitrary \in Dest
    /\ driver \in [Driver -> {"run", "blocked", "done"}]
    /\ next \in [Dest -> Nat]
    /\ consumer \in [Dest -> {"fetching", "ended", "closed"}]

allPages == [i \in 1 .. Len(produced) |-> i]
expected(d) ==
    IF isPartitioned THEN SelectSeq(allPages, LAMBDA page : produced[page] = d)
    ELSE allPages

\* What consumers get: every page of a destination in order, each once, and all of
\* them before the end marker, whatever is repeated, late, or blocked in between.
\* With arbitrary output every page goes to one consumer, and none is left over
\* when all have come to the end.
Delivery ==
    IF isArbitrary
      THEN /\ \A d \in Dest : IsSorted(received[d], <)
           /\ \A d, e \in Dest : d # e => ToSet(received[d]) \cap ToSet(received[e]) = {}
           /\ (\A d \in Dest : consumer[d] = "ended") =>
                UNION {ToSet(received[d]) : d \in Dest} = ToSet(allPages)
      ELSE \A d \in Dest :
             /\ IsPrefix(received[d], expected(d))
             /\ consumer[d] = "ended" => received[d] = expected(d)

\* The bytes of the pages that the buffers hold.
actualBytes ==
    bytes(UNION {pagesIn(buffers[d]) : d \in Dest}
            \cup ToSet(dataToBroadcast) \cup (ToSet(arbitraryPages) \ {EndMarker}))

\* "Actual data size in 'buffers_'." (OutputBuffer.h:405)
BytesBuffered == bufferedBytes = actualBytes

\* The bytes of pages that bufferedBytes_ counts and no buffer holds.
leakedBytes == bufferedBytes - actualBytes

\* bufferedBytes_ is exact for partitioned and arbitrary output.  For broadcast
\* output bytes leak only if a page is given up for the last time while an earlier
\* acknowledgement has yet to release it, or if no destination is left to take it;
\* and what has leaked is not made up for by subtracting another page twice.
BytesLeakOnlyShared ==
    [][/\ leakedBytes' >= leakedBytes
       /\ leakedBytes' > leakedBytes =>
            isBroadcast /\ (releasing # {} \/ \A d \in Dest : ~live(d))]_vars

\* A pending request has nothing to wait for but new data: a page or the end marker
\* that is there was never passed over.
NoMissedData ==
    \A d \in Dest : live(d) /\ buffers[d].notify =>
        /\ buffers[d].notifySequence = buffers[d].sequence + Len(buffers[d].data)
        /\ isArbitrary => arbitraryPages = <<>>
        /\ ~atEnd

\* The checks of the code: no acknowledgement of what was not produced, no end
\* marker in the middle, no driver finished twice.
ChecksHold ==
    /\ \A m \in messages : live(m.dest) =>
         m.sequence <= buffers[m.dest].sequence + Len(buffers[m.dest].data)
    /\ \A d \in Dest : EndMarker \notin ToSet(SubSeq(buffers[d].data, 1, Len(buffers[d].data) - 1))
    /\ EndMarker \notin ToSet(SubSeq(arbitraryPages, 1, Len(arbitraryPages) - 1))
    /\ numFinished <= numDrivers
    /\ nextArbitrary < numBuffers

\* A producer that is blocked does not stay so: it is resumed when its pages are
\* acknowledged, or when its task ends, even if it enqueued after terminate.
ProducerResumes ==
    \A p \in AnyDriver :
        p \in Driver /\ driver[p] = "blocked" ~> driver[p] # "blocked"

\* Every consumer gets to the end marker, unless it closes or the task ends.
ConsumerEnds ==
    \A d \in AnyDest : <>(d \in Dest => consumer[d] # "fetching" \/ ~isRunning)

=============================================================================
