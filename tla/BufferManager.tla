---------------------------- MODULE BufferManager ----------------------------
(***************************************************************************)
(* The buffer manager of a Task (common/memory/bm): blocks that are        *)
(* allocated, pinned, unpinned, reclaimed to spill segments and read back, *)
(* with the lazy eviction queue, the window of writes in flight and the    *)
(* byte counters the memory arbitrator decides by.                         *)
(*                                                                         *)
(* The manager belongs to one thread, so its operations do not interleave. *)
(* They do nest: decoding a block that is read back allocates from the     *)
(* pool, the allocation may start an arbitration, and that reclaims from   *)
(* the same manager in the middle of BatchPin.  'pin' and 'spill' are the  *)
(* frames of the two operations that take several steps.  (Allocate also   *)
(* may nest a Reclaim, but before it has touched any state.)               *)
(*                                                                         *)
(* The bytes of a block are a version number, counted by the writes of its *)
(* user; Missing stands for an empty optional.                             *)
(***************************************************************************)
EXTENDS Integers, Sequences, FiniteSets
LOCAL INSTANCE FiniteSetsExt

CONSTANTS
    NumBlocks,          \* bound on the number of blocks ever allocated
    Size,               \* the size of each block
    MaxInflight,        \* maxReclaimWriteInflight
    Targets,            \* the targets Reclaim is called with; 0 is everything
    MaxList,            \* bound on the number of blocks in one call
    MaxHandles,         \* bound on the handles of a block
    MaxVersion,         \* bound on the writes to a block
    MaxSequences        \* bounds on the eviction sequences when a pin starts

Block == 1 .. NumBlocks

ASSUME BlockAssumption == NumBlocks \in Nat /\ Size \in [Block -> Nat \ {0}]
ASSUME WindowAssumption == MaxInflight \in Nat \ {0}
ASSUME TargetAssumption == Targets \subseteq Nat
ASSUME BoundAssumption ==
    /\ MaxList \in Nat /\ MaxHandles \in Nat
    /\ MaxVersion \in Nat \ {0} /\ MaxSequences \subseteq [Block -> Nat]

VARIABLES
    memory,     \* the BlockMemory of each block
    live,       \* the blocks some BlockHandle holds
    nextBlockId,
    queue,      \* EvictionQueue::queue_
    stats,      \* the byte counters of BufferManagerStats
    pin,        \* the frame of Pin and BatchPin
    spill,      \* the frame of SpillWriteDriver::Spill and its window
    content,    \* the version the user wrote last
    handles,    \* the number of BufferHandles of each block
    lost        \* the blocks whose bytes went with a failed write

vars == <<memory, live, nextBlockId, queue, stats, pin, spill, content,
          handles, lost>>
ghosts == <<content, handles, lost>>

Missing == 0

State == {"kInMemory", "kSpilled", "kPrefetching", "kSpilling"}

BlockMemory ==
    [state : State, pinCount : Nat, dirty : BOOLEAN, evictionSequence : Nat,
     payload : Nat, segment : Nat,
     prefetchFuture : {"none", "pending", "consumed"}]

NewBlock == [state |-> "kInMemory", pinCount |-> 1, dirty |-> TRUE,
             evictionSequence |-> 0, payload |-> 1, segment |-> Missing,
             prefetchFuture |-> "none"]

(***************************************************************************)
(* BlockStateMachine                                                       *)
(***************************************************************************)
PinResident(m) ==
    [m EXCEPT !.pinCount = @ + 1, !.evictionSequence = @ + 1]

Unpin(m) ==
    [m EXCEPT
        !.pinCount = @ - 1,
        !.evictionSequence =
            IF m.pinCount = 1 /\ m.state = "kInMemory" THEN @ + 1 ELSE @]

SubmitRead(m) ==
    [m EXCEPT !.prefetchFuture = "pending", !.state = "kPrefetching"]

MarkReadFailed(m) ==
    [m EXCEPT !.prefetchFuture = "none", !.state = "kSpilled"]

\* Mutant: the pin is left to the caller.
CompleteReadUnpinned(m) ==
    [m EXCEPT !.prefetchFuture = "none", !.payload = m.segment,
              !.state = "kInMemory", !.dirty = FALSE, !.evictionSequence = @ + 1]

CompleteReadKeepBacking(m) ==
    [m EXCEPT !.prefetchFuture = "none", !.payload = m.segment,
              !.state = "kInMemory", !.pinCount = 1, !.dirty = FALSE,
              !.evictionSequence = @ + 1]

BeginSpill(m) == [m EXCEPT !.payload = Missing, !.state = "kSpilling"]

\* Mutant: whether the block was changed since is not asked.
CanDiscardDirty(m) ==
    /\ m.state = "kInMemory" /\ m.pinCount = 0
    /\ m.payload # Missing /\ m.segment # Missing

CanDiscardResidentWithBacking(m) ==
    /\ m.state = "kInMemory" /\ m.pinCount = 0
    /\ m.payload # Missing /\ m.segment # Missing /\ ~m.dirty

DiscardResidentWithBacking(m) ==
    [m EXCEPT !.payload = Missing, !.state = "kSpilled",
              !.evictionSequence = @ + 1]

CompleteSpill(m, segment) ==
    [m EXCEPT !.segment = segment, !.state = "kSpilled", !.dirty = FALSE,
              !.evictionSequence = @ + 1]

(***************************************************************************)
(* The counters                                                            *)
(***************************************************************************)
Counter == {"unpinnedResidentBytes", "pinnedResidentBytes", "spilledBytes",
            "spillingBytes", "prefetchingBytes"}

SubtractOrSaturate(s, c, b) ==
    [s EXCEPT ![c] = IF @ < Size[b] THEN 0 ELSE @ - Size[b]]

Increase(s, c, b) == [s EXCEPT ![c] = @ + Size[b]]

Move(s, from, to, b) == Increase(SubtractOrSaturate(s, from, b), to, b)

OnResidentPinned(s, b) ==
    IF memory[b].pinCount # 0 THEN s
    ELSE Move(s, "unpinnedResidentBytes", "pinnedResidentBytes", b)

OnReadFutureConsumed(s, b) == SubtractOrSaturate(s, "prefetchingBytes", b)

OnReadCompleted(s, b) == Move(s, "spilledBytes", "pinnedResidentBytes", b)

OnSpillStarted(s, b) == Move(s, "unpinnedResidentBytes", "spillingBytes", b)

OnSpillCompleted(s, b) == Move(s, "spillingBytes", "spilledBytes", b)

OnCleanResidentDiscarded(s, b) ==
    Move(s, "unpinnedResidentBytes", "spilledBytes", b)

OnBlockMemoryDestroy(s, b) ==
    CASE memory[b].state = "kInMemory" ->
            SubtractOrSaturate(s, IF memory[b].pinCount = 0
                                  THEN "unpinnedResidentBytes"
                                  ELSE "pinnedResidentBytes", b)
      [] memory[b].state = "kSpilled" ->
            SubtractOrSaturate(s, "spilledBytes", b)
      [] memory[b].state = "kPrefetching" ->
            SubtractOrSaturate(SubtractOrSaturate(s, "spilledBytes", b),
                               "prefetchingBytes", b)
      [] memory[b].state = "kSpilling" ->
            SubtractOrSaturate(s, "spillingBytes", b)

(***************************************************************************)
(* Frames and the eviction queue                                           *)
(***************************************************************************)
Entry == [block : Block, sequence : Nat]
PendingWrite == [block : Block, data : Nat]

PinFrame == [phase : {"idle", "prefetching", "reading", "pinning", "throwing"},
             todo : Seq(Block),     \* the blocks that are still to be visited
             blocks : Seq(Block),   \* the blocks of the call
             done : Seq(Block)]     \* the ones whose handle was made

SpillFrame == [phase : {"idle", "submit", "harvest"},
               target : Nat,            \* targetBytes
               source : {"queue", "blocks"},
               blocks : Seq(Block),     \* the rest of the blocks of SpillBlocks
               submitted : Nat, reclaimed : Nat, noMoreCandidates : BOOLEAN,
               pending : Seq(PendingWrite)]     \* ReclaimWriteWindow::pending_

NoPin == [phase |-> "idle", todo |-> <<>>, blocks |-> <<>>, done |-> <<>>]
NoSpill == [phase |-> "idle", target |-> 0, source |-> "queue",
            blocks |-> <<>>, submitted |-> 0, reclaimed |-> 0,
            noMoreCandidates |-> FALSE, pending |-> <<>>]

Blank == [NewBlock EXCEPT !.pinCount = 0, !.payload = Missing]

\* Between two calls of the user
idle == pin.phase = "idle" /\ spill.phase = "idle"

\* While the manager decodes the block it reads back, an arbitration may run
decoding ==
    /\ pin.phase = "pinning" /\ spill.phase = "idle" /\ pin.todo # <<>>
    /\ memory[Head(pin.todo)].prefetchFuture = "pending"

Lists == UNION {[1 .. n -> live] : n \in 1 .. MaxList}

\* Mutant: pinned blocks are spilled as well.
isSpillablePinned(b) ==
    b \in live /\ memory[b].state = "kInMemory" /\ memory[b].payload # Missing

isSpillable(b) ==
    /\ b \in live /\ memory[b].pinCount = 0
    /\ memory[b].state = "kInMemory" /\ memory[b].payload # Missing

IsEvictable(e) ==
    isSpillable(e.block) /\ memory[e.block].evictionSequence = e.sequence

Init ==
    /\ memory = [b \in Block |-> Blank]
    /\ live = {}
    /\ nextBlockId = 1
    /\ queue = <<>>
    /\ stats = [c \in Counter |-> 0]
    /\ pin = NoPin
    /\ spill = NoSpill
    /\ content = [b \in Block |-> Missing]
    /\ handles = [b \in Block |-> 0]
    /\ lost = {}

(***************************************************************************)
(* Blocks and handles                                                      *)
(***************************************************************************)
\* BatchAllocate repeats this step.
Allocate ==
    /\ idle
    /\ nextBlockId \in Block
    /\ memory' = [memory EXCEPT ![nextBlockId] = NewBlock]
    /\ live' = live \cup {nextBlockId}
    /\ nextBlockId' = nextBlockId + 1
    /\ stats' = Increase(stats, "pinnedResidentBytes", nextBlockId)
    /\ content' = [content EXCEPT ![nextBlockId] = NewBlock.payload]
    /\ handles' = [handles EXCEPT ![nextBlockId] = 1]
    /\ UNCHANGED <<queue, pin, spill, lost>>

\* The user stores through the pointer of a handle, having marked the block.
\* What is stored before the first spill belongs to the first version.
store(b) ==
    /\ idle
    /\ handles[b] > 0 /\ memory[b].dirty /\ memory[b].segment # Missing
    /\ content[b] < MaxVersion
    /\ memory' = [memory EXCEPT ![b].payload = content[b] + 1]
    /\ content' = [content EXCEPT ![b] = @ + 1]
    /\ UNCHANGED <<live, nextBlockId, queue, stats, pin, spill, handles, lost>>

MarkDirty(b) ==
    /\ idle
    /\ b \in live /\ memory[b].state = "kInMemory"
    /\ memory' = [memory EXCEPT ![b].dirty = TRUE]
    /\ UNCHANGED <<live, nextBlockId, queue, stats, pin, spill, ghosts>>

\* Mutant: the block is queued before its generation changes.
unpinQueuedFirst(b) ==
    /\ memory' = [memory EXCEPT ![b] = Unpin(@)]
    /\ handles' = [handles EXCEPT ![b] = @ - 1]
    /\ IF memory'[b].pinCount = 0 /\ memory'[b].state = "kInMemory"
       THEN /\ stats' = Move(stats, "pinnedResidentBytes",
                             "unpinnedResidentBytes", b)
            /\ queue' = Append(queue, [block |-> b,
                            sequence |-> memory[b].evictionSequence])
       ELSE UNCHANGED <<stats, queue>>

\* BufferManager::Unpin, the end of a handle
unpin(b) ==
    /\ memory' = [memory EXCEPT ![b] = Unpin(@)]
    /\ handles' = [handles EXCEPT ![b] = @ - 1]
    /\ IF memory'[b].pinCount = 0 /\ memory'[b].state = "kInMemory"
       THEN /\ stats' = Move(stats, "pinnedResidentBytes",
                             "unpinnedResidentBytes", b)
            /\ queue' = Append(queue, [block |-> b,
                            sequence |-> memory'[b].evictionSequence])
       ELSE UNCHANGED <<stats, queue>>

reset(b) ==
    /\ idle
    /\ handles[b] > 0
    /\ unpin(b)
    /\ UNCHANGED <<live, nextBlockId, pin, spill, content, lost>>

\* The last BlockHandle goes; a BufferHandle would hold it.
destroy(b) ==
    /\ idle
    /\ b \in live /\ handles[b] = 0
    /\ live' = live \ {b}
    /\ memory' = [memory EXCEPT ![b] = Blank]
    /\ stats' = OnBlockMemoryDestroy(stats, b)
    /\ content' = [content EXCEPT ![b] = Missing]
    /\ lost' = lost \ {b}
    /\ UNCHANGED <<nextBlockId, queue, pin, spill, handles>>

(***************************************************************************)
(* Reading back                                                            *)
(***************************************************************************)
Prefetch(bs) ==
    /\ idle
    /\ pin' = [NoPin EXCEPT !.phase = "prefetching", !.todo = bs]
    /\ UNCHANGED <<memory, live, nextBlockId, queue, stats, spill, ghosts>>

mayPin(bs) ==
    /\ \A i \in DOMAIN bs : handles[bs[i]] + Len(bs) <= MaxHandles
    /\ \E m \in MaxSequences :
        \A b \in Block : memory[b].evictionSequence <= m[b]

\* Pin is the second loop of BatchPin for one block.
Pin(b) ==
    /\ idle
    /\ mayPin(<<b>>)
    /\ pin' = [NoPin EXCEPT !.phase = "pinning", !.todo = <<b>>,
                            !.blocks = <<b>>]
    /\ UNCHANGED <<memory, live, nextBlockId, queue, stats, spill, ghosts>>

BatchPin(bs) ==
    /\ idle
    /\ mayPin(bs)
    /\ pin' = [NoPin EXCEPT !.phase = "reading", !.todo = bs, !.blocks = bs]
    /\ UNCHANGED <<memory, live, nextBlockId, queue, stats, spill, ghosts>>

\* The rest of the call once the first block of the loop is done: the first loop
\* of BatchPin is followed by the second.
rest ==
    IF Len(pin.todo) > 1 THEN [pin EXCEPT !.todo = Tail(@)]
    ELSE IF pin.phase = "reading"
    THEN [pin EXCEPT !.phase = "pinning", !.todo = pin.blocks]
    ELSE NoPin

\* An exception leaves the call; the handles made so far are to be released.
throw == pin' = [pin EXCEPT !.phase = "throwing", !.todo = <<>>,
                            !.blocks = <<>>]

\* The loop of Prefetch, and the first one of BatchPin, over the blocks
visit ==
    /\ pin.phase \in {"prefetching", "reading"} /\ spill.phase = "idle"
    /\ pin.todo # <<>>
    /\ LET b == Head(pin.todo) IN
        IF memory[b].state = "kSpilled"
        THEN /\ memory' = [memory EXCEPT ![b] = SubmitRead(@)]
             /\ stats' = Increase(stats, "prefetchingBytes", b)
        ELSE UNCHANGED <<memory, stats>>
    /\ pin' = rest
    /\ UNCHANGED <<live, nextBlockId, queue, spill, ghosts>>

\* The read cannot be submitted.
submitReadFails ==
    /\ pin.phase # "idle" /\ spill.phase = "idle" /\ pin.todo # <<>>
    /\ memory[Head(pin.todo)].state = "kSpilled"
    /\ throw
    /\ UNCHANGED <<memory, live, nextBlockId, queue, stats, spill, ghosts>>

madeHandle(b) ==
    /\ handles' = [handles EXCEPT ![b] = @ + 1]
    /\ pin' = IF rest = NoPin THEN NoPin
              ELSE [rest EXCEPT !.done = Append(@, b)]

PinInMemory(b) ==
    /\ memory[b].state = "kInMemory"
    /\ stats' = OnResidentPinned(stats, b)
    /\ memory' = [memory EXCEPT ![b] = PinResident(@)]
    /\ madeHandle(b)

\* PinSpilled submits the read and goes on with PinPrefetching.
PinSpilled(b) ==
    /\ memory[b].state = "kSpilled"
    /\ memory' = [memory EXCEPT ![b] = SubmitRead(@)]
    /\ stats' = Increase(stats, "prefetchingBytes", b)
    /\ UNCHANGED <<pin, handles>>

\* Mutant: a failed read is not taken off the counter.
PinPrefetchingUncounted(b) ==
    /\ memory[b].prefetchFuture = "pending"
    /\ \/ /\ stats' = OnReadCompleted(OnReadFutureConsumed(stats, b), b)
          /\ memory' = [memory EXCEPT ![b] = CompleteReadKeepBacking(@)]
          /\ madeHandle(b)
       \/ /\ memory' = [memory EXCEPT ![b] = MarkReadFailed(@)]
          /\ throw
          /\ UNCHANGED <<stats, handles>>

PinPrefetching(b) ==
    /\ memory[b].prefetchFuture = "pending"
    /\ \/ /\ stats' = OnReadCompleted(OnReadFutureConsumed(stats, b), b)
          /\ memory' = [memory EXCEPT ![b] = CompleteReadKeepBacking(@)]
          /\ madeHandle(b)
       \/ /\ stats' = OnReadFutureConsumed(stats, b)
          /\ memory' = [memory EXCEPT ![b] = MarkReadFailed(@)]
          /\ throw
          /\ UNCHANGED handles

\* SpillReadFuture::get throws while it decodes: ConsumePrefetch does not
\* reset the future, and a further Pin of the block throws as well.  A block
\* whose write failed throws, too.
PinThrows(b) ==
    /\ memory[b].state \in {"kPrefetching", "kSpilling"}
    /\ memory' = [memory EXCEPT ![b].prefetchFuture =
                    IF memory[b].state = "kPrefetching" THEN "consumed" ELSE @]
    /\ throw
    /\ UNCHANGED <<stats, handles>>

pinNext ==
    /\ pin.phase = "pinning" /\ spill.phase = "idle" /\ pin.todo # <<>>
    /\ LET b == Head(pin.todo) IN
        PinInMemory(b) \/ PinSpilled(b) \/ PinPrefetching(b) \/ PinThrows(b)
    /\ UNCHANGED <<live, nextBlockId, queue, spill, content, lost>>

\* Mutant: the handles of a call that fails are kept.
unwindNothing ==
    /\ pin.phase = "throwing" /\ spill.phase = "idle"
    /\ pin' = NoPin
    /\ UNCHANGED <<memory, live, nextBlockId, queue, stats, spill, ghosts>>

\* The vector of handles is destroyed, front first.
unwind ==
    /\ pin.phase = "throwing" /\ spill.phase = "idle"
    /\ IF pin.done = <<>>
       THEN /\ pin' = NoPin
            /\ UNCHANGED <<memory, queue, stats, handles>>
       ELSE /\ unpin(Head(pin.done))
            /\ pin' = [pin EXCEPT !.done = Tail(@)]
    /\ UNCHANGED <<live, nextBlockId, spill, content, lost>>

(***************************************************************************)
(* Spilling                                                                *)
(***************************************************************************)
\* One block of the list of DiscardCleanResidentBlocks
DiscardClean(b) ==
    /\ idle
    /\ b \in live /\ CanDiscardResidentWithBacking(memory[b])
    /\ stats' = OnCleanResidentDiscarded(stats, b)
    /\ memory' = [memory EXCEPT ![b] = DiscardResidentWithBacking(@)]
    /\ UNCHANGED <<live, nextBlockId, queue, pin, spill, ghosts>>

Reclaim(targetBytes) ==
    /\ idle \/ decoding
    /\ spill' = [NoSpill EXCEPT !.phase = "submit", !.target = targetBytes]
    /\ UNCHANGED <<memory, live, nextBlockId, queue, stats, pin, ghosts>>

SpillBlocks(bs) ==
    /\ idle
    /\ spill' = [NoSpill EXCEPT !.phase = "submit", !.source = "blocks",
                                !.blocks = bs]
    /\ UNCHANGED <<memory, live, nextBlockId, queue, stats, pin, ghosts>>

canSubmit == Len(spill.pending) < MaxInflight

\* The condition of the loop of submitMore
submitting ==
    /\ spill.phase = "submit"
    /\ canSubmit
    /\ spill.target = 0 \/ spill.submitted < spill.target
    /\ ~spill.noMoreCandidates

fromQueue == spill.source = "queue"
exhausted == IF fromQueue THEN queue = <<>> ELSE spill.blocks = <<>>
nextBlock == IF fromQueue THEN Head(queue).block ELSE Head(spill.blocks)
nextIsCandidate ==
    IF fromQueue THEN IsEvictable(Head(queue)) ELSE isSpillable(nextBlock)

popped == IF fromQueue THEN Tail(queue) ELSE queue
advanced ==
    IF fromQueue THEN spill ELSE [spill EXCEPT !.blocks = Tail(@)]

noCandidate ==
    /\ submitting /\ exhausted
    /\ spill' = [spill EXCEPT !.noMoreCandidates = TRUE]
    /\ UNCHANGED <<memory, live, nextBlockId, queue, stats, pin, ghosts>>

skip ==
    /\ submitting /\ ~exhausted /\ ~nextIsCandidate
    /\ queue' = popped
    /\ spill' = advanced
    /\ UNCHANGED <<memory, live, nextBlockId, stats, pin, ghosts>>

discard ==
    /\ submitting /\ ~exhausted /\ nextIsCandidate
    /\ LET b == nextBlock IN
        /\ CanDiscardResidentWithBacking(memory[b])
        /\ stats' = OnCleanResidentDiscarded(stats, b)
        /\ memory' = [memory EXCEPT ![b] = DiscardResidentWithBacking(@)]
        /\ spill' = [advanced EXCEPT !.reclaimed = @ + Size[b],
                                     !.submitted = @ + Size[b]]
    /\ queue' = popped
    /\ UNCHANGED <<live, nextBlockId, pin, ghosts>>

inFlight == {spill.pending[i].block : i \in DOMAIN spill.pending}

\* ReclaimWriteWindow::Submit.  When the submission fails, the exception
\* destroys the window with all the bytes in it.
submit ==
    /\ submitting /\ ~exhausted /\ nextIsCandidate
    /\ LET b == nextBlock IN
        /\ ~CanDiscardResidentWithBacking(memory[b])
        /\ memory' = [memory EXCEPT ![b] = BeginSpill(@)]
        /\ stats' = OnSpillStarted(stats, b)
        /\ \/ /\ spill' = [advanced EXCEPT
                    !.pending = Append(@, [block |-> b,
                                           data |-> memory[b].payload]),
                    !.submitted = @ + Size[b]]
              /\ UNCHANGED lost
           \/ /\ spill' = NoSpill
              /\ lost' = lost \cup inFlight \cup {b}
    /\ queue' = popped
    /\ UNCHANGED <<live, nextBlockId, pin, content, handles>>

\* Mutant: the window is not filled again.
HarvestOnly ==
    /\ spill.phase # "idle" /\ ~submitting /\ spill.pending # <<>>
    /\ LET w == Head(spill.pending) IN
        /\ stats' = OnSpillCompleted(stats, w.block)
        /\ memory' = [memory EXCEPT ![w.block] = CompleteSpill(@, w.data)]
        /\ spill' = [spill EXCEPT !.pending = Tail(@), !.phase = "harvest",
                                  !.reclaimed = @ + Size[w.block]]
    /\ UNCHANGED <<live, nextBlockId, queue, pin, ghosts>>

HarvestNext ==
    /\ spill.phase # "idle" /\ ~submitting /\ spill.pending # <<>>
    /\ LET w == Head(spill.pending)
           reclaimed == spill.reclaimed + Size[w.block]
       IN  /\ stats' = OnSpillCompleted(stats, w.block)
           /\ memory' = [memory EXCEPT ![w.block] = CompleteSpill(@, w.data)]
           /\ spill' = [spill EXCEPT
                !.pending = Tail(@),
                !.reclaimed = reclaimed,
                !.phase = IF spill.target = 0 \/ reclaimed < spill.target
                          THEN "submit" ELSE "harvest"]
    /\ UNCHANGED <<live, nextBlockId, queue, pin, ghosts>>

\* The write failed: the block keeps the state kSpilling for good.
harvestFails ==
    /\ spill.phase # "idle" /\ ~submitting /\ spill.pending # <<>>
    /\ lost' = lost \cup inFlight
    /\ spill' = NoSpill
    /\ UNCHANGED <<memory, live, nextBlockId, queue, stats, pin, content,
                   handles>>

spilled ==
    /\ spill.phase # "idle" /\ ~submitting /\ spill.pending = <<>>
    /\ spill' = NoSpill
    /\ UNCHANGED <<memory, live, nextBlockId, queue, stats, pin, ghosts>>

Next ==
    \/ Allocate
    \/ \E b \in Block : store(b) \/ MarkDirty(b) \/ reset(b) \/ destroy(b)
                        \/ DiscardClean(b)
    \/ \E b \in live : Pin(b)
    \/ \E bs \in Lists : Prefetch(bs) \/ BatchPin(bs) \/ SpillBlocks(bs)
    \/ visit \/ submitReadFails \/ pinNext \/ unwind
    \/ \E targetBytes \in Targets : Reclaim(targetBytes)
    \/ noCandidate \/ skip \/ discard \/ submit
    \/ HarvestNext \/ harvestFails \/ spilled

Spec == Init /\ [][Next]_vars

-----------------------------------------------------------------------------
\* The types of the state; the counters and pin counts stay natural numbers.
TypeOK ==
    /\ memory \in [Block -> BlockMemory]
    /\ live \subseteq Block
    /\ nextBlockId \in 1 .. NumBlocks + 1
    /\ queue \in Seq(Entry)
    /\ stats \in [Counter -> Nat]
    /\ pin \in PinFrame
    /\ spill \in SpillFrame
    /\ content \in [Block -> Nat]
    /\ handles \in [Block -> Nat]
    /\ lost \subseteq Block

(***************************************************************************)
(* "A block held by a BufferHandle is never spilled" (Usage.md): the pin   *)
(* count is the number of handles, which CompleteReadKeepBacking sets to 1 *)
(* and the release of a partial BatchPin takes back, and a block that has  *)
(* a handle is resident.                                                   *)
(***************************************************************************)
HandlesArePins ==
    \A b \in live :
        /\ memory[b].pinCount = handles[b]
        /\ handles[b] > 0 => memory[b].state = "kInMemory"

(***************************************************************************)
(* What a user wrote last is what a Pin returns: a resident block has it   *)
(* in its payload, a spilled one in its segment, and one that is being     *)
(* spilled in the window, also if an older segment of the block exists.    *)
(* Only the bytes of a failed write are gone, and such a block is never    *)
(* handed out again.                                                       *)
(***************************************************************************)
DataSurvives ==
    \A b \in live :
        CASE memory[b].state = "kInMemory" -> memory[b].payload = content[b]
          [] memory[b].state = "kSpilling" ->
                \/ b \in lost
                \/ \E i \in DOMAIN spill.pending :
                    spill.pending[i] = [block |-> b, data |-> content[b]]
          [] OTHER -> memory[b].segment = content[b]

(***************************************************************************)
(* No block becomes unreachable for Reclaim: each unpinned resident block  *)
(* has an entry of its current generation in the eviction queue, although  *)
(* entries are dropped lazily and generations change with every pin, spill *)
(* and read (EvictionQueue::PopEvictable).                                 *)
(***************************************************************************)
EvictableIsQueued ==
    \A b \in live : isSpillable(b) =>
        \E i \in DOMAIN queue :
            queue[i] = [block |-> b, sequence |-> memory[b].evictionSequence]

\* The bytes of the live blocks that satisfy P
bytesOf(P(_)) == MapThenSumSet(LAMBDA b : Size[b], {b \in live : P(b)})

(***************************************************************************)
(* The counters agree with the blocks, whatever failed on the way; the     *)
(* arbitrator picks its victims by unpinnedResidentBytes, and no counter   *)
(* is ever saved from an underflow by SubtractOrSaturate.                  *)
(***************************************************************************)
AccountingIsExact ==
    LET in(s) == bytesOf(LAMBDA b : memory[b].state = s)
        free == bytesOf(LAMBDA b : isSpillable(b))
    IN  /\ stats["unpinnedResidentBytes"] = free
        /\ stats["pinnedResidentBytes"] = in("kInMemory") - free
        /\ stats["spilledBytes"] = in("kSpilled") + in("kPrefetching")
        /\ stats["spillingBytes"] = in("kSpilling")
        /\ stats["prefetchingBytes"] = in("kPrefetching")

(***************************************************************************)
(* A Reclaim that returns has done what was asked: it has written or       *)
(* dropped the target's worth of bytes, or there is nothing left to evict; *)
(* with target 0 there never is (SpillWriteDriver::Spill).                 *)
(***************************************************************************)
ReclaimIsComplete ==
    spill.phase # "idle" /\ fromQueue /\ ~submitting /\ spill.pending = <<>> =>
        \/ spill.target > 0 /\ spill.reclaimed >= spill.target
        \/ \A b \in live : ~isSpillable(b)

(***************************************************************************)
(* The promise to the user                                                 *)
(***************************************************************************)
written(b) == {i \in DOMAIN spill.pending : spill.pending[i].block = b}

\* Where the bytes of a block are
bytes(b) ==
    CASE memory[b].state = "kInMemory" -> memory[b].payload
      [] memory[b].state = "kSpilling" ->
            IF written(b) = {} THEN Missing
            ELSE spill.pending[CHOOSE i \in written(b) : TRUE].data
      [] OTHER -> memory[b].segment

\* The pins of the user: not yet the ones of a call that may still fail
granted(b) ==
    memory[b].pinCount - Cardinality({i \in DOMAIN pin.done : pin.done[i] = b})

requested == IF pin.phase \in {"reading", "pinning"} THEN pin.blocks ELSE <<>>

User == INSTANCE BlockStore WITH
    Data <- 1 .. MaxVersion,
    content <- [b \in Block |-> bytes(b)],
    pins <- [b \in Block |-> granted(b)],
    request <- requested

(***************************************************************************)
(* The manager implements BlockStore: whatever is evicted, written, read   *)
(* back, prefetched or failed on the way, the user sees blocks that keep   *)
(* what was stored, and BatchPin is all or nothing.                        *)
(***************************************************************************)
ImplementsBlockStore == User!Spec
=============================================================================
