------------------------ MODULE BufferManagerBlocks ------------------------
(***************************************************************************)
(* The inductive invariant of BufferManager, and the parts of its proof    *)
(* that are about blocks: no step loses the bytes of a block, or mistakes  *)
(* an older segment for them, and none makes a block unreachable for       *)
(* Reclaim.  All holds for any number and sizes of blocks, any window of   *)
(* writes, any reclaim targets and any bounds.                             *)
(***************************************************************************)
EXTENDS BufferManager, TLAPS

-----------------------------------------------------------------------------
(***************************************************************************)
(* The inductive invariant.                                                *)
(***************************************************************************)

\* Where the bytes of a block are, in every state it may be in.
SoundOf(b) ==
    /\ b \notin live => /\ memory[b] = Blank /\ b \notin lost
                       /\ content[b] = Missing /\ handles[b] = 0
    /\ b \in live => content[b] \in 1 .. MaxVersion
    /\ memory[b].pinCount = handles[b]
    /\ handles[b] > 0 => memory[b].state = "kInMemory"
    /\ memory[b].state = "kInMemory" =>
         memory[b].payload = content[b] /\ b \notin lost
    /\ memory[b].state = "kInMemory" /\ ~memory[b].dirty =>
         memory[b].segment = content[b]
    /\ memory[b].state \in {"kSpilled", "kPrefetching"} =>
         memory[b].segment = content[b] /\ b \notin lost
    /\ memory[b].prefetchFuture # "none" => memory[b].state = "kPrefetching"
    /\ memory[b].state = "kSpilling" /\ b \notin lost =>
         \E i \in DOMAIN spill.pending : spill.pending[i].block = b

Sound == \A b \in Block : SoundOf(b)

\* The writes in flight are of different blocks, each the latest version.
Window ==
    \A i \in DOMAIN spill.pending :
        /\ spill.pending[i].block \in live \ lost
        /\ memory[spill.pending[i].block].state = "kSpilling"
        /\ spill.pending[i].data = content[spill.pending[i].block]
        /\ \A j \in DOMAIN spill.pending :
             spill.pending[j].block = spill.pending[i].block => i = j

\* The frames of the calls under way.
Calls ==
    /\ pin.phase = "idle" => pin = NoPin
    /\ spill.phase = "idle" => spill = NoSpill
    /\ \A i \in DOMAIN pin.todo : pin.todo[i] \in live
    /\ \A i \in DOMAIN pin.blocks : pin.blocks[i] \in live
    /\ \A i \in DOMAIN pin.done : pin.done[i] \in live
    /\ \A i \in DOMAIN spill.blocks : spill.blocks[i] \in live
    /\ pin.phase \in {"prefetching", "reading", "pinning"} => pin.todo # <<>>
    /\ pin.phase \in {"prefetching", "reading"} => pin.done = <<>>
    /\ pin.phase = "reading" => pin.blocks # <<>>
    /\ pin.phase = "pinning" =>
         /\ Len(pin.done) + Len(pin.todo) = Len(pin.blocks)
         /\ \A i \in DOMAIN pin.done : pin.blocks[i] = pin.done[i]
         /\ \A i \in DOMAIN pin.todo : pin.blocks[Len(pin.done) + i] = pin.todo[i]

\* How often 'b' is one of 'bs', and what the proofs use of it: Counting has it.
times(bs, b) == Cardinality({i \in DOMAIN bs : bs[i] = b})

CountingFacts ==
    \A b \in Block :
        /\ times(<<>>, b) = 0
        /\ \A bs \in Seq(Block) :
            /\ times(bs, b) \in Nat
            /\ \A i \in DOMAIN bs : bs[i] = b => times(bs, b) > 0
            /\ \A c \in Block : times(Append(bs, c), b) =
                    IF c = b THEN times(bs, b) + 1 ELSE times(bs, b)
            /\ bs # <<>> => times(bs, b) =
                    IF Head(bs) = b THEN times(Tail(bs), b) + 1
                    ELSE times(Tail(bs), b)

\* A handle that BatchPin has made and not returned yet is a handle.
Counted == \A b \in Block : times(pin.done, b) <= handles[b]

\* Block ids are not used again.
Fresh == \A b \in live : b < nextBlockId

IInv ==
    /\ TypeOK
    /\ Sound
    /\ Window
    /\ Calls
    /\ Counted
    /\ Fresh
    /\ EvictableIsQueued

-----------------------------------------------------------------------------
(***************************************************************************)
(* Types.                                                                  *)
(***************************************************************************)

\* The counters stay natural numbers: SubtractOrSaturate never goes below zero.
LEMMA StatsMove ==
    ASSUME NEW s \in [Counter -> Nat], NEW b \in Block,
           NEW c \in Counter, NEW d \in Counter
    PROVE  /\ SubtractOrSaturate(s, c, b) \in [Counter -> Nat]
           /\ Increase(s, c, b) \in [Counter -> Nat]
           /\ Move(s, c, d, b) \in [Counter -> Nat]
<1>1. Size[b] \in Nat
    BY BlockAssumption
<1>2. \A t \in [Counter -> Nat], e \in Counter :
        /\ SubtractOrSaturate(t, e, b) \in [Counter -> Nat]
        /\ Increase(t, e, b) \in [Counter -> Nat]
    BY <1>1 DEF SubtractOrSaturate, Increase
<1>. QED BY <1>2 DEF Move

\* Every operation of BlockStateMachine makes a BlockMemory of a BlockMemory.
LEMMA RecordTypes ==
    ASSUME NEW m \in BlockMemory, NEW s \in Nat
    PROVE  /\ PinResident(m) \in BlockMemory
           /\ m.pinCount > 0 => Unpin(m) \in BlockMemory
           /\ SubmitRead(m) \in BlockMemory
           /\ MarkReadFailed(m) \in BlockMemory
           /\ CompleteReadKeepBacking(m) \in BlockMemory
           /\ BeginSpill(m) \in BlockMemory
           /\ DiscardResidentWithBacking(m) \in BlockMemory
           /\ CompleteSpill(m, s) \in BlockMemory
<1>. /\ m.pinCount + 1 \in Nat
     /\ m.pinCount > 0 => m.pinCount - 1 \in Nat
     /\ m.evictionSequence \in Nat
     /\ m.evictionSequence + 1 \in Nat
     /\ m.segment \in Nat
    BY DEF BlockMemory
<1>. USE DEF BlockMemory, State, Missing
<1>1. PinResident(m) \in BlockMemory
    BY Zenon DEF PinResident
<1>2. m.pinCount > 0 => Unpin(m) \in BlockMemory
    BY Zenon DEF Unpin
<1>3. SubmitRead(m) \in BlockMemory
    BY Zenon DEF SubmitRead
<1>4. MarkReadFailed(m) \in BlockMemory
    BY Zenon DEF MarkReadFailed
<1>5. CompleteReadKeepBacking(m) \in BlockMemory
    BY Zenon DEF CompleteReadKeepBacking
<1>6. BeginSpill(m) \in BlockMemory
    BY Zenon DEF BeginSpill
<1>7. DiscardResidentWithBacking(m) \in BlockMemory
    BY Zenon DEF DiscardResidentWithBacking
<1>8. CompleteSpill(m, s) \in BlockMemory
    BY Zenon DEF CompleteSpill
<1>. QED BY <1>1, <1>2, <1>3, <1>4, <1>5, <1>6, <1>7, <1>8

\* A block that is not allocated is a block, too.
LEMMA BlankType ==
    /\ Blank \in BlockMemory /\ NewBlock \in BlockMemory
    /\ Blank.state = "kInMemory" /\ Blank.pinCount = 0 /\ Blank.dirty = TRUE
    /\ Blank.payload = Missing /\ Blank.prefetchFuture = "none"
BY Zenon DEF Blank, NewBlock, BlockMemory, State, Missing

\* What the operations leave alone.
LEMMA RecordFields ==
    ASSUME NEW m \in BlockMemory
    PROVE  /\ PinResident(m).pinCount = m.pinCount + 1
           /\ PinResident(m).state = m.state
           /\ PinResident(m).dirty = m.dirty
           /\ PinResident(m).payload = m.payload
           /\ PinResident(m).segment = m.segment
           /\ PinResident(m).prefetchFuture = m.prefetchFuture
           /\ DiscardResidentWithBacking(m).state = "kSpilled"
           /\ DiscardResidentWithBacking(m).pinCount = m.pinCount
           /\ DiscardResidentWithBacking(m).segment = m.segment
           /\ DiscardResidentWithBacking(m).prefetchFuture = m.prefetchFuture
           /\ BeginSpill(m).pinCount = m.pinCount
           /\ BeginSpill(m).state = "kSpilling"
           /\ BeginSpill(m).prefetchFuture = m.prefetchFuture
<1>. /\ m.pinCount + 1 \in Nat
     /\ m.evictionSequence + 1 \in Nat
    BY DEF BlockMemory
<1>1. /\ PinResident(m).pinCount = m.pinCount + 1
      /\ PinResident(m).state = m.state
      /\ PinResident(m).dirty = m.dirty
      /\ PinResident(m).payload = m.payload
      /\ PinResident(m).segment = m.segment
      /\ PinResident(m).prefetchFuture = m.prefetchFuture
    BY DEF PinResident, BlockMemory
<1>2. /\ DiscardResidentWithBacking(m).state = "kSpilled"
      /\ DiscardResidentWithBacking(m).pinCount = m.pinCount
      /\ DiscardResidentWithBacking(m).segment = m.segment
      /\ DiscardResidentWithBacking(m).prefetchFuture = m.prefetchFuture
    BY DEF DiscardResidentWithBacking, BlockMemory
<1>3. /\ BeginSpill(m).pinCount = m.pinCount
      /\ BeginSpill(m).state = "kSpilling"
      /\ BeginSpill(m).prefetchFuture = m.prefetchFuture
    BY DEF BeginSpill, BlockMemory
<1>. QED BY <1>1, <1>2, <1>3

-----------------------------------------------------------------------------
\* The head and the tail of a sequence.
LEMMA TailFacts ==
    ASSUME NEW S, NEW s \in Seq(S), s # <<>>
    PROVE  /\ Len(s) \in Nat \ {0} /\ DOMAIN s = 1 .. Len(s)
           /\ Head(s) = s[1] /\ 1 \in DOMAIN s
           /\ Tail(s) \in Seq(S) /\ Len(Tail(s)) = Len(s) - 1
           /\ DOMAIN Tail(s) = 1 .. Len(s) - 1
           /\ \A i \in DOMAIN Tail(s) :
                 /\ i \in Nat /\ i + 1 \in DOMAIN s
                 /\ Tail(s)[i] = s[i + 1]
           /\ Len(s) > 1 => Tail(s) # <<>>
<1>1. /\ Len(s) \in Nat \ {0} /\ DOMAIN s = 1 .. Len(s)
      /\ Head(s) = s[1]
      /\ Tail(s) \in Seq(S) /\ Len(Tail(s)) = Len(s) - 1
    OBVIOUS
<1>2. DOMAIN Tail(s) = 1 .. Len(s) - 1
  <2>1. \A t \in Seq(S) : DOMAIN t = 1 .. Len(t)
    OBVIOUS
  <2>2. DOMAIN Tail(s) = 1 .. Len(Tail(s))
    BY <1>1, <2>1
  <2>. QED BY <1>1, <2>2
<1>3. \A i \in DOMAIN Tail(s) : Tail(s)[i] = s[i + 1]
    BY <1>1, <1>2
<1>4. \A i \in 1 .. Len(s) - 1 : i \in Nat /\ i + 1 \in 1 .. Len(s)
    BY <1>1
<1>5. Len(s) > 1 => Tail(s) # <<>>
  <2>1. Len(<<>>) = 0
    OBVIOUS
  <2>2. Len(s) > 1 => Len(Tail(s)) # 0
    BY <1>1
  <2>. QED BY Zenon, <2>1, <2>2
<1>. QED BY <1>1, <1>2, <1>3, <1>4, <1>5

-----------------------------------------------------------------------------
(***************************************************************************)
(* The bytes.                                                              *)
(***************************************************************************)

\* The types of the frames.
LEMMA WriteTypes ==
    ASSUME IInv
    PROVE  /\ spill.pending \in Seq(PendingWrite)
           /\ \A i \in DOMAIN spill.pending :
                spill.pending[i].block \in Block /\ spill.pending[i].data \in Nat
<1>1. spill.pending \in Seq(PendingWrite)
    BY DEF IInv, TypeOK, SpillFrame
<1>2. \A i \in DOMAIN spill.pending : spill.pending[i] \in PendingWrite
    BY <1>1
<1>. QED BY <1>1, <1>2 DEF PendingWrite

\* A step that touches one block, which no write in flight is of, keeps the other
\* blocks and the window as they are.
LEMMA OneBlock ==
    ASSUME IInv, NEW c \in Block,
           \A b \in Block \ {c} :
                /\ memory'[b] = memory[b]
                /\ content'[b] = content[b]
                /\ handles'[b] = handles[b]
                /\ b \in live' <=> b \in live
                /\ b \in lost' <=> b \in lost,
           spill'.pending = spill.pending,
           \A i \in DOMAIN spill.pending : spill.pending[i].block # c,
           SoundOf(c)'
    PROVE  Sound' /\ Window'
<1>1. ASSUME NEW b \in Block PROVE SoundOf(b)'
  <2>1. CASE b = c
    BY <2>1
  <2>2. CASE b # c
    <3>1. SoundOf(b)
        BY DEF IInv, Sound
    <3>. QED BY <2>2, <3>1 DEF SoundOf
  <2>. QED BY <2>1, <2>2
<1>2. Window'
  <2>1. \A i \in DOMAIN spill.pending : spill.pending[i].block \in Block \ {c}
    BY WriteTypes
  <2>. QED BY <2>1 DEF IInv, Window
<1>. QED BY <1>1, <1>2 DEF Sound

\* Between two calls no write is in flight.
LEMMA IdleWindow ==
    ASSUME IInv, spill.phase = "idle"
    PROVE  spill.pending = <<>> /\ DOMAIN spill.pending = {}
BY DEF IInv, Calls, NoSpill

\* What the invariant says of one block.
LEMMA BlockFacts ==
    ASSUME IInv, NEW c \in Block
    PROVE  /\ memory[c] \in BlockMemory
           /\ SoundOf(c)
           /\ content[c] \in Nat /\ handles[c] \in Nat
BY DEF IInv, TypeOK, Sound

\* The calls of the user that change a block.
LEMMA AllocateKeepsBytes ==
    ASSUME IInv, Allocate
    PROVE  Sound' /\ Window'
<1>0. PICK c \in Block : c = nextBlockId
    BY DEF Allocate
<1>1. c \notin live
    BY <1>0 DEF IInv, Fresh, Block
<1>2. /\ memory' = [memory EXCEPT ![c] = NewBlock]
      /\ content' = [content EXCEPT ![c] = 1]
      /\ handles' = [handles EXCEPT ![c] = 1]
      /\ live' = live \cup {c} /\ lost' = lost /\ spill' = spill
    BY <1>0 DEF Allocate, NewBlock
<1>3. SoundOf(c)'
  <2>1. memory'[c] = NewBlock /\ content'[c] = 1 /\ handles'[c] = 1
    BY <1>1, <1>2 DEF IInv, TypeOK
  <2>2. c \notin lost /\ c \in live' /\ c \notin lost'
    BY <1>1, <1>2, BlockFacts DEF SoundOf
  <2>. QED BY <2>1, <2>2, BoundAssumption DEF SoundOf, NewBlock
<1>4. \A i \in DOMAIN spill.pending : spill.pending[i].block # c
    BY IdleWindow DEF Allocate, idle
<1>5. \A b \in Block \ {c} :
        /\ memory'[b] = memory[b] /\ content'[b] = content[b]
        /\ handles'[b] = handles[b]
        /\ b \in live' <=> b \in live
        /\ b \in lost' <=> b \in lost
    BY <1>1, <1>2 DEF IInv, TypeOK
<1>. QED BY <1>1, <1>2, <1>3, <1>4, <1>5, OneBlock

\* The user stores through a handle: the payload is the new version.
LEMMA StoreKeepsBytes ==
    ASSUME IInv, NEW c \in Block, store(c)
    PROVE  Sound' /\ Window'
<1>1. /\ memory' = [memory EXCEPT ![c].payload = content[c] + 1]
      /\ content' = [content EXCEPT ![c] = content[c] + 1]
      /\ handles[c] > 0 /\ memory[c].dirty /\ content[c] < MaxVersion
      /\ handles' = handles /\ live' = live /\ lost' = lost /\ spill' = spill
    BY DEF store
<1>2. SoundOf(c)'
  <2>1. memory'[c] = [memory[c] EXCEPT !.payload = content[c] + 1]
        /\ content'[c] = content[c] + 1
    BY <1>1 DEF IInv, TypeOK
  <2>2. c \in live /\ content'[c] \in 1 .. MaxVersion
    BY <1>1, <2>1, BlockFacts, BoundAssumption DEF SoundOf
  <2>. QED BY <1>1, <2>1, <2>2, BlockFacts DEF SoundOf, BlockMemory
<1>3. \A i \in DOMAIN spill.pending : spill.pending[i].block # c
    BY IdleWindow DEF store, idle
<1>4. \A b \in Block \ {c} :
        memory'[b] = memory[b] /\ content'[b] = content[b]
    BY <1>1 DEF IInv, TypeOK
<1>. QED BY <1>1, <1>2, <1>3, <1>4, OneBlock

\* MarkDirty only forgets that a segment has the bytes.
LEMMA MarkDirtyKeepsBytes ==
    ASSUME IInv, NEW c \in Block, MarkDirty(c)
    PROVE  Sound' /\ Window'
<1>1. /\ memory' = [memory EXCEPT ![c].dirty = TRUE]
      /\ c \in live /\ memory[c].state = "kInMemory"
      /\ UNCHANGED <<content, handles, live, lost, spill>>
    BY DEF MarkDirty, ghosts
<1>2. SoundOf(c)'
  <2>1. memory'[c] = [memory[c] EXCEPT !.dirty = TRUE]
    BY <1>1 DEF IInv, TypeOK
  <2>. QED BY <1>1, <2>1, BlockFacts DEF SoundOf, BlockMemory
<1>3. \A i \in DOMAIN spill.pending : spill.pending[i].block # c
    BY IdleWindow DEF MarkDirty, idle
<1>4. \A b \in Block \ {c} : memory'[b] = memory[b]
    BY <1>1 DEF IInv, TypeOK
<1>. QED BY <1>1, <1>2, <1>3, <1>4, OneBlock

\* Only blocks in state kSpilling have a write in flight.
LEMMA NotInWindow ==
    ASSUME IInv, NEW c \in Block, memory[c].state # "kSpilling"
    PROVE  \A i \in DOMAIN spill.pending : spill.pending[i].block # c
BY DEF IInv, Window

\* The end of a handle, in reset and in the release of a failed BatchPin.
LEMMA UnpinKeepsBytes ==
    ASSUME IInv, NEW c \in Block, handles[c] > 0, unpin(c),
           spill'.pending = spill.pending, UNCHANGED <<content, live, lost>>
    PROVE  Sound' /\ Window'
<1>1. /\ memory' = [memory EXCEPT ![c] = Unpin(memory[c])]
      /\ handles' = [handles EXCEPT ![c] = handles[c] - 1]
    BY DEF unpin
<1>2. SoundOf(c)'
  <2>1. memory'[c] = Unpin(memory[c]) /\ handles'[c] = handles[c] - 1
    BY <1>1 DEF IInv, TypeOK
  <2>2. /\ memory'[c].pinCount = memory[c].pinCount - 1
        /\ memory'[c].state = memory[c].state
        /\ memory'[c].dirty = memory[c].dirty
        /\ memory'[c].payload = memory[c].payload
        /\ memory'[c].segment = memory[c].segment
        /\ memory'[c].prefetchFuture = memory[c].prefetchFuture
    BY <2>1, BlockFacts DEF Unpin, BlockMemory
  <2>3. c \in live /\ memory[c].state = "kInMemory"
    BY BlockFacts DEF SoundOf
  <2>. QED BY <2>1, <2>2, <2>3, BlockFacts DEF SoundOf
<1>3. memory[c].state # "kSpilling"
    BY BlockFacts DEF SoundOf
<1>4. \A b \in Block \ {c} : memory'[b] = memory[b] /\ handles'[b] = handles[b]
    BY <1>1 DEF IInv, TypeOK
<1>. QED BY <1>2, <1>3, <1>4, NotInWindow, OneBlock

\* The last BlockHandle of a block goes, and with it all that is known of it.
LEMMA DestroyKeepsBytes ==
    ASSUME IInv, NEW c \in Block, destroy(c)
    PROVE  Sound' /\ Window'
<1>1. /\ memory' = [memory EXCEPT ![c] = Blank]
      /\ content' = [content EXCEPT ![c] = Missing]
      /\ live' = live \ {c} /\ lost' = lost \ {c}
      /\ handles[c] = 0 /\ handles' = handles /\ spill' = spill
    BY DEF destroy
<1>2. SoundOf(c)'
  <2>1. memory'[c] = Blank /\ content'[c] = Missing
    BY <1>1 DEF IInv, TypeOK
  <2>. QED BY <1>1, <2>1, BlankType DEF SoundOf
<1>3. \A i \in DOMAIN spill.pending : spill.pending[i].block # c
    BY IdleWindow DEF destroy, idle
<1>4. \A b \in Block \ {c} : memory'[b] = memory[b] /\ content'[b] = content[b]
    BY <1>1 DEF IInv, TypeOK
<1>. QED BY <1>1, <1>2, <1>3, <1>4, OneBlock

\* A clean block is dropped: its segment has the bytes.
LEMMA DiscardKeepsBytes ==
    ASSUME IInv, NEW c \in Block, c \in live,
           CanDiscardResidentWithBacking(memory[c]),
           memory' = [memory EXCEPT ![c] = DiscardResidentWithBacking(memory[c])],
           spill'.pending = spill.pending, UNCHANGED <<content, handles, live, lost>>
    PROVE  Sound' /\ Window'
<1>1. SoundOf(c)'
  <2>1. memory'[c] = DiscardResidentWithBacking(memory[c])
    BY DEF IInv, TypeOK
  <2>2. /\ memory'[c].pinCount = memory[c].pinCount
        /\ memory'[c].state = "kSpilled"
        /\ memory'[c].segment = memory[c].segment
        /\ memory'[c].prefetchFuture = memory[c].prefetchFuture
    BY <2>1, BlockFacts, RecordFields
  <2>. QED BY <2>2, BlockFacts DEF SoundOf, CanDiscardResidentWithBacking
<1>2. memory[c].state # "kSpilling"
    BY DEF CanDiscardResidentWithBacking
<1>3. \A b \in Block \ {c} : memory'[b] = memory[b]
    BY DEF IInv, TypeOK
<1>. QED BY <1>1, <1>2, <1>3, NotInWindow, OneBlock

\* A read is submitted, fails, or its future is used up: the segment stays.
LEMMA ReadKeepsBytes ==
    ASSUME IInv, NEW c \in Block, c \in live,
           memory[c].state \in {"kSpilled", "kPrefetching"},
           NEW m \in BlockMemory, memory' = [memory EXCEPT ![c] = m],
           m.state \in {"kSpilled", "kPrefetching"},
           m.segment = memory[c].segment, m.pinCount = memory[c].pinCount,
           m.prefetchFuture # "none" => m.state = "kPrefetching",
           spill'.pending = spill.pending, UNCHANGED <<content, handles, live, lost>>
    PROVE  Sound' /\ Window'
<1>1. SoundOf(c)'
  <2>1. memory'[c] = m
    BY DEF IInv, TypeOK
  <2>. QED BY <2>1, BlockFacts DEF SoundOf
<1>3. \A b \in Block \ {c} : memory'[b] = memory[b]
    BY DEF IInv, TypeOK
<1>. QED BY <1>1, <1>3, NotInWindow, OneBlock

\* A block is pinned in memory, or after its bytes were read back.
LEMMA PinKeepsBytes ==
    ASSUME IInv, NEW c \in Block, c \in live,
           \/ /\ memory[c].state = "kInMemory"
              /\ memory' = [memory EXCEPT ![c] = PinResident(memory[c])]
           \/ /\ memory[c].prefetchFuture = "pending"
              /\ memory' = [memory EXCEPT ![c] = CompleteReadKeepBacking(memory[c])],
           handles' = [handles EXCEPT ![c] = handles[c] + 1],
           spill'.pending = spill.pending, UNCHANGED <<content, live, lost>>
    PROVE  Sound' /\ Window'
<1>1. handles'[c] = handles[c] + 1
    BY DEF IInv, TypeOK
<1>2. SoundOf(c)'
  <2>1. CASE /\ memory[c].state = "kInMemory"
             /\ memory' = [memory EXCEPT ![c] = PinResident(memory[c])]
    <3>1. memory'[c] = PinResident(memory[c])
        BY <2>1 DEF IInv, TypeOK
    <3>2. /\ memory'[c].pinCount = memory[c].pinCount + 1
          /\ memory'[c].state = "kInMemory"
          /\ memory'[c].dirty = memory[c].dirty
          /\ memory'[c].payload = memory[c].payload
          /\ memory'[c].segment = memory[c].segment
          /\ memory'[c].prefetchFuture = memory[c].prefetchFuture
        BY <2>1, <3>1, BlockFacts, RecordFields
    <3>. QED BY <1>1, <2>1, <3>2, BlockFacts DEF SoundOf
  <2>2. CASE /\ memory[c].prefetchFuture = "pending"
             /\ memory' = [memory EXCEPT ![c] = CompleteReadKeepBacking(memory[c])]
    <3>1. memory'[c] = CompleteReadKeepBacking(memory[c])
        BY <2>2 DEF IInv, TypeOK
    <3>2. /\ memory'[c].pinCount = 1
          /\ memory'[c].state = "kInMemory"
          /\ memory'[c].payload = memory[c].segment
          /\ memory'[c].segment = memory[c].segment
          /\ memory'[c].prefetchFuture = "none"
        BY <3>1, BlockFacts DEF CompleteReadKeepBacking, BlockMemory
    <3>3. memory[c].state = "kPrefetching" /\ handles[c] = 0
        BY <2>2, BlockFacts DEF SoundOf
    <3>. QED BY <1>1, <3>2, <3>3, BlockFacts DEF SoundOf
  <2>. QED BY <2>1, <2>2
<1>3. memory[c].state # "kSpilling"
    BY BlockFacts DEF SoundOf
<1>4. \A b \in Block \ {c} : memory'[b] = memory[b] /\ handles'[b] = handles[b]
    BY DEF IInv, TypeOK
<1>. QED BY <1>2, <1>3, <1>4, NotInWindow, OneBlock

\* The candidate of the loop of submitMore is a live block.
LEMMA Candidate ==
    ASSUME IInv, ~exhausted, nextIsCandidate
    PROVE  nextBlock \in Block /\ isSpillable(nextBlock)
BY DEF IInv, TypeOK, nextIsCandidate, nextBlock, IsEvictable, isSpillable

\* The bytes of a block go into the window.
LEMMA SubmitKeepsBytes ==
    ASSUME IInv, NEW c \in Block, isSpillable(c),
           memory' = [memory EXCEPT ![c] = BeginSpill(memory[c])],
           spill'.pending = Append(spill.pending,
                                   [block |-> c, data |-> memory[c].payload]),
           UNCHANGED <<content, handles, live, lost>>
    PROVE  Sound' /\ Window'
<1>. DEFINE w == [block |-> c, data |-> memory[c].payload]
            n == Len(spill.pending)
<1>1. /\ n \in Nat /\ DOMAIN spill.pending = 1 .. n
      /\ DOMAIN spill'.pending = 1 .. n + 1
      /\ \A i \in 1 .. n : spill'.pending[i] = spill.pending[i]
      /\ spill'.pending[n + 1] = w
    BY WriteTypes
<1>2. memory'[c] = BeginSpill(memory[c])
      /\ \A b \in Block \ {c} : memory'[b] = memory[b]
    BY DEF IInv, TypeOK
<1>3. /\ memory'[c].pinCount = memory[c].pinCount
      /\ memory'[c].state = "kSpilling"
      /\ memory'[c].prefetchFuture = memory[c].prefetchFuture
    BY <1>2, BlockFacts, RecordFields
<1>4. /\ memory[c].state = "kInMemory" /\ memory[c].pinCount = 0
      /\ c \in live /\ c \notin lost /\ memory[c].payload = content[c]
    BY BlockFacts DEF isSpillable, SoundOf
<1>5. ASSUME NEW b \in Block PROVE SoundOf(b)'
  <2>1. CASE b = c
    <3>1. \E i \in DOMAIN spill'.pending : spill'.pending[i].block = c
        BY <1>1
    <3>. QED BY <2>1, <3>1, <1>3, <1>4, BlockFacts DEF SoundOf
  <2>2. CASE b # c
    <3>1. SoundOf(b)
        BY BlockFacts
    <3>2. ASSUME NEW i \in DOMAIN spill.pending, spill.pending[i].block = b
          PROVE  \E j \in DOMAIN spill'.pending : spill'.pending[j].block = b
      <4>1. i \in DOMAIN spill'.pending /\ spill'.pending[i].block = b
        BY <1>1, <3>2
      <4>. QED BY <4>1
    <3>. QED BY <2>2, <3>1, <3>2, <1>2 DEF SoundOf
  <2>. QED BY <2>1, <2>2
<1>6. Window'
  <2>1. \A i \in DOMAIN spill.pending : spill.pending[i].block \in Block \ {c}
    BY <1>4, NotInWindow, WriteTypes
  <2>2. ASSUME NEW i \in 1 .. n
        PROVE  /\ spill'.pending[i].block \in live' \ lost'
               /\ memory'[spill'.pending[i].block].state = "kSpilling"
               /\ spill'.pending[i].data = content'[spill'.pending[i].block]
    <3>1. spill'.pending[i] = spill.pending[i] /\ i \in DOMAIN spill.pending
        BY <1>1
    <3>2. /\ spill.pending[i].block \in live \ lost
          /\ memory[spill.pending[i].block].state = "kSpilling"
          /\ spill.pending[i].data = content[spill.pending[i].block]
        BY <3>1 DEF IInv, Window
    <3>. QED BY <1>2, <2>1, <3>1, <3>2
  <2>3. /\ spill'.pending[n + 1].block \in live' \ lost'
        /\ memory'[spill'.pending[n + 1].block].state = "kSpilling"
        /\ spill'.pending[n + 1].data = content'[spill'.pending[n + 1].block]
    BY <1>1, <1>3, <1>4
  <2>4. \A i, j \in 1 .. n + 1 : spill'.pending[j].block = spill'.pending[i].block => i = j
    <3>1. \A i, j \in 1 .. n : spill'.pending[j].block = spill'.pending[i].block => i = j
        BY <1>1 DEF IInv, Window
    <3>2. \A i \in 1 .. n : spill'.pending[i].block # c
        BY <1>1, <2>1
    <3>3. spill'.pending[n + 1].block = c
        BY <1>1
    <3>. QED BY <1>1, <3>1, <3>2, <3>3
  <2>. QED BY <1>1, <2>2, <2>3, <2>4 DEF Window
<1>. QED BY <1>5, <1>6 DEF Sound

\* The window is gone with the bytes in it, and with those of the block that was to
\* be submitted.
LEMMA LossKeepsBytes ==
    ASSUME IInv, NEW C \in SUBSET Block,
           \A c \in C : isSpillable(c)
                        /\ memory'[c] = BeginSpill(memory[c]),
           \A b \in Block \ C : memory'[b] = memory[b],
           spill'.pending = <<>>,
           lost' = lost \cup inFlight \cup C,
           UNCHANGED <<content, handles, live>>
    PROVE  Sound' /\ Window'
<1>1. Window'
    BY DEF Window
<1>2. ASSUME NEW b \in Block PROVE SoundOf(b)'
  <2>1. SoundOf(b) /\ memory[b] \in BlockMemory
    BY BlockFacts
  <2>2. CASE b \in C
    <3>1. /\ memory'[b].pinCount = memory[b].pinCount
          /\ memory'[b].state = "kSpilling"
          /\ memory'[b].prefetchFuture = memory[b].prefetchFuture
        BY <2>1, <2>2, RecordFields
    <3>2. /\ memory[b].state = "kInMemory" /\ memory[b].pinCount = 0
          /\ b \in live /\ b \in lost'
        BY <2>2 DEF isSpillable
    <3>. QED BY <2>1, <3>1, <3>2 DEF SoundOf
  <2>3. CASE b \notin C
    <3>1. memory[b].state # "kSpilling" => b \notin inFlight
        BY NotInWindow DEF inFlight
    <3>2. memory[b].state = "kSpilling" /\ b \notin lost => b \in inFlight
        BY <2>1 DEF SoundOf, inFlight
    <3>3. b \notin live => b \notin lost'
        BY <2>1, <2>3, <3>1, BlankType DEF SoundOf
    <3>. QED BY <2>1, <2>3, <3>1, <3>2, <3>3 DEF SoundOf
  <2>. QED BY <2>2, <2>3
<1>. QED BY <1>1, <1>2 DEF Sound

\* A write is done: its block has the bytes in a segment.
LEMMA HarvestKeepsBytes ==
    ASSUME IInv, HarvestNext
    PROVE  Sound' /\ Window'
<1>. DEFINE n == Len(spill.pending)
<1>1. /\ n \in Nat \ {0} /\ DOMAIN spill.pending = 1 .. n
      /\ spill'.pending = Tail(spill.pending)
      /\ Head(spill.pending) = spill.pending[1]
  <2>1. spill.pending # <<>> /\ spill'.pending = Tail(spill.pending)
    BY DEF HarvestNext, IInv, TypeOK, SpillFrame
  <2>. QED BY <2>1, WriteTypes
<1>2. /\ DOMAIN spill'.pending = 1 .. n - 1
      /\ \A i \in 1 .. n - 1 : spill'.pending[i] = spill.pending[i + 1]
    BY <1>1, WriteTypes
<1>3. PICK c \in Block : c = spill.pending[1].block
    BY <1>1, WriteTypes
<1>4. /\ c \in live /\ c \notin lost /\ memory[c].state = "kSpilling"
      /\ spill.pending[1].data = content[c]
      /\ \A j \in 2 .. n : spill.pending[j].block # c
    BY <1>1, <1>3 DEF IInv, Window
<1>5. /\ memory' = [memory EXCEPT ![c] = CompleteSpill(memory[c], content[c])]
      /\ UNCHANGED <<content, handles, live, lost>>
    BY Zenon, <1>1, <1>3, <1>4 DEF HarvestNext, ghosts
<1>6. /\ memory'[c] = CompleteSpill(memory[c], content[c])
      /\ \A b \in Block \ {c} : memory'[b] = memory[b]
    BY <1>5 DEF IInv, TypeOK
<1>7. /\ memory'[c].pinCount = memory[c].pinCount
      /\ memory'[c].state = "kSpilled"
      /\ memory'[c].segment = content[c]
      /\ memory'[c].prefetchFuture = memory[c].prefetchFuture
    BY <1>6, BlockFacts DEF CompleteSpill, BlockMemory
<1>8. ASSUME NEW b \in Block PROVE SoundOf(b)'
  <2>1. CASE b = c
    BY <2>1, <1>4, <1>5, <1>7, BlockFacts DEF SoundOf
  <2>2. CASE b # c
    <3>1. SoundOf(b)
        BY BlockFacts
    <3>2. ASSUME NEW i \in DOMAIN spill.pending, spill.pending[i].block = b
          PROVE  \E j \in DOMAIN spill'.pending : spill'.pending[j].block = b
      <4>1. i # 1
        BY <1>3, <2>2, <3>2
      <4>2. i - 1 \in 1 .. n - 1 /\ (i - 1) + 1 = i
        BY <1>1, <3>2, <4>1
      <4>3. spill'.pending[i - 1].block = b
        BY <1>2, <3>2, <4>2
      <4>. QED BY <1>2, <4>2, <4>3
    <3>. QED BY <2>2, <3>1, <3>2, <1>5, <1>6 DEF SoundOf
  <2>. QED BY <2>1, <2>2
<1>9. Window'
  <2>1. ASSUME NEW i \in DOMAIN spill'.pending
        PROVE  /\ spill'.pending[i].block \in live' \ lost'
               /\ memory'[spill'.pending[i].block].state = "kSpilling"
               /\ spill'.pending[i].data = content'[spill'.pending[i].block]
    <3>1. /\ i + 1 \in DOMAIN spill.pending /\ i + 1 \in 2 .. n
          /\ spill'.pending[i] = spill.pending[i + 1]
        BY <1>1, <1>2
    <3>2. spill.pending[i + 1].block \in Block \ {c}
        BY <1>4, <3>1, WriteTypes
    <3>. QED BY <1>5, <1>6, <3>1, <3>2 DEF IInv, Window
  <2>2. ASSUME NEW i \in DOMAIN spill'.pending, NEW j \in DOMAIN spill'.pending,
               spill'.pending[j].block = spill'.pending[i].block
        PROVE  i = j
    <3>1. /\ i + 1 \in DOMAIN spill.pending /\ j + 1 \in DOMAIN spill.pending
          /\ spill.pending[j + 1].block = spill.pending[i + 1].block
        BY <1>1, <1>2, <2>2
    <3>2. i + 1 = j + 1
        BY <3>1 DEF IInv, Window
    <3>. QED BY <1>2, <3>2
  <2>. QED BY <2>1, <2>2 DEF Window
<1>. QED BY <1>8, <1>9 DEF Sound

\* The actions that change frames or the queue only.
bookkeeping ==
    \/ \E b \in live : Pin(b)
    \/ \E bs \in Lists : Prefetch(bs) \/ BatchPin(bs) \/ SpillBlocks(bs)
    \/ submitReadFails
    \/ \E targetBytes \in Targets : Reclaim(targetBytes)
    \/ noCandidate \/ skip \/ spilled

\* They change no block, no counter and no write in flight.
LEMMA BookkeepingFrame ==
    ASSUME IInv, bookkeeping
    PROVE  /\ UNCHANGED <<memory, live, nextBlockId, stats, content, handles, lost>>
           /\ spill'.pending = spill.pending
<1>. /\ spill \in SpillFrame
     /\ spill.phase = "idle" => spill.pending = <<>>
    BY IdleWindow DEF IInv, TypeOK
<1>1. CASE submitReadFails \/ \E b \in live : Pin(b)
    BY Zenon, <1>1 DEF submitReadFails, Pin, ghosts
<1>2. CASE \E bs \in Lists : Prefetch(bs) \/ BatchPin(bs)
    BY <1>2 DEF Prefetch, BatchPin, ghosts
<1>3. CASE \E bs \in Lists : SpillBlocks(bs)
    BY <1>3 DEF SpillBlocks, ghosts, idle, NoSpill
<1>4. CASE \E targetBytes \in Targets : Reclaim(targetBytes)
    BY <1>4 DEF Reclaim, ghosts, idle, decoding, NoSpill
<1>5. CASE noCandidate
    BY <1>5 DEF noCandidate, ghosts, SpillFrame
<1>6. CASE skip
    BY <1>6 DEF skip, ghosts, advanced, SpillFrame
<1>7. CASE spilled
    BY <1>7 DEF spilled, ghosts, NoSpill
<1>. QED BY <1>1, <1>2, <1>3, <1>4, <1>5, <1>6, <1>7 DEF bookkeeping

\* The blocks of the frames are live.
LEMMA NextToPin ==
    ASSUME IInv
    PROVE  /\ pin.todo # <<>> => Head(pin.todo) \in Block /\ Head(pin.todo) \in live
           /\ pin.done # <<>> => Head(pin.done) \in Block /\ Head(pin.done) \in live
<1>1. pin.todo \in Seq(Block) /\ pin.done \in Seq(Block)
    BY DEF IInv, TypeOK, PinFrame
<1>2. pin.todo # <<>> => Head(pin.todo) = pin.todo[1] /\ 1 \in DOMAIN pin.todo
    BY <1>1
<1>3. pin.done # <<>> => Head(pin.done) = pin.done[1] /\ 1 \in DOMAIN pin.done
    BY <1>1
<1>. QED BY <1>1, <1>2, <1>3 DEF IInv, Calls

\* A block whose handle BatchPin has made and not returned has a handle.
LEMMA DoneIsHeld ==
    ASSUME IInv, CountingFacts, pin.done # <<>>
    PROVE  handles[Head(pin.done)] > 0
<1>1. pin.done \in Seq(Block) /\ Tail(pin.done) \in Seq(Block)
    BY DEF IInv, TypeOK, PinFrame
<1>2. PICK c \in Block : c = Head(pin.done)
    BY NextToPin
<1>3. /\ times(Tail(pin.done), c) \in Nat
      /\ times(pin.done, c) = times(Tail(pin.done), c) + 1
    BY Zenon, <1>1, <1>2 DEF CountingFacts
<1>4. times(pin.done, c) <= handles[c] /\ handles[c] \in Nat
    BY BlockFacts DEF IInv, Counted
<1>. QED BY <1>2, <1>3, <1>4

\* Prefetch and the first loop of BatchPin submit reads.
LEMMA VisitKeepsBytes ==
    ASSUME IInv, visit
    PROVE  Sound' /\ Window'
<1>1. PICK c \in Block : c = Head(pin.todo) /\ c \in live
    BY NextToPin DEF visit
<1>2. UNCHANGED <<spill, content, handles, live, lost>>
    BY DEF visit, ghosts
<1>. memory[c] \in BlockMemory
    BY BlockFacts
<1>3. CASE memory[c].state = "kSpilled"
  <2>1. memory' = [memory EXCEPT ![c] = SubmitRead(memory[c])]
    BY <1>1, <1>3 DEF visit
  <2>2. /\ SubmitRead(memory[c]) \in BlockMemory
        /\ SubmitRead(memory[c]).state = "kPrefetching"
        /\ SubmitRead(memory[c]).segment = memory[c].segment
        /\ SubmitRead(memory[c]).pinCount = memory[c].pinCount
    BY Zenon, RecordTypes DEF SubmitRead, BlockMemory
  <2>3. spill'.pending = spill.pending /\ UNCHANGED <<content, handles, live, lost>>
    BY <1>2
  <2>. QED BY Zenon, <1>1, <1>3, <2>1, <2>2, <2>3, ReadKeepsBytes
<1>4. CASE memory[c].state # "kSpilled"
  <2>1. memory' = memory
    BY <1>1, <1>4 DEF visit
  <2>. QED BY <1>2, <2>1 DEF IInv, Sound, SoundOf, Window
<1>. QED BY <1>3, <1>4

\* The second loop of BatchPin pins a block, reads it back, or throws.
LEMMA PinNextKeepsBytes ==
    ASSUME IInv, pinNext
    PROVE  Sound' /\ Window'
<1>1. PICK c \in Block : c = Head(pin.todo) /\ c \in live
    BY NextToPin DEF pinNext
<1>2. UNCHANGED <<spill, content, live, lost>>
    BY DEF pinNext
<1>. memory[c] \in BlockMemory
    BY BlockFacts
<1>3. CASE PinInMemory(c)
    BY Zenon, <1>1, <1>2, <1>3, PinKeepsBytes DEF PinInMemory, madeHandle
<1>4. CASE PinSpilled(c)
  <2>1. /\ SubmitRead(memory[c]) \in BlockMemory
        /\ SubmitRead(memory[c]).state = "kPrefetching"
        /\ SubmitRead(memory[c]).segment = memory[c].segment
        /\ SubmitRead(memory[c]).pinCount = memory[c].pinCount
    BY Zenon, RecordTypes DEF SubmitRead, BlockMemory
  <2>. QED BY Zenon, <1>1, <1>2, <1>4, <2>1, ReadKeepsBytes DEF PinSpilled
<1>5. CASE PinPrefetching(c)
  <2>1. CASE /\ memory' = [memory EXCEPT ![c] = CompleteReadKeepBacking(@)]
             /\ madeHandle(c)
    BY Zenon, <1>1, <1>2, <1>5, <2>1, PinKeepsBytes DEF PinPrefetching, madeHandle
  <2>2. CASE /\ memory' = [memory EXCEPT ![c] = MarkReadFailed(@)]
             /\ UNCHANGED handles
    <3>1. /\ MarkReadFailed(memory[c]) \in BlockMemory
          /\ MarkReadFailed(memory[c]).state = "kSpilled"
          /\ MarkReadFailed(memory[c]).segment = memory[c].segment
          /\ MarkReadFailed(memory[c]).pinCount = memory[c].pinCount
          /\ MarkReadFailed(memory[c]).prefetchFuture = "none"
        BY Zenon, RecordTypes DEF MarkReadFailed, BlockMemory
    <3>2. memory[c].state = "kPrefetching"
        BY <1>5, BlockFacts DEF PinPrefetching, SoundOf
    <3>. QED BY Zenon, <1>1, <1>2, <2>2, <3>1, <3>2, ReadKeepsBytes
  <2>. QED BY <1>5, <2>1, <2>2 DEF PinPrefetching
<1>6. CASE PinThrows(c)
  <2>1. CASE memory[c].state = "kPrefetching"
    <3>. DEFINE m == [memory[c] EXCEPT !.prefetchFuture = "consumed"]
    <3>1. memory' = [memory EXCEPT ![c] = m] /\ UNCHANGED handles
        BY <1>6, <2>1 DEF PinThrows
    <3>2. /\ m \in BlockMemory /\ m.state = "kPrefetching"
          /\ m.segment = memory[c].segment /\ m.pinCount = memory[c].pinCount
        BY <2>1 DEF BlockMemory
    <3>. QED BY Zenon, <1>1, <1>2, <2>1, <3>1, <3>2, ReadKeepsBytes
  <2>2. CASE memory[c].state # "kPrefetching"
    <3>1. memory' = memory /\ UNCHANGED handles
      <4>1. [memory[c] EXCEPT !.prefetchFuture = @] = memory[c]
        BY DEF BlockMemory
      <4>2. memory' = [memory EXCEPT ![c] = memory[c]]
        BY Zenon, <1>6, <2>2, <4>1 DEF PinThrows
      <4>. QED BY <1>6, <4>2 DEF PinThrows, IInv, TypeOK
    <3>. QED BY <1>2, <3>1 DEF IInv, Sound, SoundOf, Window
  <2>. QED BY <2>1, <2>2
<1>. QED BY <1>1, <1>3, <1>4, <1>5, <1>6 DEF pinNext

\* The handles of a call that failed are released one by one.
LEMMA UnwindKeepsBytes ==
    ASSUME IInv, CountingFacts, unwind
    PROVE  Sound' /\ Window'
<1>1. UNCHANGED <<spill, content, live, lost>>
    BY DEF unwind
<1>2. CASE pin.done = <<>>
  <2>1. UNCHANGED <<memory, handles>>
    BY <1>2 DEF unwind
  <2>. QED BY <1>1, <2>1 DEF IInv, Sound, SoundOf, Window
<1>3. CASE pin.done # <<>>
  <2>1. PICK c \in Block : c = Head(pin.done)
    BY <1>3, NextToPin
  <2>2. handles[c] > 0
    BY <1>3, <2>1, DoneIsHeld
  <2>3. unpin(c)
    BY <1>3, <2>1 DEF unwind
  <2>. QED BY <1>1, <2>2, <2>3, UnpinKeepsBytes
<1>. QED BY <1>2, <1>3

\* A block is dropped, handed to the window, or lost with a failed write.
LEMMA SpillingKeepsBytes ==
    ASSUME IInv, discard \/ submit \/ harvestFails
    PROVE  Sound' /\ Window'
<1>. spill \in SpillFrame
    BY DEF IInv, TypeOK
<1>1. CASE discard
  <2>1. PICK c \in Block : c = nextBlock /\ isSpillable(c)
    BY <1>1, Candidate DEF discard
  <2>2. /\ CanDiscardResidentWithBacking(memory[c])
        /\ memory' = [memory EXCEPT ![c] = DiscardResidentWithBacking(memory[c])]
        /\ UNCHANGED <<content, handles, live, lost>>
        /\ spill' = [advanced EXCEPT !.reclaimed = @ + Size[c],
                                     !.submitted = @ + Size[c]]
    BY <1>1, <2>1 DEF discard, ghosts
  <2>3. spill'.pending = spill.pending
    BY <2>2 DEF advanced, SpillFrame
  <2>4. c \in live
    BY <2>1 DEF isSpillable
  <2>. QED BY Zenon, <2>2, <2>3, <2>4, DiscardKeepsBytes
<1>2. CASE submit
  <2>1. PICK c \in Block : c = nextBlock /\ isSpillable(c)
    BY <1>2, Candidate DEF submit
  <2>2. /\ memory' = [memory EXCEPT ![c] = BeginSpill(memory[c])]
        /\ UNCHANGED <<content, handles, live>>
    BY <1>2, <2>1 DEF submit
  <2>3. CASE spill' = NoSpill /\ lost' = lost \cup inFlight \cup {c}
    <3>1. /\ spill'.pending = <<>> /\ {c} \in SUBSET Block
          /\ \A d \in {c} : isSpillable(d) /\ memory'[d] = BeginSpill(memory[d])
          /\ \A b \in Block \ {c} : memory'[b] = memory[b]
        BY <2>1, <2>2, <2>3 DEF NoSpill, IInv, TypeOK
    <3>. QED BY Zenon, <2>2, <2>3, <3>1, LossKeepsBytes
  <2>4. CASE /\ spill' = [advanced EXCEPT
                    !.pending = Append(@, [block |-> c,
                                           data |-> memory[c].payload]),
                    !.submitted = @ + Size[c]]
             /\ UNCHANGED lost
    <3>1. spill'.pending = Append(spill.pending,
                                  [block |-> c, data |-> memory[c].payload])
        BY <2>4 DEF advanced, SpillFrame
    <3>. QED BY Zenon, <2>1, <2>2, <2>4, <3>1, SubmitKeepsBytes
  <2>. QED BY <1>2, <2>1, <2>3, <2>4 DEF submit
<1>3. CASE harvestFails
  <2>1. /\ memory' = memory /\ spill'.pending = <<>>
        /\ lost' = lost \cup inFlight \cup {}
        /\ UNCHANGED <<content, handles, live>>
    BY <1>3 DEF harvestFails, NoSpill
  <2>2. /\ {} \in SUBSET Block
        /\ \A c \in {} : isSpillable(c) /\ memory'[c] = BeginSpill(memory[c])
        /\ \A b \in Block \ {} : memory'[b] = memory[b]
    BY <2>1
  <2>. QED BY <2>1, <2>2, LossKeepsBytes
<1>. QED BY <1>1, <1>2, <1>3

\* No step loses bytes without saying so.
LEMMA BytesStep ==
    ASSUME IInv, CountingFacts, [Next]_vars
    PROVE  Sound' /\ Window'
<1>1. CASE \E b \in Block : reset(b)
  <2>1. PICK c \in Block : reset(c)
    BY <1>1
  <2>2. /\ handles[c] > 0 /\ unpin(c) /\ spill'.pending = spill.pending
        /\ UNCHANGED <<content, live, lost>>
    BY <2>1 DEF reset
  <2>. QED BY <2>2, UnpinKeepsBytes
<1>2. CASE \E b \in Block : DiscardClean(b)
  <2>1. PICK c \in Block : DiscardClean(c)
    BY <1>2
  <2>2. /\ c \in live /\ CanDiscardResidentWithBacking(memory[c])
        /\ memory' = [memory EXCEPT ![c] = DiscardResidentWithBacking(memory[c])]
        /\ spill'.pending = spill.pending
        /\ UNCHANGED <<content, handles, live, lost>>
    BY <2>1 DEF DiscardClean, ghosts
  <2>. QED BY Zenon, <2>2, DiscardKeepsBytes
<1>3. CASE bookkeeping \/ UNCHANGED vars
  <2>1. UNCHANGED <<memory, live, content, handles, lost>>
        /\ spill'.pending = spill.pending
    BY <1>3, BookkeepingFrame DEF vars
  <2>. QED BY <2>1 DEF IInv, Sound, SoundOf, Window
<1>. QED BY <1>1, <1>2, <1>3, AllocateKeepsBytes, StoreKeepsBytes,
            MarkDirtyKeepsBytes, DestroyKeepsBytes, VisitKeepsBytes,
            PinNextKeepsBytes, UnwindKeepsBytes, SpillingKeepsBytes,
            HarvestKeepsBytes
         DEF Next, bookkeeping

-----------------------------------------------------------------------------
(***************************************************************************)
(* The eviction queue.                                                     *)
(***************************************************************************)

\* A step that touches one block and keeps the entries of the others.
LEMMA QueueStep ==
    ASSUME IInv, NEW c \in Block,
           \A b \in Block \ {c} : memory'[b] = memory[b],
           live' \subseteq live \cup {c},
           isSpillable(c)' =>
             \E i \in DOMAIN queue' :
                queue'[i] = [block |-> c, sequence |-> memory'[c].evictionSequence],
           \A i \in DOMAIN queue : queue[i].block # c =>
                \E j \in DOMAIN queue' : queue'[j] = queue[i]
    PROVE  EvictableIsQueued'
<1>1. ASSUME NEW b \in live', isSpillable(b)'
      PROVE  \E i \in DOMAIN queue' :
               queue'[i] = [block |-> b, sequence |-> memory'[b].evictionSequence]
  <2>1. CASE b = c
    BY <1>1, <2>1
  <2>2. CASE b # c
    <3>1. b \in live /\ b \in Block /\ memory'[b] = memory[b]
        BY <2>2 DEF IInv, TypeOK
    <3>2. isSpillable(b)
        BY <1>1, <3>1 DEF isSpillable
    <3>3. PICK i \in DOMAIN queue :
            queue[i] = [block |-> b, sequence |-> memory[b].evictionSequence]
        BY <3>1, <3>2 DEF IInv, EvictableIsQueued
    <3>4. queue[i].block # c
        BY <2>2, <3>3
    <3>. QED BY <3>1, <3>3, <3>4
  <2>. QED BY <2>1, <2>2
<1>. QED BY <1>1 DEF EvictableIsQueued

\* The end of a handle queues the block with the generation it gets.
LEMMA UnpinQueues ==
    ASSUME IInv, NEW c \in Block, unpin(c), live' = live
    PROVE  EvictableIsQueued'
<1>1. /\ queue \in Seq(Entry) /\ memory \in [Block -> BlockMemory]
    BY DEF IInv, TypeOK
<1>2. \A b \in Block \ {c} : memory'[b] = memory[b]
    BY <1>1 DEF unpin
<1>3. CASE memory'[c].pinCount = 0 /\ memory'[c].state = "kInMemory"
  <2>. DEFINE e == [block |-> c, sequence |-> memory'[c].evictionSequence]
  <2>1. queue' = Append(queue, e)
    BY <1>3 DEF unpin
  <2>. HIDE DEF e
  <2>2. /\ Len(queue) \in Nat /\ DOMAIN queue = 1 .. Len(queue)
        /\ DOMAIN queue' = 1 .. Len(queue) + 1 /\ queue'[Len(queue) + 1] = e
        /\ \A i \in DOMAIN queue : i \in DOMAIN queue' /\ queue'[i] = queue[i]
    BY <1>1, <2>1
  <2>3. \E i \in DOMAIN queue' :
            queue'[i] = [block |-> c, sequence |-> memory'[c].evictionSequence]
    BY <2>2 DEF e
  <2>. QED BY <1>2, <2>2, <2>3, QueueStep
<1>4. CASE ~(memory'[c].pinCount = 0 /\ memory'[c].state = "kInMemory")
  <2>1. queue' = queue
    BY <1>4 DEF unpin
  <2>2. ~isSpillable(c)'
    BY <1>4 DEF isSpillable
  <2>. QED BY <1>2, <2>1, <2>2, QueueStep
<1>. QED BY <1>3, <1>4

\* A step that leaves the queue alone and makes no block spillable.
LEMMA NotQueued ==
    ASSUME IInv, NEW c \in Block, NEW m \in BlockMemory,
           memory' = [memory EXCEPT ![c] = m], queue' = queue,
           live' \subseteq live \cup {c},
           \/ c \notin live' \/ m.pinCount # 0 \/ m.state # "kInMemory"
           \/ /\ m.pinCount = memory[c].pinCount /\ m.state = memory[c].state
              /\ m.payload = memory[c].payload /\ c \in live
              /\ m.evictionSequence = memory[c].evictionSequence
    PROVE  EvictableIsQueued'
<1>1. memory'[c] = m /\ \A b \in Block \ {c} : memory'[b] = memory[b]
    BY DEF IInv, TypeOK
<1>2. isSpillable(c)' =>
        \E i \in DOMAIN queue' :
            queue'[i] = [block |-> c, sequence |-> memory'[c].evictionSequence]
    BY <1>1 DEF isSpillable, IInv, EvictableIsQueued
<1>. QED BY <1>1, <1>2, QueueStep

\* The candidate of the loop of submitMore leaves the queue and is not spillable.
LEMMA PoppedCandidate ==
    ASSUME IInv, ~exhausted, queue' = popped, live' = live,
           NEW c \in Block, c = nextBlock, NEW m \in BlockMemory,
           memory' = [memory EXCEPT ![c] = m], m.state # "kInMemory"
    PROVE  EvictableIsQueued'
<1>1. memory'[c] = m /\ \A b \in Block \ {c} : memory'[b] = memory[b]
    BY DEF IInv, TypeOK
<1>2. ~isSpillable(c)'
    BY <1>1 DEF isSpillable
<1>3. ASSUME NEW i \in DOMAIN queue, queue[i].block # c
      PROVE  \E j \in DOMAIN queue' : queue'[j] = queue[i]
  <2>1. CASE ~fromQueue
    BY <2>1 DEF popped
  <2>2. CASE fromQueue
    <3>1. queue # <<>> /\ queue' = Tail(queue) /\ queue \in Seq(Entry)
        BY <2>2 DEF exhausted, popped, IInv, TypeOK
    <3>2. /\ Len(queue) \in Nat \ {0} /\ DOMAIN queue = 1 .. Len(queue)
          /\ Head(queue) = queue[1]
          /\ DOMAIN queue' = 1 .. Len(queue) - 1
          /\ \A j \in DOMAIN queue' : queue'[j] = queue[j + 1]
        BY <3>1, TailFacts
    <3>3. i # 1
        BY <1>3, <2>2, <3>2 DEF nextBlock
    <3>4. i - 1 \in 1 .. Len(queue) - 1 /\ (i - 1) + 1 = i
        BY <3>2, <3>3
    <3>. QED BY <3>2, <3>4
  <2>. QED BY <2>1, <2>2
<1>. QED BY <1>1, <1>2, <1>3, QueueStep

\* An entry that is dropped is out of date.
LEMMA SkipKeepsQueued ==
    ASSUME IInv, skip
    PROVE  EvictableIsQueued'
<1>1. /\ memory' = memory /\ live' = live /\ queue' = popped
      /\ ~exhausted /\ ~nextIsCandidate /\ live \subseteq Block
      /\ queue \in Seq(Entry)
    BY DEF skip, IInv, TypeOK
<1>2. ASSUME NEW b \in live, isSpillable(b)
      PROVE  \E j \in DOMAIN queue' :
               queue'[j] = [block |-> b, sequence |-> memory[b].evictionSequence]
  <2>1. PICK i \in DOMAIN queue :
            queue[i] = [block |-> b, sequence |-> memory[b].evictionSequence]
    BY <1>2 DEF IInv, EvictableIsQueued
  <2>2. CASE ~fromQueue
    BY <1>1, <2>1, <2>2 DEF popped
  <2>3. CASE fromQueue
    <3>1. queue # <<>> /\ queue' = Tail(queue) /\ ~IsEvictable(Head(queue))
        BY <1>1, <2>3 DEF exhausted, popped, nextIsCandidate
    <3>2. /\ Len(queue) \in Nat \ {0} /\ DOMAIN queue = 1 .. Len(queue)
          /\ Head(queue) = queue[1]
          /\ DOMAIN queue' = 1 .. Len(queue) - 1
          /\ \A j \in DOMAIN queue' : queue'[j] = queue[j + 1]
        BY <1>1, <3>1, TailFacts
    <3>3. i # 1
        BY <1>2, <2>1, <3>1, <3>2 DEF IsEvictable
    <3>4. i - 1 \in 1 .. Len(queue) - 1 /\ (i - 1) + 1 = i
        BY <3>2, <3>3
    <3>. QED BY <2>1, <3>2, <3>4
  <2>. QED BY <2>2, <2>3
<1>. QED BY <1>1, <1>2 DEF EvictableIsQueued, isSpillable

\* No step makes a block unreachable for Reclaim.
LEMMA EvictableStep ==
    ASSUME IInv, CountingFacts, [Next]_vars
    PROVE  EvictableIsQueued'
<1>. /\ memory \in [Block -> BlockMemory] /\ live \subseteq Block
    BY DEF IInv, TypeOK
<1>1. CASE Allocate
  <2>1. PICK c \in Block : c = nextBlockId
    BY <1>1 DEF Allocate
  <2>2. /\ memory' = [memory EXCEPT ![c] = NewBlock] /\ queue' = queue
        /\ live' = live \cup {c} /\ NewBlock.pinCount = 1
    BY <1>1, <2>1 DEF Allocate, NewBlock
  <2>3. NewBlock \in BlockMemory /\ NewBlock.pinCount # 0
    BY <2>2, BlankType
  <2>4. live' \subseteq live \cup {c}
    BY <2>2
  <2>. QED BY Zenon, <2>2, <2>3, <2>4, NotQueued
<1>2. ASSUME NEW c \in Block, store(c) PROVE EvictableIsQueued'
  <2>. DEFINE m == [memory[c] EXCEPT !.payload = content[c] + 1]
  <2>0. /\ content[c] + 1 \in Nat /\ memory[c] \in BlockMemory
        /\ memory[c].pinCount = handles[c] /\ handles[c] \in Nat
        /\ handles[c] > 0
    BY <1>2, BlockFacts DEF SoundOf, store
  <2>1. m \in BlockMemory /\ m.pinCount = memory[c].pinCount
    BY <2>0 DEF BlockMemory
  <2>2. memory' = [memory EXCEPT ![c] = m] /\ queue' = queue /\ live' = live
    BY <1>2 DEF store
  <2>3. m.pinCount # 0
    BY <2>0, <2>1
  <2>. HIDE DEF m
  <2>. QED BY Zenon, <2>1, <2>2, <2>3, NotQueued
<1>3. ASSUME NEW c \in Block, MarkDirty(c) PROVE EvictableIsQueued'
  <2>. DEFINE m == [memory[c] EXCEPT !.dirty = TRUE]
  <2>1. /\ m \in BlockMemory /\ m.pinCount = memory[c].pinCount
        /\ m.state = memory[c].state /\ m.payload = memory[c].payload
        /\ m.evictionSequence = memory[c].evictionSequence
    BY Zenon DEF BlockMemory
  <2>2. /\ memory' = [memory EXCEPT ![c] = m] /\ queue' = queue /\ live' = live
        /\ c \in live
    BY <1>3 DEF MarkDirty
  <2>. HIDE DEF m
  <2>. QED BY Zenon, <2>1, <2>2, NotQueued
<1>4. ASSUME NEW c \in Block, reset(c) PROVE EvictableIsQueued'
    BY <1>4, UnpinQueues DEF reset
<1>5. ASSUME NEW c \in Block, destroy(c) PROVE EvictableIsQueued'
    BY Zenon, <1>5, BlankType, NotQueued DEF destroy
<1>6. ASSUME NEW c \in Block, DiscardClean(c) PROVE EvictableIsQueued'
  <2>1. /\ memory' = [memory EXCEPT ![c] = DiscardResidentWithBacking(memory[c])]
        /\ queue' = queue /\ live' = live
    BY <1>6 DEF DiscardClean
  <2>2. DiscardResidentWithBacking(memory[c]) \in BlockMemory
    BY RecordTypes
  <2>3. DiscardResidentWithBacking(memory[c]).state = "kSpilled"
    BY RecordFields
  <2>. QED BY Zenon, <2>1, <2>2, <2>3, NotQueued
<1>7. CASE visit
  <2>1. PICK c \in Block : c = Head(pin.todo)
    BY <1>7, NextToPin DEF visit
  <2>2. queue' = queue /\ live' = live
    BY <1>7 DEF visit
  <2>. memory[c] \in BlockMemory
    OBVIOUS
  <2>3. CASE memory[c].state = "kSpilled"
    <3>1. memory' = [memory EXCEPT ![c] = SubmitRead(memory[c])]
        BY <1>7, <2>1, <2>3 DEF visit
    <3>2. SubmitRead(memory[c]) \in BlockMemory
          /\ SubmitRead(memory[c]).state = "kPrefetching"
        BY Zenon, RecordTypes DEF SubmitRead, BlockMemory
    <3>. QED BY Zenon, <2>2, <3>1, <3>2, NotQueued
  <2>4. CASE memory[c].state # "kSpilled"
    <3>1. memory' = memory
        BY <1>7, <2>1, <2>4 DEF visit
    <3>. QED BY <2>2, <3>1 DEF IInv, EvictableIsQueued, isSpillable
  <2>. QED BY <2>3, <2>4
<1>8. CASE pinNext
  <2>1. PICK c \in Block : c = Head(pin.todo)
    BY <1>8, NextToPin DEF pinNext
  <2>2. queue' = queue /\ live' = live
    BY <1>8 DEF pinNext
  <2>. memory[c] \in BlockMemory /\ memory[c].pinCount + 1 # 0
    BY DEF BlockMemory
  <2>3. CASE PinInMemory(c)
    <3>1. PinResident(memory[c]) \in BlockMemory
        BY RecordTypes
    <3>2. PinResident(memory[c]).pinCount # 0
        BY RecordFields
    <3>. QED BY Zenon, <2>2, <2>3, <3>1, <3>2, NotQueued DEF PinInMemory
  <2>4. CASE PinSpilled(c)
    <3>1. SubmitRead(memory[c]) \in BlockMemory
          /\ SubmitRead(memory[c]).state = "kPrefetching"
        BY Zenon, RecordTypes DEF SubmitRead, BlockMemory
    <3>. QED BY Zenon, <2>2, <2>4, <3>1, NotQueued DEF PinSpilled
  <2>5. CASE PinPrefetching(c)
    <3>1. /\ MarkReadFailed(memory[c]) \in BlockMemory
          /\ MarkReadFailed(memory[c]).state = "kSpilled"
        BY Zenon, RecordTypes DEF MarkReadFailed, BlockMemory
    <3>2. CompleteReadKeepBacking(memory[c]) \in BlockMemory
        BY RecordTypes
    <3>3. CompleteReadKeepBacking(memory[c]).pinCount = 1
        BY DEF CompleteReadKeepBacking, BlockMemory
    <3>. QED BY <2>2, <2>5, <3>1, <3>2, <3>3, NotQueued DEF PinPrefetching
  <2>6. CASE PinThrows(c)
    <3>. DEFINE m == [memory[c] EXCEPT !.prefetchFuture =
                    IF memory[c].state = "kPrefetching" THEN "consumed" ELSE @]
    <3>1. m \in BlockMemory /\ m.state = memory[c].state
        BY DEF BlockMemory
    <3>2. memory' = [memory EXCEPT ![c] = m] /\ memory[c].state # "kInMemory"
        BY <2>6 DEF PinThrows
    <3>. HIDE DEF m
    <3>. QED BY Zenon, <2>2, <3>1, <3>2, NotQueued
  <2>. QED BY <1>8, <2>1, <2>3, <2>4, <2>5, <2>6 DEF pinNext
<1>9. CASE unwind
  <2>1. live' = live
    BY <1>9 DEF unwind
  <2>2. CASE pin.done = <<>>
    BY <1>9, <2>1, <2>2 DEF unwind, IInv, EvictableIsQueued, isSpillable
  <2>3. CASE pin.done # <<>>
    <3>1. PICK c \in Block : c = Head(pin.done)
        BY <2>3, NextToPin
    <3>2. unpin(c)
        BY <1>9, <2>3, <3>1 DEF unwind
    <3>. QED BY <2>1, <3>2, UnpinQueues
  <2>. QED BY <2>2, <2>3
<1>10. CASE discard \/ submit
  <2>1. PICK c \in Block : c = nextBlock
    BY <1>10, Candidate DEF discard, submit
  <2>2. /\ DiscardResidentWithBacking(memory[c]) \in BlockMemory
        /\ BeginSpill(memory[c]) \in BlockMemory
    BY RecordTypes
  <2>3. /\ DiscardResidentWithBacking(memory[c]).state = "kSpilled"
        /\ BeginSpill(memory[c]).state = "kSpilling"
    BY RecordFields
  <2>4. /\ ~exhausted /\ queue' = popped /\ live' = live
        /\ \/ memory' = [memory EXCEPT ![c] = DiscardResidentWithBacking(memory[c])]
           \/ memory' = [memory EXCEPT ![c] = BeginSpill(memory[c])]
    BY <1>10, <2>1 DEF discard, submit
  <2>. QED BY <2>1, <2>2, <2>3, <2>4, PoppedCandidate
<1>11. CASE HarvestNext
  <2>1. spill.pending # <<>>
    BY <1>11 DEF HarvestNext
  <2>2. /\ 1 \in DOMAIN spill.pending /\ Head(spill.pending) = spill.pending[1]
    BY <2>1, WriteTypes, TailFacts
  <2>3. PICK c \in Block, d \in Nat : /\ c = Head(spill.pending).block
                                      /\ d = Head(spill.pending).data
    BY <2>2, WriteTypes
  <2>4. /\ memory' = [memory EXCEPT ![c] = CompleteSpill(memory[c], d)]
        /\ queue' = queue /\ live' = live
    BY <1>11, <2>3 DEF HarvestNext
  <2>5. CompleteSpill(memory[c], d) \in BlockMemory
    BY RecordTypes
  <2>6. CompleteSpill(memory[c], d).state = "kSpilled"
    BY DEF CompleteSpill, BlockMemory
  <2>. QED BY Zenon, <2>4, <2>5, <2>6, NotQueued
<1>12. CASE harvestFails \/ UNCHANGED vars \/ (bookkeeping /\ ~skip)
  <2>1. UNCHANGED <<memory, live, queue>>
    BY Zenon, <1>12, BookkeepingFrame
       DEF harvestFails, vars, bookkeeping, Pin, Prefetch, BatchPin, SpillBlocks,
           submitReadFails, Reclaim, noCandidate, spilled
  <2>. QED BY <2>1 DEF IInv, EvictableIsQueued, isSpillable
<1>. QED BY <1>1, <1>2, <1>3, <1>4, <1>5, <1>6, <1>7, <1>8, <1>9, <1>10, <1>11,
            <1>12, SkipKeepsQueued
         DEF Next, bookkeeping
=============================================================================
