---------------------- MODULE BufferManagerRefinement ----------------------
(***************************************************************************)
(* Every step of BufferManager is a step of BlockStore, or changes nothing *)
(* that its user sees.  Under the invariant the bytes of a block, wherever *)
(* they are, are the version the user wrote last, unless they are lost.    *)
(***************************************************************************)
EXTENDS BufferManagerFrames

\* The refinement mapping in terms of the ghosts.
seen == [b \in Block |-> IF b \in lost THEN Missing ELSE content[b]]
held == [b \in Block |-> handles[b] - times(pin.done, b)]

Mapped == /\ [b \in Block |-> bytes(b)] = seen
          /\ [b \in Block |-> granted(b)] = held

\* Wherever the bytes of a block are, they are the latest.
LEMMA SeenBytes == IInv => Mapped
<1>. SUFFICES ASSUME IInv PROVE Mapped
    OBVIOUS
<1>1. ASSUME NEW b \in Block
      PROVE  bytes(b) = IF b \in lost THEN Missing ELSE content[b]
  <2>0. memory[b].state \in State /\ SoundOf(b)
    BY BlockFacts DEF BlockMemory
  <2>1. CASE memory[b].state = "kInMemory"
    BY <2>0, <2>1 DEF bytes, SoundOf
  <2>2. CASE memory[b].state = "kSpilling"
    <3>1. CASE b \in lost
      <4>1. written(b) = {}
        BY <3>1 DEF written, IInv, Window
      <4>. QED BY <2>2, <3>1, <4>1 DEF bytes
    <3>2. CASE b \notin lost
      <4>1. written(b) # {}
        BY <2>0, <2>2, <3>2 DEF written, SoundOf
      <4>2. PICK i \in written(b) : i = CHOOSE j \in written(b) : TRUE
        BY <4>1
      <4>3. spill.pending[i].data = content[b]
        BY DEF written, IInv, Window
      <4>. QED BY <2>2, <3>2, <4>1, <4>2, <4>3 DEF bytes
    <3>. QED BY <3>1, <3>2
  <2>3. CASE memory[b].state \in {"kSpilled", "kPrefetching"}
    BY <2>0, <2>3 DEF bytes, SoundOf
  <2>. QED BY <2>0, <2>1, <2>2, <2>3 DEF State
<1>2. ASSUME NEW b \in Block PROVE granted(b) = handles[b] - times(pin.done, b)
    BY BlockFacts DEF granted, times, SoundOf
<1>. QED BY <1>1, <1>2 DEF seen, held, Mapped

\* The initial state has no blocks.
LEMMA RefinesInit ==
    ASSUME Init, CountingFacts
    PROVE  User!Init
<1>1. IInv
    BY InvInit
<1>2. seen = [b \in Block |-> 0] /\ held = [b \in Block |-> 0]
    BY DEF seen, held, Init, NoPin, CountingFacts, Missing
<1>3. requested = <<>>
    BY DEF requested, Init, NoPin
<1>. QED BY <1>1, <1>2, <1>3, SeenBytes
         DEF Mapped, Init, User!Init, User!Block, User!Missing, User!NoRequest, Block

\* The mapping after a step.
LEMMA SeenBytesNext == IInv' => Mapped'
BY SeenBytes, PTL

\* Nothing the user sees changes.
LEMMA Unseen ==
    ASSUME IInv, IInv', UNCHANGED <<live, nextBlockId, content, lost>>,
           held' = held, requested' = requested
    PROVE  UNCHANGED User!vars
<1>1. seen' = seen
    BY DEF seen
<1>. QED BY <1>1, SeenBytes, SeenBytesNext DEF User!vars, Mapped

\* Between two calls every handle is the user's.
LEMMA IdleMapped ==
    ASSUME IInv, CountingFacts, idle
    PROVE  requested = <<>> /\ held = handles
<1>1. pin = NoPin /\ handles \in [Block -> Nat]
    BY IdleFrames DEF IInv, TypeOK
<1>2. \A b \in Block : times(pin.done, b) = 0
    BY <1>1 DEF NoPin, CountingFacts
<1>. QED BY <1>1, <1>2 DEF requested, held, NoPin

\* The calls that do not pin: what the user sees is what the ghosts record.
LEMMA CallRefines ==
    ASSUME IInv, IInv', CountingFacts, userCall
    PROVE  User!Next \/ UNCHANGED User!vars
<1>0. /\ requested = <<>> /\ held = handles
      /\ requested' = <<>> /\ held' = handles'
  <2>1. idle /\ pin' = pin /\ spill' = spill
    BY GroupFrames
  <2>2. requested = <<>> /\ held = handles /\ requested' = requested
    BY <2>1, IdleMapped DEF requested
  <2>3. held' = handles'
    <3>1. pin' = NoPin /\ handles' \in [Block -> Nat]
        BY <2>1, IdleFrames DEF IInv, TypeOK
    <3>2. \A b \in Block : times(pin'.done, b) = 0
        BY <3>1 DEF NoPin, CountingFacts
    <3>. QED BY <3>1, <3>2 DEF held
  <2>. QED BY <2>2, <2>3
<1>. DEFINE C == [b \in Block |-> bytes(b)]
            P == [b \in Block |-> granted(b)]
<1>1. C = seen /\ P = handles /\ C' = seen' /\ P' = handles'
    BY <1>0, SeenBytes, SeenBytesNext DEF Mapped
<1>2. /\ content \in [Block -> Nat] /\ handles \in [Block -> Nat]
      /\ lost \subseteq Block /\ MaxVersion \in Nat \ {0}
    BY BoundAssumption DEF IInv, TypeOK
<1>. HIDE DEF C, P
<1>3. CASE Allocate
  <2>1. PICK c \in Block : c = nextBlockId
    BY <1>3 DEF Allocate
  <2>2. c \notin live /\ c \notin lost
    BY <2>1, BlockFacts DEF SoundOf, IInv, Fresh, Block
  <2>3. /\ content' = [content EXCEPT ![c] = 1] /\ lost' = lost
        /\ handles' = [handles EXCEPT ![c] = 1]
        /\ live' = live \cup {nextBlockId} /\ nextBlockId' = nextBlockId + 1
    BY <1>3, <2>1 DEF Allocate, NewBlock
  <2>4. C' = [C EXCEPT ![nextBlockId] = 1]
    BY <1>1, <1>2, <2>1, <2>2, <2>3 DEF seen
  <2>5. P' = [P EXCEPT ![nextBlockId] = 1]
    BY <1>1, <2>1, <2>3
  <2>6. 1 \in (1 .. MaxVersion) \ {0}
    BY <1>2
  <2>7. User!Allocate
    BY Zenon, <1>0, <2>1, <2>3, <2>4, <2>5, <2>6
       DEF User!Allocate, User!Block, User!Missing, User!NoRequest, Block, C, P
  <2>. QED BY <2>7 DEF User!Next
<1>4. ASSUME NEW c \in Block, store(c) PROVE User!Next
  <2>1. /\ content' = [content EXCEPT ![c] = content[c] + 1] /\ handles[c] > 0
        /\ content[c] < MaxVersion
        /\ UNCHANGED <<live, nextBlockId, handles, lost>>
    BY <1>4 DEF store
  <2>2. c \notin lost /\ content[c] + 1 \in (1 .. MaxVersion) \ {0}
    BY <1>2, <2>1, BlockFacts DEF SoundOf
  <2>3. C' = [C EXCEPT ![c] = content[c] + 1]
    BY <1>1, <1>2, <2>1, <2>2 DEF seen
  <2>4. P' = P /\ P[c] > 0
    BY <1>1, <2>1
  <2>5. User!Store(c)
    BY Zenon, <1>0, <2>1, <2>2, <2>3, <2>4
       DEF User!Store, User!Missing, User!NoRequest, C, P
  <2>. QED BY <2>5 DEF User!Next, User!Block, Block
<1>5. ASSUME NEW c \in Block, MarkDirty(c) \/ DiscardClean(c)
      PROVE  UNCHANGED User!vars
  <2>1. UNCHANGED <<live, nextBlockId, content, handles, lost>>
    BY <1>5 DEF MarkDirty, DiscardClean, ghosts
  <2>. QED BY <1>0, <2>1, Unseen
<1>6. ASSUME NEW c \in Block, reset(c) PROVE User!Next
  <2>1. /\ handles' = [handles EXCEPT ![c] = handles[c] - 1] /\ handles[c] > 0
        /\ UNCHANGED <<live, nextBlockId, content, lost>>
    BY <1>6 DEF reset, unpin
  <2>2. C' = C
    BY <1>1, <2>1 DEF seen
  <2>3. P' = [P EXCEPT ![c] = P[c] - 1] /\ P[c] > 0
    BY <1>1, <2>1
  <2>4. User!Unpin(c)
    BY <1>0, <2>1, <2>2, <2>3 DEF User!Unpin, User!NoRequest, C, P
  <2>. QED BY <2>4 DEF User!Next, User!Block, Block
<1>7. ASSUME NEW c \in Block, destroy(c) PROVE User!Next
  <2>1. /\ content' = [content EXCEPT ![c] = 0] /\ lost' = lost \ {c}
        /\ c \in live /\ handles[c] = 0 /\ live' = live \ {c}
        /\ UNCHANGED <<nextBlockId, handles>>
    BY <1>7 DEF destroy, Missing
  <2>2. C' = [C EXCEPT ![c] = 0]
    BY <1>1, <1>2, <2>1 DEF seen, Missing
  <2>3. P' = P /\ P[c] = 0
    BY <1>1, <2>1
  <2>4. User!Destroy(c)
    BY <1>0, <2>1, <2>2, <2>3
       DEF User!Destroy, User!NoRequest, User!Missing, C, P
  <2>. QED BY <2>4 DEF User!Next, User!Block, Block
<1>. QED BY <1>3, <1>4, <1>5, <1>6, <1>7 DEF userCall

\* Pin and BatchPin ask for blocks; Prefetch asks for nothing.
LEMMA PinStartRefines ==
    ASSUME IInv, IInv', CountingFacts, pinStart
    PROVE  User!Next \/ UNCHANGED User!vars
<1>0. /\ requested = <<>> /\ held = handles
      /\ UNCHANGED <<live, nextBlockId, content, handles, lost>>
  <2>1. idle /\ UNCHANGED <<live, nextBlockId, content, handles, lost>>
    BY Zenon DEF pinStart, Pin, Prefetch, BatchPin, ghosts
  <2>. QED BY <2>1, IdleMapped
<1>1. held' = held
  <2>1. pin'.done = <<>> /\ handles' \in [Block -> Nat]
    BY PinStartFrame DEF pinStart, IInv, TypeOK
  <2>2. \A b \in Block : times(pin'.done, b) = 0
    BY <2>1 DEF CountingFacts
  <2>3. held' = handles'
    BY <2>1, <2>2 DEF held
  <2>. QED BY <1>0, <2>3
<1>2. seen' = seen
    BY <1>0 DEF seen
<1>3. ASSUME requested' \in Seq(live) \ {<<>>} PROVE User!Next
  <2>1. User!Pin
    BY <1>0, <1>1, <1>2, <1>3, SeenBytes, SeenBytesNext
       DEF User!Pin, User!NoRequest, Mapped
  <2>. QED BY <2>1 DEF User!Next
<1>4. ASSUME NEW b \in live, Pin(b) PROVE User!Next
  <2>1. pin'.phase = "pinning" /\ pin'.blocks = <<b>>
    BY <1>4 DEF Pin, NoPin
  <2>2. requested' = <<b>>
    BY <2>1 DEF requested
  <2>3. <<b>> \in Seq(live) \ {<<>>}
    OBVIOUS
  <2>. QED BY <1>3, <2>2, <2>3
<1>5. ASSUME NEW bs \in Lists, BatchPin(bs) PROVE User!Next
  <2>1. pin'.phase = "reading" /\ pin'.blocks = bs
    BY <1>5 DEF BatchPin, NoPin
  <2>2. requested' = bs
    BY <2>1 DEF requested
  <2>3. PICK n \in Nat \ {0} : bs \in [1 .. n -> live]
    BY ListTypes
  <2>4. bs \in Seq(live) \ {<<>>}
    BY <2>3
  <2>. QED BY <1>3, <2>2, <2>4
<1>6. ASSUME NEW bs \in Lists, Prefetch(bs) PROVE UNCHANGED User!vars
  <2>1. pin'.phase = "prefetching"
    BY <1>6 DEF Prefetch, NoPin
  <2>2. requested' = <<>>
    BY <2>1 DEF requested
  <2>. QED BY <1>0, <1>1, <2>2, Unseen
<1>. QED BY <1>4, <1>5, <1>6 DEF pinStart

\* A call that fails gives no pin.
LEMMA FailureRefines ==
    ASSUME IInv, IInv', UNCHANGED <<live, nextBlockId, content, handles, lost>>,
           pin'.phase = "throwing", pin'.done = pin.done
    PROVE  User!Next \/ UNCHANGED User!vars
<1>1. held' = held /\ seen' = seen /\ requested' = <<>>
    BY DEF held, seen, requested
<1>2. CASE requested = <<>>
    BY <1>1, <1>2, Unseen
<1>3. CASE requested # <<>>
  <2>1. User!PinFailed
    BY <1>1, <1>3, SeenBytes, SeenBytesNext
       DEF User!PinFailed, User!NoRequest, Mapped
  <2>. QED BY <2>1 DEF User!Next
<1>. QED BY <1>2, <1>3

\* A block that a call can give a handle of has not lost its bytes.
LEMMA DoneIsSeen ==
    ASSUME IInv, CountingFacts, NEW i \in DOMAIN pin.done
    PROVE  seen[pin.done[i]] # 0
<1>1. pin.done \in Seq(Block) /\ pin.done[i] \in live
    BY Zenon, PinTypes DEF IInv, Calls
<1>2. PICK b \in Block : b = pin.done[i]
    BY <1>1
<1>3. /\ times(pin.done, b) > 0 /\ times(pin.done, b) \in Nat
      /\ times(pin.done, b) <= handles[b] /\ handles[b] \in Nat
    BY <1>1, <1>2, BlockFacts DEF CountingFacts, IInv, Counted
<1>4. handles[b] > 0
    BY <1>3
<1>5. b \notin lost /\ content[b] \in 1 .. MaxVersion
    BY <1>1, <1>2, <1>4, BlockFacts DEF SoundOf
<1>. QED BY <1>2, <1>5, BoundAssumption DEF seen

\* The last handle of a call was made: the user gets a pin for each block.
LEMMA PinnedRefines ==
    ASSUME IInv, IInv', CountingFacts, NEW c \in Block, c \in live,
           memory[c].state # "kSpilling", pin' = NoPin,
           pin.phase = "pinning", Append(pin.done, c) = pin.blocks,
           handles' = [handles EXCEPT ![c] = @ + 1],
           UNCHANGED <<live, nextBlockId, content, lost>>
    PROVE  User!Next
<1>1. /\ pin.done \in Seq(Block) /\ handles \in [Block -> Nat]
      /\ handles' \in [Block -> Nat]
    BY PinTypes DEF IInv, TypeOK
<1>2. requested = pin.blocks /\ requested' = <<>> /\ seen' = seen
    BY DEF requested, NoPin, seen
<1>. DEFINE n == Len(pin.done)
<1>3. /\ n \in Nat /\ DOMAIN pin.done = 1 .. n
      /\ DOMAIN pin.blocks = 1 .. n + 1
      /\ \A i \in 1 .. n : pin.blocks[i] = pin.done[i]
      /\ pin.blocks[n + 1] = c
    BY <1>1
<1>4. pin.blocks # <<>>
    BY <1>3
<1>5. seen[c] # 0
  <2>1. memory[c].state \in State /\ SoundOf(c)
    BY BlockFacts DEF BlockMemory
  <2>2. c \notin lost /\ content[c] \in 1 .. MaxVersion
    BY <2>1 DEF SoundOf, State
  <2>. QED BY <2>2, BoundAssumption DEF seen
<1>. HIDE DEF n
<1>6. \A i \in DOMAIN pin.blocks : seen[pin.blocks[i]] # 0
  <2>1. ASSUME NEW i \in 1 .. n PROVE seen[pin.blocks[i]] # 0
    BY <1>3, DoneIsSeen
  <2>2. \A i \in 1 .. n + 1 : i \in 1 .. n \/ i = n + 1
    BY <1>3
  <2>. QED BY <1>3, <1>5, <2>1, <2>2
<1>7. held' = [b \in Block |-> held[b] + times(pin.blocks, b)]
  <2>1. ASSUME NEW b \in Block
        PROVE  held'[b] = held[b] + times(pin.blocks, b)
    <3>0. times(Append(pin.done, c), b) =
                IF c = b THEN times(pin.done, b) + 1 ELSE times(pin.done, b)
        BY Zenon, <1>1 DEF CountingFacts
    <3>1. /\ times(pin'.done, b) = 0 /\ times(pin.done, b) \in Nat
          /\ times(pin.blocks, b) =
                IF c = b THEN times(pin.done, b) + 1 ELSE times(pin.done, b)
      <4>1. pin'.done = <<>>
        BY DEF NoPin
      <4>. QED BY <1>1, <3>0, <4>1 DEF CountingFacts
    <3>2. /\ handles'[b] = IF c = b THEN handles[b] + 1 ELSE handles[b]
          /\ handles[b] \in Nat
        BY <1>1
    <3>3. /\ held'[b] = handles'[b] - times(pin'.done, b)
          /\ held[b] = handles[b] - times(pin.done, b)
        BY DEF held
    <3>. QED BY <3>1, <3>2, <3>3
  <2>2. held' = [b \in Block |-> held'[b]]
    BY DEF held
  <2>. QED BY <2>1, <2>2
<1>8. User!Pinned
  <2>. DEFINE C == [b \in Block |-> bytes(b)]
              P == [b \in Block |-> granted(b)]
  <2>1. C = seen /\ C' = seen' /\ P = held /\ P' = held'
    BY SeenBytes, SeenBytesNext DEF Mapped
  <2>. HIDE DEF C, P
  <2>2. \A bs, b : User!count(bs, b) = times(bs, b)
    BY Zenon DEF User!count, times, User!Cardinality, Cardinality
  <2>3. P' = [b \in Block |-> P[b] + User!count(requested, b)]
    BY <1>2, <1>7, <2>1, <2>2
  <2>4. \A i \in DOMAIN requested : C[requested[i]] # 0
    BY <1>2, <1>6, <2>1
  <2>5. C' = C /\ requested # <<>> /\ requested' = <<>>
    BY <1>2, <1>4, <2>1
  <2>. QED BY <2>3, <2>4, <2>5
           DEF User!Pinned, User!NoRequest, User!Missing, User!Block, Block, C, P
<1>. QED BY <1>8 DEF User!Next

\* The steps of the calls: a call succeeds with its last handle, fails with the
\* exception, and shows nothing on the way.
LEMMA PinStepRefines ==
    ASSUME IInv, IInv', CountingFacts, pinStep
    PROVE  User!Next \/ UNCHANGED User!vars
<1>. /\ pin \in PinFrame /\ pin.done \in Seq(Block)
     /\ handles \in [Block -> Nat] /\ handles' \in [Block -> Nat]
    BY PinTypes DEF IInv, TypeOK
<1>0. UNCHANGED <<live, nextBlockId, content, lost>>
    BY DEF pinStep, visit, submitReadFails, pinNext, unwind, ghosts
<1>1. CASE visit
  <2>1. /\ pin.phase \in {"prefetching", "reading"} /\ pin.todo # <<>>
        /\ pin' = rest /\ handles' = handles /\ live' = live
    BY <1>1 DEF visit, ghosts
  <2>2. pin'.done = <<>> /\ pin.done = <<>>
    BY Zenon, <2>1, RestOfVisit DEF IInv, Calls
  <2>3. held' = held
    BY <2>1, <2>2 DEF held
  <2>4. requested' = requested
    BY <2>1, RestFacts DEF requested, NoPin
  <2>. QED BY <1>0, <2>3, <2>4, Unseen
<1>2. CASE submitReadFails
  <2>1. throw /\ handles' = handles
    BY <1>2 DEF submitReadFails, ghosts
  <2>2. pin'.phase = "throwing" /\ pin'.done = pin.done
    BY <2>1 DEF throw, PinFrame
  <2>. QED BY <1>0, <2>1, <2>2, FailureRefines
<1>3. CASE pinNext
  <2>1. PICK c \in Block : c = Head(pin.todo) /\ c \in live
    BY <1>3, NextToPin DEF pinNext
  <2>2. pin.phase = "pinning"
    BY <1>3 DEF pinNext
  <2>3. CASE pin' = pin /\ handles' = handles
    <3>1. held' = held /\ requested' = requested
        BY <2>3 DEF held, requested
    <3>. QED BY <1>0, <3>1, Unseen
  <2>4. CASE pin'.phase = "throwing" /\ pin'.done = pin.done /\ handles' = handles
    BY <1>0, <2>4, FailureRefines
  <2>5. CASE /\ handles' = [handles EXCEPT ![c] = @ + 1]
             /\ pin' = NoPin /\ Append(pin.done, c) = pin.blocks
    <3>1. memory[c].state # "kSpilling"
      <4>1. SUFFICES ASSUME memory[c].state = "kSpilling" PROVE FALSE
        OBVIOUS
      <4>2. memory[c].prefetchFuture # "pending"
        BY <4>1, BlockFacts DEF SoundOf
      <4>3. PinThrows(c)
        BY <1>3, <2>1, <4>1, <4>2
           DEF pinNext, PinInMemory, PinSpilled, PinPrefetching
      <4>4. handles' = handles
        BY <4>3 DEF PinThrows
      <4>. QED BY <2>5, <4>4
    <3>. QED BY Zenon, <1>0, <2>1, <2>2, <2>5, <3>1, PinnedRefines
  <2>6. CASE /\ handles' = [handles EXCEPT ![c] = @ + 1]
             /\ pin'.phase = "pinning" /\ pin'.blocks = pin.blocks
             /\ pin'.done = Append(pin.done, c)
    <3>1. ASSUME NEW b \in Block PROVE held'[b] = held[b]
      <4>1. /\ times(pin.done, b) \in Nat
            /\ times(pin'.done, b) =
                 IF c = b THEN times(pin.done, b) + 1 ELSE times(pin.done, b)
        BY <2>6 DEF CountingFacts
      <4>2. /\ handles'[b] = IF c = b THEN handles[b] + 1 ELSE handles[b]
            /\ handles[b] \in Nat
        BY <2>6
      <4>3. /\ held'[b] = handles'[b] - times(pin'.done, b)
            /\ held[b] = handles[b] - times(pin.done, b)
        BY DEF held
      <4>. QED BY <4>1, <4>2, <4>3
    <3>2. held' = held
        BY <3>1 DEF held
    <3>3. requested' = requested
        BY <2>2, <2>6 DEF requested
    <3>. QED BY <1>0, <3>2, <3>3, Unseen
  <2>. QED BY <1>3, <2>1, <2>3, <2>4, <2>5, <2>6, PinNextFrame
<1>4. CASE unwind
  <2>0. requested = <<>>
    BY <1>4 DEF unwind, requested
  <2>1. CASE pin.done = <<>> /\ pin' = NoPin /\ handles' = handles
    <3>1. held' = held /\ requested' = <<>>
        BY <2>1 DEF held, requested, NoPin
    <3>. QED BY <1>0, <2>0, <3>1, Unseen
  <2>2. CASE /\ pin.done # <<>> /\ pin'.done = Tail(pin.done)
             /\ pin'.phase = "throwing"
             /\ handles' = [handles EXCEPT ![Head(pin.done)] = @ - 1]
    <3>1. PICK c \in Block : c = Head(pin.done)
        BY <2>2, NextToPin
    <3>2. ASSUME NEW b \in Block PROVE held'[b] = held[b]
      <4>1. Tail(pin.done) \in Seq(Block)
        BY <2>2, TailFacts
      <4>2. /\ times(pin'.done, b) \in Nat
            /\ times(pin.done, b) =
                 IF c = b THEN times(pin'.done, b) + 1 ELSE times(pin'.done, b)
        BY Zenon, <2>2, <3>1, <4>1 DEF CountingFacts
      <4>3. /\ handles'[b] = IF c = b THEN handles[b] - 1 ELSE handles[b]
            /\ handles[b] \in Nat
        BY <2>2, <3>1
      <4>4. /\ held'[b] = handles'[b] - times(pin'.done, b)
            /\ held[b] = handles[b] - times(pin.done, b)
        BY DEF held
      <4>. QED BY <4>2, <4>3, <4>4
    <3>3. held' = held
        BY <3>2 DEF held
    <3>4. requested' = <<>>
        BY <2>2 DEF requested
    <3>. QED BY <1>0, <2>0, <3>3, <3>4, Unseen
  <2>. QED BY <1>4, <2>1, <2>2, UnwindFrame
<1>. QED BY <1>1, <1>2, <1>3, <1>4 DEF pinStep

\* Bytes are lost only of blocks that nobody has pinned.
LEMMA LossRefines ==
    ASSUME IInv, IInv', CountingFacts, NEW L \in SUBSET Block,
           \A b \in L : b \in live /\ handles[b] = 0, lost' = lost \cup L,
           UNCHANGED <<live, nextBlockId, content, pin, handles>>
    PROVE  User!Next
<1>. DEFINE C == [b \in Block |-> bytes(b)]
            P == [b \in Block |-> granted(b)]
<1>1. C = seen /\ C' = seen' /\ P = held /\ P' = held'
    BY SeenBytes, SeenBytesNext DEF Mapped
<1>. HIDE DEF C, P
<1>2. P' = P /\ requested' = requested
    BY <1>1 DEF held, requested
<1>3. C' = [b \in Block |-> IF b \in L THEN 0 ELSE C[b]]
    BY <1>1 DEF seen, Missing
<1>4. ASSUME NEW b \in L PROVE P[b] = 0
  <2>1. /\ times(pin.done, b) \in Nat /\ times(pin.done, b) <= handles[b]
        /\ handles[b] = 0
    BY PinTypes DEF CountingFacts, IInv, Counted
  <2>. QED BY <1>1, <2>1 DEF held
<1>5. User!Lose(L)
    BY <1>2, <1>3, <1>4 DEF User!Lose, User!Missing, User!Block, Block, C, P
<1>. QED BY <1>5 DEF User!Next, User!Block, Block

\* Reclaim shows only if a write fails.
LEMMA SpillRefines ==
    ASSUME IInv, IInv', CountingFacts, spillStart \/ spillStep
    PROVE  User!Next \/ UNCHANGED User!vars
<1>0. UNCHANGED <<live, nextBlockId, pin, handles, content>>
  <2>1. UNCHANGED content
    BY Zenon
       DEF spillStart, spillStep, SpillBlocks, Reclaim, noCandidate, skip, discard,
           submit, HarvestNext, harvestFails, spilled, ghosts
  <2>. QED BY <2>1, GroupFrames
<1>1. CASE lost' = lost
  <2>1. held' = held /\ requested' = requested
    BY <1>0 DEF held, requested
  <2>. QED BY <1>0, <1>1, <2>1, Unseen
<1>2. ASSUME NEW b \in inFlight PROVE b \in Block /\ b \in live /\ handles[b] = 0
  <2>1. b \in Block /\ b \in live /\ memory[b].state = "kSpilling"
    BY WriteTypes DEF inFlight, IInv, Window
  <2>. QED BY <2>1, BlockFacts DEF SoundOf
<1>3. CASE lost' # lost
  <2>1. CASE harvestFails
    BY <1>0, <1>2, <2>1, LossRefines DEF harvestFails
  <2>2. CASE submit
    <3>1. PICK c \in Block : c = nextBlock /\ isSpillable(c)
        BY <2>2, Candidate DEF submit
    <3>2. c \in live /\ handles[c] = 0
        BY <3>1, BlockFacts DEF isSpillable, SoundOf
    <3>3. lost' = lost \cup (inFlight \cup {c})
        BY <1>3, <2>2, <3>1 DEF submit
    <3>. QED BY Zenon, <1>0, <1>2, <3>2, <3>3, LossRefines
  <2>3. harvestFails \/ submit
    BY Zenon, <1>3
       DEF spillStart, spillStep, SpillBlocks, Reclaim, noCandidate, skip,
           discard, HarvestNext, spilled, ghosts
  <2>. QED BY <2>1, <2>2, <2>3
<1>. QED BY <1>1, <1>3

\* Every step of the manager is a step of the abstract store, or shows nothing.
LEMMA RefinesStep ==
    ASSUME IInv, IInv', CountingFacts, [Next]_vars
    PROVE  [User!Next]_User!vars
<1>1. CASE UNCHANGED vars
  <2>1. UNCHANGED <<live, nextBlockId, content, lost>> /\ held' = held
        /\ requested' = requested
    BY <1>1 DEF vars, held, requested
  <2>. QED BY <2>1, Unseen
<1>. QED BY <1>1, NextSplit, CallRefines, PinStartRefines, PinStepRefines,
            SpillRefines
=============================================================================
