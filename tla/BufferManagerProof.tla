------------------------- MODULE BufferManagerProof -------------------------
(***************************************************************************)
(* What holds of the buffer manager for any number and sizes of blocks,    *)
(* any window of writes, any reclaim targets and any bounds: the           *)
(* invariants, and that it implements BlockStore.                          *)
(***************************************************************************)
EXTENDS BufferManagerRefinement, Counting

\* The facts about counting that the steps of the proofs use.
LEMMA CountingHolds == CountingFacts
<1>0. \A bs, b : times(bs, b) = Occurrences(bs, b)
    BY DEF Occurrences, times
<1>1. ASSUME NEW b \in Block PROVE times(<<>>, b) = 0
    BY <1>0, OccurrencesOfEmpty
<1>2. ASSUME NEW b \in Block, NEW bs \in Seq(Block)
      PROVE  times(bs, b) \in Nat
    BY Zenon, <1>0, OccurrencesType
<1>3. ASSUME NEW b \in Block, NEW bs \in Seq(Block), NEW i \in DOMAIN bs,
             bs[i] = b
      PROVE  times(bs, b) > 0
    BY <1>0, <1>3, OccurrencesOfElement
<1>4. ASSUME NEW b \in Block, NEW bs \in Seq(Block), NEW c \in Block
      PROVE  times(Append(bs, c), b) =
                IF c = b THEN times(bs, b) + 1 ELSE times(bs, b)
    BY <1>0, OccurrencesOfAppend
<1>5. ASSUME NEW b \in Block, NEW bs \in Seq(Block), bs # <<>>
      PROVE  times(bs, b) =
                IF Head(bs) = b THEN times(Tail(bs), b) + 1
                ELSE times(Tail(bs), b)
    BY <1>0, <1>5, OccurrencesOfTail
<1>. QED BY <1>1, <1>2, <1>3, <1>4, <1>5 DEF CountingFacts

\* The inductive invariant holds in every state the manager reaches.
THEOREM Invariance == Spec => []IInv
<1>1. Init => IInv
    BY CountingHolds, InvInit
<1>2. IInv /\ [Next]_vars => IInv'
    BY CountingHolds, InvStep
<1>. QED BY <1>1, <1>2, PTL DEF Spec

\* Every variable keeps its type; no counter and no pin count goes below zero.
THEOREM TypeCorrect == Spec => []TypeOK
<1>1. IInv => TypeOK
    BY DEF IInv
<1>. QED BY <1>1, Invariance, PTL

\* A block that is held by a BufferHandle is resident, and its pin count is the
\* number of its handles, also in the middle of a BatchPin that fails later.
THEOREM PinsProtect == Spec => []HandlesArePins
<1>1. IInv => HandlesArePins
    BY DEF IInv, TypeOK, Sound, SoundOf, HandlesArePins
<1>. QED BY <1>1, Invariance, PTL

\* The bytes a user wrote last are where the next Pin finds them, or known to be
\* lost with a failed write.
THEOREM BytesSurvive == Spec => []DataSurvives
<1>1. IInv => DataSurvives
  <2>. SUFFICES ASSUME IInv, NEW b \in live
                PROVE  CASE memory[b].state = "kInMemory" ->
                                memory[b].payload = content[b]
                         [] memory[b].state = "kSpilling" ->
                                \/ b \in lost
                                \/ \E i \in DOMAIN spill.pending :
                                    spill.pending[i] =
                                        [block |-> b, data |-> content[b]]
                         [] OTHER -> memory[b].segment = content[b]
    BY DEF DataSurvives
  <2>1. b \in Block /\ SoundOf(b) /\ memory[b].state \in State
    BY BlockFacts DEF IInv, TypeOK, BlockMemory
  <2>2. ASSUME memory[b].state = "kSpilling", b \notin lost
        PROVE  \E i \in DOMAIN spill.pending :
                    spill.pending[i] = [block |-> b, data |-> content[b]]
    <3>1. PICK i \in DOMAIN spill.pending : spill.pending[i].block = b
        BY <2>1, <2>2 DEF SoundOf
    <3>2. spill.pending[i].data = content[b] /\ spill.pending[i] \in PendingWrite
        BY <3>1, WriteTypes DEF IInv, Window
    <3>3. spill.pending[i] = [block |-> b, data |-> content[b]]
        BY <3>1, <3>2 DEF PendingWrite
    <3>. QED BY <3>3
  <2>. QED BY <2>1, <2>2 DEF SoundOf, State
<1>. QED BY <1>1, Invariance, PTL

\* Each unpinned resident block has a current entry in the eviction queue.
THEOREM NothingStranded == Spec => []EvictableIsQueued
<1>1. IInv => EvictableIsQueued
    BY DEF IInv
<1>. QED BY <1>1, Invariance, PTL

\* The manager implements the abstract store: evicting, writing, reading ahead,
\* failing and releasing what a failed call has pinned never show.
THEOREM Refinement == Spec => ImplementsBlockStore
<1>1. Init => User!Init
    BY CountingHolds, RefinesInit
<1>2. IInv /\ IInv' /\ [Next]_vars => [User!Next]_User!vars
    BY CountingHolds, RefinesStep
<1>. QED BY <1>1, <1>2, Invariance, PTL
         DEF Spec, ImplementsBlockStore, User!Spec
=============================================================================
