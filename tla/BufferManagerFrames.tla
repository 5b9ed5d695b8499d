------------------------ MODULE BufferManagerFrames ------------------------
(***************************************************************************)
(* The rest of the proof that IInv is inductive: types, the frames of the  *)
(* calls under way, and the handles they have made.                        *)
(***************************************************************************)
EXTENDS BufferManagerBlocks

-----------------------------------------------------------------------------
(***************************************************************************)
(* The frames.                                                             *)
(***************************************************************************)
PinCall ==
    /\ pin.phase = "idle" => pin = NoPin
    /\ \A i \in DOMAIN pin.todo : pin.todo[i] \in live
    /\ \A i \in DOMAIN pin.blocks : pin.blocks[i] \in live
    /\ \A i \in DOMAIN pin.done : pin.done[i] \in live
    /\ pin.phase \in {"prefetching", "reading", "pinning"} => pin.todo # <<>>
    /\ pin.phase \in {"prefetching", "reading"} => pin.done = <<>>
    /\ pin.phase = "reading" => pin.blocks # <<>>
    /\ pin.phase = "pinning" =>
         /\ Len(pin.done) + Len(pin.todo) = Len(pin.blocks)
         /\ \A i \in DOMAIN pin.done : pin.blocks[i] = pin.done[i]
         /\ \A i \in DOMAIN pin.todo : pin.blocks[Len(pin.done) + i] = pin.todo[i]

SpillCall ==
    /\ spill.phase = "idle" => spill = NoSpill
    /\ \A i \in DOMAIN spill.blocks : spill.blocks[i] \in live

\* The two frames do not depend on each other.
LEMMA CallsSplit == Calls <=> PinCall /\ SpillCall
BY Zenon DEF Calls, PinCall, SpillCall

\* The types of the parts of the pin frame.
LEMMA PinTypes ==
    ASSUME IInv
    PROVE  /\ pin \in PinFrame
           /\ pin.todo \in Seq(Block) /\ pin.blocks \in Seq(Block)
           /\ pin.done \in Seq(Block)
           /\ live \subseteq Block
BY DEF IInv, TypeOK, PinFrame

\* A frame with no call under way.
LEMMA NoPinCall ==
    ASSUME pin' = NoPin
    PROVE  pin' \in PinFrame /\ PinCall'
<1>1. <<>> \in Seq(Block)
    OBVIOUS
<1>. QED BY <1>1 DEF NoPin, PinFrame, PinCall

\* The frame at the start of a call.
LEMMA PinStarts ==
    ASSUME IInv, NEW n \in Nat \ {0}, NEW bs \in [1 .. n -> live],
           NEW cs \in Seq(Block), cs = <<>> \/ cs = bs,
           NEW p \in {"prefetching", "reading", "pinning"},
           p # "prefetching" => cs = bs, live' = live,
           pin' = [phase |-> p, todo |-> bs, blocks |-> cs, done |-> <<>>]
    PROVE  pin' \in PinFrame /\ PinCall'
<1>1. /\ bs \in Seq(Block) /\ bs # <<>> /\ <<>> \in Seq(Block)
      /\ DOMAIN bs = 1 .. n /\ Len(bs) = n
    BY PinTypes
<1>2. /\ pin'.phase = p /\ pin'.todo = bs /\ pin'.blocks = cs
      /\ pin'.done = <<>>
    OBVIOUS
<1>3. pin' \in PinFrame
    BY <1>1 DEF PinFrame
<1>4. /\ \A i \in DOMAIN bs : bs[i] \in live
      /\ \A i \in DOMAIN cs : cs[i] \in live
    BY <1>1
<1>5. p = "pinning" =>
        /\ Len(pin'.done) + Len(pin'.todo) = Len(pin'.blocks)
        /\ \A i \in DOMAIN pin'.done : pin'.blocks[i] = pin'.done[i]
        /\ \A i \in DOMAIN pin'.todo :
                pin'.blocks[Len(pin'.done) + i] = pin'.todo[i]
  <2>1. Len(<<>>) = 0 /\ DOMAIN <<>> = {}
    OBVIOUS
  <2>2. \A i \in DOMAIN bs : 0 + i = i
    BY <1>1
  <2>. QED BY <1>1, <1>2, <2>1, <2>2
<1>. QED BY <1>1, <1>2, <1>3, <1>4, <1>5 DEF PinCall

\* The frame after an exception.
LEMMA PinThrown ==
    ASSUME IInv, throw, live' = live
    PROVE  pin' \in PinFrame /\ PinCall' /\ pin'.done = pin.done
<1>1. /\ pin'.phase = "throwing" /\ pin'.todo = <<>> /\ pin'.blocks = <<>>
      /\ pin'.done = pin.done
    BY PinTypes DEF throw, PinFrame
<1>2. pin' \in PinFrame
  <2>1. <<>> \in Seq(Block)
    OBVIOUS
  <2>. QED BY Zenon, <2>1, PinTypes DEF throw, PinFrame
<1>. QED BY <1>1, <1>2 DEF PinCall, IInv, Calls

\* One more done, one less to do.
LEMMA OneMoved ==
    ASSUME NEW a \in Nat, NEW t \in Nat \ {0}
    PROVE  (a + 1) + (t - 1) = a + t /\ (~(t > 1) => t = 1)
OBVIOUS

\* What 'rest' is: the next block of the loop, the second loop of BatchPin, or
\* the end of the call.
LEMMA RestFacts ==
    ASSUME IInv, pin.todo # <<>>
    PROVE  /\ rest \in PinFrame
           /\ Len(pin.todo) > 1 =>
                /\ rest.phase = pin.phase /\ rest.todo = Tail(pin.todo)
                /\ rest.blocks = pin.blocks /\ rest.done = pin.done
           /\ ~(Len(pin.todo) > 1) /\ pin.phase = "reading" =>
                /\ rest.phase = "pinning" /\ rest.todo = pin.blocks
                /\ rest.blocks = pin.blocks /\ rest.done = pin.done
           /\ ~(Len(pin.todo) > 1) /\ pin.phase # "reading" => rest = NoPin
<1>. pin \in PinFrame /\ pin.todo \in Seq(Block) /\ pin.blocks \in Seq(Block)
    BY PinTypes
<1>1. CASE Len(pin.todo) > 1
  <2>1. Tail(pin.todo) \in Seq(Block)
    OBVIOUS
  <2>2. rest = [pin EXCEPT !.todo = Tail(pin.todo)]
    BY <1>1 DEF rest
  <2>. QED BY Zenon, <1>1, <2>1, <2>2 DEF PinFrame
<1>2. CASE ~(Len(pin.todo) > 1) /\ pin.phase = "reading"
    BY Zenon, <1>2 DEF rest, PinFrame
<1>3. CASE ~(Len(pin.todo) > 1) /\ pin.phase # "reading"
  <2>1. <<>> \in Seq(Block)
    OBVIOUS
  <2>. QED BY <1>3, <2>1 DEF rest, PinFrame, NoPin
<1>. QED BY <1>1, <1>2, <1>3

\* The loops over blocks that are not pinned yet.
LEMMA RestOfVisit ==
    ASSUME IInv, pin.phase \in {"prefetching", "reading"}, pin.todo # <<>>,
           pin' = rest, live' = live
    PROVE  pin' \in PinFrame /\ PinCall' /\ pin'.done = <<>>
<1>. pin \in PinFrame /\ pin.todo \in Seq(Block) /\ pin.blocks \in Seq(Block)
    BY PinTypes
<1>0. PinCall
    BY CallsSplit DEF IInv
<1>1. pin' \in PinFrame
    BY RestFacts
<1>2. CASE Len(pin.todo) > 1
  <2>1. /\ pin'.phase = pin.phase /\ pin'.todo = Tail(pin.todo)
        /\ pin'.blocks = pin.blocks /\ pin'.done = pin.done
    BY <1>2, RestFacts
  <2>2. /\ Tail(pin.todo) # <<>>
        /\ \A i \in DOMAIN Tail(pin.todo) :
                i + 1 \in DOMAIN pin.todo /\ Tail(pin.todo)[i] = pin.todo[i + 1]
    BY <1>2, TailFacts
  <2>3. \A i \in DOMAIN Tail(pin.todo) : Tail(pin.todo)[i] \in live
    BY <1>0, <2>2 DEF PinCall
  <2>4. pin.done = <<>> /\ (pin.phase = "reading" => pin.blocks # <<>>)
    BY <1>0 DEF PinCall
  <2>5. \A i \in DOMAIN pin.blocks : pin.blocks[i] \in live
    BY <1>0 DEF PinCall
  <2>. QED BY <1>1, <2>1, <2>2, <2>3, <2>4, <2>5 DEF PinCall
<1>3. CASE ~(Len(pin.todo) > 1) /\ pin.phase = "reading"
  <2>1. /\ pin'.phase = "pinning" /\ pin'.todo = pin.blocks
        /\ pin'.blocks = pin.blocks /\ pin'.done = <<>>
    BY <1>0, <1>3, RestFacts DEF PinCall
  <2>2. /\ Len(<<>>) = 0 /\ DOMAIN <<>> = {} /\ Len(pin.blocks) \in Nat
        /\ \A i \in DOMAIN pin.blocks : 0 + i = i
    OBVIOUS
  <2>. QED BY <1>0, <1>1, <1>3, <2>1, <2>2 DEF PinCall
<1>4. CASE ~(Len(pin.todo) > 1) /\ pin.phase # "reading"
    BY <1>4, RestFacts, NoPinCall DEF NoPin
<1>. QED BY <1>2, <1>3, <1>4

\* A handle was made: the block moves from 'todo' to 'done'.
LEMMA RestOfPin ==
    ASSUME IInv, pin.phase = "pinning", pin.todo # <<>>,
           madeHandle(Head(pin.todo)), live' = live
    PROVE  /\ pin' \in PinFrame /\ PinCall'
           /\ \/ pin' = NoPin /\ Append(pin.done, Head(pin.todo)) = pin.blocks
              \/ /\ pin'.phase = "pinning" /\ pin'.blocks = pin.blocks
                 /\ pin'.done = Append(pin.done, Head(pin.todo))
<1>. pin \in PinFrame /\ pin.todo \in Seq(Block) /\ pin.blocks \in Seq(Block)
     /\ pin.done \in Seq(Block)
    BY PinTypes
<1>0. PinCall
    BY CallsSplit DEF IInv
<1>1. PICK c \in Block : c = Head(pin.todo) /\ c \in live
    BY NextToPin
<1>a. /\ pin.todo[1] = c /\ 1 \in DOMAIN pin.todo
      /\ Len(pin.todo) \in Nat \ {0}
    BY <1>1, TailFacts
<1>2. /\ Len(pin.done) + Len(pin.todo) = Len(pin.blocks)
      /\ \A i \in DOMAIN pin.done : pin.blocks[i] = pin.done[i]
      /\ \A i \in DOMAIN pin.todo : pin.blocks[Len(pin.done) + i] = pin.todo[i]
    BY Zenon, <1>0 DEF PinCall
<1>. DEFINE n == Len(pin.done)
            d == Append(pin.done, c)
<1>3. /\ n \in Nat /\ DOMAIN pin.done = 1 .. n /\ Len(d) = n + 1
      /\ DOMAIN d = 1 .. n + 1 /\ d \in Seq(Block)
      /\ \A i \in 1 .. n : d[i] = pin.done[i]
      /\ d[n + 1] = c
    OBVIOUS
<1>. HIDE DEF n, d
<1>4. \A i \in 1 .. n + 1 : d[i] \in live /\ pin.blocks[i] = d[i]
  <2>1. \A i \in 1 .. n : d[i] \in live /\ pin.blocks[i] = d[i]
    BY Zenon, <1>0, <1>2, <1>3 DEF PinCall
  <2>2. d[n + 1] \in live /\ pin.blocks[n + 1] = d[n + 1]
    BY <1>1, <1>a, <1>2, <1>3 DEF n
  <2>. QED BY <1>3, <2>1, <2>2
<1>5. CASE Len(pin.todo) > 1
  <2>1. /\ rest.phase = "pinning" /\ rest.todo = Tail(pin.todo)
        /\ rest.blocks = pin.blocks /\ rest.done = pin.done
        /\ rest \in PinFrame
    BY <1>5, RestFacts
  <2>2. rest # NoPin
    BY <2>1 DEF NoPin
  <2>3. pin' = [rest EXCEPT !.done = d]
    BY <1>1, <2>1, <2>2 DEF madeHandle, d
  <2>4. /\ pin' \in PinFrame /\ pin'.phase = "pinning"
        /\ pin'.todo = Tail(pin.todo) /\ pin'.blocks = pin.blocks /\ pin'.done = d
    BY Zenon, <1>3, <2>1, <2>3 DEF PinFrame
  <2>5. /\ Tail(pin.todo) # <<>> /\ Len(Tail(pin.todo)) = Len(pin.todo) - 1
        /\ \A i \in DOMAIN Tail(pin.todo) :
              /\ i + 1 \in DOMAIN pin.todo /\ Tail(pin.todo)[i] = pin.todo[i + 1]
              /\ i \in Nat
    BY <1>5, TailFacts
  <2>6. \A i \in DOMAIN Tail(pin.todo) :
            pin.blocks[Len(d) + i] = Tail(pin.todo)[i]
    <3>1. ASSUME NEW i \in DOMAIN Tail(pin.todo)
          PROVE  pin.blocks[Len(d) + i] = Tail(pin.todo)[i]
      <4>0. i \in Nat /\ n \in Nat /\ Len(d) = n + 1
        BY <1>3, <2>5
      <4>1. Len(d) + i = n + (i + 1)
        BY <4>0
      <4>. QED BY Zenon, <1>2, <2>5, <4>1 DEF n
    <3>. QED BY <3>1
  <2>7. Len(d) + Len(Tail(pin.todo)) = Len(pin.blocks)
    <3>1. /\ n \in Nat /\ Len(d) = n + 1 /\ Len(pin.todo) \in Nat \ {0}
          /\ Len(Tail(pin.todo)) = Len(pin.todo) - 1
          /\ n + Len(pin.todo) = Len(pin.blocks)
        BY Zenon, <1>a, <1>2, <1>3, <2>5 DEF n
    <3>. QED BY Zenon, <3>1, OneMoved
  <2>8. \A i \in DOMAIN Tail(pin.todo) : Tail(pin.todo)[i] \in live
    BY <1>0, <2>5 DEF PinCall
  <2>9. PinCall'
    BY Zenon, <1>0, <1>3, <1>4, <2>4, <2>5, <2>6, <2>7, <2>8 DEF PinCall
  <2>. QED BY <1>1, <2>4, <2>9 DEF d
<1>6. CASE ~(Len(pin.todo) > 1)
  <2>1. pin' = NoPin
    BY <1>6, RestFacts DEF madeHandle
  <2>2. Len(pin.todo) = 1
    BY Zenon, <1>a, <1>6, OneMoved
  <2>3. Len(pin.blocks) = n + 1 /\ DOMAIN pin.blocks = 1 .. n + 1
    BY <1>2, <1>3, <2>2 DEF n
  <2>4. d = pin.blocks
    BY <1>3, <1>4, <2>3
  <2>. QED BY <1>1, <2>1, <2>4, NoPinCall DEF d
<1>. QED BY <1>5, <1>6

-----------------------------------------------------------------------------
(***************************************************************************)
(* The window and its loop.                                                *)
(***************************************************************************)

\* The types of the parts of the spill frame.
LEMMA SpillTypes ==
    ASSUME IInv
    PROVE  /\ spill \in SpillFrame /\ spill.blocks \in Seq(Block)
           /\ spill.submitted \in Nat /\ spill.reclaimed \in Nat
           /\ SpillCall
           /\ \A b \in Block : Size[b] \in Nat \ {0}
BY CallsSplit, BlockAssumption DEF IInv, TypeOK, SpillFrame

\* A frame with no spill under way.
LEMMA NoSpillCall ==
    ASSUME spill' = NoSpill
    PROVE  spill' \in SpillFrame /\ SpillCall'
<1>1. <<>> \in Seq(Block) /\ <<>> \in Seq(PendingWrite)
    OBVIOUS
<1>. QED BY <1>1 DEF NoSpill, SpillFrame, SpillCall

\* A list of live blocks is a sequence of blocks.
LEMMA ListTypes ==
    ASSUME IInv, NEW bs \in Lists
    PROVE  /\ bs \in Seq(Block) /\ \A i \in DOMAIN bs : bs[i] \in live
           /\ \E n \in Nat \ {0} : bs \in [1 .. n -> live]
<1>1. PICK n \in 1 .. MaxList : bs \in [1 .. n -> live]
    BY DEF Lists
<1>2. n \in Nat \ {0}
    BY <1>1, BoundAssumption
<1>3. live \subseteq Block
    BY PinTypes
<1>. QED BY <1>1, <1>2, <1>3

\* The frame at the start of Reclaim and SpillBlocks.
LEMMA SpillStarts ==
    ASSUME IInv, live' = live, NEW t \in Nat, NEW src \in {"queue", "blocks"},
           NEW bs \in Seq(Block), \A i \in DOMAIN bs : bs[i] \in live,
           spill' = [phase |-> "submit", target |-> t, source |-> src,
                     blocks |-> bs, submitted |-> 0, reclaimed |-> 0,
                     noMoreCandidates |-> FALSE, pending |-> <<>>]
    PROVE  spill' \in SpillFrame /\ SpillCall'
<1>1. <<>> \in Seq(PendingWrite)
    OBVIOUS
<1>. QED BY <1>1 DEF SpillFrame, SpillCall

\* Reclaim and SpillBlocks start with an empty window.
LEMMA ReclaimFrame ==
    ASSUME IInv, \/ \E targetBytes \in Targets : Reclaim(targetBytes)
                 \/ \E bs \in Lists : SpillBlocks(bs)
    PROVE  spill' \in SpillFrame /\ SpillCall'
<1>1. ASSUME NEW t \in Targets, Reclaim(t)
      PROVE  spill' \in SpillFrame /\ SpillCall'
  <2>1. spill' = [phase |-> "submit", target |-> t, source |-> "queue",
                  blocks |-> <<>>, submitted |-> 0, reclaimed |-> 0,
                  noMoreCandidates |-> FALSE, pending |-> <<>>]
    BY Zenon, <1>1 DEF Reclaim, NoSpill
  <2>2. t \in Nat /\ <<>> \in Seq(Block) /\ \A i \in DOMAIN <<>> : <<>>[i] \in live
    BY TargetAssumption
  <2>3. live' = live
    BY Zenon, <1>1 DEF Reclaim
  <2>. QED BY Zenon, <2>1, <2>2, <2>3, SpillStarts
<1>2. ASSUME NEW bs \in Lists, SpillBlocks(bs)
      PROVE  spill' \in SpillFrame /\ SpillCall'
  <2>1. spill' = [phase |-> "submit", target |-> 0, source |-> "blocks",
                  blocks |-> bs, submitted |-> 0, reclaimed |-> 0,
                  noMoreCandidates |-> FALSE, pending |-> <<>>]
    BY Zenon, <1>2 DEF SpillBlocks, NoSpill
  <2>2. live' = live
    BY Zenon, <1>2 DEF SpillBlocks
  <2>. QED BY Zenon, <2>1, <2>2, ListTypes, SpillStarts
<1>. QED BY <1>1, <1>2

\* The list of SpillBlocks advances.
LEMMA Advanced ==
    ASSUME IInv, ~exhausted
    PROVE  /\ advanced \in SpillFrame
           /\ advanced.phase = spill.phase /\ advanced.pending = spill.pending
           /\ advanced.submitted = spill.submitted
           /\ advanced.reclaimed = spill.reclaimed
           /\ \A i \in DOMAIN advanced.blocks : advanced.blocks[i] \in live
<1>. /\ spill \in SpillFrame /\ spill.blocks \in Seq(Block)
     /\ \A i \in DOMAIN spill.blocks : spill.blocks[i] \in live
    BY SpillTypes DEF SpillCall
<1>1. CASE fromQueue
    BY <1>1 DEF advanced
<1>2. CASE ~fromQueue
  <2>1. advanced = [spill EXCEPT !.blocks = Tail(spill.blocks)]
    BY <1>2 DEF advanced
  <2>2. spill.blocks # <<>>
    BY <1>2 DEF exhausted
  <2>3. /\ Tail(spill.blocks) \in Seq(Block)
        /\ \A i \in DOMAIN Tail(spill.blocks) : Tail(spill.blocks)[i] \in live
    BY <2>2, TailFacts
  <2>. QED BY Zenon, <2>1, <2>3 DEF SpillFrame
<1>. QED BY <1>1, <1>2

\* Every step of the loop and of the harvest leaves a frame.
LEMMA SpillStep ==
    ASSUME IInv, noCandidate \/ skip \/ discard \/ submit \/ HarvestNext
                 \/ harvestFails \/ spilled
    PROVE  spill' \in SpillFrame /\ SpillCall'
<1>. /\ spill \in SpillFrame /\ SpillCall
    BY SpillTypes
<1>1. CASE noCandidate
  <2>1. spill' = [spill EXCEPT !.noMoreCandidates = TRUE] /\ live' = live
        /\ spill.phase # "idle"
    BY <1>1 DEF noCandidate, submitting
  <2>. QED BY Zenon, <2>1 DEF SpillFrame, SpillCall
<1>2. CASE skip
  <2>1. /\ spill' = advanced /\ live' = live /\ spill.phase # "idle"
        /\ ~exhausted
    BY <1>2 DEF skip, submitting
  <2>. QED BY <2>1, Advanced DEF SpillCall
<1>3. CASE discard
  <2>1. PICK c \in Block : c = nextBlock
    BY <1>3, Candidate DEF discard
  <2>2. /\ spill' = [advanced EXCEPT !.reclaimed = @ + Size[c],
                                     !.submitted = @ + Size[c]]
        /\ live' = live /\ spill.phase # "idle" /\ ~exhausted
    BY <1>3, <2>1 DEF discard, submitting
  <2>3. /\ advanced.reclaimed + Size[c] \in Nat
        /\ advanced.submitted + Size[c] \in Nat
        /\ advanced \in SpillFrame
    BY <2>2, Advanced, SpillTypes
  <2>4. spill' \in SpillFrame /\ spill'.phase = advanced.phase
        /\ spill'.blocks = advanced.blocks
    BY Zenon, <2>2, <2>3 DEF SpillFrame
  <2>. QED BY <2>2, <2>4, Advanced DEF SpillCall
<1>4. CASE submit
  <2>1. PICK c \in Block : c = nextBlock
    BY <1>4, Candidate DEF submit
  <2>2. live' = live /\ spill.phase # "idle" /\ ~exhausted
    BY <1>4 DEF submit, submitting
  <2>3. CASE spill' = NoSpill
    BY <2>3, NoSpillCall
  <2>4. CASE spill' = [advanced EXCEPT
                    !.pending = Append(@, [block |-> c,
                                           data |-> memory[c].payload]),
                    !.submitted = @ + Size[c]]
    <3>1. [block |-> c, data |-> memory[c].payload] \in PendingWrite
        BY BlockFacts DEF PendingWrite, BlockMemory
    <3>2. /\ advanced.submitted + Size[c] \in Nat /\ advanced \in SpillFrame
        BY <2>2, Advanced, SpillTypes
    <3>3. Append(advanced.pending, [block |-> c, data |-> memory[c].payload])
            \in Seq(PendingWrite)
        BY <2>2, <3>1, Advanced, WriteTypes
    <3>4. spill' \in SpillFrame /\ spill'.phase = advanced.phase
          /\ spill'.blocks = advanced.blocks
        BY Zenon, <2>4, <3>2, <3>3 DEF SpillFrame
    <3>. QED BY <2>2, <3>4, Advanced DEF SpillCall
  <2>. QED BY <1>4, <2>1, <2>3, <2>4 DEF submit
<1>5. CASE HarvestNext
  <2>1. spill.pending # <<>> /\ live' = live
    BY <1>5 DEF HarvestNext
  <2>2. /\ Tail(spill.pending) \in Seq(PendingWrite)
        /\ 1 \in DOMAIN spill.pending /\ Head(spill.pending) = spill.pending[1]
    BY <2>1, WriteTypes, TailFacts
  <2>3. PICK c \in Block : c = Head(spill.pending).block
    BY <2>2, WriteTypes
  <2>4. spill.reclaimed + Size[c] \in Nat
    BY SpillTypes
  <2>5. PICK p \in {"submit", "harvest"} :
        spill' = [spill EXCEPT !.pending = Tail(spill.pending),
                               !.reclaimed = spill.reclaimed + Size[c],
                               !.phase = p]
    BY Zenon, <1>5, <2>3 DEF HarvestNext
  <2>6. spill' \in SpillFrame /\ spill'.phase = p /\ spill'.blocks = spill.blocks
    BY Zenon, <2>2, <2>4, <2>5 DEF SpillFrame
  <2>. QED BY <2>1, <2>6 DEF SpillCall
<1>6. CASE harvestFails \/ spilled
    BY <1>6, NoSpillCall DEF harvestFails, spilled
<1>. QED BY <1>1, <1>2, <1>3, <1>4, <1>5, <1>6

-----------------------------------------------------------------------------
(***************************************************************************)
(* The handles of the calls.                                               *)
(***************************************************************************)

\* The calls start with no handle made.
LEMMA PinStartFrame ==
    ASSUME IInv, \/ \E b \in live : Pin(b)
                 \/ \E bs \in Lists : Prefetch(bs) \/ BatchPin(bs)
    PROVE  pin' \in PinFrame /\ PinCall' /\ pin'.done = <<>>
<1>1. ASSUME NEW b \in live, Pin(b)
      PROVE  pin' \in PinFrame /\ PinCall' /\ pin'.done = <<>>
  <2>1. /\ pin' = [phase |-> "pinning", todo |-> <<b>>, blocks |-> <<b>>,
                   done |-> <<>>]
        /\ live' = live
    BY Zenon, <1>1 DEF Pin, NoPin
  <2>2. b \in Block
    BY PinTypes
  <2>3. <<b>> \in [1 .. 1 -> live] /\ <<b>> \in Seq(Block) /\ 1 \in Nat \ {0}
    BY <2>2
  <2>. QED BY Zenon, <2>1, <2>3, PinStarts
<1>2. ASSUME NEW bs \in Lists, Prefetch(bs)
      PROVE  pin' \in PinFrame /\ PinCall' /\ pin'.done = <<>>
  <2>1. /\ pin' = [phase |-> "prefetching", todo |-> bs, blocks |-> <<>>,
                   done |-> <<>>]
        /\ live' = live
    BY Zenon, <1>2 DEF Prefetch, NoPin
  <2>2. <<>> \in Seq(Block)
    OBVIOUS
  <2>3. PICK n \in Nat \ {0} : bs \in [1 .. n -> live]
    BY ListTypes
  <2>. QED BY Zenon, <2>1, <2>2, <2>3, PinStarts
<1>3. ASSUME NEW bs \in Lists, BatchPin(bs)
      PROVE  pin' \in PinFrame /\ PinCall' /\ pin'.done = <<>>
  <2>1. /\ pin' = [phase |-> "reading", todo |-> bs, blocks |-> bs,
                   done |-> <<>>]
        /\ live' = live
    BY Zenon, <1>3 DEF BatchPin, NoPin
  <2>2. bs \in Seq(Block)
    BY ListTypes
  <2>3. PICK n \in Nat \ {0} : bs \in [1 .. n -> live]
    BY ListTypes
  <2>. QED BY Zenon, <2>1, <2>2, <2>3, PinStarts
<1>. QED BY <1>1, <1>2, <1>3

\* What a step of the second loop of BatchPin does to the frame and the handles.
LEMMA PinNextFrame ==
    ASSUME IInv, pinNext
    PROVE  /\ pin' \in PinFrame /\ PinCall'
           /\ \/ pin' = pin /\ handles' = handles
              \/ pin'.phase = "throwing" /\ pin'.done = pin.done
                 /\ handles' = handles
              \/ /\ handles' = [handles EXCEPT ![Head(pin.todo)] = @ + 1]
                 /\ \/ pin' = NoPin
                       /\ Append(pin.done, Head(pin.todo)) = pin.blocks
                    \/ /\ pin'.phase = "pinning" /\ pin'.blocks = pin.blocks
                       /\ pin'.done = Append(pin.done, Head(pin.todo))
<1>. DEFINE c == Head(pin.todo)
<1>1. /\ live' = live /\ pin.phase = "pinning" /\ pin.todo # <<>>
      /\ PinInMemory(c) \/ PinSpilled(c) \/ PinPrefetching(c) \/ PinThrows(c)
    BY DEF pinNext
<1>2. /\ \/ madeHandle(c)
         \/ throw /\ handles' = handles
         \/ pin' = pin /\ handles' = handles
    BY <1>1 DEF PinInMemory, PinSpilled, PinPrefetching, PinThrows
<1>3. CASE madeHandle(c)
    BY <1>1, <1>3, RestOfPin DEF madeHandle
<1>4. CASE throw /\ handles' = handles
  <2>1. pin'.phase = "throwing"
    BY <1>4, PinTypes DEF throw, PinFrame
  <2>. QED BY <1>1, <1>4, <2>1, PinThrown
<1>5. CASE pin' = pin /\ handles' = handles
  <2>1. PinCall'
    BY Zenon, <1>1, <1>5, CallsSplit DEF IInv, PinCall
  <2>. QED BY <1>5, <2>1, PinTypes
<1>. QED BY <1>2, <1>3, <1>4, <1>5

\* What a step of the release of the handles does.
LEMMA UnwindFrame ==
    ASSUME IInv, unwind
    PROVE  /\ pin' \in PinFrame /\ PinCall'
           /\ \/ pin.done = <<>> /\ pin' = NoPin /\ handles' = handles
              \/ /\ pin.done # <<>> /\ pin'.done = Tail(pin.done)
                 /\ pin'.phase = "throwing"
                 /\ handles' = [handles EXCEPT ![Head(pin.done)] = @ - 1]
<1>. pin \in PinFrame /\ pin.done \in Seq(Block)
    BY PinTypes
<1>0. PinCall /\ live' = live /\ pin.phase = "throwing"
    BY CallsSplit DEF IInv, unwind
<1>1. CASE pin.done = <<>>
    BY <1>1, NoPinCall DEF unwind
<1>2. CASE pin.done # <<>>
  <2>1. /\ pin' = [pin EXCEPT !.done = Tail(pin.done)]
        /\ handles' = [handles EXCEPT ![Head(pin.done)] = @ - 1]
    BY <1>2 DEF unwind, unpin
  <2>2. /\ Tail(pin.done) \in Seq(Block)
        /\ \A i \in DOMAIN Tail(pin.done) :
                i + 1 \in DOMAIN pin.done /\ Tail(pin.done)[i] = pin.done[i + 1]
    BY <1>2, TailFacts
  <2>3. /\ pin' \in PinFrame /\ pin'.done = Tail(pin.done)
        /\ pin'.phase = "throwing" /\ pin'.todo = pin.todo
        /\ pin'.blocks = pin.blocks
    BY Zenon, <1>0, <2>1, <2>2 DEF PinFrame
  <2>4. \A i \in DOMAIN Tail(pin.done) : Tail(pin.done)[i] \in live
    BY <1>0, <2>2 DEF PinCall
  <2>5. PinCall'
    BY <1>0, <2>3, <2>4 DEF PinCall
  <2>. QED BY <1>2, <2>1, <2>3, <2>5
<1>. QED BY <1>1, <1>2

-----------------------------------------------------------------------------
(***************************************************************************)
(* Types.                                                                  *)
(***************************************************************************)

\* What is not a frame.
Plain ==
    /\ memory \in [Block -> BlockMemory]
    /\ live \subseteq Block
    /\ nextBlockId \in 1 .. NumBlocks + 1
    /\ queue \in Seq(Entry)
    /\ stats \in [Counter -> Nat]
    /\ content \in [Block -> Nat]
    /\ handles \in [Block -> Nat]
    /\ lost \subseteq Block

\* A step that changes the record of one block.
LEMMA PlainStep ==
    ASSUME IInv, NEW c \in Block, NEW m \in BlockMemory,
           memory' = [memory EXCEPT ![c] = m], stats' \in [Counter -> Nat],
           queue' \in Seq(Entry), handles' \in [Block -> Nat],
           UNCHANGED <<live, nextBlockId, content, lost>>
    PROVE  Plain'
BY Zenon DEF IInv, TypeOK, Plain

\* The end of a handle.
LEMMA UnpinTypes ==
    ASSUME IInv, NEW c \in Block, handles[c] > 0, unpin(c),
           UNCHANGED <<live, nextBlockId, content, lost>>
    PROVE  Plain'
<1>1. /\ memory[c] \in BlockMemory /\ memory[c].pinCount = handles[c]
      /\ stats \in [Counter -> Nat] /\ queue \in Seq(Entry)
      /\ handles \in [Block -> Nat] /\ memory \in [Block -> BlockMemory]
    BY BlockFacts DEF SoundOf, IInv, TypeOK
<1>2. Unpin(memory[c]) \in BlockMemory
    BY <1>1, RecordTypes
<1>3. /\ memory' = [memory EXCEPT ![c] = Unpin(memory[c])]
      /\ memory'[c] = Unpin(memory[c])
      /\ handles' = [handles EXCEPT ![c] = handles[c] - 1]
    BY <1>1 DEF unpin
<1>4. handles' \in [Block -> Nat]
    BY <1>1, <1>3
<1>5. stats' \in [Counter -> Nat]
  <2>1. Move(stats, "pinnedResidentBytes", "unpinnedResidentBytes", c)
            \in [Counter -> Nat]
    BY <1>1, StatsMove DEF Counter
  <2>. QED BY <1>1, <2>1 DEF unpin
<1>6. queue' \in Seq(Entry)
  <2>1. [block |-> c, sequence |-> memory'[c].evictionSequence] \in Entry
    BY <1>2, <1>3 DEF Entry, BlockMemory
  <2>2. \/ queue' = queue
        \/ queue' = Append(queue, [block |-> c,
                                   sequence |-> memory'[c].evictionSequence])
    BY DEF unpin
  <2>3. \A e \in Entry : Append(queue, e) \in Seq(Entry)
    BY <1>1
  <2>. QED BY Zenon, <1>1, <2>1, <2>2, <2>3
<1>. QED BY Zenon, <1>2, <1>3, <1>4, <1>5, <1>6, PlainStep

\* The calls of the user.
LEMMA CallTypes ==
    ASSUME IInv, \/ Allocate
                 \/ \E b \in Block : store(b) \/ MarkDirty(b) \/ reset(b)
                                     \/ destroy(b) \/ DiscardClean(b)
    PROVE  Plain'
<1>. /\ memory \in [Block -> BlockMemory] /\ stats \in [Counter -> Nat]
     /\ content \in [Block -> Nat] /\ handles \in [Block -> Nat]
     /\ queue \in Seq(Entry) /\ live \subseteq Block /\ lost \subseteq Block
     /\ nextBlockId \in 1 .. NumBlocks + 1
    BY DEF IInv, TypeOK
<1>1. CASE Allocate
  <2>0. PICK c \in Block : c = nextBlockId
    BY <1>1 DEF Allocate
  <2>1. /\ memory' = [memory EXCEPT ![c] = NewBlock]
        /\ content' = [content EXCEPT ![c] = 1]
        /\ handles' = [handles EXCEPT ![c] = 1]
        /\ stats' = Increase(stats, "pinnedResidentBytes", c)
        /\ live' = live \cup {c} /\ lost' = lost /\ queue' = queue
        /\ nextBlockId' = c + 1
    BY <1>1, <2>0 DEF Allocate, NewBlock
  <2>2. stats' \in [Counter -> Nat]
    BY <2>1, StatsMove DEF Counter
  <2>3. nextBlockId' \in 1 .. NumBlocks + 1
    BY <2>1, BlockAssumption DEF Block
  <2>4. /\ memory' \in [Block -> BlockMemory] /\ content' \in [Block -> Nat]
        /\ handles' \in [Block -> Nat]
    BY <2>1, BlankType
  <2>5. live' \subseteq Block /\ lost' \subseteq Block
    BY <2>1
  <2>. QED BY <2>1, <2>2, <2>3, <2>4, <2>5 DEF Plain
<1>2. ASSUME NEW c \in Block, store(c) PROVE Plain'
  <2>. DEFINE m == [memory[c] EXCEPT !.payload = content[c] + 1]
  <2>0. content[c] + 1 \in Nat /\ memory[c] \in BlockMemory
    OBVIOUS
  <2>1. m \in BlockMemory
    BY Zenon, <2>0 DEF BlockMemory
  <2>2. /\ memory' = [memory EXCEPT ![c] = m]
        /\ content' = [content EXCEPT ![c] = content[c] + 1]
        /\ UNCHANGED <<live, nextBlockId, queue, stats, handles, lost>>
    BY <1>2 DEF store
  <2>. HIDE DEF m
  <2>. QED BY <2>0, <2>1, <2>2 DEF Plain
<1>3. ASSUME NEW c \in Block, MarkDirty(c) PROVE Plain'
  <2>. DEFINE m == [memory[c] EXCEPT !.dirty = TRUE]
  <2>1. m \in BlockMemory
    BY Zenon DEF BlockMemory
  <2>2. /\ memory' = [memory EXCEPT ![c] = m]
        /\ UNCHANGED <<live, nextBlockId, queue, stats, content, handles, lost>>
    BY <1>3 DEF MarkDirty, ghosts
  <2>. HIDE DEF m
  <2>. QED BY Zenon, <2>1, <2>2, PlainStep
<1>4. ASSUME NEW c \in Block, reset(c) PROVE Plain'
    BY <1>4, UnpinTypes DEF reset
<1>5. ASSUME NEW c \in Block, destroy(c) PROVE Plain'
  <2>1. /\ memory' = [memory EXCEPT ![c] = Blank]
        /\ content' = [content EXCEPT ![c] = 0]
        /\ stats' = OnBlockMemoryDestroy(stats, c)
        /\ live' = live \ {c} /\ lost' = lost \ {c}
        /\ UNCHANGED <<nextBlockId, queue, handles>>
    BY <1>5 DEF destroy, Missing
  <2>2. stats' \in [Counter -> Nat]
    <3>. memory[c].state \in State
        BY DEF BlockMemory
    <3>1. \A k \in Counter : SubtractOrSaturate(stats, k, c) \in [Counter -> Nat]
        BY StatsMove
    <3>2. SubtractOrSaturate(SubtractOrSaturate(stats, "spilledBytes", c),
                             "prefetchingBytes", c) \in [Counter -> Nat]
        BY <3>1, StatsMove DEF Counter
    <3>. QED BY Zenon, <2>1, <3>1, <3>2 DEF OnBlockMemoryDestroy, Counter, State
  <2>. QED BY <2>1, <2>2, BlankType DEF Plain
<1>6. ASSUME NEW c \in Block, DiscardClean(c) PROVE Plain'
  <2>1. /\ memory' = [memory EXCEPT ![c] = DiscardResidentWithBacking(memory[c])]
        /\ stats' = Move(stats, "unpinnedResidentBytes", "spilledBytes", c)
        /\ UNCHANGED <<live, nextBlockId, queue, content, handles, lost>>
    BY <1>6 DEF DiscardClean, ghosts, OnCleanResidentDiscarded
  <2>2. stats' \in [Counter -> Nat]
    BY <2>1, StatsMove DEF Counter
  <2>3. DiscardResidentWithBacking(memory[c]) \in BlockMemory
    BY RecordTypes
  <2>. QED BY Zenon, <2>1, <2>2, <2>3, PlainStep
<1>. QED BY <1>1, <1>2, <1>3, <1>4, <1>5, <1>6

\* The steps of Prefetch, Pin and BatchPin.
LEMMA PinningTypes ==
    ASSUME IInv, CountingFacts, visit \/ pinNext \/ unwind
    PROVE  Plain'
<1>. /\ memory \in [Block -> BlockMemory] /\ stats \in [Counter -> Nat]
     /\ content \in [Block -> Nat] /\ handles \in [Block -> Nat]
     /\ queue \in Seq(Entry)
    BY DEF IInv, TypeOK
<1>1. ASSUME NEW c \in Block PROVE
        /\ Increase(stats, "prefetchingBytes", c) \in [Counter -> Nat]
        /\ OnResidentPinned(stats, c) \in [Counter -> Nat]
        /\ OnReadFutureConsumed(stats, c) \in [Counter -> Nat]
        /\ OnReadCompleted(OnReadFutureConsumed(stats, c), c) \in [Counter -> Nat]
  <2>1. OnReadFutureConsumed(stats, c) \in [Counter -> Nat]
    BY StatsMove DEF OnReadFutureConsumed, Counter
  <2>2. OnReadCompleted(OnReadFutureConsumed(stats, c), c) \in [Counter -> Nat]
    BY <2>1, StatsMove DEF OnReadCompleted, Counter
  <2>. QED BY <2>1, <2>2, StatsMove DEF OnResidentPinned, Counter
<1>2. CASE visit
  <2>1. PICK c \in Block : c = Head(pin.todo)
    BY <1>2, NextToPin DEF visit
  <2>2. UNCHANGED <<live, nextBlockId, queue, content, handles, lost>>
    BY <1>2 DEF visit, ghosts
  <2>3. PICK m \in BlockMemory : /\ memory' = [memory EXCEPT ![c] = m]
                                 /\ stats' \in [Counter -> Nat]
    <3>1. CASE memory[c].state = "kSpilled"
        BY <1>1, <1>2, <2>1, <3>1, RecordTypes DEF visit
    <3>2. CASE memory[c].state # "kSpilled"
        BY <1>2, <2>1, <3>2 DEF visit
    <3>. QED BY <3>1, <3>2
  <2>. QED BY Zenon, <2>2, <2>3, PlainStep
<1>3. CASE pinNext
  <2>1. PICK c \in Block : c = Head(pin.todo)
    BY <1>3, NextToPin DEF pinNext
  <2>2. UNCHANGED <<live, nextBlockId, queue, content, lost>>
    BY <1>3 DEF pinNext
  <2>3. handles' \in [Block -> Nat]
    BY <1>3, <2>1, PinNextFrame
  <2>4. PICK m \in BlockMemory : /\ memory' = [memory EXCEPT ![c] = m]
                                 /\ stats' \in [Counter -> Nat]
    <3>0. PinInMemory(c) \/ PinSpilled(c) \/ PinPrefetching(c) \/ PinThrows(c)
        BY <1>3, <2>1 DEF pinNext
    <3>1. CASE PinInMemory(c)
        BY Zenon, <1>1, <3>1, RecordTypes DEF PinInMemory
    <3>2. CASE PinSpilled(c)
        BY Zenon, <1>1, <3>2, RecordTypes DEF PinSpilled
    <3>3. CASE PinPrefetching(c)
        BY <1>1, <3>3, RecordTypes DEF PinPrefetching
    <3>4. CASE PinThrows(c)
      <4>. DEFINE m == [memory[c] EXCEPT !.prefetchFuture =
                    IF memory[c].state = "kPrefetching" THEN "consumed" ELSE @]
      <4>1. m \in BlockMemory
        BY Zenon DEF BlockMemory
      <4>2. memory' = [memory EXCEPT ![c] = m] /\ stats' = stats
        BY <3>4 DEF PinThrows
      <4>. QED BY Zenon, <4>1, <4>2
    <3>. QED BY <3>0, <3>1, <3>2, <3>3, <3>4
  <2>. QED BY Zenon, <2>2, <2>3, <2>4, PlainStep
<1>4. CASE unwind
  <2>1. UNCHANGED <<live, nextBlockId, content, lost>>
    BY <1>4 DEF unwind
  <2>2. CASE pin.done = <<>>
    BY <1>4, <2>1, <2>2 DEF unwind, Plain, IInv, TypeOK
  <2>3. CASE pin.done # <<>>
    <3>1. PICK c \in Block : c = Head(pin.done)
        BY <2>3, NextToPin
    <3>2. handles[c] > 0 /\ unpin(c)
        BY <1>4, <2>3, <3>1, DoneIsHeld DEF unwind
    <3>. QED BY <2>1, <3>2, UnpinTypes
  <2>. QED BY <2>2, <2>3
<1>. QED BY <1>2, <1>3, <1>4

\* The steps of SpillWriteDriver::Spill.
LEMMA SpillingTypes ==
    ASSUME IInv, skip \/ discard \/ submit \/ HarvestNext \/ harvestFails
    PROVE  Plain'
<1>. /\ memory \in [Block -> BlockMemory] /\ stats \in [Counter -> Nat]
     /\ content \in [Block -> Nat] /\ handles \in [Block -> Nat]
     /\ queue \in Seq(Entry)
    BY DEF IInv, TypeOK
<1>1. ~exhausted => popped \in Seq(Entry)
    BY TailFacts DEF exhausted, popped
<1>2. inFlight \subseteq Block
    BY WriteTypes DEF inFlight
<1>3. ASSUME NEW c \in Block PROVE
        /\ OnSpillStarted(stats, c) \in [Counter -> Nat]
        /\ OnSpillCompleted(stats, c) \in [Counter -> Nat]
        /\ OnCleanResidentDiscarded(stats, c) \in [Counter -> Nat]
    BY StatsMove
       DEF OnSpillStarted, OnSpillCompleted, OnCleanResidentDiscarded, Counter
<1>4. CASE skip \/ harvestFails
    BY <1>1, <1>2, <1>4 DEF skip, harvestFails, ghosts, Plain, IInv, TypeOK
<1>5. CASE discard
  <2>1. PICK c \in Block : c = nextBlock
    BY <1>5, Candidate DEF discard
  <2>2. /\ memory' = [memory EXCEPT ![c] = DiscardResidentWithBacking(memory[c])]
        /\ stats' \in [Counter -> Nat] /\ queue' \in Seq(Entry)
        /\ UNCHANGED <<live, nextBlockId, content, handles, lost>>
    BY <1>1, <1>3, <1>5, <2>1 DEF discard, ghosts
  <2>3. DiscardResidentWithBacking(memory[c]) \in BlockMemory
    BY RecordTypes
  <2>. QED BY Zenon, <2>2, <2>3, PlainStep
<1>6. CASE submit
  <2>1. PICK c \in Block : c = nextBlock
    BY <1>6, Candidate DEF submit
  <2>2. /\ memory' = [memory EXCEPT ![c] = BeginSpill(memory[c])]
        /\ stats' \in [Counter -> Nat] /\ queue' \in Seq(Entry)
        /\ UNCHANGED <<live, nextBlockId, content, handles>>
    BY <1>1, <1>3, <1>6, <2>1 DEF submit
  <2>3. BeginSpill(memory[c]) \in BlockMemory
    BY RecordTypes
  <2>4. lost' \subseteq Block
    BY <1>2, <1>6, <2>1 DEF submit, IInv, TypeOK
  <2>. QED BY <2>2, <2>3, <2>4 DEF Plain, IInv, TypeOK
<1>7. CASE HarvestNext
  <2>1. spill.pending # <<>>
    BY <1>7 DEF HarvestNext
  <2>2. /\ 1 \in DOMAIN spill.pending /\ Head(spill.pending) = spill.pending[1]
    BY <2>1, WriteTypes, TailFacts
  <2>3. PICK c \in Block, d \in Nat : /\ c = Head(spill.pending).block
                                      /\ d = Head(spill.pending).data
    BY <2>2, WriteTypes
  <2>4. /\ memory' = [memory EXCEPT ![c] = CompleteSpill(memory[c], d)]
        /\ stats' \in [Counter -> Nat]
        /\ UNCHANGED <<queue, live, nextBlockId, content, handles, lost>>
    BY <1>3, <1>7, <2>3 DEF HarvestNext, ghosts
  <2>5. CompleteSpill(memory[c], d) \in BlockMemory
    BY Zenon, RecordTypes
  <2>. QED BY Zenon, <2>4, <2>5, PlainStep
<1>. QED BY <1>4, <1>5, <1>6, <1>7

-----------------------------------------------------------------------------
(***************************************************************************)
(* The steps, put together.                                                *)
(***************************************************************************)

\* The actions by the frames they change.
userCall ==
    \/ Allocate
    \/ \E b \in Block : store(b) \/ MarkDirty(b) \/ reset(b) \/ destroy(b)
                        \/ DiscardClean(b)
pinStart ==
    \/ \E b \in live : Pin(b)
    \/ \E bs \in Lists : Prefetch(bs) \/ BatchPin(bs)
pinStep == visit \/ submitReadFails \/ pinNext \/ unwind
spillStart ==
    \/ \E bs \in Lists : SpillBlocks(bs)
    \/ \E targetBytes \in Targets : Reclaim(targetBytes)
spillStep ==
    noCandidate \/ skip \/ discard \/ submit \/ HarvestNext \/ harvestFails \/ spilled

\* Every step is of one of these groups.
LEMMA NextSplit ==
    ASSUME [Next]_vars
    PROVE  userCall \/ pinStart \/ pinStep \/ spillStart \/ spillStep
           \/ UNCHANGED vars
BY DEF Next, userCall, pinStart, pinStep, spillStart, spillStep

\* What each group leaves alone.
LEMMA GroupFrames ==
    /\ userCall => UNCHANGED <<pin, spill>> /\ idle
    /\ pinStart \/ pinStep => UNCHANGED <<live, nextBlockId, spill>>
    /\ spillStart \/ spillStep => UNCHANGED <<live, nextBlockId, pin, handles>>
<1>1. userCall => UNCHANGED <<pin, spill>> /\ idle
    BY DEF userCall, Allocate, store, MarkDirty, reset, destroy, DiscardClean
<1>2. pinStart => UNCHANGED <<live, nextBlockId, spill>>
    BY Zenon DEF pinStart, Pin, Prefetch, BatchPin
<1>3. pinStep => UNCHANGED <<live, nextBlockId, spill>>
    BY DEF pinStep, visit, submitReadFails, pinNext, unwind
<1>4. spillStart => UNCHANGED <<live, nextBlockId, pin, handles>>
    BY Zenon DEF spillStart, SpillBlocks, Reclaim, ghosts
<1>5. spillStep => UNCHANGED <<live, nextBlockId, pin, handles>>
    BY DEF spillStep, noCandidate, skip, discard, submit, HarvestNext,
           harvestFails, spilled, ghosts
<1>. QED BY <1>1, <1>2, <1>3, <1>4, <1>5

\* Between two calls both frames are empty.
LEMMA IdleFrames ==
    ASSUME IInv, idle
    PROVE  pin = NoPin /\ spill = NoSpill
BY DEF IInv, Calls, idle

\* The calls under way stay well-formed.
LEMMA FrameStep ==
    ASSUME IInv, [Next]_vars
    PROVE  pin' \in PinFrame /\ spill' \in SpillFrame /\ Calls'
<1>0. /\ pin \in PinFrame /\ spill \in SpillFrame /\ PinCall /\ SpillCall
    BY CallsSplit DEF IInv, TypeOK
<1>1. CASE userCall
    BY Zenon, <1>1, GroupFrames, IdleFrames, NoPinCall, NoSpillCall, CallsSplit
       DEF Calls, PinCall, SpillCall
<1>2. CASE pinStart \/ pinStep
  <2>1. spill' = spill /\ live' = live
    BY <1>2, GroupFrames
  <2>2. pin' \in PinFrame /\ PinCall'
    <3>1. CASE pinStart
        BY <3>1, PinStartFrame DEF pinStart
    <3>2. CASE visit
        BY <2>1, <3>2, RestOfVisit DEF visit
    <3>3. CASE submitReadFails
        BY <2>1, <3>3, PinThrown DEF submitReadFails
    <3>4. CASE pinNext \/ unwind
        BY <3>4, PinNextFrame, UnwindFrame
    <3>. QED BY <1>2, <3>1, <3>2, <3>3, <3>4 DEF pinStep
  <2>3. SpillCall'
    BY <1>0, <2>1 DEF SpillCall
  <2>. QED BY Zenon, <1>0, <2>1, <2>2, <2>3 DEF Calls, PinCall, SpillCall
<1>3. CASE spillStart \/ spillStep
  <2>1. pin' = pin /\ live' = live
    BY <1>3, GroupFrames
  <2>2. spill' \in SpillFrame /\ SpillCall'
    BY <1>3, ReclaimFrame, SpillStep DEF spillStart, spillStep
  <2>3. PinCall'
    BY Zenon, <1>0, <2>1 DEF PinCall
  <2>. QED BY Zenon, <1>0, <2>1, <2>2, <2>3 DEF Calls, PinCall, SpillCall
<1>4. CASE UNCHANGED vars
    BY Zenon, <1>0, <1>4 DEF vars, Calls, PinCall, SpillCall
<1>. QED BY <1>1, <1>2, <1>3, <1>4, NextSplit

\* Types are preserved.
LEMMA TypeStep ==
    ASSUME IInv, CountingFacts, [Next]_vars
    PROVE  TypeOK'
<1>1. Plain'
  <2>1. CASE userCall
    BY <2>1, CallTypes DEF userCall
  <2>2. CASE visit \/ pinNext \/ unwind
    BY <2>2, PinningTypes
  <2>3. CASE skip \/ discard \/ submit \/ HarvestNext \/ harvestFails
    BY <2>3, SpillingTypes
  <2>4. CASE UNCHANGED vars \/ (bookkeeping /\ ~skip)
    <3>1. UNCHANGED <<memory, live, nextBlockId, queue, stats, content, handles, lost>>
        BY Zenon, <2>4, BookkeepingFrame
           DEF vars, bookkeeping, Pin, Prefetch, BatchPin, SpillBlocks,
               submitReadFails, Reclaim, noCandidate, spilled
    <3>. QED BY <3>1 DEF Plain, IInv, TypeOK
  <2>. QED BY <2>1, <2>2, <2>3, <2>4, NextSplit
           DEF pinStart, pinStep, spillStart, spillStep, bookkeeping
<1>. QED BY <1>1, FrameStep DEF Plain, TypeOK

\* Block ids are not used again.
LEMMA FreshStep ==
    ASSUME IInv, [Next]_vars
    PROVE  Fresh'
<1>. live \subseteq Block /\ nextBlockId \in Int /\ \A b \in Block : b \in Int
    BY BlockAssumption DEF IInv, TypeOK, Block
<1>1. CASE Allocate
  <2>1. live' = live \cup {nextBlockId} /\ nextBlockId' = nextBlockId + 1
    BY <1>1 DEF Allocate
  <2>2. \A b \in live : b < nextBlockId /\ b \in Int
    BY DEF IInv, Fresh
  <2>. QED BY <2>1, <2>2 DEF Fresh
<1>2. CASE ~Allocate
  <2>1. live' \subseteq live /\ nextBlockId' = nextBlockId
    <3>1. userCall => live' \subseteq live /\ nextBlockId' = nextBlockId
        BY <1>2 DEF userCall, store, MarkDirty, reset, destroy, DiscardClean
    <3>. QED BY <3>1, NextSplit, GroupFrames DEF vars
  <2>. QED BY <2>1 DEF IInv, Fresh
<1>. QED BY <1>1, <1>2

\* Handles are made and released one by one with the list of those made.
LEMMA CountedStep ==
    ASSUME IInv, CountingFacts, [Next]_vars
    PROVE  Counted'
<1>0. /\ handles \in [Block -> Nat] /\ handles' \in [Block -> Nat]
      /\ pin.done \in Seq(Block)
      /\ \A b \in Block : times(pin.done, b) <= handles[b]
    BY TypeStep, PinTypes DEF IInv, Counted, TypeOK
<1>1. ASSUME pin'.done = <<>> PROVE Counted'
  <2>1. ASSUME NEW b \in Block PROVE times(pin'.done, b) <= handles'[b]
    <3>1. times(pin'.done, b) = 0 /\ handles'[b] \in Nat
        BY <1>0, <1>1 DEF CountingFacts
    <3>. QED BY <3>1
  <2>. QED BY <2>1 DEF Counted
<1>2. ASSUME pin'.done = pin.done, handles' = handles PROVE Counted'
    BY <1>0, <1>2 DEF Counted
<1>3. CASE userCall
    BY <1>1, <1>3, GroupFrames, IdleFrames DEF NoPin
<1>4. CASE pinStart
    BY <1>1, <1>4, PinStartFrame DEF pinStart
<1>5. CASE visit
    BY <1>1, <1>5, RestOfVisit DEF visit
<1>6. CASE submitReadFails
    BY <1>2, <1>6, PinThrown DEF submitReadFails, ghosts
<1>7. CASE pinNext
  <2>1. PICK c \in Block : c = Head(pin.todo)
    BY <1>7, NextToPin DEF pinNext
  <2>2. CASE handles' = handles /\ pin'.done = pin.done
    BY <1>2, <2>2
  <2>3. CASE pin' = NoPin
    BY <1>1, <2>3 DEF NoPin
  <2>4. CASE /\ handles' = [handles EXCEPT ![c] = @ + 1]
             /\ pin'.done = Append(pin.done, c)
    <3>1. ASSUME NEW b \in Block PROVE times(pin'.done, b) <= handles'[b]
      <4>1. times(pin'.done, b) =
                IF c = b THEN times(pin.done, b) + 1 ELSE times(pin.done, b)
        BY <1>0, <2>4 DEF CountingFacts
      <4>2. /\ times(pin.done, b) \in Nat /\ handles[b] \in Nat
            /\ times(pin.done, b) <= handles[b]
        BY <1>0 DEF CountingFacts
      <4>3. handles'[b] = IF c = b THEN handles[b] + 1 ELSE handles[b]
        BY <1>0, <2>4
      <4>. QED BY <4>1, <4>2, <4>3
    <3>. QED BY <3>1 DEF Counted
  <2>. QED BY <1>7, <2>1, <2>2, <2>3, <2>4, PinNextFrame
<1>8. CASE unwind
  <2>1. CASE pin' = NoPin
    BY <1>1, <2>1 DEF NoPin
  <2>2. CASE /\ pin.done # <<>> /\ pin'.done = Tail(pin.done)
             /\ handles' = [handles EXCEPT ![Head(pin.done)] = @ - 1]
    <3>1. PICK c \in Block : c = Head(pin.done)
        BY <2>2, NextToPin
    <3>2. ASSUME NEW b \in Block PROVE times(pin'.done, b) <= handles'[b]
      <4>1. Tail(pin.done) \in Seq(Block)
        BY <1>0, <2>2, TailFacts
      <4>2. times(pin.done, b) =
                IF c = b THEN times(pin'.done, b) + 1 ELSE times(pin'.done, b)
        BY <1>0, <2>2, <3>1 DEF CountingFacts
      <4>3. /\ times(pin'.done, b) \in Nat /\ handles[b] \in Nat
            /\ times(pin.done, b) <= handles[b]
        BY Zenon, <1>0, <2>2, <4>1 DEF CountingFacts
      <4>4. handles'[b] = IF c = b THEN handles[b] - 1 ELSE handles[b]
        BY <1>0, <2>2, <3>1
      <4>. QED BY <4>2, <4>3, <4>4
    <3>. QED BY <3>2 DEF Counted
  <2>. QED BY <1>8, <2>1, <2>2, UnwindFrame
<1>9. CASE spillStart \/ spillStep \/ UNCHANGED vars
  <2>1. pin' = pin /\ handles' = handles
    BY <1>9, GroupFrames DEF vars
  <2>. QED BY <1>2, <2>1
<1>. QED BY <1>3, <1>4, <1>5, <1>6, <1>7, <1>8, <1>9, NextSplit DEF pinStep

\* The invariant is inductive.
LEMMA InvStep ==
    ASSUME IInv, CountingFacts, [Next]_vars
    PROVE  IInv'
BY TypeStep, BytesStep, FrameStep, CountedStep, FreshStep, EvictableStep DEF IInv

\* It holds before the first call.
LEMMA InvInit ==
    ASSUME Init, CountingFacts
    PROVE  IInv
<1>1. /\ <<>> \in Seq(Block) /\ <<>> \in Seq(PendingWrite) /\ <<>> \in Seq(Entry)
    OBVIOUS
<1>2. pin \in PinFrame /\ spill \in SpillFrame
    BY <1>1 DEF Init, NoPin, NoSpill, PinFrame, SpillFrame
<1>3. TypeOK
    BY <1>1, <1>2, BlankType, BlockAssumption DEF Init, TypeOK, Missing, Counter
<1>4. Sound
    BY BlankType DEF Init, Sound, SoundOf, Missing
<1>5. Window /\ Fresh /\ EvictableIsQueued
    BY DEF Init, Window, Fresh, EvictableIsQueued, NoSpill
<1>6. Calls
    BY DEF Init, Calls, NoPin, NoSpill
<1>7. Counted
    BY DEF Init, Counted, NoPin, CountingFacts
<1>. QED BY <1>3, <1>4, <1>5, <1>6, <1>7 DEF IInv
=============================================================================
