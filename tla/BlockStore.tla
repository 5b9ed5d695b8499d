----------------------------- MODULE BlockStore -----------------------------
(***************************************************************************)
(* What the buffer manager promises its user (BufferManager.h, Usage.md):  *)
(* blocks with contents and pins, and no trace of memory, spill files,     *)
(* reads, writes or eviction.                                              *)
(*                                                                         *)
(* The contents of a block change only by what its user stores while it    *)
(* has it pinned.  A call that pins a list of blocks gives a pin for each  *)
(* of them, or fails and gives none.  The contents of a block can be lost, *)
(* when writing them fails, but only while no pin is held; then the block  *)
(* cannot be pinned any more.                                              *)
(***************************************************************************)
EXTENDS Integers, Sequences, FiniteSets

CONSTANTS
    NumBlocks,
    Data            \* what a block may contain

Block == 1 .. NumBlocks

VARIABLES
    live,           \* the blocks that exist
    nextBlockId,
    content,        \* their contents; Missing if they are lost
    pins,           \* the number of pins the user holds
    request         \* the blocks of a call to Pin or BatchPin under way

vars == <<live, nextBlockId, content, pins, request>>

Missing == 0
NoRequest == <<>>

\* How often 'b' is one of 'bs'
count(bs, b) == Cardinality({i \in DOMAIN bs : bs[i] = b})

Init ==
    /\ live = {}
    /\ nextBlockId = 1
    /\ content = [b \in Block |-> Missing]
    /\ pins = [b \in Block |-> 0]
    /\ request = NoRequest

Allocate ==
    /\ request = NoRequest
    /\ nextBlockId \in Block
    /\ live' = live \cup {nextBlockId}
    /\ nextBlockId' = nextBlockId + 1
    /\ \E v \in Data \ {Missing} : content' = [content EXCEPT ![nextBlockId] = v]
    /\ pins' = [pins EXCEPT ![nextBlockId] = 1]
    /\ UNCHANGED request

\* The user changes a block it has pinned.
Store(b) ==
    /\ request = NoRequest
    /\ pins[b] > 0
    /\ \E v \in Data \ {Missing} : content' = [content EXCEPT ![b] = v]
    /\ UNCHANGED <<live, nextBlockId, pins, request>>

Unpin(b) ==
    /\ request = NoRequest
    /\ pins[b] > 0
    /\ pins' = [pins EXCEPT ![b] = @ - 1]
    /\ UNCHANGED <<live, nextBlockId, content, request>>

Destroy(b) ==
    /\ request = NoRequest
    /\ b \in live /\ pins[b] = 0
    /\ live' = live \ {b}
    /\ content' = [content EXCEPT ![b] = Missing]
    /\ UNCHANGED <<nextBlockId, pins, request>>

Pin ==
    /\ request = NoRequest
    /\ request' \in Seq(live) \ {<<>>}
    /\ UNCHANGED <<live, nextBlockId, content, pins>>

Pinned ==
    /\ request # NoRequest
    /\ \A i \in DOMAIN request : content[request[i]] # Missing
    /\ pins' = [b \in Block |-> pins[b] + count(request, b)]
    /\ request' = NoRequest
    /\ UNCHANGED <<live, nextBlockId, content>>

PinFailed ==
    /\ request # NoRequest
    /\ request' = NoRequest
    /\ UNCHANGED <<live, nextBlockId, content, pins>>

\* At any time, also while a call is under way
Lose(bs) ==
    /\ \A b \in bs : b \in live /\ pins[b] = 0
    /\ content' = [b \in Block |-> IF b \in bs THEN Missing ELSE content[b]]
    /\ UNCHANGED <<live, nextBlockId, pins, request>>

Next ==
    \/ Allocate
    \/ \E b \in Block : Store(b) \/ Unpin(b) \/ Destroy(b)
    \/ Pin \/ Pinned \/ PinFailed
    \/ \E bs \in SUBSET Block : Lose(bs)

Spec == Init /\ [][Next]_vars
=============================================================================
