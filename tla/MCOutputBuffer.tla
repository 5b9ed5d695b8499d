--------------------------- MODULE MCOutputBuffer ---------------------------
(* The tasks of the runs of OutputBuffer.                                  *)
EXTENDS OutputBuffer

Task(output, destinations, pages) ==
    [kind |-> output, drivers |-> 1, planned |-> 1,
     initial |-> 1, destinations |-> destinations, pages |-> pages,
     early |-> {}, unreliable |-> FALSE, cancels |-> FALSE]

\* Every kind of output with two consumers and one driver, and two drivers
\* of a task that is cancelled.
Safety ==
    {[Task("kPartitioned", 2, <<6, 5>>) EXCEPT !.early = {0}],
     Task("kBroadcast", 2, <<6, 5>>),
     [Task("kArbitrary", 2, <<6, 5>>) EXCEPT !.early = {1}],
     [Task("kPartitioned", 1, <<11, 5>>) EXCEPT
        !.drivers = 2, !.planned = 3, !.early = {0}, !.cancels = TRUE]}

\* A task over a network that loses messages, which may be cancelled.
Liveness ==
    {[Task("kPartitioned", 1, <<6, 5>>) EXCEPT
        !.planned = 2, !.early = {0}, !.unreliable = TRUE, !.cancels = TRUE]}

\* A broadcast whose only consumer may leave early.
Producer == {[Task("kBroadcast", 1, <<6, 5>>) EXCEPT !.early = {0}]}

\* A broadcast to two consumers.
Broadcast == {Task("kBroadcast", 2, <<6, 5>>)}
=============================================================================
