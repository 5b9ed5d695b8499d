----------------------------- MODULE MCExchange -----------------------------
(* The scenarios for the runs of Exchange.                                 *)
EXTENDS Exchange

CONSTANTS d1, d2

\* Two drivers compete for the pages; one upstream task is empty.
Competing ==
    [drivers |-> {d1, d2}, output |-> [t1 |-> <<1, 1>>, t2 |-> <<>>], copies |-> [t1 |-> 1, t2 |-> 1],
     failures |-> FALSE, cancels |-> FALSE, earlyEnd |-> FALSE]

\* A driver gives up or a request fails.
Failing ==
    [drivers |-> {d1, d2}, output |-> [t1 |-> <<1, 1>>, t2 |-> <<>>], copies |-> [t1 |-> 1, t2 |-> 0],
     failures |-> TRUE, cancels |-> FALSE, earlyEnd |-> TRUE]

\* Pages that together exceed the queue, and a split that
\* is added twice.
Filling ==
    [drivers |-> {d1}, output |-> [t1 |-> <<2, 2>>, t2 |-> <<2>>], copies |-> [t1 |-> 1, t2 |-> 2],
     failures |-> FALSE, cancels |-> FALSE, earlyEnd |-> FALSE]

\* The task is cancelled while splits arrive, and the creation of sources and
\* requests may fail.
Cancelled ==
    [drivers |-> {d1}, output |-> [t1 |-> <<1>>, t2 |-> <<>>], copies |-> [t1 |-> 1, t2 |-> 1],
     failures |-> TRUE, cancels |-> TRUE, earlyEnd |-> FALSE]

Exchanges == {Competing, Failing, Filling, Cancelled}
=============================================================================
