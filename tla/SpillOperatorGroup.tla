------------------------- MODULE SpillOperatorGroup -------------------------
(***************************************************************************)
(* The group spill barrier of bolt/exec/SpillOperatorGroup.{h,cpp}, driven *)
(* by its one client, HashBuild.  Every operator of a plan node adds       *)
(* itself to the group; once one of them requests a spill, all the active  *)
(* ones stop at the barrier, the last one to arrive spills the tables of   *)
(* all of them with no lock held, and then wakes the others up.            *)
(*                                                                         *)
(* There is one variable per member guarded by 'mutex_'.  Where the driver *)
(* of an operator is, pc, is one of                                        *)
(*   "new"       the operator is not in the group yet                      *)
(*   "running"   HashBuild::kRunning                                       *)
(*   "waiting"   HashBuild::kWaitForSpill, blocked on the future of        *)
(*               waitSpillLocked                                           *)
(*   "spilling"  on thread in runSpill, before the guard resets the group  *)
(*   "waking"    on thread in the guard of runSpill, fulfilling promises   *)
(*   "failing"   the same, with an exception on its way                    *)
(*   "stopped"   operatorStopped has returned                              *)
(*   "closed"    the driver was closed, by itself or by Task::terminate    *)
(***************************************************************************)
EXTENDS Integers, FiniteSets

CONSTANTS
    Operator,       \* the operators created from the plan node
    Terminates      \* whether the task may be cancelled and a spill may throw

ASSUME OperatorAssumption == IsFiniteSet(Operator) /\ Operator # {}
ASSUME TerminatesAssumption == Terminates \in BOOLEAN

VARIABLES
    state,                  \* state_
    operators,              \* operators_
    stoppedOperators,       \* stoppedOperators_
    needSpill,              \* needSpill_
    numWaitingOperators,    \* numWaitingOperators_
    promises,               \* promises_, by the operator that has the future
    held,                   \* the local 'promises' of the operator in runSpill
    pc,                     \* where the driver of each operator is
    terminated              \* Task::terminate has run

vars == <<state, operators, stoppedOperators, needSpill, numWaitingOperators,
          promises, held, pc, terminated>>

Init ==
    /\ state = "kInit"
    /\ operators = {}
    /\ stoppedOperators = {}
    /\ needSpill = FALSE
    /\ numWaitingOperators = 0
    /\ promises = {}
    /\ held = [op \in Operator |-> {}]
    /\ pc = [op \in Operator |-> "new"]
    /\ terminated = FALSE

\* Mutant: one operator is not counted.
numActiveLess(stopped) == Cardinality(operators) - Cardinality(stopped) - 1

\* numActiveOperatorsLocked once the operators in 'stopped' have stopped.
numActive(stopped) == Cardinality(operators) - Cardinality(stopped)

numActiveOperators == numActive(stoppedOperators)

-----------------------------------------------------------------------------
(***************************************************************************)
(* Set-up.                                                                 *)
(***************************************************************************)
addOperator(op) ==
    /\ pc[op] = "new"
    /\ state = "kInit"
    /\ operators' = operators \cup {op}
    /\ pc' = [pc EXCEPT ![op] = "running"]
    /\ UNCHANGED <<state, stoppedOperators, needSpill, numWaitingOperators,
                   promises, held, terminated>>

\* Task::createDriversLocked starts the group once every operator exists.
start ==
    /\ state = "kInit"
    /\ operators = Operator
    /\ state' = "kRunning"
    /\ UNCHANGED <<operators, stoppedOperators, needSpill, numWaitingOperators,
                   promises, held, pc, terminated>>

-----------------------------------------------------------------------------
(***************************************************************************)
(* The barrier.                                                            *)
(***************************************************************************)

\* Mutant: the promises are dropped instead of moved.
leaveToSpillDrop(op) ==
    /\ promises' = {}
    /\ pc' = [pc EXCEPT ![op] = "spilling"]
    /\ UNCHANGED held

\* The promises move out of the group into the caller, who goes on to runSpill.
leaveToSpill(op) ==
    /\ held' = [held EXCEPT ![op] = promises]
    /\ promises' = {}
    /\ pc' = [pc EXCEPT ![op] = "spilling"]

\* The last to arrive runs the spill, the others get a future.
waitSpillLocked(op) ==
    /\ numWaitingOperators < numActiveOperators
    /\ numWaitingOperators' = numWaitingOperators + 1
    /\ IF numWaitingOperators' = numActiveOperators
         THEN leaveToSpill(op)
         ELSE /\ promises' = promises \cup {op}
              /\ pc' = [pc EXCEPT ![op] = "waiting"]
              /\ UNCHANGED held

requestSpill(op) ==
    /\ pc[op] = "running"
    /\ state = "kRunning"
    /\ needSpill' = TRUE
    /\ waitSpillLocked(op)
    /\ UNCHANGED <<state, operators, stoppedOperators, terminated>>

waitSpill(op) ==
    /\ pc[op] = "running"
    /\ state = "kRunning"
    /\ needSpill
    /\ waitSpillLocked(op)
    /\ UNCHANGED <<state, operators, stoppedOperators, needSpill, terminated>>

\* Whether all the operators that are still active wait for a pending spill.
spillReady(active) ==
    active > 0 /\ needSpill /\ numWaitingOperators >= active

\* HashBuild::noMoreInputInternal.  The stopping operator never waits; when all
\* the others already do, it runs the spill for them.
operatorStopped(op) ==
    LET stopped == stoppedOperators \cup {op}
        active == numActive(stopped)
    IN
    /\ pc[op] = "running"
    /\ state = "kRunning"
    /\ op \notin stoppedOperators
    /\ stoppedOperators' = stopped
    /\ state' = IF active = 0 THEN "kStopped" ELSE state
    /\ IF spillReady(active)
         THEN leaveToSpill(op)
         ELSE /\ pc' = [pc EXCEPT ![op] = "stopped"]
              /\ UNCHANGED <<promises, held>>
    /\ UNCHANGED <<operators, needSpill, numWaitingOperators, terminated>>

\* Mutants: the count is not reset; it is reduced by operators_.size().
resetGroupKeepCount == needSpill' = FALSE /\ UNCHANGED numWaitingOperators

resetGroupSubtract ==
    /\ needSpill' = FALSE
    /\ numWaitingOperators' = numWaitingOperators - Cardinality(operators)

resetGroup == needSpill' = FALSE /\ numWaitingOperators' = 0

\* ensureDrivers, the spill runner and the critical section of the guard.  The
\* spill fails when a driver has gone or the runner throws; the guard runs
\* in both cases.
runSpill(op) ==
    /\ pc[op] = "spilling"
    /\ state = "kRunning"
    /\ resetGroup
    /\ \E outcome \in IF Terminates THEN {"waking", "failing"} ELSE {"waking"} :
         pc' = [pc EXCEPT ![op] = outcome]
    /\ UNCHANGED <<state, operators, stoppedOperators, promises, held,
                   terminated>>

\* The rest of the guard: the promises are fulfilled one after the other.  The
\* driver of a fulfilled promise runs again unless it was closed meanwhile.
fulfilPromise(op) ==
    \E w \in held[op] :
        /\ pc[op] \in {"waking", "failing"}
        /\ held' = [held EXCEPT ![op] = @ \ {w}]
        /\ pc' = [pc EXCEPT ![w] = IF @ = "waiting" THEN "running" ELSE @]
        /\ UNCHANGED <<state, operators, stoppedOperators, needSpill,
                       numWaitingOperators, promises, terminated>>

\* The caller of runSpill goes on, or its driver fails and fails the task.
returnFromSpill(op) ==
    /\ pc[op] \in {"waking", "failing"}
    /\ held[op] = {}
    /\ pc' = [pc EXCEPT ![op] =
                IF @ = "failing" THEN "closed"
                ELSE IF op \in stoppedOperators THEN "stopped" ELSE "running"]
    /\ terminated' = (terminated \/ pc[op] = "failing")
    /\ UNCHANGED <<state, operators, stoppedOperators, needSpill,
                   numWaitingOperators, promises, held>>

\* HashBuild::finishHashBuild restarts the group for the next spilled partition;
\* its peers are still blocked behind the build barrier, or closed meanwhile.
restart ==
    /\ state = "kStopped"
    /\ \E op \in operators : pc[op] = "stopped"
    /\ \A op \in operators : pc[op] \in {"stopped", "closed"}
    /\ stoppedOperators' = {}
    /\ state' = "kRunning"
    /\ pc' = [op \in Operator |-> IF pc[op] = "stopped" THEN "running" ELSE pc[op]]
    /\ UNCHANGED <<operators, needSpill, numWaitingOperators, promises, held,
                   terminated>>

-----------------------------------------------------------------------------
(***************************************************************************)
(* Termination of the task.  A driver that is off its thread is closed by  *)
(* Task::terminate, one that is on its thread when it next checks.  Neither *)
(* tells the group.                                                        *)
(***************************************************************************)
terminate ==
    /\ Terminates
    /\ state # "kInit"
    /\ ~terminated
    /\ terminated' = TRUE
    /\ UNCHANGED <<state, operators, stoppedOperators, needSpill,
                   numWaitingOperators, promises, held, pc>>

close(op) ==
    /\ terminated
    /\ pc[op] \in {"running", "waiting", "stopped"}
    /\ pc' = [pc EXCEPT ![op] = "closed"]
    /\ UNCHANGED <<state, operators, stoppedOperators, needSpill,
                   numWaitingOperators, promises, held, terminated>>

-----------------------------------------------------------------------------
Next ==
    \/ start
    \/ restart
    \/ terminate
    \/ \E op \in Operator :
         \/ addOperator(op)
         \/ requestSpill(op)
         \/ waitSpill(op)
         \/ operatorStopped(op)
         \/ runSpill(op)
         \/ fulfilPromise(op)
         \/ returnFromSpill(op)
         \/ close(op)

Spec == Init /\ [][Next]_vars

-----------------------------------------------------------------------------
(***************************************************************************)
(* Properties.                                                             *)
(***************************************************************************)
State == {"kInit", "kRunning", "kStopped"}

Position == {"new", "running", "waiting", "spilling", "waking", "failing",
             "stopped", "closed"}

\* The type of every variable of the group (SpillOperatorGroup.h, members).
TypeOK ==
    /\ state \in State
    /\ operators \in SUBSET Operator
    /\ stoppedOperators \in SUBSET operators
    /\ needSpill \in BOOLEAN
    /\ numWaitingOperators \in Nat
    /\ promises \in SUBSET operators
    /\ held \in [Operator -> SUBSET Operator]
    /\ pc \in [Operator -> Position]
    /\ terminated \in BOOLEAN

\* The spill runner works on the tables of all the operators with no lock held
\* (runSpill): while it does, no other driver of the group builds or spills its
\* table; only one that has stopped may still be waking the waiters of the round
\* before.
SpillRunsAlone ==
    \A op \in operators : pc[op] = "spilling" =>
        \A other \in operators \ {op} :
            \/ pc[other] \in {"waiting", "stopped", "closed"}
            \/ other \in stoppedOperators /\ pc[other] \in {"waking", "failing"}

\* No BOLT_CHECK of the group fires on a running operator: it can always enter
\* the barrier (requestSpill, waitSpillLocked), waitSpill finds no waiter when no
\* spill is pending, and a stopped group is quiescent (checkStoppedStateLocked).
ChecksHold ==
    /\ \A op \in operators :
         pc[op] = "running" /\ state = "kRunning" =>
             /\ op \notin stoppedOperators
             /\ numWaitingOperators < numActiveOperators
             /\ ~needSpill => numWaitingOperators = 0
    /\ \A op \in operators : pc[op] = "spilling" => needSpill /\ state = "kRunning"
    /\ state = "kStopped" =>
             /\ stoppedOperators = operators
             /\ ~needSpill
             /\ numWaitingOperators = 0
             /\ promises = {}

\* An operator blocked in kWaitForSpill is known to somebody who will wake it: its
\* promise is in the group with a spill pending, or with one operator in runSpill.
NoLostWaiter ==
    \A w \in operators : pc[w] = "waiting" =>
        \/ /\ w \in promises
           /\ needSpill
           /\ \A op \in Operator : w \notin held[op]
        \/ /\ w \notin promises
           /\ \E op \in Operator \ {w} :
                /\ w \in held[op]
                /\ pc[op] \in {"spilling", "waking", "failing"}
                /\ \A other \in Operator \ {op} : w \notin held[other]

\* SpillOperatorGroup.h says that ensureDrivers keeps "all the participating
\* operators alive while running spilling": the runner never meets an operator
\* that HashBuild::close has already stripped of its table and its spiller.
SpillMeetsNoClosedOperator ==
    \A op \in operators : pc[op] = "spilling" =>
        \A w \in held[op] : pc[w] # "closed"

=============================================================================
