----------------------- MODULE SpillOperatorGroupProof -----------------------
(***************************************************************************)
(* The safety of the group spill barrier for every number of operators.    *)
(***************************************************************************)
EXTENDS SpillOperatorGroup, FiniteSetTheorems, TLAPS

Active == operators \ stoppedOperators

-----------------------------------------------------------------------------
(***************************************************************************)
(* The inductive invariant.                                                *)
(***************************************************************************)
InitState ==
    /\ \A op \in Operator : op \in operators <=> pc[op] # "new"
    /\ state = "kInit" =>
         /\ stoppedOperators = {}
         /\ promises = {}
         /\ ~terminated
         /\ \A op \in Operator : pc[op] \in {"new", "running"}
    /\ state # "kInit" => operators = Operator
    /\ state = "kRunning" => Active # {}
    /\ state = "kStopped" => Active = {}

Positions ==
    \A op \in Operator :
        /\ pc[op] \in {"running", "waiting"} => op \notin stoppedOperators
        /\ pc[op] = "stopped" => op \in stoppedOperators

\* The promises of a round are in one place: the group, or the coordinator.
Promises ==
    /\ \A w \in promises : w \in Active /\ pc[w] \in {"waiting", "closed"}
    /\ \A op \in Operator :
         /\ held[op] # {} => pc[op] \in {"spilling", "waking", "failing"}
         /\ \A w \in held[op] :
              /\ w \in Active
              /\ pc[w] \in {"waiting", "closed"}
              /\ w \notin promises
              /\ \A other \in Operator \ {op} : w \notin held[other]

Waiters ==
    \A w \in Operator : pc[w] = "waiting" =>
        w \in promises \/ \E op \in Operator : w \in held[op]

\* Between two spills the count is that of the promises.
Collecting ==
    (\A op \in Operator : pc[op] # "spilling") =>
        /\ numWaitingOperators = Cardinality(promises)
        /\ needSpill <=> promises # {}

\* The coordinator has the promises of all the other active operators.
Coordinating ==
    \A op \in Operator : pc[op] = "spilling" =>
        /\ state = "kRunning"
        /\ needSpill
        /\ promises = {}
        /\ held[op] = Active \ {op}
        /\ \A other \in Operator \ {op} : pc[other] # "spilling"

IInv ==
    /\ TypeOK
    /\ InitState
    /\ Positions
    /\ Promises
    /\ Waiters
    /\ Collecting
    /\ Coordinating

-----------------------------------------------------------------------------
(***************************************************************************)
(* Counting.                                                               *)
(***************************************************************************)

\* numActiveOperatorsLocked counts the operators that have not stopped.
LEMMA ActiveCount ==
    ASSUME TypeOK, NEW S \in SUBSET operators
    PROVE  /\ IsFiniteSet(operators \ S)
           /\ Cardinality(operators \ S) \in Nat
           /\ numActive(S) = Cardinality(operators \ S)
<1>1. IsFiniteSet(operators)
  BY OperatorAssumption, FS_Subset DEF TypeOK
<1>2. operators \cap S = S
  OBVIOUS
<1>3. /\ IsFiniteSet(operators \ S)
      /\ Cardinality(operators \ S)
           = Cardinality(operators) - Cardinality(operators \cap S)
  BY <1>1, FS_Difference
<1>4. Cardinality(operators \ S) \in Nat
  BY <1>3, FS_CardinalityType
<1>5. QED
  BY <1>2, <1>3, <1>4 DEF numActive

\* A set of promises without the operator that arrives is as large as the other
\* active operators only if it is all of them (waitSpillLocked, operatorStopped).
LEMMA LastArrival ==
    ASSUME NEW S, IsFiniteSet(S), NEW op \in S, NEW T,
           T \subseteq S, op \notin T
    PROVE  /\ IsFiniteSet(T)
           /\ Cardinality(T) \in Nat
           /\ Cardinality(S) \in Nat
           /\ Cardinality(S \ {op}) = Cardinality(S) - 1
           /\ Cardinality(T) < Cardinality(S)
           /\ Cardinality(T) >= Cardinality(S) - 1 => T = S \ {op}
<1>1. /\ IsFiniteSet(S \ {op})
      /\ Cardinality(S \ {op}) = Cardinality(S) - 1
      /\ Cardinality(S) \in Nat
  BY FS_RemoveElement, FS_CardinalityType
<1>2. /\ IsFiniteSet(T)
      /\ Cardinality(T) <= Cardinality(S \ {op})
      /\ Cardinality(S \ {op}) = Cardinality(T) => S \ {op} = T
  BY <1>1, FS_Subset
<1>3. Cardinality(T) \in Nat
  BY <1>2, FS_CardinalityType
<1>4. QED
  BY <1>1, <1>2, <1>3

-----------------------------------------------------------------------------
(***************************************************************************)
(* While an operator runs, or one is being woken, nobody spills.           *)
(***************************************************************************)

\* A running operator is active, so a coordinator would hold its promise.
LEMMA RunningExcludesSpilling ==
    ASSUME IInv, NEW op \in Operator, pc[op] = "running"
    PROVE  /\ op \in Active
           /\ op \notin promises
           /\ \A o \in Operator : pc[o] # "spilling" /\ op \notin held[o]
BY DEF IInv, InitState, Positions, Promises, Coordinating, Active

\* A promise the guard of runSpill still has to fulfil belongs to an active
\* operator that has not arrived again.
LEMMA WakingExcludesSpilling ==
    ASSUME IInv, NEW op \in Operator, pc[op] \in {"waking", "failing"},
           NEW w \in held[op]
    PROVE  \A o \in Operator : pc[o] # "spilling"
BY DEF IInv, Promises, Coordinating, Active

\* The counts at the barrier seen by a running operator (waitSpillLocked,
\* operatorStopped).
LEMMA BarrierCount ==
    ASSUME IInv, NEW op \in Operator, pc[op] = "running"
    PROVE  /\ numWaitingOperators = Cardinality(promises)
           /\ needSpill <=> promises # {}
           /\ numWaitingOperators < numActiveOperators
           /\ numWaitingOperators + 1 = numActiveOperators =>
                promises = Active \ {op}
           /\ numWaitingOperators >= numActive(stoppedOperators \cup {op}) =>
                promises = Active \ {op}
           /\ numActive(stoppedOperators \cup {op}) = 0 <=> Active = {op}
           /\ Cardinality(promises \cup {op}) = numWaitingOperators + 1
<1>1. /\ op \in Active
      /\ promises \subseteq Active
      /\ op \notin promises
      /\ numWaitingOperators = Cardinality(promises)
      /\ needSpill <=> promises # {}
  BY RunningExcludesSpilling DEF IInv, Promises, Collecting
<1>2. /\ IsFiniteSet(Active)
      /\ numActiveOperators = Cardinality(Active)
  BY ActiveCount DEF IInv, TypeOK, Active, numActiveOperators
<1>3. Cardinality(Active \ {op}) = numActive(stoppedOperators \cup {op})
  <2>1. stoppedOperators \cup {op} \in SUBSET operators
    BY <1>1 DEF IInv, TypeOK, Active
  <2>2. operators \ (stoppedOperators \cup {op}) = Active \ {op}
    BY DEF Active
  <2>3. QED
    BY <2>1, <2>2, ActiveCount DEF IInv
<1>4. /\ Cardinality(promises) \in Nat
      /\ Cardinality(Active) \in Nat
      /\ Cardinality(Active \ {op}) = Cardinality(Active) - 1
      /\ Cardinality(promises) < Cardinality(Active)
      /\ Cardinality(promises) >= Cardinality(Active) - 1 =>
            promises = Active \ {op}
  BY Zenon, <1>1, <1>2, LastArrival
<1>5. Cardinality(Active \ {op}) = 0 <=> Active \ {op} = {}
  BY Zenon, <1>2, FS_RemoveElement, FS_EmptySet
<1>6. Cardinality(promises \cup {op}) = Cardinality(promises) + 1
  BY <1>1, <1>2, FS_Subset, FS_AddElement
<1>7. QED
  BY <1>1, <1>2, <1>3, <1>4, <1>5, <1>6

-----------------------------------------------------------------------------
(***************************************************************************)
(* The invariant is inductive: one lemma per way of taking a step.         *)
(***************************************************************************)

\* The invariant holds of a group that was just constructed.
LEMMA InitIInv == Init => IInv
<1> SUFFICES ASSUME Init PROVE IInv
  OBVIOUS
<1>1. Cardinality({}) = 0
  BY FS_EmptySet
<1>2. TypeOK
  BY Zenon DEF Init, TypeOK, State, Position
<1>3. InitState /\ Positions /\ Promises /\ Waiters /\ Coordinating
  BY DEF Init, InitState, Positions, Promises, Waiters, Coordinating, Active
<1>4. Collecting
  BY <1>1 DEF Init, Collecting
<1>5. QED
  BY <1>2, <1>3, <1>4 DEF IInv

\* A running operator takes all the promises of the others to runSpill, having
\* arrived itself (stop = FALSE) or stopped (stop = TRUE).
LEMMA LeaveToSpillIInv ==
    ASSUME IInv, NEW op \in Operator, pc[op] = "running", state = "kRunning",
           leaveToSpill(op),
           promises = Active \ {op},
           operators' = operators, state' = state, terminated' = terminated,
           needSpill' = TRUE,
           numWaitingOperators' \in Nat,
           \/ stoppedOperators' = stoppedOperators
           \/ stoppedOperators' = stoppedOperators \cup {op} /\ Active # {op}
    PROVE  IInv'
<1>1. /\ op \in Active
      /\ op \notin promises
      /\ \A o \in Operator : pc[o] # "spilling" /\ op \notin held[o]
  BY RunningExcludesSpilling
<1>2. held[op] = {}
  BY DEF IInv, Promises
<1>3. TypeOK'
  BY <1>1 DEF IInv, TypeOK, leaveToSpill, Position, Active
<1>4. InitState'
  BY <1>1 DEF IInv, TypeOK, InitState, leaveToSpill, Active
<1>5. Positions'
  BY <1>1 DEF IInv, TypeOK, Positions, leaveToSpill, Active
<1>6. Promises'
  BY <1>1, <1>2 DEF IInv, TypeOK, Promises, leaveToSpill, Active
<1>7. Waiters'
  BY <1>1, <1>2 DEF IInv, TypeOK, Waiters, leaveToSpill
<1>8. Collecting' /\ Coordinating'
  BY <1>1 DEF IInv, TypeOK, Collecting, Coordinating, leaveToSpill, Active
<1>9. QED
  BY <1>3, <1>4, <1>5, <1>6, <1>7, <1>8 DEF IInv

\* An operator arrives at the barrier and waits for the others.
LEMMA ArriveIInv ==
    ASSUME IInv, NEW op \in Operator, pc[op] = "running", state = "kRunning",
           promises' = promises \cup {op},
           pc' = [pc EXCEPT ![op] = "waiting"],
           numWaitingOperators' = numWaitingOperators + 1,
           needSpill' = TRUE,
           UNCHANGED <<state, operators, stoppedOperators, held, terminated>>
    PROVE  IInv'
<1>1. /\ op \in Active
      /\ op \notin promises
      /\ \A o \in Operator : pc[o] # "spilling" /\ op \notin held[o]
  BY RunningExcludesSpilling
<1>2. Cardinality(promises \cup {op}) = numWaitingOperators + 1
  BY Zenon, BarrierCount
<1>3. TypeOK'
  BY <1>1 DEF IInv, TypeOK, Position, Active
<1>4. InitState'
  BY <1>1 DEF IInv, TypeOK, InitState, Active
<1>5. Positions'
  BY <1>1 DEF IInv, TypeOK, Positions, Active
<1>6. Promises'
  BY <1>1 DEF IInv, TypeOK, Promises, Active
<1>7. Waiters'
  BY <1>1 DEF IInv, TypeOK, Waiters
<1>8. Collecting' /\ Coordinating'
  BY <1>1, <1>2 DEF IInv, TypeOK, Collecting, Coordinating
<1>9. QED
  BY <1>3, <1>4, <1>5, <1>6, <1>7, <1>8 DEF IInv

\* requestSpill and waitSpill preserve the invariant.
LEMMA BarrierIInv ==
    ASSUME IInv, NEW op \in Operator, requestSpill(op) \/ waitSpill(op)
    PROVE  IInv'
<1>1. /\ pc[op] = "running"
      /\ state = "kRunning"
      /\ needSpill' = TRUE
      /\ waitSpillLocked(op)
      /\ UNCHANGED <<state, operators, stoppedOperators, terminated>>
  BY DEF requestSpill, waitSpill, IInv, TypeOK
<1>2. CASE numWaitingOperators' = numActiveOperators
  <2>1. promises = Active \ {op}
    BY Zenon, <1>1, <1>2, BarrierCount DEF waitSpillLocked
  <2>2. leaveToSpill(op) /\ numWaitingOperators' \in Nat
    BY <1>1, <1>2 DEF waitSpillLocked, IInv, TypeOK
  <2>3. QED
    BY <1>1, <2>1, <2>2, LeaveToSpillIInv
<1>3. CASE numWaitingOperators' # numActiveOperators
  BY <1>1, <1>3, ArriveIInv DEF waitSpillLocked
<1>4. QED
  BY <1>2, <1>3

\* operatorStopped preserves the invariant, whether the operator just stops, is
\* the last to stop, or runs the spill the others wait for.
LEMMA OperatorStoppedIInv ==
    ASSUME IInv, NEW op \in Operator, operatorStopped(op)
    PROVE  IInv'
<1> DEFINE active == numActive(stoppedOperators \cup {op})
<1>1. /\ op \in Active
      /\ op \notin promises
      /\ \A o \in Operator : pc[o] # "spilling" /\ op \notin held[o]
  BY RunningExcludesSpilling DEF operatorStopped
<1>2. /\ active \in Nat
      /\ active = 0 <=> Active = {op}
      /\ numWaitingOperators >= active => promises = Active \ {op}
  <2>1. stoppedOperators \cup {op} \in SUBSET operators
    BY <1>1 DEF IInv, TypeOK, Active
  <2>2. active \in Nat
    BY Zenon, <2>1, ActiveCount DEF IInv
  <2>3. QED
    BY Zenon, <2>2, BarrierCount DEF operatorStopped
<1>3. CASE spillReady(active)
  <2>1. /\ pc[op] = "running"
        /\ state = "kRunning"
        /\ leaveToSpill(op)
        /\ promises = Active \ {op}
        /\ Active # {op}
        /\ stoppedOperators' = stoppedOperators \cup {op}
        /\ operators' = operators /\ state' = state /\ terminated' = terminated
    BY <1>2, <1>3 DEF operatorStopped, spillReady
  <2>2. needSpill' = TRUE /\ numWaitingOperators' \in Nat
    BY <1>3 DEF operatorStopped, spillReady, IInv, TypeOK
  <2>3. QED
    BY <2>1, <2>2, LeaveToSpillIInv
<1>4. CASE ~spillReady(active)
  <2>1. /\ pc' = [pc EXCEPT ![op] = "stopped"]
        /\ stoppedOperators' = stoppedOperators \cup {op}
        /\ state' = IF Active = {op} THEN "kStopped" ELSE state
        /\ state = "kRunning"
        /\ UNCHANGED <<operators, needSpill, numWaitingOperators, promises,
                       held, terminated>>
    BY <1>2, <1>4 DEF operatorStopped
  <2>2. TypeOK'
    BY <1>1, <2>1 DEF IInv, TypeOK, State, Position, Active
  <2>3. InitState'
    BY <1>1, <2>1 DEF IInv, TypeOK, InitState, Active
  <2>4. Positions'
    BY <2>1 DEF IInv, TypeOK, Positions
  <2>5. Promises' /\ Waiters'
    <3>1. held[op] = {}
      BY DEF IInv, Promises, operatorStopped
    <3>2. QED
      BY <1>1, <2>1, <3>1 DEF IInv, TypeOK, Promises, Waiters, Active
  <2>6. Collecting' /\ Coordinating'
    BY <1>1, <2>1 DEF IInv, TypeOK, Collecting, Coordinating
  <2>7. QED
    BY <2>2, <2>3, <2>4, <2>5, <2>6 DEF IInv
<1>5. QED
  BY <1>3, <1>4

\* The guard of runSpill preserves the invariant.
LEMMA RunSpillIInv ==
    ASSUME IInv, NEW op \in Operator, runSpill(op)
    PROVE  IInv'
<1>1. PICK outcome \in {"waking", "failing"} : pc' = [pc EXCEPT ![op] = outcome]
  BY Zenon DEF runSpill
<1>2. /\ promises = {}
      /\ \A o \in Operator \ {op} : pc[o] # "spilling"
  BY DEF runSpill, IInv, Coordinating
<1>3. TypeOK'
  BY Zenon, <1>1 DEF runSpill, resetGroup, IInv, TypeOK, Position
<1>4. InitState' /\ Positions'
  BY <1>1 DEF runSpill, IInv, TypeOK, InitState, Positions, Active
<1>5. Promises' /\ Waiters'
  BY <1>1 DEF runSpill, IInv, TypeOK, Promises, Waiters, Active
<1>6. Collecting'
  BY <1>1, <1>2, FS_EmptySet DEF runSpill, resetGroup, IInv, TypeOK, Collecting
<1>7. Coordinating'
  BY <1>1, <1>2 DEF runSpill, IInv, TypeOK, Coordinating
<1>8. QED
  BY <1>3, <1>4, <1>5, <1>6, <1>7 DEF IInv

\* Waking one waiter preserves the invariant.
LEMMA FulfilPromiseIInv ==
    ASSUME IInv, NEW op \in Operator, fulfilPromise(op)
    PROVE  IInv'
<1>1. PICK w \in held[op] :
        /\ pc[op] \in {"waking", "failing"}
        /\ held' = [held EXCEPT ![op] = @ \ {w}]
        /\ pc' = [pc EXCEPT ![w] = IF @ = "waiting" THEN "running" ELSE @]
        /\ UNCHANGED <<state, operators, stoppedOperators, needSpill,
                       numWaitingOperators, promises, terminated>>
  BY Zenon DEF fulfilPromise
<1>2. /\ w \in Operator
      /\ w \in Active
      /\ pc[w] \in {"waiting", "closed"}
      /\ w \notin promises
      /\ \A other \in Operator \ {op} : w \notin held[other]
  BY <1>1 DEF IInv, TypeOK, Promises
<1>3. \A o \in Operator : pc[o] # "spilling"
  BY <1>1, WakingExcludesSpilling
<1>4. TypeOK'
  BY <1>1, <1>2 DEF IInv, TypeOK, Position
<1>5. InitState' /\ Positions'
  BY <1>1, <1>2 DEF IInv, TypeOK, InitState, Positions, Active
<1>6. Promises' /\ Waiters'
  BY <1>1, <1>2 DEF IInv, TypeOK, Promises, Waiters, Active
<1>7. Collecting' /\ Coordinating'
  BY <1>1, <1>2, <1>3 DEF IInv, TypeOK, Collecting, Coordinating
<1>8. QED
  BY <1>4, <1>5, <1>6, <1>7 DEF IInv

\* Returning from runSpill preserves the invariant.
LEMMA ReturnFromSpillIInv ==
    ASSUME IInv, NEW op \in Operator, returnFromSpill(op)
    PROVE  IInv'
<1>1. PICK next \in {"closed", "stopped", "running"} :
        /\ pc' = [pc EXCEPT ![op] = next]
        /\ next = "stopped" => op \in stoppedOperators
        /\ next = "running" => op \notin stoppedOperators
  BY Zenon DEF returnFromSpill, IInv, TypeOK
<1>2. op \notin promises /\ \A o \in Operator : op \notin held[o]
  BY DEF returnFromSpill, IInv, Promises
<1>3. TypeOK'
  BY <1>1 DEF returnFromSpill, IInv, TypeOK, Position
<1>4. InitState' /\ Positions'
  BY <1>1 DEF returnFromSpill, IInv, TypeOK, InitState, Positions, Active
<1>5. Promises' /\ Waiters'
  BY <1>1, <1>2 DEF returnFromSpill, IInv, TypeOK, Promises, Waiters, Active
<1>6. Collecting' /\ Coordinating'
  BY <1>1 DEF returnFromSpill, IInv, TypeOK, Collecting, Coordinating, Active
<1>7. QED
  BY <1>3, <1>4, <1>5, <1>6 DEF IInv

\* Closing an operator leaves its promise where it is and preserves the invariant.
LEMMA CloseIInv ==
    ASSUME IInv, NEW op \in Operator, close(op)
    PROVE  IInv'
<1>1. TypeOK'
  BY DEF close, IInv, TypeOK, Position
<1>2. InitState' /\ Positions'
  BY DEF close, IInv, TypeOK, InitState, Positions, Active
<1>3. Promises' /\ Waiters'
  BY DEF close, IInv, TypeOK, Promises, Waiters, Active
<1>4. Collecting' /\ Coordinating'
  BY DEF close, IInv, TypeOK, Collecting, Coordinating, Active
<1>5. QED
  BY <1>1, <1>2, <1>3, <1>4 DEF IInv

\* Adding an operator, starting and restarting the group, and terminating the
\* task preserve the invariant.
LEMMA LifecycleIInv ==
    ASSUME IInv,
           start \/ restart \/ terminate \/ \E op \in Operator : addOperator(op)
    PROVE  IInv'
<1>1. CASE start
  <2>1. operators' = operators /\ Active' # {}
    BY <1>1, OperatorAssumption DEF start, IInv, InitState, Active
  <2>2. QED
    BY <1>1, <2>1 DEF start, IInv, TypeOK, State, InitState, Positions,
       Promises, Waiters, Collecting, Coordinating, Active
<1>2. CASE restart
  <2>1. /\ operators = Operator
        /\ \A op \in Operator : pc[op] \in {"stopped", "closed"} /\ held[op] = {}
        /\ promises = {}
        /\ pc' = [op \in Operator |->
                    IF pc[op] = "stopped" THEN "running" ELSE pc[op]]
        /\ stoppedOperators' = {} /\ state' = "kRunning"
        /\ UNCHANGED <<operators, needSpill, numWaitingOperators, promises,
                       held, terminated>>
    BY <1>2 DEF restart, IInv, InitState, Promises, Active
  <2>2. TypeOK'
    BY <2>1 DEF IInv, TypeOK, State, Position
  <2>3. InitState' /\ Positions' /\ Promises' /\ Waiters'
    BY <2>1, OperatorAssumption
       DEF InitState, Positions, Promises, Waiters, Active
  <2>4. Collecting' /\ Coordinating'
    BY <2>1 DEF IInv, Collecting, Coordinating
  <2>5. QED
    BY <2>2, <2>3, <2>4 DEF IInv
<1>3. CASE terminate
  BY <1>3 DEF terminate, IInv, TypeOK, InitState, Positions, Promises, Waiters,
     Collecting, Coordinating, Active
<1>4. ASSUME NEW op \in Operator, addOperator(op)
      PROVE  IInv'
  <2>1. TypeOK'
    BY <1>4 DEF addOperator, IInv, TypeOK, Position
  <2>2. InitState' /\ Positions'
    BY <1>4 DEF addOperator, IInv, TypeOK, InitState, Positions, Active
  <2>3. Promises' /\ Waiters'
    BY <1>4 DEF addOperator, IInv, TypeOK, InitState, Promises, Waiters, Active
  <2>4. Collecting' /\ Coordinating'
    BY <1>4 DEF addOperator, IInv, TypeOK, InitState, Collecting, Coordinating
  <2>5. QED
    BY <2>1, <2>2, <2>3, <2>4 DEF IInv
<1>5. QED
  BY <1>1, <1>2, <1>3, <1>4

\* Every step of the group, or of the task around it, preserves the invariant.
LEMMA NextIInv == IInv /\ [Next]_vars => IInv'
<1> SUFFICES ASSUME IInv, [Next]_vars PROVE IInv'
  OBVIOUS
<1>1. CASE UNCHANGED vars
  BY <1>1 DEF vars, IInv, TypeOK, InitState, Positions, Promises, Waiters,
     Collecting, Coordinating, Active
<1>2. CASE Next
  BY <1>2, BarrierIInv, OperatorStoppedIInv, RunSpillIInv, FulfilPromiseIInv,
     ReturnFromSpillIInv, CloseIInv, LifecycleIInv DEF Next
<1>3. QED
  BY <1>1, <1>2

-----------------------------------------------------------------------------
(***************************************************************************)
(* The theorems.                                                           *)
(***************************************************************************)

\* The invariant holds in every reachable state of the barrier.
THEOREM Invariant == Spec => []IInv
BY InitIInv, NextIInv, PTL DEF Spec

\* The members of SpillOperatorGroup keep their types; in particular the count of
\* waiting operators never goes below zero.
THEOREM TypeCorrect == Spec => []TypeOK
<1>1. IInv => TypeOK
  BY DEF IInv
<1>2. QED
  BY <1>1, Invariant, PTL

\* For any number of operators, while runSpill works on the tables of the group
\* no other driver builds or spills one.
THEOREM SpillIsExclusive == Spec => []SpillRunsAlone
<1>1. IInv => SpillRunsAlone
  BY DEF IInv, TypeOK, SpillRunsAlone, InitState, Positions, Promises,
     Coordinating, Active, Position
<1>2. QED
  BY <1>1, Invariant, PTL

\* For any number of operators, none of the BOLT_CHECKs of the group fires.
THEOREM ChecksNeverFire == Spec => []ChecksHold
<1>1. ASSUME IInv PROVE ChecksHold
  <2>1. ASSUME NEW op \in operators, pc[op] = "running", state = "kRunning"
        PROVE  /\ op \notin stoppedOperators
               /\ numWaitingOperators < numActiveOperators
               /\ ~needSpill => numWaitingOperators = 0
    <3>1. op \in Operator
      BY <1>1 DEF IInv, TypeOK
    <3>2. Cardinality({}) = 0
      BY FS_EmptySet
    <3>3. QED
      BY Zenon, <1>1, <2>1, <3>1, <3>2, BarrierCount DEF IInv, Positions
  <2>2. ASSUME NEW op \in operators, pc[op] = "spilling"
        PROVE  needSpill /\ state = "kRunning"
    BY <1>1, <2>2 DEF IInv, TypeOK, Coordinating
  <2>3. ASSUME state = "kStopped"
        PROVE  /\ stoppedOperators = operators
               /\ ~needSpill
               /\ numWaitingOperators = 0
               /\ promises = {}
    BY <1>1, <2>3, FS_EmptySet
       DEF IInv, TypeOK, InitState, Promises, Collecting, Coordinating, Active
  <2>4. QED
    BY <2>1, <2>2, <2>3 DEF ChecksHold
<1>2. QED
  BY <1>1, Invariant, PTL

\* For any number of operators, a waiter's promise is in exactly one place from
\* which it will be fulfilled.
THEOREM WaitersAreKnown == Spec => []NoLostWaiter
<1>1. ASSUME IInv PROVE NoLostWaiter
  <2>1. ASSUME NEW w \in promises, pc[w] = "waiting"
        PROVE  needSpill /\ \A op \in Operator : w \notin held[op]
    BY <1>1, <2>1 DEF IInv, Promises, Collecting, Coordinating
  <2>2. ASSUME NEW op \in Operator, NEW w \in held[op], pc[w] = "waiting"
        PROVE  /\ op # w
               /\ w \notin promises
               /\ pc[op] \in {"spilling", "waking", "failing"}
               /\ \A other \in Operator \ {op} : w \notin held[other]
    BY <1>1, <2>2 DEF IInv, Promises
  <2>3. QED
    BY <1>1, <2>1, <2>2 DEF IInv, TypeOK, Waiters, NoLostWaiter
<1>2. QED
  BY <1>1, Invariant, PTL
=============================================================================
