------------------------------ MODULE HashJoin ------------------------------
(***************************************************************************)
(* A hash join that spills: the HashBuild operators with their spill group *)
(* (SpillOperatorGroup, which this module extends), the HashProbe          *)
(* operators, and the HashJoinBridge between them.                         *)
(*                                                                         *)
(* The builders read their input, and may have to spill all of it by       *)
(* partitions.  The last one to finish merges the tables and sets the      *)
(* table in the bridge, together with the ids of what was spilled.  Each   *)
(* prober probes the table with its input, except for the rows in spilled  *)
(* partitions, which it spills, too.  The last one to finish takes the     *)
(* table away and picks a partition; the builders build its table, each    *)
(* from a shard, and may spill it again one level deeper; and so on.       *)
(*                                                                         *)
(* A step is a critical section of HashJoinBridge, of SpillOperatorGroup   *)
(* or of Task::allPeersFinished, with the work of the operator before it.  *)
(* A row is where it comes from and its key; the bits of the key are the   *)
(* hash bits that decide its partition, one for each level.                *)
(***************************************************************************)
EXTENDS SpillOperatorGroup, Sequences, SequencesExt

CONSTANTS
    Prober,         \* the HashProbe operators
    BuildKeys,      \* the keys of the input of each builder
    ProbeKeys,      \* the keys of the input of each prober
    NullRows,       \* the build rows with a null key (null-aware anti join)
    Levels,         \* how often a row can be spilled: maxSpillLevel + 1
    Kinds           \* the joins: "inner", "right", "anti"

ASSUME JoinAssumption ==
    /\ Prober # {} /\ IsFiniteSet(Prober)
    /\ BuildKeys \in [Operator -> SUBSET Nat]
    /\ ProbeKeys \in [Prober -> SUBSET Nat]
    /\ Levels \in Nat
    /\ Kinds \subseteq {"inner", "right", "anti"}

Rows(from, keys) == {<<from, k>> : k \in keys}
BuildRows == UNION {Rows(op, BuildKeys[op]) : op \in Operator}
ProbeRows == UNION {Rows(p, ProbeKeys[p]) : p \in Prober}

VARIABLES
    kind,           \* joinType_, nullAware_
    bridge,         \* HashJoinBridge
    build,          \* HashBuild, by operator
    probe,          \* HashProbe, by operator
    arrived,        \* the barriers of Task: the peers that have called
                    \* allPeersFinished, of builders and of probers
    joined,         \* how often each pair of rows was in the output
    unmatched       \* how often each build row was in the output without a match

dataVars == <<kind, joined, unmatched>>
joinVars == <<kind, bridge, build, probe, arrived, joined, unmatched>>

-----------------------------------------------------------------------------
(***************************************************************************)
(* Spill partitions.                                                       *)
(***************************************************************************)

\* SpillPartitionId: the level stands for partitionBitOffset.
NoId == <<-1, 0>>
partitionOf(row, level) == <<level, (row[2] \div 2^level) % 2>>

\* Mutant: partitions of the first level come first.
precedesShallow(id, other) ==
    \/ id[1] < other[1]
    \/ id[1] = other[1] /\ id[2] < other[2]

\* The order of SpillPartitionId, in which partitions are restored.
precedes(id, other) ==
    \/ id[1] > other[1]
    \/ id[1] = other[1] /\ id[2] < other[2]

first(ids) == CHOOSE id \in ids : \A other \in ids \ {id} : precedes(id, other)

\* Mutant: the files that do not divide evenly are forgotten.
splitEven(files, n) ==
    LET seq == SetToSeq(files)
        upTo(s) == s * (Len(seq) \div n)
    IN  [s \in 1 .. n |-> UNION {seq[i] : i \in upTo(s - 1) + 1 .. upTo(s)}]

\* SpillPartition::split: the files of a partition, of one writer each, are
\* dealt out evenly to 'n' shards.
split(files, n) ==
    LET seq == SetToSeq(files)
        rest == Len(seq) % n
        upTo(s) == s * (Len(seq) \div n) + (IF s < rest THEN s ELSE rest)
    IN  [s \in 1 .. n |-> UNION {seq[i] : i \in upTo(s - 1) + 1 .. upTo(s)}]

-----------------------------------------------------------------------------
NoResult == [has_value |-> FALSE, table |-> {}, restoredPartitionId |-> NoId,
             spillPartitionIds |-> {}, hasNullKeys |-> FALSE]

\* The builder before it reads 'rows'; it can spill them at 'level'.
newBuild(rows, level) ==
    [at |-> "kRunning", input |-> rows, table |-> {}, spilled |-> FALSE,
     files |-> {}, level |-> level, hasNullKeys |-> FALSE]

JoinInit ==
    /\ Init
    /\ kind \in Kinds
    /\ bridge = [buildResult |-> NoResult, restoring |-> NoId, shards |-> <<>>,
                 partitions |-> <<>>, promises |-> {}, cancelled |-> FALSE]
    /\ build = [op \in Operator |-> newBuild(Rows(op, BuildKeys[op]), 0)]
    /\ probe = [p \in Prober |->
                  [at |-> "asking", table |-> {}, input |-> Rows(p, ProbeKeys[p]),
                   spillInputPartitionIds |-> {}, files |-> <<>>]]
    /\ arrived = [builders |-> {}, probers |-> {}]
    /\ joined = [pair \in BuildRows \X ProbeRows |-> 0]
    /\ unmatched = [row \in BuildRows |-> 0]

\* JoinBridge::notify: the operators in 'ws' that wait for the bridge go on.
wokenBuild(ws) ==
    [op \in Operator |->
        IF op \in ws /\ build[op].at = "kWaitForProbe"
          THEN [build[op] EXCEPT !.at = "continuing"] ELSE build[op]]

wokenProbe(ws) ==
    [p \in Prober |->
        IF p \in ws /\ probe[p].at = "kWaitForBuild"
          THEN [probe[p] EXCEPT !.at = "asking"] ELSE probe[p]]

-----------------------------------------------------------------------------
(***************************************************************************)
(* HashBuild: reading input and spilling.                                  *)
(***************************************************************************)
reading(op) == build[op].at = "kRunning" /\ build[op].input # {}

\* There is a spiller and not everything is spilled (isAllSpilled).
canSpill(op) == build[op].level < Levels /\ ~build[op].spilled

\* A null key ends a null-aware anti join at once.  After a spill all rows go to
\* the spiller.
stored(b, row) ==
    IF kind = "anti" /\ row \in NullRows
      THEN [b EXCEPT !.hasNullKeys = TRUE, !.input = {}]
      ELSE [b EXCEPT !.input = @ \ {row},
                     !.table = IF b.spilled THEN @ ELSE @ \cup {row},
                     !.files = IF b.spilled THEN @ \cup {row} ELSE @]

addInput(op) ==
    \E row \in build[op].input :
        /\ pc[op] = "running" /\ state = "kRunning"
        /\ reading(op)
        /\ canSpill(op) => ~needSpill
        /\ build' = [build EXCEPT ![op] = stored(@, row)]
        /\ UNCHANGED <<vars, dataVars, bridge, probe, arrived>>

\* reserveMemory: the rows of a table, if it has any, may take too much memory.
mayExceedThreshold(op) == build[op].table # {}

\* ensureInputFits, when they do
requestBuildSpill(op) ==
    /\ reading(op) /\ canSpill(op) /\ mayExceedThreshold(op)
    /\ requestSpill(op)
    /\ UNCHANGED joinVars

\* ensureInputFits, when a peer has requested a spill
waitBuildSpill(op) ==
    /\ reading(op) /\ canSpill(op)
    /\ waitSpill(op)
    /\ UNCHANGED joinVars

\* noMoreInputInternal, as far as the spill group
noMoreBuildInput(op) ==
    /\ build[op].at = "kRunning" /\ build[op].input = {}
    /\ operatorStopped(op)
    /\ UNCHANGED joinVars

spilledBuild(b) ==
    [b EXCEPT !.files = @ \cup b.table, !.table = {}, !.spilled = TRUE]

\* The coordinator spills the tables of all builders.  (For one that has been closed
\* see SpillMeetsNoClosedOperator.)
runBuildSpill(op) ==
    /\ runSpill(op)
    /\ build' = IF pc'[op] = "waking"
                  THEN [o \in Operator |-> spilledBuild(build[o])] ELSE build
    /\ UNCHANGED <<dataVars, bridge, probe, arrived>>

\* nonReclaimableState is false and the driver is off thread or suspended: in
\* reserveMemory, at the barrier, or in ensureTableFits.
reclaimable(op) ==
    /\ build[op].level < Levels
    /\ \/ build[op].at = "kRunning" /\ pc[op] = "running"
       \/ build[op].at \in {"kWaitForBuild", "merging"} /\ pc[op] = "stopped"

someNullKeys == \E op \in Operator : build[op].hasNullKeys

\* The memory arbitration spills all builders, while the task is paused and not
\* by way of the spill group.
reclaim ==
    /\ state # "kInit" /\ ~terminated
    /\ \A op \in Operator : reclaimable(op)
    /\ someNullKeys => \A op \in Operator : build[op].at # "merging"
    /\ \E op \in Operator : ~build[op].spilled
    /\ build' = [op \in Operator |-> spilledBuild(build[op])]
    /\ UNCHANGED <<vars, dataVars, bridge, probe, arrived>>

-----------------------------------------------------------------------------
(***************************************************************************)
(* HashBuild: the table.                                                   *)
(***************************************************************************)

\* Mutant: the last but one to arrive is taken for the last.
allPeersFinishedEarly(here, peers) == Cardinality(here) + 1 >= Cardinality(peers)

\* Task::allPeersFinished: whether the caller is the last of its peers to arrive
allPeersFinished(here, peers) == Cardinality(here) = Cardinality(peers)

\* finishHashBuild: the last builder to arrive builds the table.  In a terminated task
\* it may still do so, or is closed instead.
finishHashBuild(op) ==
    LET last == allPeersFinished(arrived.builders \cup {op}, Operator) IN
    /\ pc[op] = "stopped" /\ build[op].at = "kRunning"
    /\ arrived' = [arrived EXCEPT !.builders = IF last THEN {} ELSE @ \cup {op}]
    /\ build' = [build EXCEPT ![op].at =
                    IF last THEN "merging" ELSE "kWaitForBuild"]
    /\ UNCHANGED <<vars, dataVars, bridge, probe>>

\* Spiller::finishSpill of all builders, without the empty partitions
spillPartitions(level) ==
    LET rowsOf(op, id) == {r \in build[op].files : partitionOf(r, level) = id}
        ids == {partitionOf(r, level) : r \in UNION {build[op].files : op \in Operator}}
    IN  [id \in ids |-> {rowsOf(op, id) : op \in Operator} \ {{}}]

\* HashJoinBridge::setHashTable; it tells whether there are partitions to restore.
setHashTable(op) ==
    LET new == spillPartitions(build[op].level)
        all == bridge.partitions @@ new
    IN
    /\ bridge' = [bridge EXCEPT
            !.buildResult =
                [has_value |-> TRUE, hasNullKeys |-> FALSE,
                 table |-> UNION {build[o].table : o \in Operator},
                 restoredPartitionId |-> bridge.restoring,
                 spillPartitionIds |-> DOMAIN new],
            !.restoring = NoId, !.partitions = all, !.promises = {}]
    /\ build' = [wokenBuild(bridge.promises) EXCEPT ![op].at =
                    IF DOMAIN all # {} THEN "restarting" ELSE "releasing"]

\* HashJoinBridge::setAntiJoinHasNullKeys
setAntiJoinHasNullKeys(op) ==
    /\ bridge' = [bridge EXCEPT
            !.buildResult = [NoResult EXCEPT !.has_value = TRUE, !.hasNullKeys = TRUE],
            !.restoring = NoId, !.partitions = <<>>, !.promises = {}]
    /\ build' = [wokenBuild(bridge.promises) EXCEPT ![op].at = "releasing"]

\* finishHashBuild of the last builder, as far as the bridge.  The table of a peer that
\* has been closed meanwhile is gone: then it fails, and is closed itself.
handOver(op) ==
    /\ build[op].at = "merging"
    /\ \/ someNullKeys /\ setAntiJoinHasNullKeys(op)
       \/ /\ ~someNullKeys
          /\ \A peer \in Operator : pc[peer] # "closed"
          /\ setHashTable(op)
    /\ probe' = wokenProbe(bridge.promises)
    /\ UNCHANGED <<vars, dataVars, arrived>>

\* The rest of finishHashBuild: the spill group starts again if there are partitions to
\* restore, and the peers leave the barrier.
leaveBarrier(op) ==
    /\ \/ build[op].at = "restarting" /\ restart
       \/ build[op].at = "releasing" /\ UNCHANGED vars
    /\ build' = [o \in Operator |->
                    IF o = op \/ build[o].at = "kWaitForBuild"
                      THEN [build[o] EXCEPT !.at = "continuing"] ELSE build[o]]
    /\ UNCHANGED <<dataVars, bridge, probe, arrived>>

\* postHashBuildProcess with spillInputOrFuture and setupSpillInput: the builder is
\* done, waits for the probers, or builds from a shard.
postHashBuildProcess(op) ==
    /\ build[op].at = "continuing" /\ pc[op] # "closed"
    /\ ~bridge.cancelled
    /\ \/ /\ bridge.restoring = NoId /\ DOMAIN bridge.partitions = {}
          /\ build' = [build EXCEPT ![op].at = "kFinish"]
          /\ UNCHANGED bridge
       \/ /\ bridge.restoring = NoId /\ DOMAIN bridge.partitions # {}
          /\ build' = [build EXCEPT ![op].at = "kWaitForProbe"]
          /\ bridge' = [bridge EXCEPT !.promises = @ \cup {op}]
       \/ /\ bridge.restoring # NoId /\ bridge.shards # <<>>
          /\ build' = [build EXCEPT ![op] =
                        newBuild(Last(bridge.shards), bridge.restoring[1] + 1)]
          /\ bridge' = [bridge EXCEPT !.shards = Front(@)]
    /\ UNCHANGED <<vars, dataVars, probe, arrived>>

-----------------------------------------------------------------------------
(***************************************************************************)
(* HashProbe.                                                              *)
(***************************************************************************)

\* The input of the prober for a table is its own input for the first one, and
\* its own spilled partition for a restored one.
probeInput(p, result) ==
    IF result.hasNullKeys THEN {}
    ELSE IF result.restoredPartitionId = NoId THEN probe[p].input
    ELSE probe[p].files[result.restoredPartitionId]

\* asyncWaitForHashTable with tableOrFuture and maybeSetupSpillInput
asyncWaitForHashTable(p) ==
    LET result == bridge.buildResult IN
    /\ probe[p].at = "asking"
    /\ state # "kInit" /\ ~bridge.cancelled
    /\ IF result.has_value
         THEN /\ probe' = [probe EXCEPT ![p] =
                    [at |-> "kRunning", table |-> result.table,
                     input |-> probeInput(p, result),
                     spillInputPartitionIds |-> result.spillPartitionIds,
                     files |-> RestrictDomain(@.files,
                                 LAMBDA id : id # result.restoredPartitionId)]]
              /\ UNCHANGED bridge
         ELSE /\ probe' = [probe EXCEPT ![p].at = "kWaitForBuild"]
              /\ bridge' = [bridge EXCEPT !.promises = @ \cup {p}]
    /\ UNCHANGED <<vars, dataVars, build, arrived>>

\* Mutant: partitions without rows are overlooked.
hasMoreSpillRows(files) == \E id \in DOMAIN files : files[id] # {}

hasMoreSpillData(files) == DOMAIN files # {}

inPartition(row, id) == partitionOf(row, id[1]) = id

\* spillInput: the rows that stay, and the files with the others.  There is a file,
\* maybe empty, for each partition that was spilled on the build side.
kept(me) == {r \in me.input : \A id \in me.spillInputPartitionIds : ~inPartition(r, id)}

spillInput(me) ==
    LET old(id) == IF id \in DOMAIN me.files THEN me.files[id] ELSE {}
        new(id) == {r \in me.input : inPartition(r, id)}
    IN  [id \in DOMAIN me.files \cup me.spillInputPartitionIds |->
            IF id \in me.spillInputPartitionIds THEN old(id) \cup new(id) ELSE old(id)]

\* getOutput, as long as there is input
output(me) == {pair \in me.table \X kept(me) : pair[1][2] = pair[2][2]}

\* addInput and getOutput for all rows, then noMoreInputInternal
probeTable(p) ==
    LET me == probe[p]
        files == spillInput(me)
        hasSpillData == hasMoreSpillData(files)
        needLastProbe == kind = "right"
        waits == needLastProbe \/ hasSpillData
        last == allPeersFinished(arrived.probers \cup {p}, Prober)
    IN
    /\ me.at = "kRunning"
    /\ joined' = [pair \in DOMAIN joined |->
                    joined[pair] + (IF pair \in output(me) THEN 1 ELSE 0)]
    /\ arrived' = [arrived EXCEPT !.probers =
                    IF ~waits THEN @ ELSE IF last THEN {} ELSE @ \cup {p}]
    /\ probe' = [probe EXCEPT
                    ![p].at = IF waits /\ last THEN "lastProber"
                              ELSE IF hasSpillData THEN "kWaitForPeers" ELSE "kFinish",
                    ![p].files = files]
    /\ UNCHANGED <<vars, kind, unmatched, bridge, build>>

\* HashJoinBridge::probeFinished: the table goes, and a partition comes up next.
probeFinished ==
    LET ids == DOMAIN bridge.partitions
        next == first(ids)
    IN
    bridge' = IF ids = {} THEN [bridge EXCEPT !.buildResult = NoResult]
              ELSE [bridge EXCEPT
                        !.buildResult = NoResult,
                        !.restoring = next,
                        !.shards = split(bridge.partitions[next], Cardinality(operators)),
                        !.partitions = RestrictDomain(@, LAMBDA id : id # next),
                        !.promises = {}]

\* prepareForSpillRestore of the last prober: the builders can go on, and its peers
\* ask for the next table, as it does itself.
prepareForSpillRestore(p) ==
    /\ hasMoreSpillData(probe[p].files)
    /\ probeFinished
    /\ build' = wokenBuild(bridge.promises)
    /\ probe' = [q \in Prober |->
                    IF q = p \/ probe[q].at = "kWaitForPeers"
                      THEN [probe[q] EXCEPT !.at = "asking"] ELSE probe[q]]

finishProbe(p) ==
    /\ ~hasMoreSpillData(probe[p].files)
    /\ probe' = [probe EXCEPT ![p].at = "kFinish"]
    /\ UNCHANGED <<bridge, build>>

\* getOutput of the last prober: for a right join, getBuildSideOutput lists the rows of
\* the table that have not been hit by any prober.
getLastOutput(p) ==
    LET hit(row) == \E r \in ProbeRows : joined[<<row, r>>] > 0 IN
    /\ probe[p].at = "lastProber"
    /\ unmatched' = [row \in BuildRows |->
                        IF kind = "right" /\ row \in probe[p].table /\ ~hit(row)
                          THEN unmatched[row] + 1 ELSE unmatched[row]]
    /\ prepareForSpillRestore(p) \/ finishProbe(p)
    /\ UNCHANGED <<vars, kind, joined, arrived>>

-----------------------------------------------------------------------------
(***************************************************************************)
(* Termination.                                                            *)
(***************************************************************************)

\* JoinBridge::cancel, called by Task::terminate at its end
cancel ==
    /\ terminated /\ ~bridge.cancelled
    /\ bridge' = [bridge EXCEPT !.cancelled = TRUE, !.promises = {}]
    /\ build' = wokenBuild(bridge.promises)
    /\ probe' = wokenProbe(bridge.promises)
    /\ UNCHANGED <<vars, dataVars, arrived>>

\* A builder on its thread in finishHashBuild is closed only after it, or when it
\* fails because a peer was closed.
closeBuild(op) ==
    /\ build[op].at \notin {"restarting", "releasing"}
    /\ build[op].at = "merging" =>
           ~build[op].hasNullKeys /\ \E peer \in Operator : pc[peer] = "closed"
    /\ close(op)
    /\ UNCHANGED joinVars

closeProbe(p) ==
    /\ terminated
    /\ probe[p].at \notin {"kFinish", "closed"}
    /\ probe' = [probe EXCEPT ![p].at = "closed"]
    /\ UNCHANGED <<vars, dataVars, bridge, build, arrived>>

-----------------------------------------------------------------------------
BuildStep(op) ==
    \/ addInput(op) \/ waitBuildSpill(op) \/ noMoreBuildInput(op)
    \/ runBuildSpill(op)
    \/ fulfilPromise(op) /\ UNCHANGED joinVars
    \/ returnFromSpill(op) /\ UNCHANGED joinVars
    \/ finishHashBuild(op) \/ handOver(op) \/ leaveBarrier(op)
    \/ postHashBuildProcess(op)
    \/ closeBuild(op)

ProbeStep(p) ==
    asyncWaitForHashTable(p) \/ probeTable(p) \/ getLastOutput(p) \/ closeProbe(p)

JoinNext ==
    \/ start /\ UNCHANGED joinVars
    \/ \E op \in Operator :
         \/ addOperator(op) /\ UNCHANGED joinVars
         \/ requestBuildSpill(op)
         \/ BuildStep(op)
    \/ reclaim
    \/ \E p \in Prober : ProbeStep(p)
    \/ terminate /\ UNCHANGED joinVars
    \/ cancel

\* Operators that are not blocked keep running.  No spill need ever be requested.
JoinFairness ==
    /\ \A op \in Operator : WF_<<vars, joinVars>>(BuildStep(op))
    /\ \A p \in Prober : WF_<<vars, joinVars>>(ProbeStep(p))
    /\ WF_<<vars, joinVars>>(cancel)

JoinSpec == JoinInit /\ [][JoinNext]_<<vars, joinVars>> /\ JoinFairness

-----------------------------------------------------------------------------
(***************************************************************************)
(* Properties.                                                             *)
(***************************************************************************)

\* However often and whenever builders spill, and in whichever order partitions are
\* restored (HashJoinBridge, HashBuild, HashProbe): no pair of rows and no unmatched
\* row is in the output twice, and once all probers have finished, all pairs with
\* equal keys are, and, for a right join, all build rows without a match; nothing
\* is for a null-aware anti join with a null on the build side.
JoinIsExact ==
    LET empty == kind = "anti" /\ NullRows \cap BuildRows # {}
        matches(row, r) == ~empty /\ row[2] = r[2]
        alone(row) == kind = "right" /\ \A r \in ProbeRows : ~matches(row, r)
        complete == \A p \in Prober : probe[p].at = "kFinish"
    IN
    /\ \A row \in BuildRows, r \in ProbeRows :
         /\ joined[<<row, r>>] <= IF matches(row, r) THEN 1 ELSE 0
         /\ complete /\ matches(row, r) => joined[<<row, r>>] = 1
    /\ \A row \in BuildRows :
         /\ unmatched[row] <= IF alone(row) THEN 1 ELSE 0
         /\ complete /\ alone(row) => unmatched[row] = 1

\* A prober that works with a table works with the one of the bridge, and meanwhile no
\* builder has started on the next one: the last prober does not move the bridge on
\* (probeFinished) while a peer has not reached the barrier.
NobodyLeftBehind ==
    \A p \in Prober : probe[p].at \in {"kRunning", "kWaitForPeers", "lastProber"} =>
        /\ bridge.buildResult.has_value
        /\ bridge.buildResult.table = probe[p].table
        /\ \A op \in Operator : build[op].at \notin {"kRunning", "merging"}

\* No BOLT_CHECK of the bridge or about it fires.
\* setHashTable: there is no other table, all shards were taken, and the ids of
\* new partitions are not in use; runSpill: there is something left to spill.
\* spillInputOrFuture: there is a shard for each builder.
\* maybeSetupSpillInput: the prober has a partition for the restored one.
\* probeFinished: there is a table to take away, and nobody waits for a partition
\* when there is none.
JoinChecksHold ==
    /\ \A op \in Operator : build[op].at = "merging" =>
         /\ ~bridge.buildResult.has_value /\ bridge.shards = <<>>
         /\ DOMAIN spillPartitions(build[op].level) \cap DOMAIN bridge.partitions = {}
    /\ \A op \in Operator : pc[op] = "spilling" => ~build[op].spilled
    /\ \A op \in Operator :
         build[op].at = "continuing" /\ pc[op] # "closed" /\ bridge.restoring # NoId =>
             bridge.shards # <<>> /\ ~bridge.buildResult.has_value
    /\ \A p \in Prober :
         probe[p].at = "asking" /\ bridge.buildResult.has_value =>
             /\ bridge.restoring = NoId /\ bridge.shards = <<>>
             /\ bridge.buildResult.restoredPartitionId
                    \in {NoId} \cup DOMAIN probe[p].files
             /\ bridge.buildResult.hasNullKeys => probe[p].files = <<>>
    /\ \A p \in Prober :
         probe[p].at = "lastProber" /\ hasMoreSpillData(probe[p].files) =>
             /\ bridge.buildResult.has_value
             /\ bridge.restoring = NoId /\ bridge.shards = <<>>
             /\ DOMAIN bridge.partitions = {} => bridge.promises = {}

\* All builders and all probers finish or are closed: none waits for ever for a spill,
\* for its peers, for a table or for a partition.
JoinEnds ==
    state # "kInit" ~>
        /\ \A op \in Operator : build[op].at = "kFinish" \/ pc[op] = "closed"
        /\ \A p \in Prober : probe[p].at \in {"kFinish", "closed"}
=============================================================================
