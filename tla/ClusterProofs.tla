--------------------------- MODULE ClusterProofs ---------------------------
(***************************************************************************)
(* Proofs about the module ClusterLoop: what is proved of the scheduler    *)
(* driven by its untimed rounds holds in the timed loop too, on one        *)
(* machine and on two, whatever the iterations take.  And about the        *)
(* requests the loop serves, with prefill and decode on one machine or on  *)
(* two whose clocks drift apart as they like: none decodes before its      *)
(* prefill is over, none is reported before it was admitted and prefilled, *)
(* and every token of its KV is counted once.                              *)
(***************************************************************************)
EXTENDS ClusterLoop, SchedulerProofs

----------------------------------------------------------------------------
(***************************************************************************)
(* The loop keeps the scheduler's invariant.  The clocks are natural       *)
(* numbers, and an iteration begins when the admission is over, so that it *)
(* may return to fillRunningQueue without a new count of its passes.       *)
(***************************************************************************)
LoopInv ==
  /\ iter_time \in Nat
  /\ sum_machine_time \in Nat
  /\ stat.time \in Nat
  /\ pc \in {"execute", "addLatency"} => to_admit = 0

LEMMA ClusterInitInv == ClusterInit => IInv /\ LoopInv
BY InitIInv DEF ClusterInit, LoopInv, Init

\* What updateSchedulerSumGenSplit does to the batches, to what it returns and
\* to the requests.
LEMMA SumGenSplitEffect ==
  ASSUME IInv, NEW time \in Nat, UpdateSchedulerSumGenSplit(time)
  PROVE  /\ \E done \in SUBSET Running :
              /\ running_queue' = [b \in Dp |-> running_queue[b] \ done]
              /\ token_list' \subseteq Running
         /\ seq' \in [Ids -> Sequence]
         /\ running_queue' \in [Dp -> SUBSET Ids]
         /\ token_list' \subseteq Ids
<1> DEFINE step(s) == [Advance(s, time) EXCEPT
                         !.gen_start_time = total_time + time]
           prefill == {i \in Running : IsSum(i)}
           done == {i \in prefill : IsDone(step(seq[i]))}
<1>1. /\ done \in SUBSET Running
      /\ running_queue' = [b \in Dp |-> running_queue[b] \ done]
      /\ token_list' \subseteq Running
  BY DEF UpdateSchedulerSumGenSplit, UpdateSequences
<1>2. seq' \in [Ids -> Sequence]
  <2>1. \A i \in Ids : seq[i] \in Sequence
    BY DEF IInv, TypeOK
  <2>2. total_time + time \in Int /\ time \in Int
    BY DEF IInv, TypeOK
  <2>3. \A i \in Ids : /\ step(seq[i]) \in Sequence
                       /\ [step(seq[i]) EXCEPT !.record = TRUE] \in Sequence
    <3>1. \A i \in Ids : Advance(seq[i], time) \in Sequence
      BY <2>1, <2>2, AdvanceType
    <3> QED
      BY <2>2, <3>1 DEF Sequence
  <2> QED
    BY <2>1, <2>3 DEF UpdateSchedulerSumGenSplit, UpdateSequences
<1>3. running_queue' \in [Dp -> SUBSET Ids] /\ token_list' \subseteq Ids
  BY <1>1 DEF IInv, TypeOK, Running
<1> QED
  BY <1>1, <1>2, <1>3

LEMMA RunDecodeMachineInv ==
  ASSUME IInv, LoopInv, NEW time \in StepTimes, RunDecodeMachine(time)
  PROVE  IInv' /\ LoopInv'
<1>1. /\ time \in Nat
      /\ UpdateScheduler(time)
      /\ pc' = "addLatency"
      /\ total_time' = total_time + time
  BY ClusterLoopAssumption DEF RunDecodeMachine
<1>2. PICK done \in SUBSET Running :
        /\ running_queue' = [b \in Dp |-> running_queue[b] \ done]
        /\ token_list' \subseteq Running
  BY <1>1, UpdateEffect
<1>3. TypeOK'
  <2>1. /\ seq' \in [Ids -> Sequence]
        /\ running_queue' \in [Dp -> SUBSET Ids]
        /\ token_list' \subseteq Ids
        /\ kv_decode' \in Nat
    BY <1>1, UpdateEffect
  <2>2. total_time' \in Nat
    BY <1>1 DEF IInv, TypeOK
  <2> QED
    BY <1>1, <2>1, <2>2 DEF UpdateScheduler, IInv, TypeOK
<1>4. sequence_queue' = sequence_queue /\ to_admit' = to_admit
  BY <1>1 DEF UpdateScheduler
<1>5. IInv'
  BY <1>1, <1>2, <1>3, <1>4, CollectionKeepsStructure DEF IInv
<1>6. LoopInv'
  <2>1. total_time + time \in Nat
    BY <1>1 DEF IInv, TypeOK
  <2> QED
    BY <1>1, <1>4, <2>1 DEF RunDecodeMachine, Executes, LoopInv
<1> QED
  BY <1>5, <1>6

LEMMA RunSumMachineInv ==
  ASSUME IInv, LoopInv, NEW time \in StepTimes, RunSumMachine(time)
  PROVE  IInv' /\ LoopInv'
<1>1. /\ time \in Nat
      /\ UpdateSchedulerSumGenSplit(time)
      /\ pc' = "addLatency"
      /\ total_time' = total_time
  BY ClusterLoopAssumption DEF RunSumMachine
<1>2. PICK done \in SUBSET Running :
        /\ running_queue' = [b \in Dp |-> running_queue[b] \ done]
        /\ token_list' \subseteq Running
  BY <1>1, SumGenSplitEffect
<1>3. TypeOK'
  <2>1. /\ seq' \in [Ids -> Sequence]
        /\ running_queue' \in [Dp -> SUBSET Ids]
        /\ token_list' \subseteq Ids
    BY <1>1, SumGenSplitEffect
  <2> QED
    BY <1>1, <2>1 DEF UpdateSchedulerSumGenSplit, IInv, TypeOK
<1>4. sequence_queue' = sequence_queue /\ to_admit' = to_admit
  BY <1>1 DEF UpdateSchedulerSumGenSplit
<1>5. IInv'
  BY <1>1, <1>2, <1>3, <1>4, CollectionKeepsStructure DEF IInv
<1>6. LoopInv'
  <2>1. SumStart + time \in Nat
    BY <1>1 DEF IInv, TypeOK, LoopInv, SumStart, Greatest
  <2> QED
    BY <1>1, <1>4, <2>1 DEF RunSumMachine, Executes, LoopInv
<1> QED
  BY <1>5, <1>6

LEMMA AddLatencyInv ==
  ASSUME IInv, LoopInv, AddLatency
  PROVE  IInv' /\ LoopInv'
<1> USE DEF AddLatency
<1>1. seq' \in [Ids -> Sequence]
  <2>1. NoSequence \in Sequence
    BY DEF NoSequence, Sequence
  <2>2. \A i \in Ids : /\ seq[i] \in Sequence
                       /\ DecodeMayStart(seq[i], stat.time) \in Sequence
    <3>1. \A i \in Ids : seq[i] \in Sequence
      BY DEF IInv, TypeOK
    <3>2. stat.time \in Int
      BY DEF LoopInv
    <3> QED
      BY <3>1, <3>2 DEF DecodeMayStart, Sequence
  <2> QED
    BY <2>1, <2>2
<1>2. TypeOK'
  BY <1>1 DEF IInv, TypeOK
<1>3. IInv'
  BY <1>2, StructureUnchanged DEF IInv, LoopInv
<1>4. LoopInv'
  BY DEF LoopInv
<1> QED
  BY <1>3, <1>4

LEMMA SchedulerStepInv ==
  ASSUME IInv, LoopInv, SchedulerStep
  PROVE  IInv' /\ LoopInv'
<1>1. iter_time \in Nat /\ UNCHANGED loopVars
  BY DEF LoopInv, SchedulerStep
<1>2. IInv'
  <2>1. CASE FillSequenceQueue(iter_time)
    BY <1>1, <2>1, FillSequenceQueueIInv
  <2>2. CASE PushDummySeq
    BY <2>2, PushDummySeqIInv
  <2>3. CASE FillRunningQueue
    BY <2>3, FillRunningQueueIInv
  <2>4. CASE AdmitSequence
    BY <2>4, AdmitSequenceIInv
  <2>5. CASE SkipFullBatches
    BY <2>5, SkipFullBatchesIInv
  <2>6. CASE InitialFillDone
    BY <2>6, InitialFillDoneIInv
  <2>7. CASE SetMetadata
    BY <2>7, SetMetadataIInv
  <2>8. CASE HitUpdate
    BY <2>8, HitUpdateIInv
  <2> QED
    BY <2>1, <2>2, <2>3, <2>4, <2>5, <2>6, <2>7, <2>8
    DEF SchedulerStep, FillPass
<1>3. pc' \in {"execute", "addLatency"} => to_admit' = 0
  BY DEF SchedulerStep, FillSequenceQueue, PushDummySeq, FillRunningQueue,
         FillPass, AdmitSequence, SkipFullBatches, InitialFillDone,
         SetMetadata, HitUpdate
<1>4. LoopInv'
  BY <1>1, <1>3 DEF LoopInv, loopVars
<1> QED
  BY <1>2, <1>4

\* No step of the loop leaves the invariant.
LEMMA ClusterNextInv ==
  IInv /\ LoopInv /\ [ClusterNext]_vars => IInv' /\ LoopInv'
<1> SUFFICES ASSUME IInv, LoopInv, [ClusterNext]_vars PROVE IInv' /\ LoopInv'
  OBVIOUS
<1>1. CASE UNCHANGED vars \/ Terminating
  <2>1. UNCHANGED vars
    BY <1>1 DEF Terminating
  <2>2. TypeOK'
    BY <2>1 DEF IInv, TypeOK, vars, schedulerVars
  <2>3. IInv'
    BY <2>1, <2>2, StructureUnchanged DEF IInv, vars, schedulerVars
  <2>4. LoopInv'
    BY <2>1 DEF LoopInv, vars, schedulerVars, loopVars
  <2> QED
    BY <2>3, <2>4
<1>2. CASE SchedulerStep
  BY <1>2, SchedulerStepInv
<1>3. CASE StartTimed \/ StopTimed
  <2>1. TypeOK'
    BY <1>3 DEF StartTimed, StopTimed, IInv, TypeOK
  <2>2. IInv'
    BY <1>3, <2>1, StructureUnchanged DEF StartTimed, StopTimed, IInv
  <2>3. LoopInv'
    BY <1>3 DEF StartTimed, StopTimed, LoopInv
  <2> QED
    BY <2>2, <2>3
<1>4. CASE RunIdle
  <2>1. TypeOK'
    BY <1>4 DEF RunIdle, IInv, TypeOK
  <2>2. IInv'
    BY <1>4, <2>1, StructureUnchanged DEF RunIdle, Executes, IInv, LoopInv
  <2>3. LoopInv'
    BY <1>4 DEF RunIdle, LoopInv
  <2> QED
    BY <2>2, <2>3
<1>5. CASE \E time \in StepTimes : RunDecodeMachine(time)
  BY <1>5, RunDecodeMachineInv
<1>6. CASE \E time \in StepTimes : RunSumMachine(time)
  BY <1>6, RunSumMachineInv
<1>7. CASE AddLatency
  BY <1>7, AddLatencyInv
<1> QED
  BY <1>1, <1>2, <1>3, <1>4, <1>5, <1>6, <1>7 DEF ClusterNext

\* The invariant holds in every state of the loop.
THEOREM LoopInvariance == ClusterSpec => [](IInv /\ LoopInv)
BY ClusterInitInv, ClusterNextInv, PTL DEF ClusterSpec

\* In the timed loop no batch ever holds more than batch_size_per_dp requests.
THEOREM LoopRespectsCapacity == ClusterSpec => []WithinCapacity
<1>1. IInv => WithinCapacity
  BY DEF IInv
<1> QED
  BY <1>1, LoopInvariance, PTL

\* In the timed loop a request is in the queue or in one batch, and there once.
THEOREM LoopKeepsOnePlace == ClusterSpec => []InOnePlace
<1>1. IInv => InOnePlace
  BY DEF IInv
<1> QED
  BY <1>1, LoopInvariance, PTL

----------------------------------------------------------------------------
(***************************************************************************)
(* The loop is a batch server, and has no zombies.                         *)
(***************************************************************************)

\* An update of either kind lets requests leave.
LEMMA MachineCompletes ==
  ASSUME IInv, NEW time \in StepTimes,
         RunDecodeMachine(time) \/ RunSumMachine(time),
         ~UNCHANGED <<sequence_queue, running_queue>>
  PROVE  \E S \in SUBSET Ids : Server!Complete(S)
<1>1. time \in Nat
  BY ClusterLoopAssumption
<1>2. CASE RunDecodeMachine(time)
  BY <1>1, <1>2, UpdateCompletes DEF RunDecodeMachine
<1>3. CASE RunSumMachine(time)
  <2>1. UpdateSchedulerSumGenSplit(time)
    BY <1>3 DEF RunSumMachine
  <2>2. PICK done \in SUBSET Running :
          running_queue' = [b \in Dp |-> running_queue[b] \ done]
    BY <1>1, <2>1, SumGenSplitEffect
  <2>3. sequence_queue' = sequence_queue
    BY <2>1 DEF UpdateSchedulerSumGenSplit
  <2> QED
    BY <2>2, <2>3, CollectionCompletes
<1> QED
  BY <1>2, <1>3

\* First come, first served, with room, in one place, out once: on one machine
\* or on two, every behaviour of the loop is one of the batch server.
THEOREM LoopImplementsBatchServer == ClusterSpec => ImplementsBatchServer
<1>1. ClusterInit => Server!Init
  BY DEF ClusterInit, Init, Server!Init
<1>2. IInv /\ LoopInv /\ [ClusterNext]_vars
        => [Server!Next]_<<sequence_queue, running_queue>>
  <2> SUFFICES ASSUME IInv, LoopInv, [ClusterNext]_vars,
                      ~UNCHANGED <<sequence_queue, running_queue>>
               PROVE  Server!Next
    OBVIOUS
  <2>1. CASE PushDummySeq
    BY <2>1, PushArrives DEF Server!Next
  <2>2. CASE AdmitSequence
    BY <2>2, AdmitAdmits DEF Server!Next
  <2>3. CASE HitUpdate
    BY <2>3, UpdateCompletes DEF HitUpdate, Server!Next
  <2>4. CASE \E time \in StepTimes :
               RunDecodeMachine(time) \/ RunSumMachine(time)
    BY <2>4, MachineCompletes DEF Server!Next
  <2>5. CASE \/ FillSequenceQueue(iter_time) \/ FillRunningQueue
             \/ SkipFullBatches \/ InitialFillDone \/ SetMetadata
    BY <2>5 DEF FillSequenceQueue, FillRunningQueue, SkipFullBatches,
                InitialFillDone, SetMetadata
  <2>6. CASE StartTimed \/ StopTimed \/ RunIdle \/ AddLatency
    BY <2>6 DEF StartTimed, StopTimed, RunIdle, AddLatency
  <2>7. CASE Terminating \/ UNCHANGED vars
    BY <2>7 DEF Terminating, vars, schedulerVars
  <2> QED
    BY <2>1, <2>2, <2>3, <2>4, <2>5, <2>6, <2>7
    DEF ClusterNext, SchedulerStep, FillPass
<1> QED
  BY <1>1, <1>2, LoopInvariance, PTL
  DEF ClusterSpec, ImplementsBatchServer, Server!Spec

\* The requests in prefill advance, the others stay as they are.
LEMMA SumGenSplitNoZombie ==
  ASSUME IInv, NoZombieInv, NEW time \in Nat, UpdateSchedulerSumGenSplit(time)
  PROVE  NoZombieInv'
<1> DEFINE step(i) == [Advance(seq[i], time) EXCEPT
                         !.gen_start_time = total_time + time]
           prefill == {i \in Running : IsSum(i)}
           done == {i \in prefill : IsDone(step(i))}
<1>1. /\ running_queue' = [b \in Dp |-> running_queue[b] \ done]
      /\ sequence_queue' = sequence_queue
  BY DEF UpdateSchedulerSumGenSplit, UpdateSequences
<1>2. /\ seq \in [Ids -> Sequence]
      /\ Running \subseteq Ids
      /\ Queued \subseteq Ids
  BY DEF IInv, TypeOK, Running, Queued
<1>3. \A i \in Queued : seq'[i] = seq[i]
  BY <1>2 DEF UpdateSchedulerSumGenSplit, UpdateSequences, IInv, InOnePlace
<1>4. \A i \in Running :
        \/ seq'[i] = seq[i] /\ i \notin prefill
        \/ seq'[i] = step(i)
        \/ seq'[i] = [step(i) EXCEPT !.record = TRUE]
  BY <1>2 DEF UpdateSchedulerSumGenSplit, UpdateSequences
<1>5. Running' = Running \ done /\ Queued' = Queued
  BY <1>1 DEF Running, Queued
<1>6. ASSUME NEW i \in Running \ done
      PROVE  Unfinished(seq'[i])
  <2>1. seq[i] \in Sequence
    BY <1>2
  <2>2. Unfinished(seq[i])
    BY DEF NoZombieInv, Live
  <2>3. CASE i \notin prefill
    BY <1>2, <2>2, <2>3
    DEF UpdateSchedulerSumGenSplit, UpdateSequences
  <2>4. CASE i \in prefill
    <3> DEFINE a == Advance(seq[i], time)
    <3>1. /\ a \in Sequence
          /\ [a EXCEPT !.record = TRUE] \in Sequence
      <4>1. time \in Int
        OBVIOUS
      <4> QED
        BY <2>1, <4>1, AdvanceType
    <3>2. ~IsDone(step(i))
      BY <2>4
    <3>3. ~IsDone(a)
      BY <3>1, <3>2 DEF IsDone, Sequence
    <3>4. Unfinished(a)
      BY <2>1, <2>2, <3>3, AdvanceUnfinished
    <3> HIDE DEF a
    <3>5. /\ Unfinished([a EXCEPT !.gen_start_time = total_time + time])
          /\ Unfinished([[a EXCEPT !.gen_start_time = total_time + time]
                           EXCEPT !.record = TRUE])
      BY <3>1, <3>4 DEF Unfinished, Sequence
    <3>6. \/ seq'[i] = [a EXCEPT !.gen_start_time = total_time + time]
          \/ seq'[i] = [[a EXCEPT !.gen_start_time = total_time + time]
                          EXCEPT !.record = TRUE]
      BY <1>4, <2>4 DEF a
    <3> QED
      BY <3>5, <3>6
  <2> QED
    BY <2>3, <2>4
<1> HIDE DEF done, step
<1> QED
  BY <1>3, <1>5, <1>6 DEF NoZombieInv, Live

\* addLatency drops only requests that no batch and no queue holds.
LEMMA AddLatencyNoZombie ==
  ASSUME IInv, NoZombieInv, AddLatency
  PROVE  NoZombieInv'
<1>1. /\ seq \in [Ids -> Sequence]
      /\ Live \subseteq Ids
  BY DEF IInv, TypeOK, Live, Running, Queued
<1>2. Queued' = Queued /\ Live' = Live
  BY DEF AddLatency, Running, Queued, Live
<1>3. ASSUME NEW i \in Live
      PROVE  \/ seq'[i] = seq[i]
             \/ seq'[i] = [seq[i] EXCEPT !.gen_start_time = stat.time]
  BY <1>1, <1>3
  DEF AddLatency, DecodeMayStart, IInv, ReturnedNotQueued, Live
<1>4. \A i \in Live : /\ Unfinished(seq'[i])
                      /\ seq'[i].num_process_token = seq[i].num_process_token
  <2> SUFFICES ASSUME NEW i \in Live
               PROVE  /\ Unfinished(seq'[i])
                      /\ seq'[i].num_process_token = seq[i].num_process_token
    OBVIOUS
  <2>1. seq[i] \in Sequence /\ Unfinished(seq[i])
    BY <1>1 DEF NoZombieInv
  <2>2. CASE seq'[i] = seq[i]
    BY <2>1, <2>2
  <2>3. CASE seq'[i] = [seq[i] EXCEPT !.gen_start_time = stat.time]
    BY <2>1, <2>3 DEF Unfinished, Sequence
  <2> QED
    BY <1>3, <2>2, <2>3
<1> QED
  BY <1>2, <1>4 DEF NoZombieInv, Live

LEMMA ClusterNextNoZombie ==
  ASSUME ProperWorkload
  PROVE  IInv /\ LoopInv /\ NoZombieInv /\ [ClusterNext]_vars => NoZombieInv'
<1> SUFFICES ASSUME IInv, LoopInv, NoZombieInv, [ClusterNext]_vars
             PROVE  NoZombieInv'
  OBVIOUS
<1>1. CASE FillSequenceQueue(iter_time)
  BY <1>1, FillSequenceQueueNoZombie DEF LoopInv
<1>2. CASE PushDummySeq
  BY <1>2, PushDummySeqNoZombie
<1>3. CASE AdmitSequence
  BY <1>3, AdmitSequenceNoZombie
<1>4. CASE SetMetadata
  BY <1>4, SetMetadataNoZombie
<1>5. CASE HitUpdate
  BY <1>5, UpdateSchedulerNoZombie DEF HitUpdate
<1>6. CASE \E time \in StepTimes : RunDecodeMachine(time)
  BY <1>6, ClusterLoopAssumption, UpdateSchedulerNoZombie
  DEF RunDecodeMachine
<1>7. CASE \E time \in StepTimes : RunSumMachine(time)
  BY <1>7, ClusterLoopAssumption, SumGenSplitNoZombie DEF RunSumMachine
<1>8. CASE AddLatency
  BY <1>8, AddLatencyNoZombie
<1>9. CASE \/ FillRunningQueue \/ SkipFullBatches \/ InitialFillDone
           \/ StartTimed \/ StopTimed \/ RunIdle \/ Terminating
           \/ UNCHANGED vars
  <2>1. UNCHANGED <<seq, sequence_queue, running_queue>>
    BY <1>9 DEF FillRunningQueue, SkipFullBatches, InitialFillDone,
                StartTimed, StopTimed, RunIdle, Terminating, vars,
                schedulerVars
  <2> QED
    BY <2>1, NoZombieUnchanged
<1> QED
  BY <1>1, <1>2, <1>3, <1>4, <1>5, <1>6, <1>7, <1>8, <1>9
  DEF ClusterNext, SchedulerStep, FillPass

\* With a proper workload the timed loop collects every request: the tokens a
\* decode keeps while the other machine prefills never carry it past
\* total_len.
THEOREM LoopHasNoZombie ==
  ASSUME ProperWorkload
  PROVE  ClusterSpec => []NoZombie
<1>1. ClusterInit => NoZombieInv
  BY InitNoZombieInv DEF ClusterInit
<1>2. IInv /\ LoopInv /\ NoZombieInv /\ [ClusterNext]_vars => NoZombieInv'
  BY ClusterNextNoZombie
<1> QED
  BY <1>1, <1>2, NoZombieFollows, LoopInvariance, PTL DEF ClusterSpec
----------------------------------------------------------------------------
(***************************************************************************)
(* Latency rows tell the time.  On one machine a running request accounts  *)
(* for every tick since its arrival, and as long as its first token is not *)
(* reported its two latencies run together.                                *)
(***************************************************************************)
OneClock == system_config.use_inject_rate /\ ~system_config.disagg_system

Fresh(s) == /\ s.sum_stage
            /\ ~s.record
            /\ s.first_token_time = 0
            /\ s.end_token_time = 0

AccountsFor(s, time) ==
  s.arrival_time + s.queueing_delay + s.end_token_time = time

InStep(s) == /\ ~s.record => s.sum_stage
             /\ s.sum_stage => s.first_token_time = s.end_token_time

Reports(s, time) ==
  /\ AccountsFor(s, time)
  /\ ~IsDone(s) => s.first_token_time = s.end_token_time

ClockInv ==
  OneClock =>
    /\ \A i \in Queued : Fresh(seq[i])
    /\ \A i \in Running : InStep(seq[i]) /\ AccountsFor(seq[i], total_time)
    /\ pc = "addLatency" => \A i \in token_list : Reports(seq[i], stat.time)

\* The fields of a request that advances.
LEMMA AdvanceFields ==
  ASSUME NEW s \in Sequence, NEW time \in Int
  PROVE  LET a == Advance(s, time)
         IN /\ a.end_token_time = s.end_token_time + time
            /\ s.sum_stage =>
                 a.first_token_time = s.first_token_time + time
            /\ a.sum_stage <=> /\ s.sum_stage
                               /\ a.current_len # s.input_len
            /\ a.record = s.record
            /\ a.input_len = s.input_len
            /\ a.total_len = s.total_len
            /\ a.current_len = s.current_len + s.num_process_token
            /\ a.num_process_token = 0
            /\ a.arrival_time = s.arrival_time
            /\ a.queueing_delay = s.queueing_delay
            /\ a.gen_start_time = s.gen_start_time
BY DEF Advance, Sequence

\* A request that advances: what an update returns may be reported, and what
\* stays is in step.
LEMMA AdvanceInStep ==
  ASSUME NEW s \in Sequence, NEW time \in Nat, NEW now \in Nat,
         InStep(s), AccountsFor(s, now)
  PROVE  LET a == Advance(s, time)
             r == [a EXCEPT !.record = TRUE]
         IN /\ AccountsFor(a, now + time)
            /\ AccountsFor(r, now + time)
            /\ IsDone(a) => Reports(a, now + time)
            /\ IsFirstToken(a) => InStep(r) /\ Reports(r, now + time)
            /\ ~IsFirstToken(a) => InStep(a)
<1> DEFINE a == Advance(s, time)
           r == [a EXCEPT !.record = TRUE]
<1>1. time \in Int
  OBVIOUS
<1>2. a \in Sequence /\ r \in Sequence
  BY <1>1, AdvanceType
<1>3. /\ a.end_token_time = s.end_token_time + time
      /\ s.sum_stage => a.first_token_time = s.first_token_time + time
      /\ a.sum_stage <=> s.sum_stage /\ a.current_len # s.input_len
      /\ a.record = s.record
      /\ a.input_len = s.input_len
      /\ a.arrival_time = s.arrival_time
      /\ a.queueing_delay = s.queueing_delay
  BY <1>1, AdvanceFields
<1> HIDE DEF a
<1>4. AccountsFor(a, now + time)
  BY <1>3 DEF AccountsFor, Sequence
<1>5. /\ r.end_token_time = a.end_token_time
      /\ r.first_token_time = a.first_token_time
      /\ r.sum_stage = a.sum_stage
      /\ r.record = TRUE
      /\ r.arrival_time = a.arrival_time
      /\ r.queueing_delay = a.queueing_delay
  BY <1>2 DEF Sequence
<1> HIDE DEF r
<1>6. AccountsFor(r, now + time)
  BY <1>4, <1>5 DEF AccountsFor
<1>7. s.sum_stage => a.first_token_time = a.end_token_time
  BY <1>3 DEF InStep
<1>8. IsDone(a) => Reports(a, now + time)
  BY <1>4 DEF Reports
<1>9. IsFirstToken(a) => InStep(r) /\ Reports(r, now + time)
  <2>1. IsFirstToken(a) => s.sum_stage
    BY <1>3 DEF IsFirstToken, InStep
  <2> QED
    BY <1>5, <1>6, <1>7, <2>1 DEF InStep, Reports
<1>10. ~IsFirstToken(a) => InStep(a)
  BY <1>3, <1>7 DEF IsFirstToken, InStep
<1> QED
  BY <1>4, <1>6, <1>8, <1>9, <1>10 DEF a, r

\* An action that moves no request, touches none that lives and leaves the
\* clock alone.
LEMMA ClockUnchanged ==
  ASSUME ClockInv,
         UNCHANGED <<system_config, sequence_queue, running_queue,
                     total_time>>,
         \A i \in Live : seq'[i] = seq[i],
         pc' # "addLatency"
  PROVE  ClockInv'
<1>1. Queued' = Queued /\ Running' = Running /\ (OneClock <=> OneClock')
  BY DEF Running, Queued, OneClock
<1> QED
  BY <1>1 DEF ClockInv, Live

LEMMA FillSequenceQueueClock ==
  ASSUME IInv, ClockInv, FillSequenceQueue(iter_time)
  PROVE  ClockInv'
<1>1. \A i \in Live : i \in Ids /\ i \notin token_list \ Running
  BY DEF Live, IInv, TypeOK, ReturnedNotQueued, Running, Queued
<1>2. \A i \in Live : seq'[i] = seq[i]
  BY <1>1 DEF FillSequenceQueue
<1> QED
  BY <1>2, ClockUnchanged DEF FillSequenceQueue

LEMMA PushDummySeqClock ==
  ASSUME IInv, ClockInv, PushDummySeq
  PROVE  ClockInv'
<1>1. UNCHANGED <<system_config, running_queue, total_time, pc>>
  BY DEF PushDummySeq
<1>2. pc = "pushSeq"
  BY DEF PushDummySeq
<1>3. CASE UNCHANGED <<seq, sequence_queue>>
  BY <1>1, <1>2, <1>3, ClockUnchanged
<1>4. CASE ~UNCHANGED <<seq, sequence_queue>>
  <2> DEFINE id == CHOOSE i \in FreeIds : TRUE
             idx == to_push[2] - to_push[1]
  <2>1. PICK l \in system_config.lengths :
          /\ FreeIds # {}
          /\ seq' = [seq EXCEPT ![id] =
                       NewSequence(l[1], l[2], idx, to_push[2])]
          /\ sequence_queue' = Append(sequence_queue, id)
    BY <1>4 DEF PushDummySeq
  <2>2. id \in Ids /\ id \notin Running /\ id \notin Queued
    BY <2>1, FreeIdIsNew
  <2> DEFINE new == NewSequence(l[1], l[2], idx, to_push[2])
  <2>3. Fresh(new)
    BY DEF NewSequence, NoSequence, Fresh
  <2> HIDE DEF id, idx, new
  <2>4. /\ seq'[id] = new
        /\ \A i \in Running \union Queued : seq'[i] = seq[i]
    BY <2>1, <2>2 DEF IInv, TypeOK, Running, Queued, new, idx
  <2>5. Running' = Running /\ Queued' = Queued \union {id}
    BY <1>1, <2>1, <2>2, QueuedAppend DEF IInv, TypeOK, Running
  <2>6. OneClock' => OneClock
    BY <1>1 DEF OneClock
  <2> QED
    BY <1>1, <1>2, <2>3, <2>4, <2>5, <2>6 DEF ClockInv
<1> QED
  BY <1>3, <1>4

\* Which request admission moves, and what becomes of it.
LEMMA AdmitSequenceClock ==
  ASSUME IInv, ClockInv, AdmitSequence
  PROVE  ClockInv'
<1> SUFFICES ASSUME OneClock' PROVE ClockInv'
  BY DEF ClockInv
<1> DEFINE id == Head(sequence_queue)
<1>1. OneClock /\ pc' # "addLatency" /\ total_time' = total_time
  BY DEF AdmitSequence, OneClock
<1>2. seq' = [seq EXCEPT ![id].queueing_delay =
                           total_time - seq[id].arrival_time]
  BY <1>1 DEF AdmitSequence, OneClock
<1>3. sequence_queue \in Seq(Ids) /\ sequence_queue # <<>>
  BY DEF AdmitSequence, IInv, TypeOK, WithinCapacity
<1>4. id \in Queued /\ id \in Ids /\ id \notin Running
  BY <1>3, HeadAndTail DEF Queued, IInv, InOnePlace
<1>5. PICK b \in Dp :
        running_queue' = [running_queue EXCEPT ![b] = @ \union {id}]
  BY RotationType DEF AdmitSequence, IInv, TypeOK
<1>6. /\ seq \in [Ids -> Sequence]
      /\ running_queue \in [Dp -> SUBSET Ids]
      /\ total_time \in Nat
      /\ Running \subseteq Ids
      /\ Queued \subseteq Ids
  BY DEF IInv, TypeOK, Running, Queued
<1> HIDE DEF id
<1>7. Running' \subseteq Running \union {id}
  BY <1>5, <1>6 DEF Running
<1>8. Queued' \subseteq Queued \ {id}
  <2>1. \A j \in 1 .. Len(sequence_queue') :
          /\ sequence_queue'[j] = sequence_queue[j + 1]
          /\ j + 1 \in 1 .. Len(sequence_queue)
          /\ j + 1 # 1
    BY <1>3, HeadAndTail DEF AdmitSequence
  <2>2. id = sequence_queue[1] /\ 1 \in 1 .. Len(sequence_queue)
    BY <1>3, HeadAndTail DEF id
  <2> QED
    BY <2>1, <2>2 DEF Queued, IInv, InOnePlace
<1>9. \A i \in Ids \ {id} : seq'[i] = seq[i]
  BY <1>2, <1>6
<1>10. InStep(seq'[id]) /\ AccountsFor(seq'[id], total_time)
  <2>1. Fresh(seq[id]) /\ seq[id] \in Sequence
    BY <1>1, <1>4, <1>6 DEF ClockInv
  <2>2. /\ seq'[id].sum_stage = seq[id].sum_stage
        /\ seq'[id].record = seq[id].record
        /\ seq'[id].first_token_time = seq[id].first_token_time
        /\ seq'[id].end_token_time = seq[id].end_token_time
        /\ seq'[id].arrival_time = seq[id].arrival_time
        /\ seq'[id].queueing_delay = total_time - seq[id].arrival_time
    BY <1>2, <1>4, <1>6, <2>1 DEF Sequence
  <2>3. seq[id].arrival_time \in Int
    BY <2>1 DEF Sequence
  <2> QED
    BY <1>6, <2>1, <2>2, <2>3 DEF Fresh, InStep, AccountsFor
<1> QED
  BY <1>1, <1>4, <1>6, <1>7, <1>8, <1>9, <1>10 DEF ClockInv

LEMMA SetMetadataClock ==
  ASSUME IInv, ClockInv, SetMetadata
  PROVE  ClockInv'
<1>1. /\ Running' = Running /\ Queued' = Queued
      /\ OneClock' => OneClock
      /\ pc' # "addLatency"
      /\ total_time' = total_time
  BY DEF SetMetadata, Running, Queued, OneClock
<1>2. /\ seq \in [Ids -> Sequence]
      /\ Running \subseteq Ids
      /\ Queued \subseteq Ids
      /\ Running \intersect Queued = {}
  BY DEF IInv, TypeOK, InOnePlace, Running, Queued
<1>3. \A i \in Queued : seq'[i] = seq[i]
  BY <1>2 DEF SetMetadata
<1>4. ASSUME NEW i \in Running
      PROVE  /\ seq'[i].sum_stage = seq[i].sum_stage
             /\ seq'[i].record = seq[i].record
             /\ seq'[i].first_token_time = seq[i].first_token_time
             /\ seq'[i].end_token_time = seq[i].end_token_time
             /\ seq'[i].arrival_time = seq[i].arrival_time
             /\ seq'[i].queueing_delay = seq[i].queueing_delay
  <2>1. seq'[i] = [seq[i] EXCEPT !.num_process_token =
                                   ProcessTokens(BatchOf(i), i)]
    BY <1>2 DEF SetMetadata
  <2>2. seq[i] \in Sequence
    BY <1>2
  <2> QED
    BY <2>1, <2>2 DEF Sequence
<1> QED
  BY <1>1, <1>3, <1>4 DEF ClockInv, InStep, AccountsFor

\* All running requests advance by the time of the iteration.
LEMMA UpdateSchedulerClock ==
  ASSUME IInv, ClockInv, NEW time \in Nat, UpdateScheduler(time),
         total_time' = total_time + time,
         pc' = "addLatency" => stat'.time = total_time'
  PROVE  ClockInv'
<1> SUFFICES ASSUME OneClock' PROVE ClockInv'
  BY DEF ClockInv
<1> DEFINE a(i) == Advance(seq[i], time)
           r(i) == [Advance(seq[i], time) EXCEPT !.record = TRUE]
           done == {i \in Running : IsDone(a(i))}
           first == {i \in Running \ done : IsFirstToken(a(i))}
<1>1. /\ OneClock
      /\ sequence_queue' = sequence_queue
      /\ running_queue' = [b \in Dp |-> running_queue[b] \ done]
      /\ token_list' = done \union first
  BY DEF UpdateScheduler, UpdateSequences, OneClock
<1>2. /\ seq \in [Ids -> Sequence]
      /\ Running \subseteq Ids
      /\ Queued \subseteq Ids
      /\ Running \intersect Queued = {}
      /\ total_time \in Nat
  BY DEF IInv, TypeOK, InOnePlace, Running, Queued
<1>3. /\ \A i \in Queued : seq'[i] = seq[i]
      /\ \A i \in first : seq'[i] = r(i)
      /\ \A i \in Running \ first : seq'[i] = a(i)
  BY <1>2 DEF UpdateScheduler, UpdateSequences
<1>4. Running' = Running \ done /\ Queued' = Queued
  BY <1>1 DEF Running, Queued
<1>5. \A i \in Running :
        /\ AccountsFor(a(i), total_time')
        /\ AccountsFor(r(i), total_time')
        /\ IsDone(a(i)) => Reports(a(i), total_time')
        /\ IsFirstToken(a(i)) => InStep(r(i)) /\ Reports(r(i), total_time')
        /\ ~IsFirstToken(a(i)) => InStep(a(i))
  <2>1. \A i \in Running : /\ seq[i] \in Sequence
                           /\ InStep(seq[i])
                           /\ AccountsFor(seq[i], total_time)
    BY <1>1, <1>2 DEF ClockInv
  <2> QED
    BY <1>2, <2>1, AdvanceInStep
<1>6. /\ \A i \in first : IsFirstToken(a(i)) /\ i \in Running
      /\ \A i \in done : IsDone(a(i)) /\ i \in Running \ first
      /\ \A i \in Running' \ first :
           ~IsFirstToken(a(i)) /\ i \in Running \ first
  BY <1>4
<1> HIDE DEF a, r, done, first
<1>7. \A i \in Queued' : Fresh(seq'[i])
  BY <1>1, <1>3, <1>4 DEF ClockInv
<1>8. \A i \in Running' : InStep(seq'[i]) /\ AccountsFor(seq'[i], total_time')
  BY <1>3, <1>5, <1>6
<1>9. pc' = "addLatency" => \A i \in token_list' : Reports(seq'[i], stat'.time)
  BY <1>1, <1>3, <1>5, <1>6
<1> QED
  BY <1>7, <1>8, <1>9 DEF ClockInv

LEMMA AddLatencyClock ==
  ASSUME IInv, ClockInv, AddLatency
  PROVE  ClockInv'
<1>1. /\ Running' = Running /\ Queued' = Queued
      /\ OneClock' => OneClock
      /\ pc' # "addLatency"
      /\ total_time' = total_time
  BY DEF AddLatency, Running, Queued, OneClock
<1>2. /\ seq \in [Ids -> Sequence]
      /\ Live \subseteq Ids
  BY DEF IInv, TypeOK, Live, Running, Queued
<1>3. ASSUME NEW i \in Live
      PROVE  \/ seq'[i] = seq[i]
             \/ seq'[i] = [seq[i] EXCEPT !.gen_start_time = stat.time]
  BY <1>2, <1>3
  DEF AddLatency, DecodeMayStart, IInv, ReturnedNotQueued, Live
<1>4. ASSUME NEW i \in Live
      PROVE  /\ seq'[i].sum_stage = seq[i].sum_stage
             /\ seq'[i].record = seq[i].record
             /\ seq'[i].first_token_time = seq[i].first_token_time
             /\ seq'[i].end_token_time = seq[i].end_token_time
             /\ seq'[i].arrival_time = seq[i].arrival_time
             /\ seq'[i].queueing_delay = seq[i].queueing_delay
  <2>1. seq[i] \in Sequence
    BY <1>2
  <2>2. PICK s : s = seq[i]
    OBVIOUS
  <2>3. PICK t : t = [s EXCEPT !.gen_start_time = stat.time]
    OBVIOUS
  <2>4. /\ t.sum_stage = s.sum_stage
        /\ t.record = s.record
        /\ t.first_token_time = s.first_token_time
        /\ t.end_token_time = s.end_token_time
        /\ t.arrival_time = s.arrival_time
        /\ t.queueing_delay = s.queueing_delay
    BY <2>1, <2>2, <2>3 DEF Sequence
  <2>5. seq'[i] = s \/ seq'[i] = t
    BY <1>3, <2>2, <2>3
  <2> QED
    BY <2>2, <2>4, <2>5
<1> QED
  BY <1>1, <1>4 DEF ClockInv, InStep, AccountsFor, Fresh, Live

\* The rows addLatency writes, and no other step, tell the time.
LEMMA RowsFollow ==
  ASSUME IInv, ClockInv, RowsTellTheTime, [ClusterNext]_vars
  PROVE  RowsTellTheTime'
<1>1. UNCHANGED system_config
  BY DEF ClusterNext, SchedulerStep, FillSequenceQueue, PushDummySeq,
         FillRunningQueue, FillPass, AdmitSequence, SkipFullBatches,
         InitialFillDone,
         SetMetadata, HitUpdate, UpdateScheduler, StartTimed, StopTimed,
         RunIdle, RunDecodeMachine, RunSumMachine, UpdateSchedulerSumGenSplit,
         AddLatency, Terminating, vars, schedulerVars
<1>2. CASE AddLatency
  <2> SUFFICES ASSUME OneClock, NEW row \in rows'
               PROVE  row.arrival_time + row.queueing_delay + row.latency
                        = row.time
    BY <1>1 DEF RowsTellTheTime, OneClock
  <2>1. PICK i \in token_list : row = LatencyRow(i, stat.time)
    BY <1>2 DEF AddLatency
  <2>2. Reports(seq[i], stat.time)
    BY <1>2 DEF AddLatency, ClockInv
  <2> QED
    BY <2>1, <2>2 DEF LatencyRow, Reports, AccountsFor
<1>3. CASE ~AddLatency
  <2>1. UNCHANGED rows
    BY <1>3 DEF ClusterNext, SchedulerStep, StartTimed, StopTimed, RunIdle,
                RunDecodeMachine, RunSumMachine, Terminating, vars, loopVars
  <2> QED
    BY <1>1, <2>1 DEF RowsTellTheTime
<1> QED
  BY <1>2, <1>3

LEMMA ClusterNextClock ==
  IInv /\ LoopInv /\ ClockInv /\ [ClusterNext]_vars => ClockInv'
<1> SUFFICES ASSUME IInv, LoopInv, ClockInv, [ClusterNext]_vars
             PROVE  ClockInv'
  OBVIOUS
<1>1. CASE FillSequenceQueue(iter_time)
  BY <1>1, FillSequenceQueueClock
<1>2. CASE PushDummySeq
  BY <1>2, PushDummySeqClock
<1>3. CASE AdmitSequence
  BY <1>3, AdmitSequenceClock
<1>4. CASE SetMetadata
  BY <1>4, SetMetadataClock
<1>5. CASE HitUpdate
  <2>1. /\ UpdateScheduler(0)
        /\ total_time' = total_time
        /\ pc' # "addLatency"
    BY <1>5 DEF HitUpdate
  <2>2. total_time' = total_time + 0
    BY <2>1 DEF IInv, TypeOK
  <2> QED
    BY <2>1, <2>2, UpdateSchedulerClock
<1>6. CASE \E time \in StepTimes : RunDecodeMachine(time)
  <2>1. PICK time \in StepTimes : RunDecodeMachine(time)
    BY <1>6
  <2>2. /\ time \in Nat
        /\ UpdateScheduler(time)
        /\ total_time' = total_time + time
        /\ stat'.time = total_time'
    BY <2>1, ClusterLoopAssumption DEF RunDecodeMachine
  <2> QED
    BY <2>2, UpdateSchedulerClock
<1>7. CASE \E time \in StepTimes : RunSumMachine(time)
  BY <1>7 DEF RunSumMachine, UpdateSchedulerSumGenSplit, ClockInv, OneClock
<1>8. CASE AddLatency
  BY <1>8, AddLatencyClock
<1>9. CASE FillRunningQueue \/ SkipFullBatches \/ InitialFillDone
             \/ StartTimed \/ StopTimed \/ RunIdle
  <2>1. /\ UNCHANGED <<system_config, seq, sequence_queue, running_queue,
                       total_time>>
        /\ pc' # "addLatency"
    BY <1>9 DEF FillRunningQueue, SkipFullBatches, InitialFillDone,
                StartTimed, StopTimed, AtLoopTop, RunIdle
  <2> QED
    BY <2>1, ClockUnchanged
<1>10. CASE Terminating \/ UNCHANGED vars
  <2>1. UNCHANGED <<system_config, seq, sequence_queue, running_queue,
                    total_time, token_list, pc, stat>>
    BY <1>10 DEF Terminating, vars, schedulerVars, loopVars
  <2> QED
    BY <2>1 DEF ClockInv, OneClock, Running, Queued
<1> QED
  BY <1>1, <1>2, <1>3, <1>4, <1>5, <1>6, <1>7, <1>8, <1>9, <1>10
  DEF ClusterNext, SchedulerStep, FillPass

\* On one machine each latency row accounts for the whole time from the arrival
\* of its request to the row, whatever the iterations take and however the
\* requests overtake each other.
THEOREM LoopRowsTellTheTime == ClusterSpec => []RowsTellTheTime
<1>1. ClusterInit => ClockInv /\ RowsTellTheTime
  BY DEF ClusterInit, Init, ClockInv, RowsTellTheTime, Running, Queued
<1>2. IInv /\ LoopInv /\ ClockInv /\ [ClusterNext]_vars => ClockInv'
  BY ClusterNextClock
<1>3. IInv /\ ClockInv /\ RowsTellTheTime /\ [ClusterNext]_vars
        => RowsTellTheTime'
  BY RowsFollow
<1> QED
  BY <1>1, <1>2, <1>3, LoopInvariance, PTL DEF ClusterSpec
----------------------------------------------------------------------------
(***************************************************************************)
(* The loop's variables are of their types.  That iterations_left does not *)
(* fall below 0 rests on setMetadata, which only begins an iteration that  *)
(* is left, and that the passes do not, on the places the batches have.    *)
(***************************************************************************)
CountInv ==
  /\ to_push \in Nat \X Nat
  /\ to_admit \in Nat
  /\ phase \in {"hitting", "timed", "done"}
  /\ iterations_left \in 0 .. Iter
  /\ pc \in {"execute", "addLatency"} => iterations_left > 0
  /\ iter_time \in StepTimes \union {0}
  /\ stat \in [type : {"t2t", "sum"}, time : Nat]
  /\ rows \subseteq Row
  /\ prefill_end \in [Ids -> Nat]

\* Neither the warm-up nor a window asks for a negative number of requests.
LEMMA RequestsToInjectNat ==
  ASSUME IInv, NEW time \in Nat
  PROVE  RequestsToInject(time) \in Nat
<1>1. /\ BatchSize \in Nat
      /\ TotalBatch - BatchSize \in Nat
  <2>1. /\ BatchSize \in Nat /\ AllPlaces \in Nat
        /\ BatchSize <= AllPlaces /\ AllPlaces <= TotalBatch
    BY BatchSizeBound
  <2> QED
    BY <2>1, SchedulerAssumption
<1>2. (7 * TotalBatch) \div 10 \in Int
  BY SchedulerAssumption
<1>3. ArrivalsIn(total_time - time, total_time) \in Nat
  <2>1. total_time \in Int /\ total_time - time \in Int
    BY DEF IInv, TypeOK
  <2> QED
    BY <2>1, ArrivalsInType DEF IInv
<1>4. Greatest(0, (7 * TotalBatch) \div 10 - BatchSize) \in Nat
  BY <1>1, <1>2 DEF Greatest
<1> QED
  BY <1>1, <1>3, <1>4 DEF RequestsToInject

LEMMA PassesNat ==
  ASSUME IInv
  PROVE  Passes \in Nat
<1>1. TotalBatch - BatchSize \in Nat
  <2>1. /\ BatchSize \in Nat /\ AllPlaces \in Nat
        /\ BatchSize <= AllPlaces /\ AllPlaces <= TotalBatch
    BY BatchSizeBound
  <2> QED
    BY <2>1, SchedulerAssumption
<1>2. Len(sequence_queue) \in Nat
  BY DEF IInv, TypeOK
<1> QED
  BY <1>1, <1>2 DEF Passes, Least

LEMMA SchedulerStepCount ==
  ASSUME IInv, LoopInv, CountInv, SchedulerStep
  PROVE  CountInv'
<1>1. UNCHANGED <<phase, iterations_left, iter_time, stat, rows, prefill_end>>
  BY DEF SchedulerStep, loopVars
<1>2. /\ to_push' \in Nat \X Nat
      /\ to_admit' \in Nat
      /\ pc' \in {"execute", "addLatency"} => iterations_left > 0
  <2>1. CASE FillSequenceQueue(iter_time)
    <3>1. RequestsToInject(iter_time) \in Nat
      BY RequestsToInjectNat DEF LoopInv
    <3> QED
      BY <2>1, <3>1 DEF FillSequenceQueue, CountInv
  <2>2. CASE PushDummySeq
    <3>1. /\ to_push[1] > 0
          /\ to_push' = [to_push EXCEPT ![1] = @ - 1]
          /\ pc = "pushSeq"
          /\ UNCHANGED <<pc, to_admit>>
      BY <2>2 DEF PushDummySeq
    <3>2. to_push \in Nat \X Nat
      BY DEF CountInv
    <3>3. to_push' \in Nat \X Nat
      BY <3>1, <3>2
    <3> QED
      BY <3>1, <3>3 DEF CountInv
  <2>3. CASE FillRunningQueue
    BY <2>3, PassesNat DEF FillRunningQueue, CountInv
  <2>4. CASE FillPass
    BY <2>4 DEF FillPass, AdmitSequence, SkipFullBatches, CountInv
  <2>5. CASE InitialFillDone
    BY <2>5 DEF InitialFillDone, CountInv
  <2>6. CASE IterationRemains /\ SetMetadata
    BY <2>6 DEF IterationRemains, SetMetadata, CountInv
  <2>7. CASE HitUpdate
    BY <2>7 DEF HitUpdate, UpdateScheduler, CountInv
  <2> QED
    BY <2>1, <2>2, <2>3, <2>4, <2>5, <2>6, <2>7 DEF SchedulerStep
<1> QED
  BY <1>1, <1>2 DEF CountInv

\* The history of the prefills is a time for every identity.
LEMMA PrefillEndsType ==
  ASSUME CountInv, NEW time \in Nat, PrefillEndsAt(time)
  PROVE  prefill_end' \in [Ids -> Nat]
BY DEF CountInv, PrefillEndsAt

LEMMA RunDecodeMachineCount ==
  ASSUME IInv, LoopInv, CountInv, NEW time \in StepTimes,
         RunDecodeMachine(time)
  PROVE  CountInv'
<1>1. /\ iterations_left > 0
      /\ UNCHANGED <<to_push, to_admit, phase, iterations_left, rows>>
      /\ iter_time' = time
      /\ stat' = [type |-> "t2t", time |-> total_time + time]
      /\ PrefillEndsAt(total_time + time)
  BY DEF RunDecodeMachine, Executes, UpdateScheduler, CountInv
<1>2. total_time + time \in Nat
  BY ClusterLoopAssumption DEF IInv, TypeOK
<1>3. prefill_end' \in [Ids -> Nat]
  BY <1>1, <1>2, PrefillEndsType
<1> QED
  BY <1>1, <1>2, <1>3 DEF CountInv

LEMMA RunSumMachineCount ==
  ASSUME IInv, LoopInv, CountInv, NEW time \in StepTimes, RunSumMachine(time)
  PROVE  CountInv'
<1>1. /\ iterations_left > 0
      /\ UNCHANGED <<to_push, to_admit, phase, iterations_left, rows>>
      /\ iter_time' = time
      /\ stat' = [type |-> "sum", time |-> SumStart + time]
      /\ PrefillEndsAt(SumStart + time)
  BY DEF RunSumMachine, Executes, UpdateSchedulerSumGenSplit, CountInv
<1>2. SumStart + time \in Nat
  BY ClusterLoopAssumption DEF IInv, TypeOK, LoopInv, SumStart, Greatest
<1>3. prefill_end' \in [Ids -> Nat]
  BY <1>1, <1>2, PrefillEndsType
<1> QED
  BY <1>1, <1>2, <1>3 DEF CountInv

LEMMA AddLatencyCount ==
  ASSUME IInv, CountInv, AddLatency
  PROVE  CountInv'
<1>1. /\ UNCHANGED <<to_push, to_admit, phase, iter_time, stat, prefill_end>>
      /\ pc = "addLatency"
      /\ pc' \notin {"execute", "addLatency"}
      /\ iterations_left' = iterations_left - 1
  BY DEF AddLatency
<1>2. iterations_left' \in 0 .. Iter
  BY <1>1, ClusterLoopAssumption DEF CountInv
<1>3. rows' \subseteq Row
  <2> SUFFICES ASSUME NEW i \in token_list
               PROVE  LatencyRow(i, stat.time) \in Row
    BY DEF AddLatency
  <2>1. i \in Ids /\ seq[i] \in Sequence /\ stat.time \in Nat
    BY DEF IInv, TypeOK, CountInv
  <2> QED
    BY <2>1 DEF LatencyRow, Row, Sequence
<1> QED
  BY <1>1, <1>2, <1>3 DEF CountInv

LEMMA ClusterNextCount ==
  IInv /\ LoopInv /\ CountInv /\ [ClusterNext]_vars => CountInv'
<1> SUFFICES ASSUME IInv, LoopInv, CountInv, [ClusterNext]_vars
             PROVE  CountInv'
  OBVIOUS
<1>1. CASE SchedulerStep
  BY <1>1, SchedulerStepCount
<1>2. CASE StartTimed \/ StopTimed
  BY <1>2 DEF StartTimed, StopTimed, AtLoopTop, CountInv
<1>3. CASE RunIdle
  <2>1. /\ UNCHANGED <<to_push, to_admit, phase, iter_time, stat, rows,
                       prefill_end>>
        /\ pc = "execute"
        /\ pc' = "fillRunningQueue"
        /\ iterations_left' = iterations_left - 1
    BY <1>3 DEF RunIdle, Executes
  <2>2. iterations_left' \in 0 .. Iter
    BY <2>1, ClusterLoopAssumption DEF CountInv
  <2> QED
    BY <2>1, <2>2 DEF CountInv
<1>4. CASE \E time \in StepTimes : RunDecodeMachine(time)
  BY <1>4, RunDecodeMachineCount
<1>5. CASE \E time \in StepTimes : RunSumMachine(time)
  BY <1>5, RunSumMachineCount
<1>6. CASE AddLatency
  BY <1>6, AddLatencyCount
<1>7. CASE Terminating \/ UNCHANGED vars
  BY <1>7 DEF Terminating, vars, schedulerVars, loopVars, CountInv
<1> QED
  BY <1>1, <1>2, <1>3, <1>4, <1>5, <1>6, <1>7 DEF ClusterNext

\* The invariant holds in every state of the loop.
THEOREM CountInvariance == ClusterSpec => []CountInv
<1>1. ClusterInit => CountInv
  BY ClusterLoopAssumption DEF ClusterInit, Init, CountInv
<1> QED
  BY <1>1, ClusterNextCount, LoopInvariance, PTL DEF ClusterSpec

\* The timed loop keeps every variable in its type: no clock runs back past 0,
\* no iteration more than it was told is begun, and neither loop over requests
\* makes a negative number of passes.
THEOREM ClusterTypeCorrect == ClusterSpec => []ClusterTypeOK
<1>1. IInv /\ LoopInv /\ CountInv => ClusterTypeOK
  BY DEF IInv, TypeOK, LoopInv, CountInv, ClusterTypeOK
<1> QED
  BY <1>1, LoopInvariance, CountInvariance, PTL
----------------------------------------------------------------------------
(***************************************************************************)
(* Each arrival is injected once.  The arrivals of a run are ascending, as *)
(* sums of the gaps between them (scheduler.cpp:841), and no request is    *)
(* without output: pushDummySeq would drop it and leave its arrival time   *)
(* to the next one (scheduler.cpp:78).  Then as many arrival times were    *)
(* handed out as lie before the clock, less the window that the last       *)
(* iteration of the decode machine opened and pushSeq has not worked off.  *)
(***************************************************************************)
ProperArrivals ==
  \A c \in Configs : c.use_inject_rate =>
    /\ \A j, k \in DOMAIN c.actual_arrival_time :
         j <= k => c.actual_arrival_time[j] <= c.actual_arrival_time[k]
    /\ \A l \in c.lengths : l[2] # 0

Timed == system_config.use_inject_rate /\ phase # "hitting"

\* The last iteration was one of the decode machine, and it took time.
WindowOpen ==
  /\ iter_time \in Nat \ {0}
  /\ iter_time <= total_time
  /\ cur_arrival_time_idx = ArrivalsIn(0, total_time - iter_time)

HandedOut ==
  /\ pc \in {"fillRunningQueue", "execute"}
       => cur_arrival_time_idx = ArrivalsIn(0, total_time)
  /\ pc = "addLatency" /\ stat.type = "sum"
       => cur_arrival_time_idx = ArrivalsIn(0, total_time)
  /\ pc = "addLatency" /\ stat.type = "t2t" => WindowOpen
  /\ pc = "fillSequenceQueue" => WindowOpen
  /\ pc = "pushSeq" =>
       cur_arrival_time_idx + to_push[1] = ArrivalsIn(0, total_time)

Untimed == total_time = 0 /\ iter_time = 0 /\ cur_arrival_time_idx = 0

InjectInv ==
  system_config.use_inject_rate =>
    /\ phase = "hitting" => Untimed
    /\ phase # "hitting" => HandedOut
    /\ \A i \in Live : seq[i].arrival_time <= total_time

\* Two windows that meet are one.
LEMMA WindowsMeet ==
  ASSUME TypeOK, NEW from \in Int, NEW mid \in Int, NEW to \in Int,
         from <= mid, mid <= to
  PROVE  ArrivalsIn(from, mid) + ArrivalsIn(mid, to) = ArrivalsIn(from, to)
<1> DEFINE arrivals == system_config.actual_arrival_time
           window(a, b) == {k \in DOMAIN arrivals : /\ a <= arrivals[k]
                                                    /\ arrivals[k] < b}
<1>1. arrivals \in Seq(Nat)
  BY ConfigType DEF Configuration
<1>2. /\ IsFiniteSet(DOMAIN arrivals)
      /\ \A k \in DOMAIN arrivals : arrivals[k] \in Nat
  BY <1>1, FS_Interval
<1>3. \A a, b \in Int : /\ IsFiniteSet(window(a, b))
                        /\ Cardinality(window(a, b)) \in Nat
                        /\ ArrivalsIn(a, b) = Cardinality(window(a, b))
  BY <1>2, FS_Subset, FS_CardinalityType DEF ArrivalsIn
<1>4. /\ window(from, mid) \union window(mid, to) = window(from, to)
      /\ window(from, mid) \intersect window(mid, to) = {}
  BY <1>2
<1> HIDE DEF window
<1>5. Cardinality(window(from, to))
        = Cardinality(window(from, mid)) + Cardinality(window(mid, to))
  <2>1. PICK left : left = window(from, mid)
    OBVIOUS
  <2>2. PICK right : right = window(mid, to)
    OBVIOUS
  <2>3. IsFiniteSet(left) /\ IsFiniteSet(right) /\ left \intersect right = {}
    BY <1>3, <1>4, <2>1, <2>2
  <2>4. Cardinality(left \union right)
          = Cardinality(left) + Cardinality(right) - Cardinality({})
    BY <2>3, FS_Union
  <2>5. Cardinality({}) = 0
    BY FS_EmptySet
  <2>6. Cardinality(left) \in Nat /\ Cardinality(right) \in Nat
    BY <2>3, FS_CardinalityType
  <2>7. Cardinality(left \union right) = Cardinality(left) + Cardinality(right)
    BY <2>4, <2>5, <2>6
  <2>8. left \union right = window(from, to)
    BY <1>4, <2>1, <2>2
  <2> QED
    BY <2>1, <2>2, <2>7, <2>8
<1> QED
  BY <1>3, <1>5

\* Of ascending arrivals the next one lies before the clock when not all of
\* those were handed out.
LEMMA NextArrivalIsPast ==
  ASSUME ProperArrivals, TypeOK, system_config.use_inject_rate,
         NEW time \in Nat, NEW n \in Nat, n < ArrivalsIn(0, time)
  PROVE  /\ n < Len(system_config.actual_arrival_time)
         /\ system_config.actual_arrival_time[n + 1] < time
<1> DEFINE arrivals == system_config.actual_arrival_time
           window == {k \in DOMAIN arrivals : /\ 0 <= arrivals[k]
                                              /\ arrivals[k] < time}
<1>1. /\ arrivals \in Seq(Nat)
      /\ \A j, k \in DOMAIN arrivals : j <= k => arrivals[j] <= arrivals[k]
  BY ConfigType DEF Configuration, ProperArrivals, TypeOK
<1>2. /\ DOMAIN arrivals = 1 .. Len(arrivals)
      /\ Len(arrivals) \in Nat
      /\ \A k \in DOMAIN arrivals : arrivals[k] \in Nat
  BY <1>1
<1>3. ArrivalsIn(0, time) = Cardinality(window)
  BY DEF ArrivalsIn
<1>4. \A m \in Nat : window \subseteq 1 .. m => ArrivalsIn(0, time) <= m
  <2> SUFFICES ASSUME NEW m \in Nat, window \subseteq 1 .. m
               PROVE  ArrivalsIn(0, time) <= m
    OBVIOUS
  <2> HIDE DEF window
  <2>0. 1 \in Int /\ m \in Int
    OBVIOUS
  <2>1. IsFiniteSet(1 .. m) /\ Cardinality(1 .. m) = m
    <3>1. /\ IsFiniteSet(1 .. m)
          /\ Cardinality(1 .. m) = IF 1 > m THEN 0 ELSE m - 1 + 1
      BY <2>0, FS_Interval
    <3> QED
      BY <3>1
  <2>2. Cardinality(window) <= Cardinality(1 .. m)
    BY <2>1, FS_Subset
  <2> QED
    BY <1>3, <2>1, <2>2
<1>5. n < Len(arrivals)
  <2>1. window \subseteq 1 .. Len(arrivals)
    BY <1>2
  <2> HIDE DEF window, arrivals
  <2>2. ArrivalsIn(0, time) <= Len(arrivals)
    BY <1>2, <1>4, <2>1
  <2>3. ArrivalsIn(0, time) \in Int
    BY ArrivalsInType
  <2> QED
    BY <1>2, <2>2, <2>3
<1>6. ASSUME arrivals[n + 1] >= time
      PROVE  FALSE
  <2>1. n + 1 \in DOMAIN arrivals
    BY <1>2, <1>5
  <2>2. ASSUME NEW k \in window
        PROVE  k \in 1 .. n
    <3>1. k \in DOMAIN arrivals /\ arrivals[k] < time
      OBVIOUS
    <3>2. n + 1 <= k => arrivals[n + 1] <= arrivals[k]
      BY <1>1, <2>1, <3>1
    <3>3. /\ arrivals[k] \in Int /\ arrivals[n + 1] \in Int
          /\ k \in 1 .. Len(arrivals)
      BY <1>2, <2>1, <3>1
    <3> HIDE DEF window, arrivals
    <3> QED
      BY <1>2, <1>6, <3>1, <3>2, <3>3
  <2>3. ArrivalsIn(0, time) <= n
    BY <1>4, <2>2
  <2>4. ArrivalsIn(0, time) \in Int
    BY ArrivalsInType
  <2> QED
    BY <2>3, <2>4
<1>7. arrivals[n + 1] \in Int
  BY <1>2, <1>5
<1> QED
  BY <1>5, <1>6, <1>7

\* Before the clock runs nothing has arrived.
LEMMA NothingBeforeZero ==
  ASSUME TypeOK
  PROVE  ArrivalsIn(0, 0) = 0
<1>1. {k \in DOMAIN system_config.actual_arrival_time :
         /\ 0 <= system_config.actual_arrival_time[k]
         /\ system_config.actual_arrival_time[k] < 0} = {}
  <2> SUFFICES ASSUME NEW k \in DOMAIN system_config.actual_arrival_time,
                      0 <= system_config.actual_arrival_time[k],
                      system_config.actual_arrival_time[k] < 0
               PROVE  FALSE
    OBVIOUS
  <2>1. system_config.actual_arrival_time \in Seq(Nat)
    BY ConfigType DEF Configuration
  <2>2. system_config.actual_arrival_time[k] \in Nat
    BY <2>1
  <2> QED
    BY <2>2
<1> QED
  BY <1>1, FS_EmptySet DEF ArrivalsIn

LEMMA InitInjectInv == ClusterInit => InjectInv
BY DEF ClusterInit, Init, InjectInv, Untimed, Live, Running, Queued

\* An action that leaves the clock, the count and the requests that live alone.
LEMMA InjectUnchanged ==
  ASSUME InjectInv,
         UNCHANGED <<system_config, sequence_queue, running_queue, total_time,
                     iter_time, cur_arrival_time_idx, phase>>,
         \A i \in Live : seq'[i].arrival_time = seq[i].arrival_time,
         Timed => HandedOut'
  PROVE  InjectInv'
<1>1. Live' = Live
  BY DEF Live, Running, Queued
<1> QED
  BY <1>1 DEF InjectInv, Untimed, Timed

LEMMA FillSequenceQueueInject ==
  ASSUME IInv, LoopInv, CountInv, InjectInv, FillSequenceQueue(iter_time),
         UNCHANGED loopVars
  PROVE  InjectInv'
<1>1. /\ UNCHANGED <<system_config, sequence_queue, running_queue, total_time,
                     iter_time, cur_arrival_time_idx, phase>>
      /\ pc = "fillSequenceQueue" /\ pc' = "pushSeq"
      /\ to_push' = <<RequestsToInject(iter_time),
                      RequestsToInject(iter_time)>>
  BY DEF FillSequenceQueue, loopVars
<1>2. \A i \in Live : i \in Ids /\ i \notin token_list \ Running
  BY DEF Live, IInv, TypeOK, ReturnedNotQueued, Running, Queued
<1>3. \A i \in Live : seq'[i].arrival_time = seq[i].arrival_time
  BY <1>2 DEF FillSequenceQueue
<1>4. Timed => HandedOut'
  <2> SUFFICES ASSUME Timed
               PROVE  cur_arrival_time_idx + to_push'[1]
                        = ArrivalsIn(0, total_time)'
    BY <1>1 DEF HandedOut
  <2>1. WindowOpen
    BY <1>1 DEF Timed, InjectInv, HandedOut
  <2>2. to_push'[1] = ArrivalsIn(total_time - iter_time, total_time)
    BY <1>1, <2>1 DEF Timed, WindowOpen, RequestsToInject
  <2>3. /\ total_time \in Int /\ total_time - iter_time \in Int
        /\ 0 <= total_time - iter_time /\ total_time - iter_time <= total_time
    BY <2>1 DEF WindowOpen, IInv, TypeOK
  <2>4. ArrivalsIn(0, total_time - iter_time)
          + ArrivalsIn(total_time - iter_time, total_time)
            = ArrivalsIn(0, total_time)
    BY <2>3, WindowsMeet DEF IInv
  <2>5. ArrivalsIn(0, total_time)' = ArrivalsIn(0, total_time)
    BY <1>1 DEF ArrivalsIn
  <2> QED
    BY <2>1, <2>2, <2>4, <2>5 DEF WindowOpen
<1> QED
  BY <1>1, <1>3, <1>4, InjectUnchanged

\* A request that is pushed in the timed loop takes the next arrival time, and
\* has arrived.
LEMMA PushDummySeqInject ==
  ASSUME ProperArrivals, IInv, CountInv, InjectInv, PushDummySeq,
         UNCHANGED loopVars
  PROVE  InjectInv'
<1> SUFFICES ASSUME system_config'.use_inject_rate
             PROVE  InjectInv'
  BY DEF InjectInv
<1> DEFINE id == CHOOSE i \in FreeIds : TRUE
           idx == to_push[2] - to_push[1]
           arrivals == system_config.actual_arrival_time
<1>1. /\ UNCHANGED <<system_config, running_queue, total_time, iter_time,
                     phase, pc>>
      /\ system_config.use_inject_rate
      /\ pc = "pushSeq"
      /\ to_push[1] > 0
      /\ to_push' = [to_push EXCEPT ![1] = @ - 1]
  BY DEF PushDummySeq, loopVars
<1>2. \A l \in system_config.lengths : l[2] # 0
  BY <1>1 DEF ProperArrivals, IInv, TypeOK
<1>3. PICK l \in system_config.lengths :
        /\ FreeIds # {}
        /\ seq' = [seq EXCEPT ![id] =
                     NewSequence(l[1], l[2], idx, to_push[2])]
        /\ sequence_queue' = Append(sequence_queue, id)
        /\ cur_arrival_time_idx' =
             IF total_time > 0
             THEN Least(cur_arrival_time_idx + 1, Len(arrivals))
             ELSE cur_arrival_time_idx
  BY <1>2 DEF PushDummySeq
<1>4. id \in Ids /\ id \notin Running /\ id \notin Queued
  BY <1>3, FreeIdIsNew
<1> DEFINE new == NewSequence(l[1], l[2], idx, to_push[2])
<1>5. new.arrival_time = NextArrival
  BY DEF NewSequence, NoSequence
<1> HIDE DEF id, idx, new
<1>6. /\ seq'[id] = new
      /\ \A i \in Live : seq'[i] = seq[i]
  BY <1>3, <1>4 DEF IInv, TypeOK, Live, Running, Queued, new, idx
<1>7. Live' = Live \union {id}
  BY <1>1, <1>3, <1>4, QueuedAppend DEF IInv, TypeOK, Live, Running
<1>8. /\ total_time \in Nat /\ cur_arrival_time_idx \in Nat
      /\ to_push[1] \in Nat /\ to_push'[1] = to_push[1] - 1
  BY <1>1 DEF IInv, TypeOK, CountInv
<1>9. CASE phase = "hitting"
  <2>1. Untimed
    BY <1>1, <1>9 DEF InjectInv
  <2>2. Untimed' /\ new.arrival_time = 0
    BY <1>1, <1>3, <1>5, <2>1 DEF Untimed, NextArrival
  <2> QED
    BY <1>1, <1>6, <1>7, <1>9, <2>1, <2>2 DEF InjectInv, Untimed
<1>10. CASE phase # "hitting"
  <2>1. cur_arrival_time_idx + to_push[1] = ArrivalsIn(0, total_time)
    BY <1>1, <1>10 DEF InjectInv, HandedOut
  <2>2. cur_arrival_time_idx < ArrivalsIn(0, total_time)
    BY <1>1, <1>8, <2>1
  <2>3. /\ cur_arrival_time_idx < Len(arrivals)
        /\ arrivals[cur_arrival_time_idx + 1] < total_time
    BY <1>1, <1>8, <2>2, NextArrivalIsPast DEF IInv
  <2>4. total_time # 0
    BY <1>8, <2>2, NothingBeforeZero DEF IInv
  <2>5. new.arrival_time = arrivals[cur_arrival_time_idx + 1]
    BY <1>5, <2>3, <2>4 DEF NextArrival
  <2>6. arrivals \in Seq(Nat) /\ Len(arrivals) \in Nat
    BY ConfigType DEF IInv, Configuration
  <2>7. arrivals[cur_arrival_time_idx + 1] \in Int
    BY <1>8, <2>3, <2>6
  <2>8. new.arrival_time <= total_time
    BY <1>8, <2>3, <2>5, <2>7
  <2>9. cur_arrival_time_idx' = cur_arrival_time_idx + 1
    <3>1. total_time > 0
      BY <1>8, <2>4
    <3> HIDE DEF arrivals
    <3>2. Least(cur_arrival_time_idx + 1, Len(arrivals))
            = cur_arrival_time_idx + 1
      BY <1>8, <2>3, <2>6 DEF Least
    <3> QED
      BY <1>3, <3>1, <3>2
  <2>10. ArrivalsIn(0, total_time)' = ArrivalsIn(0, total_time)
    BY <1>1 DEF ArrivalsIn
  <2>11. (cur_arrival_time_idx + to_push[1])' = ArrivalsIn(0, total_time)'
    BY <1>8, <2>1, <2>9, <2>10
  <2>12. HandedOut'
    BY <1>1, <2>11 DEF HandedOut
  <2>13. \A i \in Live' : seq'[i].arrival_time <= total_time'
    BY <1>1, <1>6, <1>7, <2>8 DEF InjectInv
  <2> QED
    BY <1>1, <1>10, <2>12, <2>13 DEF InjectInv
<1> QED
  BY <1>9, <1>10
LEMMA AdmitSequenceInject ==
  ASSUME IInv, InjectInv, AdmitSequence, UNCHANGED loopVars
  PROVE  InjectInv'
<1>1. /\ UNCHANGED <<system_config, total_time, iter_time,
                     cur_arrival_time_idx, phase, pc>>
      /\ pc = "fillRunningQueue"
      /\ seq' = IF system_config.use_inject_rate
                THEN [seq EXCEPT ![Head(sequence_queue)].queueing_delay =
                        total_time - seq[Head(sequence_queue)].arrival_time]
                ELSE seq
  BY DEF AdmitSequence, loopVars
<1>2. seq \in [Ids -> Sequence] /\ Live \subseteq Ids
  BY DEF IInv, TypeOK, Live, Running, Queued
<1>3. ASSUME NEW i \in Ids
      PROVE  seq'[i].arrival_time = seq[i].arrival_time
  <2>1. seq[i] \in Sequence
    BY <1>2
  <2> QED
    BY <1>1, <1>2, <2>1 DEF Sequence
<1>4. Live' \subseteq Live
  BY AdmitMoves
<1>5. HandedOut => HandedOut'
  BY <1>1 DEF HandedOut, ArrivalsIn
<1> QED
  BY <1>1, <1>2, <1>3, <1>4, <1>5 DEF InjectInv, Untimed

\* What a request was given when it was created stays.
LEMMA AdvanceArrival ==
  ASSUME NEW s \in Sequence, NEW time \in Nat, NEW now \in Int
  PROVE  LET a == Advance(s, time)
             g == [a EXCEPT !.gen_start_time = now]
         IN /\ a.arrival_time = s.arrival_time
            /\ [a EXCEPT !.record = TRUE].arrival_time = s.arrival_time
            /\ g.arrival_time = s.arrival_time
            /\ [g EXCEPT !.record = TRUE].arrival_time = s.arrival_time
<1>1. PICK a : a = Advance(s, time)
  OBVIOUS
<1>2. a \in Sequence /\ a.arrival_time = s.arrival_time
  <2>1. time \in Int
    OBVIOUS
  <2> QED
    BY <1>1, <2>1, AdvanceType, AdvanceFields
<1>3. PICK g : g = [a EXCEPT !.gen_start_time = now]
  OBVIOUS
<1>4. g \in Sequence /\ g.arrival_time = a.arrival_time
  BY <1>2, <1>3 DEF Sequence
<1> QED
  BY <1>1, <1>2, <1>3, <1>4 DEF Sequence

LEMMA UpdateSchedulerArrivals ==
  ASSUME IInv, NEW time \in Nat, UpdateScheduler(time)
  PROVE  /\ Live' \subseteq Live
         /\ \A i \in Live : seq'[i].arrival_time = seq[i].arrival_time
<1>1. /\ seq \in [Ids -> Sequence] /\ Live \subseteq Ids
      /\ total_time \in Int
  BY DEF IInv, TypeOK, Live, Running, Queued
<1>2. Live' \subseteq Live
  <2>1. PICK done \in SUBSET Running :
          running_queue' = [b \in Dp |-> running_queue[b] \ done]
    BY UpdateEffect
  <2> QED
    BY <2>1 DEF UpdateScheduler, Live, Running, Queued
<1>3. ASSUME NEW i \in Live
      PROVE  seq'[i].arrival_time = seq[i].arrival_time
  <2>1. \/ seq'[i] = seq[i]
        \/ seq'[i] = Advance(seq[i], time)
        \/ seq'[i] = [Advance(seq[i], time) EXCEPT !.record = TRUE]
    BY <1>1 DEF UpdateScheduler, UpdateSequences
  <2>2. seq[i] \in Sequence
    BY <1>1
  <2>3. /\ Advance(seq[i], time).arrival_time = seq[i].arrival_time
        /\ [Advance(seq[i], time) EXCEPT !.record = TRUE].arrival_time
             = seq[i].arrival_time
    BY <1>1, <2>2, AdvanceArrival
  <2> QED
    BY <2>1, <2>3
<1> QED
  BY <1>2, <1>3

LEMMA RunDecodeMachineInject ==
  ASSUME IInv, LoopInv, InjectInv, NEW time \in StepTimes,
         RunDecodeMachine(time)
  PROVE  InjectInv'
<1>1. /\ time \in Nat \ {0}
      /\ UpdateScheduler(time)
      /\ UNCHANGED <<system_config, cur_arrival_time_idx, phase>>
      /\ phase = "timed" /\ pc = "execute" /\ pc' = "addLatency"
      /\ total_time' = total_time + time
      /\ iter_time' = time
      /\ stat'.type = "t2t"
  BY ClusterLoopAssumption DEF RunDecodeMachine, Executes, UpdateScheduler
<1>2. total_time \in Nat
  BY DEF IInv, TypeOK
<1>3. system_config.use_inject_rate => WindowOpen'
  <2>1. system_config.use_inject_rate =>
          cur_arrival_time_idx = ArrivalsIn(0, total_time)
    BY <1>1 DEF InjectInv, HandedOut
  <2>2. (total_time - iter_time)' = total_time
    BY <1>1, <1>2
  <2>3. ArrivalsIn(0, total_time - iter_time)' = ArrivalsIn(0, total_time)
    BY <1>1, <2>2 DEF ArrivalsIn
  <2> QED
    BY <1>1, <1>2, <2>1, <2>3 DEF WindowOpen
<1>4. \A i \in Live' : /\ i \in Live
                       /\ seq'[i].arrival_time = seq[i].arrival_time
                       /\ seq[i].arrival_time \in Int
  <2>1. \A i \in Live : seq[i] \in Sequence
    BY DEF IInv, TypeOK, Live, Running, Queued
  <2> QED
    BY <1>1, <2>1, UpdateSchedulerArrivals DEF Sequence
<1>5. system_config.use_inject_rate =>
        \A i \in Live' : seq'[i].arrival_time <= total_time'
  BY <1>1, <1>2, <1>4 DEF InjectInv
<1> QED
  BY <1>1, <1>3, <1>5 DEF InjectInv, HandedOut

LEMMA RunSumMachineInject ==
  ASSUME IInv, LoopInv, InjectInv, NEW time \in StepTimes,
         RunSumMachine(time)
  PROVE  InjectInv'
<1>1. /\ time \in Nat
      /\ UpdateSchedulerSumGenSplit(time)
      /\ UNCHANGED <<system_config, cur_arrival_time_idx, phase, total_time,
                     sequence_queue>>
      /\ phase = "timed" /\ pc = "execute" /\ pc' = "addLatency"
      /\ stat'.type = "sum"
  BY ClusterLoopAssumption
  DEF RunSumMachine, Executes, UpdateSchedulerSumGenSplit
<1>2. /\ seq \in [Ids -> Sequence] /\ Live \subseteq Ids
      /\ total_time + time \in Int
  BY <1>1 DEF IInv, TypeOK, Live, Running, Queued
<1>3. Live' \subseteq Live
  <2>1. PICK done \in SUBSET Running :
          running_queue' = [b \in Dp |-> running_queue[b] \ done]
    BY <1>1, SumGenSplitEffect
  <2> QED
    BY <1>1, <2>1 DEF Live, Running, Queued
<1>4. ASSUME NEW i \in Live
      PROVE  seq'[i].arrival_time = seq[i].arrival_time
  <2> DEFINE g == [Advance(seq[i], time) EXCEPT
                     !.gen_start_time = total_time + time]
  <2>1. seq'[i] = seq[i] \/ seq'[i] = g \/ seq'[i] = [g EXCEPT !.record = TRUE]
    BY <1>1, <1>2 DEF UpdateSchedulerSumGenSplit, UpdateSequences
  <2>2. /\ g.arrival_time = seq[i].arrival_time
        /\ [g EXCEPT !.record = TRUE].arrival_time = seq[i].arrival_time
    BY <1>1, <1>2, AdvanceArrival
  <2> HIDE DEF g
  <2> QED
    BY <2>1, <2>2
<1>5. system_config.use_inject_rate =>
        /\ HandedOut'
        /\ \A i \in Live' : seq'[i].arrival_time <= total_time'
  BY <1>1, <1>3, <1>4 DEF InjectInv, HandedOut, ArrivalsIn
<1> QED
  BY <1>1, <1>5 DEF InjectInv

\* Only an iteration of the decode machine opens a window.
LEMMA AddLatencyInject ==
  ASSUME IInv, CountInv, InjectInv, AddLatency
  PROVE  InjectInv'
<1>1. /\ UNCHANGED <<system_config, sequence_queue, running_queue, total_time,
                     iter_time, cur_arrival_time_idx, phase, stat>>
      /\ pc = "addLatency"
      /\ pc' = IF stat.type = "sum" THEN "fillRunningQueue"
                                    ELSE "fillSequenceQueue"
      /\ stat.type \in {"t2t", "sum"}
  BY DEF AddLatency, CountInv
<1>2. ASSUME NEW i \in Live
      PROVE  seq'[i].arrival_time = seq[i].arrival_time
  <2>1. \/ seq'[i] = seq[i]
        \/ seq'[i] = [seq[i] EXCEPT !.gen_start_time = stat.time]
    <3>1. i \in Ids
      BY DEF IInv, TypeOK, Live, Running, Queued
    <3>2. i \notin Running => i \notin token_list
      BY DEF IInv, ReturnedNotQueued, Live
    <3> QED
      BY <3>1, <3>2 DEF AddLatency, DecodeMayStart
  <2>2. seq[i] \in Sequence
    BY DEF IInv, TypeOK, Live, Running, Queued
  <2> QED
    BY <2>1, <2>2 DEF Sequence
<1>3. Timed => HandedOut'
  BY <1>1 DEF Timed, InjectInv, HandedOut, WindowOpen, ArrivalsIn
<1> QED
  BY <1>1, <1>2, <1>3, InjectUnchanged

LEMMA SchedulerStepInject ==
  ASSUME ProperArrivals, IInv, LoopInv, CountInv, InjectInv, SchedulerStep
  PROVE  InjectInv'
<1>1. UNCHANGED loopVars /\ UNCHANGED <<iter_time, phase, stat>>
  BY DEF SchedulerStep, loopVars
<1>2. CASE FillSequenceQueue(iter_time)
  BY <1>1, <1>2, FillSequenceQueueInject
<1>3. CASE PushDummySeq
  BY <1>1, <1>3, PushDummySeqInject
<1>4. CASE AdmitSequence
  BY <1>1, <1>4, AdmitSequenceInject
<1>5. CASE FillRunningQueue
  <2>1. Timed => HandedOut'
    <3>1. pc = "pushSeq" /\ to_push[1] = 0 /\ pc' = "fillRunningQueue"
          /\ UNCHANGED <<system_config, total_time, cur_arrival_time_idx>>
      BY <1>5 DEF FillRunningQueue
    <3>2. cur_arrival_time_idx + 0 = cur_arrival_time_idx
      BY DEF IInv, TypeOK
    <3> QED
      BY <3>1, <3>2 DEF Timed, InjectInv, HandedOut, ArrivalsIn
  <2> QED
    BY <1>1, <1>5, <2>1, InjectUnchanged DEF FillRunningQueue
<1>6. CASE SkipFullBatches \/ InitialFillDone
  <2>1. /\ UNCHANGED <<system_config, seq, sequence_queue, running_queue,
                       total_time, cur_arrival_time_idx, pc>>
        /\ pc = "fillRunningQueue"
    BY <1>6 DEF SkipFullBatches, InitialFillDone
  <2>2. Timed => HandedOut'
    BY <2>1 DEF Timed, InjectInv, HandedOut, ArrivalsIn
  <2> QED
    BY <1>1, <2>1, <2>2, InjectUnchanged
<1>7. CASE SetMetadata
  <2>1. /\ UNCHANGED <<system_config, sequence_queue, running_queue,
                       total_time, cur_arrival_time_idx>>
        /\ pc = "fillRunningQueue" /\ pc' = "execute"
    BY <1>7 DEF SetMetadata
  <2>2. Timed => HandedOut'
    BY <2>1 DEF Timed, InjectInv, HandedOut, ArrivalsIn
  <2>3. ASSUME NEW i \in Live
        PROVE  seq'[i].arrival_time = seq[i].arrival_time
    <3>1. seq[i] \in Sequence /\ i \in Ids
      BY DEF IInv, TypeOK, Live, Running, Queued
    <3>2. \/ seq'[i] = seq[i]
          \/ seq'[i] = [seq[i] EXCEPT !.num_process_token =
                                        ProcessTokens(BatchOf(i), i)]
      BY <1>7, <3>1 DEF SetMetadata
    <3> QED
      BY <3>1, <3>2 DEF Sequence
  <2> QED
    BY <1>1, <2>1, <2>2, <2>3, InjectUnchanged
<1>8. CASE phase = "hitting" /\ HitUpdate
  <2>1. /\ UpdateScheduler(0)
        /\ UNCHANGED <<system_config, total_time, cur_arrival_time_idx>>
    BY <1>8 DEF HitUpdate, UpdateScheduler
  <2>2. /\ Live' \subseteq Live
        /\ \A i \in Live : seq'[i].arrival_time = seq[i].arrival_time
    BY <2>1, UpdateSchedulerArrivals
  <2> QED
    BY <1>1, <1>8, <2>1, <2>2 DEF InjectInv, Untimed
<1> QED
  BY <1>2, <1>3, <1>4, <1>5, <1>6, <1>7, <1>8 DEF SchedulerStep, FillPass

LEMMA ClusterNextInject ==
  ASSUME ProperArrivals
  PROVE  IInv /\ LoopInv /\ CountInv /\ InjectInv /\ [ClusterNext]_vars
           => InjectInv'
<1> SUFFICES ASSUME IInv, LoopInv, CountInv, InjectInv, [ClusterNext]_vars
             PROVE  InjectInv'
  OBVIOUS
<1>1. CASE SchedulerStep
  BY <1>1, SchedulerStepInject
<1>2. CASE \E time \in StepTimes : RunDecodeMachine(time)
  BY <1>2, RunDecodeMachineInject
<1>3. CASE \E time \in StepTimes : RunSumMachine(time)
  BY <1>3, RunSumMachineInject
<1>4. CASE AddLatency
  BY <1>4, AddLatencyInject
<1>5. CASE StartTimed
  <2>1. /\ UNCHANGED <<system_config, seq, sequence_queue, running_queue,
                       total_time, cur_arrival_time_idx, pc>>
        /\ phase = "hitting" /\ phase' = "timed"
        /\ pc = "fillRunningQueue"
    BY <1>5 DEF StartTimed, AtLoopTop
  <2>2. Live' = Live
    BY <2>1 DEF Live, Running, Queued
  <2>3. ArrivalsIn(0, 0) = 0
    BY NothingBeforeZero DEF IInv
  <2> QED
    BY <2>1, <2>2, <2>3 DEF InjectInv, Untimed, HandedOut, ArrivalsIn
<1>6. CASE StopTimed
  <2>1. /\ UNCHANGED <<system_config, seq, sequence_queue, running_queue,
                       total_time, cur_arrival_time_idx, pc>>
        /\ phase = "timed" /\ phase' = "done"
        /\ pc = "fillRunningQueue"
    BY <1>6 DEF StopTimed, AtLoopTop
  <2>2. Live' = Live
    BY <2>1 DEF Live, Running, Queued
  <2> QED
    BY <2>1, <2>2 DEF InjectInv, HandedOut, ArrivalsIn
<1>7. CASE RunIdle
  <2>1. /\ UNCHANGED <<system_config, seq, sequence_queue, running_queue,
                       total_time, iter_time, cur_arrival_time_idx, phase>>
        /\ pc = "execute" /\ pc' = "fillRunningQueue"
    BY <1>7 DEF RunIdle, Executes
  <2>2. Timed => HandedOut'
    BY <2>1 DEF Timed, InjectInv, HandedOut, ArrivalsIn
  <2> QED
    BY <2>1, <2>2, InjectUnchanged
<1>8. CASE Terminating \/ UNCHANGED vars
  <2>1. UNCHANGED <<system_config, seq, sequence_queue, running_queue,
                    total_time, cur_arrival_time_idx, pc, to_push, stat,
                    iter_time, phase>>
    BY <1>8 DEF Terminating, vars, schedulerVars, loopVars
  <2> QED
    BY <2>1 DEF InjectInv, Untimed, HandedOut, WindowOpen, ArrivalsIn, Live,
                Running, Queued
<1> QED
  BY <1>1, <1>2, <1>3, <1>4, <1>5, <1>6, <1>7, <1>8 DEF ClusterNext

\* The windows of the iterations that move the clock lie side by side, whatever
\* idle and prefill iterations lie between them: each arrival is injected in
\* one of them, with its own arrival time, and when it is past.
THEOREM LoopInjectsOnce ==
  ASSUME ProperArrivals
  PROVE  ClusterSpec => []ArrivalsInjectedOnce
<1>1. IInv /\ InjectInv => ArrivalsInjectedOnce
  <2> SUFFICES ASSUME IInv, InjectInv, system_config.use_inject_rate
               PROVE  /\ pc = "fillRunningQueue" =>
                           cur_arrival_time_idx = ArrivalsIn(0, total_time)
                      /\ \A i \in Live : seq[i].arrival_time <= total_time
    BY DEF ArrivalsInjectedOnce, AtLoopTop
  <2>1. ArrivalsIn(0, 0) = 0
    BY NothingBeforeZero DEF IInv
  <2> QED
    BY <2>1 DEF InjectInv, Untimed, HandedOut
<1>2. IInv /\ LoopInv /\ CountInv /\ InjectInv /\ [ClusterNext]_vars
        => InjectInv'
  BY ClusterNextInject
<1> QED
  BY <1>1, <1>2, InitInjectInv, LoopInvariance, CountInvariance, PTL
  DEF ClusterSpec
----------------------------------------------------------------------------
(***************************************************************************)
(* The inductive invariant.  A request in prefill has not been reported,   *)
(* and one that has not been reported has no end of prefill.  Afterwards   *)
(* the end of its prefill is past on the clock of the decode machine, or   *)
(* gen_start_time remembers it, or the iteration that ended it is about to *)
(* write it there.  The tokens it holds, also the ones it keeps while the  *)
(* other machine prefills, were handed out when the end was past.          *)
(***************************************************************************)
InPrefill(i) ==
  /\ seq[i].num_process_token >= 0
  /\ IsSum(i) => ~seq[i].record
  /\ ~seq[i].record => prefill_end[i] = 0

Remembered(i) ==
  \/ prefill_end[i] <= total_time
  \/ prefill_end[i] <= seq[i].gen_start_time
  \/ pc = "addLatency" /\ i \in token_list

Reported(i) ==
  pc = "addLatency" /\ i \in token_list => prefill_end[i] <= stat.time

TokensInTime(i) ==
  ~IsSum(i) /\ seq[i].num_process_token > 0 => prefill_end[i] <= total_time

Disciplined(i) ==
  /\ InPrefill(i)
  /\ Remembered(i)
  /\ Reported(i)
  /\ TokensInTime(i)

DecodeInv ==
  /\ prefill_end \in [Ids -> Nat]
  /\ \A i \in Queued : ~seq[i].record /\ seq[i].num_process_token = 0
  /\ \A i \in Running : Disciplined(i)
  /\ \A i \in Ids \ Running : prefill_end[i] = 0
  /\ phase = "hitting" => \A i \in Ids : prefill_end[i] = 0

LEMMA InitDecodeInv == ClusterInit => DecodeInv
BY DEF ClusterInit, Init, DecodeInv, Running, Queued

\* An action that moves no request, touches none that lives and leaves the
\* clock alone.
LEMMA DecodeUnchanged ==
  ASSUME DecodeInv,
         UNCHANGED <<sequence_queue, running_queue, total_time, prefill_end>>,
         \A i \in Live : seq'[i] = seq[i],
         pc # "addLatency", pc' # "addLatency",
         phase' = "hitting" => phase = "hitting"
  PROVE  DecodeInv'
<1>1. Queued' = Queued /\ Running' = Running
  BY DEF Running, Queued
<1>2. \A i \in Running : Disciplined(i)'
  BY DEF DecodeInv, Live, Disciplined, InPrefill, Remembered, Reported,
         TokensInTime, IsSum
<1> QED
  BY <1>1, <1>2 DEF DecodeInv, Live

LEMMA PushDummySeqDecode ==
  ASSUME IInv, DecodeInv, PushDummySeq, UNCHANGED loopVars
  PROVE  DecodeInv'
<1>1. /\ UNCHANGED <<running_queue, total_time, prefill_end, phase>>
      /\ pc # "addLatency" /\ pc' # "addLatency"
  BY DEF PushDummySeq, loopVars
<1>2. CASE UNCHANGED <<seq, sequence_queue>>
  BY <1>1, <1>2, DecodeUnchanged
<1>3. CASE ~UNCHANGED <<seq, sequence_queue>>
  <2> DEFINE id == CHOOSE i \in FreeIds : TRUE
             idx == to_push[2] - to_push[1]
  <2>1. PICK l \in system_config.lengths :
          /\ FreeIds # {}
          /\ seq' = [seq EXCEPT ![id] =
                       NewSequence(l[1], l[2], idx, to_push[2])]
          /\ sequence_queue' = Append(sequence_queue, id)
    BY <1>3 DEF PushDummySeq
  <2>2. id \in Ids /\ id \notin Running /\ id \notin Queued
    BY <2>1, FreeIdIsNew
  <2> DEFINE new == NewSequence(l[1], l[2], idx, to_push[2])
  <2>3. ~new.record /\ new.num_process_token = 0
    BY DEF NewSequence, NoSequence
  <2> HIDE DEF id, idx, new
  <2>4. /\ seq'[id] = new
        /\ \A i \in Running \union Queued : seq'[i] = seq[i]
    BY <2>1, <2>2 DEF IInv, TypeOK, Running, Queued, new, idx
  <2>5. Running' = Running /\ Queued' = Queued \union {id}
    BY <1>1, <2>1, <2>2, QueuedAppend DEF IInv, TypeOK, Running
  <2>6. \A i \in Running : Disciplined(i)'
    BY <1>1, <2>4
    DEF DecodeInv, Disciplined, InPrefill, Remembered, Reported, TokensInTime,
        IsSum
  <2> QED
    BY <1>1, <2>3, <2>4, <2>5, <2>6 DEF DecodeInv
<1> QED
  BY <1>2, <1>3

LEMMA AdmitSequenceDecode ==
  ASSUME IInv, DecodeInv, AdmitSequence, UNCHANGED loopVars
  PROVE  DecodeInv'
<1> DEFINE id == Head(sequence_queue)
<1>1. /\ UNCHANGED <<total_time, prefill_end, phase>>
      /\ pc # "addLatency" /\ pc' # "addLatency"
      /\ seq' = IF system_config.use_inject_rate
                THEN [seq EXCEPT ![id].queueing_delay =
                                   total_time - seq[id].arrival_time]
                ELSE seq
  BY DEF AdmitSequence, loopVars
<1>2. /\ seq \in [Ids -> Sequence]
      /\ Live \subseteq Ids
      /\ Running \intersect Queued = {}
      /\ total_time \in Nat
  BY DEF IInv, TypeOK, InOnePlace, Live, Running, Queued
<1> HIDE DEF id
<1>3. ASSUME NEW i \in Ids
      PROVE  /\ seq'[i].input_len = seq[i].input_len
             /\ seq'[i].current_len = seq[i].current_len
             /\ seq'[i].num_process_token = seq[i].num_process_token
             /\ seq'[i].gen_start_time = seq[i].gen_start_time
             /\ seq'[i].record = seq[i].record
  <2>1. seq[i] \in Sequence
    BY <1>2
  <2> QED
    BY <1>1, <1>2, <2>1 DEF Sequence
<1>4. Running \subseteq Running'
  <2>1. PICK k \in Dp :
          running_queue' = [running_queue EXCEPT ![Probe(k)] = @ \union
                                                 {Head(sequence_queue)}]
    BY DEF AdmitSequence
  <2>2. running_queue \in [Dp -> SUBSET Ids]
    BY DEF IInv, TypeOK
  <2> QED
    BY <2>1, <2>2 DEF Running
<1>5. ASSUME NEW i \in Running'
      PROVE  Disciplined(i)'
  <2>1. i \in Ids /\ i \in Running \union Queued
    BY <1>2, AdmitMoves DEF Live
  <2>2. CASE i \in Running
    BY <1>1, <1>3, <2>1, <2>2
    DEF DecodeInv, Disciplined, InPrefill, Remembered, Reported, TokensInTime,
        IsSum
  <2>3. CASE i \notin Running
    BY <1>1, <1>2, <1>3, <2>1, <2>3
    DEF DecodeInv, Disciplined, InPrefill, Remembered, Reported, TokensInTime,
        IsSum
  <2> QED
    BY <2>1, <2>2, <2>3
<1>6. \A i \in Queued' : ~seq'[i].record /\ seq'[i].num_process_token = 0
  BY <1>2, <1>3, AdmitMoves DEF DecodeInv, Live
<1> QED
  BY <1>1, <1>4, <1>5, <1>6 DEF DecodeInv

\* setMetadata hands out no negative number of tokens.
LEMMA ProcessTokensNonNegative ==
  ASSUME IInv, NEW b \in Dp, NEW i \in running_queue[b],
         seq[i].num_process_token >= 0
  PROVE  ProcessTokens(b, i) >= 0
<1>1. seq[i] \in Sequence
  BY DEF IInv, TypeOK
<1>2. ASSUME IsSum(i)
      PROVE  PrefillTokens(b, i) >= 0
  <2> DEFINE left == seq[i].input_len - seq[i].current_len
             cap == system_config.max_process_token
             share == Greatest(1, cap \div Cardinality(SumOf(b)))
  <2>1. left \in Int /\ left > 0
    BY <1>1, <1>2 DEF IsSum, Sequence
  <2>2. cap \in Nat
    BY ConfigType DEF IInv, Configuration
  <2>3. Cardinality(SumOf(b)) \in Nat \ {0}
    <3>1. IsFiniteSet(SumOf(b))
      BY FS_Subset DEF SumOf, IInv, FiniteBatches
    <3>2. i \in SumOf(b)
      BY <1>2 DEF SumOf
    <3> QED
      BY <3>1, <3>2, FS_CardinalityType, FS_EmptySet
  <2>4. share \in Int /\ share >= 1
    BY <2>2, <2>3 DEF Greatest
  <2>5. PrefillTokens(b, i) = IF cap > 0 THEN Least(share, left) ELSE left
    BY DEF PrefillTokens
  <2> HIDE DEF left, cap, share
  <2> QED
    BY <2>1, <2>4, <2>5 DEF Least
<1> QED
  BY <1>2 DEF ProcessTokens

LEMMA SetMetadataDecode ==
  ASSUME IInv, DecodeInv, SetMetadata, UNCHANGED loopVars
  PROVE  DecodeInv'
<1>1. /\ Running' = Running /\ Queued' = Queued
      /\ UNCHANGED <<total_time, prefill_end, phase>>
      /\ pc # "addLatency" /\ pc' # "addLatency"
  BY DEF SetMetadata, Running, Queued, loopVars
<1>2. /\ seq \in [Ids -> Sequence]
      /\ Running \subseteq Ids
      /\ Queued \subseteq Ids
      /\ Running \intersect Queued = {}
      /\ total_time \in Nat
  BY DEF IInv, TypeOK, InOnePlace, Running, Queued
<1>3. \A i \in Queued : seq'[i] = seq[i]
  BY <1>2 DEF SetMetadata
<1>4. ASSUME NEW i \in Running
      PROVE  Disciplined(i)'
  <2> DEFINE tokens == ProcessTokens(BatchOf(i), i)
  <2>1. seq'[i] = [seq[i] EXCEPT !.num_process_token = tokens]
    BY <1>2 DEF SetMetadata
  <2>2. seq[i] \in Sequence
    BY <1>2
  <2>3. InPrefill(i) /\ Remembered(i) /\ TokensInTime(i)
    BY DEF DecodeInv, Disciplined
  <2>4. BatchOf(i) \in Dp /\ i \in running_queue[BatchOf(i)]
    BY DEF BatchOf, Running
  <2>5. tokens >= 0
    BY <2>3, <2>4, ProcessTokensNonNegative DEF InPrefill
  <2>6. ~IsSum(i) => \/ tokens = seq[i].num_process_token
                     \/ seq[i].gen_start_time <= total_time
    BY DEF ProcessTokens
  <2> HIDE DEF tokens
  <2>7. /\ seq'[i].input_len = seq[i].input_len
        /\ seq'[i].current_len = seq[i].current_len
        /\ seq'[i].num_process_token = tokens
        /\ seq'[i].gen_start_time = seq[i].gen_start_time
        /\ seq'[i].record = seq[i].record
    BY <2>1, <2>2 DEF Sequence
  <2>8. IsSum(i)' = IsSum(i)
    BY <2>7 DEF IsSum
  <2>9. InPrefill(i)'
    BY <1>1, <2>3, <2>5, <2>7, <2>8 DEF InPrefill
  <2>10. Remembered(i)'
    BY <1>1, <2>3, <2>7 DEF Remembered
  <2>11. TokensInTime(i)'
    <3>1. prefill_end[i] \in Int /\ seq[i].gen_start_time \in Int
      BY <1>2, <2>2 DEF DecodeInv, Sequence
    <3> QED
      BY <1>1, <1>2, <2>3, <2>6, <2>7, <2>8, <3>1
      DEF Remembered, TokensInTime
  <2>12. Reported(i)'
    BY <1>1 DEF Reported
  <2> QED
    BY <2>9, <2>10, <2>11, <2>12 DEF Disciplined
<1> QED
  BY <1>1, <1>3, <1>4 DEF DecodeInv

\* What the update of the decode machine makes of a request that stays.
LEMMA DecodeAdvances ==
  ASSUME IInv, NEW i \in Running', InPrefill(i), NEW time \in Nat,
         UpdateScheduler(time)
  PROVE  /\ i \in Running
         /\ seq'[i].num_process_token = 0
         /\ seq'[i].gen_start_time = seq[i].gen_start_time
         /\ IsSum(i)' => ~seq'[i].record
         /\ ~seq'[i].record => ~seq[i].record /\ ~EndsPrefill(i)
         /\ i \in token_list' => ~seq[i].record
<1> DEFINE a == Advance(seq[i], time)
           r == [a EXCEPT !.record = TRUE]
           done == {j \in Running : IsDone(Advance(seq[j], time))}
<1>1. i \in Running /\ i \notin done
  <2>1. running_queue' = [b \in Dp |-> running_queue[b] \ done]
    BY DEF UpdateScheduler, UpdateSequences
  <2> QED
    BY <2>1 DEF Running
<1>2. i \in Ids /\ seq[i] \in Sequence /\ time \in Int
  BY <1>1 DEF IInv, TypeOK, Running
<1>3. a \in Sequence
  BY <1>2, AdvanceType
<1>4. /\ a.num_process_token = 0
      /\ a.input_len = seq[i].input_len
      /\ a.current_len = seq[i].current_len + seq[i].num_process_token
      /\ a.gen_start_time = seq[i].gen_start_time
      /\ a.record = seq[i].record
  BY <1>2, AdvanceFields
<1>5. /\ seq'[i] = IF IsFirstToken(a) THEN r ELSE a
      /\ i \in token_list' <=> IsFirstToken(a)
  <2>1. ~IsDone(a)
    BY <1>1
  <2> QED
    BY <1>1, <1>2, <2>1 DEF UpdateScheduler, UpdateSequences
<1> HIDE DEF a, done
<1>6. /\ r.num_process_token = a.num_process_token
      /\ r.gen_start_time = a.gen_start_time
      /\ r.record = TRUE
  BY <1>3 DEF Sequence
<1> HIDE DEF r
<1>7. IsFirstToken(a) <=> a.current_len = a.input_len /\ ~seq[i].record
  BY <1>4 DEF IsFirstToken
<1>8. IsSum(i)' => ~seq'[i].record
  <2>1. CASE IsFirstToken(a)
    <3>1. r.current_len = a.current_len /\ r.input_len = a.input_len
      BY <1>3 DEF Sequence, r
    <3>2. a.current_len \in Int /\ a.input_len \in Int
      BY <1>3 DEF Sequence
    <3> QED
      BY <1>5, <1>7, <2>1, <3>1, <3>2 DEF IsSum
  <2>2. CASE ~IsFirstToken(a)
    <3>1. /\ seq[i].current_len \in Int
          /\ seq[i].num_process_token \in Int
          /\ seq[i].input_len \in Int
      BY <1>2 DEF Sequence
    <3>2. IsSum(i)' => IsSum(i)
      BY <1>4, <1>5, <2>2, <3>1 DEF IsSum, InPrefill
    <3> QED
      BY <1>4, <1>5, <2>2, <3>2 DEF InPrefill
  <2> QED
    BY <2>1, <2>2
<1>9. ~seq'[i].record => ~seq[i].record /\ ~EndsPrefill(i)
  <2>1. EndsPrefill(i) => a.current_len = a.input_len
    BY <1>4 DEF EndsPrefill
  <2> QED
    BY <1>4, <1>5, <1>6, <1>7, <2>1
<1> QED
  BY <1>1, <1>4, <1>5, <1>6, <1>7, <1>8, <1>9

LEMMA RunDecodeMachineDecode ==
  ASSUME IInv, DecodeInv, NEW time \in StepTimes, RunDecodeMachine(time)
  PROVE  DecodeInv'
<1>1. /\ time \in Nat
      /\ UpdateScheduler(time)
      /\ PrefillEndsAt(total_time + time)
      /\ total_time' = total_time + time
      /\ stat'.time = total_time'
      /\ phase = "timed" /\ phase' = phase
      /\ pc # "addLatency"
  BY ClusterLoopAssumption DEF RunDecodeMachine, Executes
<1>2. /\ total_time \in Nat
      /\ Running \subseteq Ids
      /\ Running \intersect Queued = {}
      /\ Queued \subseteq Ids
      /\ seq \in [Ids -> Sequence]
  BY DEF IInv, TypeOK, InOnePlace, Running, Queued
<1>3. Running' \subseteq Running
  <2>1. PICK done \in SUBSET Running :
          running_queue' = [b \in Dp |-> running_queue[b] \ done]
    BY <1>1, UpdateEffect
  <2> QED
    BY <2>1 DEF Running
<1>4. /\ Queued' = Queued
      /\ \A i \in Queued : seq'[i] = seq[i]
  BY <1>1, <1>2 DEF UpdateScheduler, UpdateSequences, Queued
<1>5. /\ prefill_end' \in [Ids -> Nat]
      /\ \A i \in Ids \ Running' : prefill_end'[i] = 0
      /\ \A i \in Running' :
           prefill_end'[i] = IF EndsPrefill(i) THEN total_time'
                             ELSE prefill_end[i]
  BY <1>1, <1>2, <1>3 DEF PrefillEndsAt, DecodeInv
<1>6. ASSUME NEW i \in Running'
      PROVE  Disciplined(i)'
  <2>1. i \in Running /\ i \in Ids
    BY <1>2, <1>3
  <2>2. InPrefill(i) /\ Remembered(i) /\ prefill_end[i] \in Nat
    BY <2>1 DEF DecodeInv, Disciplined
  <2>3. /\ seq'[i].num_process_token = 0
        /\ seq'[i].gen_start_time = seq[i].gen_start_time
        /\ IsSum(i)' => ~seq'[i].record
        /\ ~seq'[i].record => ~seq[i].record /\ ~EndsPrefill(i)
        /\ i \in token_list' => ~seq[i].record
    BY <1>1, <2>2, DecodeAdvances
  <2>4. InPrefill(i)'
    BY <1>5, <2>2, <2>3 DEF InPrefill
  <2>5. Remembered(i)'
    BY <1>1, <1>2, <1>5, <2>2, <2>3 DEF Remembered
  <2>6. Reported(i)'
    BY <1>1, <1>2, <1>5, <2>2, <2>3 DEF Reported, InPrefill
  <2>7. TokensInTime(i)'
    BY <2>3 DEF TokensInTime
  <2> QED
    BY <2>4, <2>5, <2>6, <2>7 DEF Disciplined
<1>7. \A i \in Queued' : ~seq'[i].record /\ seq'[i].num_process_token = 0
  BY <1>4 DEF DecodeInv
<1> QED
  BY <1>1, <1>5, <1>6, <1>7 DEF DecodeInv

\* In the untimed rounds nothing has an end of prefill yet.
LEMMA HitUpdateDecode ==
  ASSUME IInv, DecodeInv, HitUpdate, phase = "hitting", UNCHANGED loopVars
  PROVE  DecodeInv'
<1>1. /\ UpdateScheduler(0)
      /\ UNCHANGED <<total_time, prefill_end, phase>>
      /\ pc' # "addLatency"
  BY DEF HitUpdate, loopVars
<1>2. /\ total_time \in Nat
      /\ Running \subseteq Ids
      /\ Running \intersect Queued = {}
      /\ Queued \subseteq Ids
      /\ seq \in [Ids -> Sequence]
  BY DEF IInv, TypeOK, InOnePlace, Running, Queued
<1>3. Running' \subseteq Running
  <2>1. PICK done \in SUBSET Running :
          running_queue' = [b \in Dp |-> running_queue[b] \ done]
    BY <1>1, UpdateEffect
  <2> QED
    BY <2>1 DEF Running
<1>4. /\ Queued' = Queued
      /\ \A i \in Queued : seq'[i] = seq[i]
  BY <1>1, <1>2 DEF UpdateScheduler, UpdateSequences, Queued
<1>5. \A i \in Ids : prefill_end'[i] = 0
  BY <1>1 DEF DecodeInv
<1>6. ASSUME NEW i \in Running'
      PROVE  Disciplined(i)'
  <2>1. i \in Running /\ i \in Ids
    BY <1>2, <1>3
  <2>2. InPrefill(i)
    BY <2>1 DEF DecodeInv, Disciplined
  <2>3. /\ seq'[i].num_process_token = 0
        /\ IsSum(i)' => ~seq'[i].record
    BY <1>1, <2>2, DecodeAdvances
  <2> QED
    BY <1>1, <1>2, <1>5, <2>1, <2>3
    DEF Disciplined, InPrefill, Remembered, Reported, TokensInTime
<1>7. \A i \in Queued' : ~seq'[i].record /\ seq'[i].num_process_token = 0
  BY <1>4 DEF DecodeInv
<1> QED
  BY <1>1, <1>2, <1>5, <1>6, <1>7 DEF DecodeInv


\* What the update of the prefill machine makes of a request in prefill.  It
\* is returned by the iteration that ends its prefill and does not finish it.
LEMMA PrefillAdvances ==
  ASSUME IInv, NEW i \in Running', InPrefill(i), IsSum(i), NEW time \in Nat,
         UpdateSchedulerSumGenSplit(time)
  PROVE  /\ i \in Running
         /\ seq'[i].num_process_token = 0
         /\ IsSum(i)' => ~seq'[i].record
         /\ ~seq'[i].record => ~EndsPrefill(i)
         /\ EndsPrefill(i) => i \in token_list'
<1> DEFINE a == Advance(seq[i], time)
           g == [a EXCEPT !.gen_start_time = total_time + time]
           r == [g EXCEPT !.record = TRUE]
           done == {j \in {k \in Running : IsSum(k)} :
                      IsDone([Advance(seq[j], time) EXCEPT
                                !.gen_start_time = total_time + time])}
<1>1. i \in Running /\ i \notin done
  <2>1. running_queue' = [b \in Dp |-> running_queue[b] \ done]
    BY DEF UpdateSchedulerSumGenSplit, UpdateSequences
  <2> QED
    BY <2>1 DEF Running
<1>2. i \in Ids /\ seq[i] \in Sequence /\ time \in Int
  BY <1>1 DEF IInv, TypeOK, Running
<1>3. a \in Sequence
  BY <1>2, AdvanceType
<1>4. /\ a.num_process_token = 0
      /\ a.input_len = seq[i].input_len
      /\ a.current_len = seq[i].current_len + seq[i].num_process_token
      /\ a.record = seq[i].record
  BY <1>2, AdvanceFields
<1>5. /\ seq'[i] = IF IsFirstToken(g) THEN r ELSE g
      /\ IsFirstToken(g) => i \in token_list'
  <2>1. ~IsDone(g)
    BY <1>1
  <2> QED
    BY <1>1, <1>2, <2>1 DEF UpdateSchedulerSumGenSplit, UpdateSequences
<1> HIDE DEF a, done
<1>6. /\ g.num_process_token = a.num_process_token
      /\ g.input_len = a.input_len
      /\ g.current_len = a.current_len
      /\ g.record = a.record
      /\ r.num_process_token = a.num_process_token
      /\ r.input_len = a.input_len
      /\ r.current_len = a.current_len
      /\ r.record = TRUE
  BY <1>3 DEF Sequence
<1> HIDE DEF g, r
<1>7. ~seq[i].record
  BY DEF InPrefill
<1>8. IsFirstToken(g) <=> a.current_len = a.input_len
  BY <1>4, <1>6, <1>7 DEF IsFirstToken
<1>9. IsSum(i)' => ~seq'[i].record
  <2>1. a.current_len \in Int /\ a.input_len \in Int
    BY <1>3 DEF Sequence
  <2> QED
    BY <1>4, <1>5, <1>6, <1>7, <1>8, <2>1 DEF IsSum
<1>10. EndsPrefill(i) => IsFirstToken(g)
  BY <1>4, <1>8 DEF EndsPrefill
<1> QED
  BY <1>1, <1>4, <1>5, <1>6, <1>9, <1>10

LEMMA RunSumMachineDecode ==
  ASSUME IInv, LoopInv, DecodeInv, NEW time \in StepTimes,
         RunSumMachine(time)
  PROVE  DecodeInv'
<1>1. /\ time \in Nat
      /\ UpdateSchedulerSumGenSplit(time)
      /\ PrefillEndsAt(SumStart + time)
      /\ stat'.time = SumStart + time
      /\ SumStart + time \in Nat
      /\ total_time' = total_time
      /\ phase = "timed" /\ phase' = phase
      /\ pc # "addLatency" /\ pc' = "addLatency"
  BY ClusterLoopAssumption
  DEF RunSumMachine, Executes, IInv, TypeOK, LoopInv, SumStart, Greatest
<1>2. /\ total_time \in Nat
      /\ Running \subseteq Ids
      /\ Running \intersect Queued = {}
      /\ Queued \subseteq Ids
      /\ seq \in [Ids -> Sequence]
  BY DEF IInv, TypeOK, InOnePlace, Running, Queued
<1>3. Running' \subseteq Running
  <2>1. PICK done \in SUBSET Running :
          running_queue' = [b \in Dp |-> running_queue[b] \ done]
    BY <1>1, SumGenSplitEffect
  <2> QED
    BY <2>1 DEF Running
<1>4. /\ Queued' = Queued
      /\ \A i \in Queued : seq'[i] = seq[i]
      /\ \A i \in Running : ~IsSum(i) => /\ seq'[i] = seq[i]
                                       /\ i \notin token_list'
  BY <1>1, <1>2 DEF UpdateSchedulerSumGenSplit, UpdateSequences, Queued
<1>5. /\ prefill_end' \in [Ids -> Nat]
      /\ \A i \in Ids \ Running' : prefill_end'[i] = 0
      /\ \A i \in Running' :
           prefill_end'[i] = IF EndsPrefill(i) THEN stat'.time
                             ELSE prefill_end[i]
  BY <1>1, <1>2, <1>3 DEF PrefillEndsAt, DecodeInv
<1>6. ASSUME NEW i \in Running', ~IsSum(i)
      PROVE  Disciplined(i)'
  <2>1. /\ i \in Running
        /\ i \notin token_list'
        /\ seq'[i] = seq[i]
        /\ prefill_end'[i] = prefill_end[i]
    BY <1>3, <1>4, <1>5, <1>6 DEF EndsPrefill
  <2>2. Disciplined(i)
    BY <2>1 DEF DecodeInv
  <2> QED
    BY <1>1, <2>1, <2>2
    DEF Disciplined, InPrefill, Remembered, Reported, TokensInTime, IsSum
<1>7. ASSUME NEW i \in Running', IsSum(i)
      PROVE  Disciplined(i)'
  <2>1. i \in Running /\ InPrefill(i) /\ prefill_end[i] = 0
    BY <1>3, <1>7 DEF DecodeInv, Disciplined, InPrefill
  <2>2. /\ seq'[i].num_process_token = 0
        /\ IsSum(i)' => ~seq'[i].record
        /\ ~seq'[i].record => ~EndsPrefill(i)
        /\ EndsPrefill(i) => i \in token_list'
    BY <1>1, <1>7, <2>1, PrefillAdvances
  <2>3. prefill_end'[i] = IF EndsPrefill(i) THEN stat'.time ELSE 0
    BY <1>5, <2>1
  <2>4. InPrefill(i)'
    BY <2>2, <2>3 DEF InPrefill
  <2>5. Remembered(i)'
    BY <1>1, <1>2, <2>2, <2>3 DEF Remembered
  <2>6. Reported(i)'
    BY <1>1, <2>3 DEF Reported
  <2>7. TokensInTime(i)'
    BY <2>2 DEF TokensInTime
  <2> QED
    BY <2>4, <2>5, <2>6, <2>7 DEF Disciplined
<1>8. \A i \in Queued' : ~seq'[i].record /\ seq'[i].num_process_token = 0
  BY <1>4 DEF DecodeInv
<1> QED
  BY <1>1, <1>5, <1>6, <1>7, <1>8 DEF DecodeInv

\* addLatency writes the end of the iteration where decode will look for it.
LEMMA AddLatencyDecode ==
  ASSUME IInv, DecodeInv, AddLatency
  PROVE  DecodeInv'
<1>1. /\ Running' = Running /\ Queued' = Queued
      /\ UNCHANGED <<total_time, prefill_end, phase>>
      /\ pc = "addLatency" /\ pc' # "addLatency"
  BY DEF AddLatency, Running, Queued
<1>2. /\ seq \in [Ids -> Sequence]
      /\ Running \subseteq Ids
      /\ Queued \subseteq Ids
      /\ Running \intersect Queued = {}
  BY DEF IInv, TypeOK, InOnePlace, Running, Queued
<1>3. \A i \in Queued : seq'[i] = seq[i]
  BY <1>2 DEF AddLatency, IInv, ReturnedNotQueued
<1>4. ASSUME NEW i \in Running
      PROVE  Disciplined(i)'
  <2>1. InPrefill(i) /\ Remembered(i) /\ Reported(i) /\ TokensInTime(i)
    BY DEF DecodeInv, Disciplined
  <2>2. seq'[i] = IF i \in token_list
                  THEN [seq[i] EXCEPT !.gen_start_time = stat.time]
                  ELSE seq[i]
    BY <1>2 DEF AddLatency, DecodeMayStart
  <2>3. seq[i] \in Sequence
    BY <1>2
  <2>4. /\ seq'[i].input_len = seq[i].input_len
        /\ seq'[i].current_len = seq[i].current_len
        /\ seq'[i].num_process_token = seq[i].num_process_token
        /\ seq'[i].record = seq[i].record
        /\ seq'[i].gen_start_time = IF i \in token_list THEN stat.time
                                    ELSE seq[i].gen_start_time
    BY <2>2, <2>3 DEF Sequence
  <2>5. IsSum(i)' = IsSum(i)
    BY <2>4 DEF IsSum
  <2>6. InPrefill(i)' /\ TokensInTime(i)'
    BY <1>1, <2>1, <2>4, <2>5 DEF InPrefill, TokensInTime
  <2>7. Remembered(i)' /\ Reported(i)'
    BY <1>1, <2>1, <2>4 DEF Remembered, Reported
  <2> QED
    BY <2>6, <2>7 DEF Disciplined
<1> QED
  BY <1>1, <1>3, <1>4 DEF DecodeInv
----------------------------------------------------------------------------
(***************************************************************************)
(* No step leaves the invariant.                                           *)
(***************************************************************************)
LEMMA SchedulerStepDecode ==
  ASSUME IInv, LoopInv, DecodeInv, SchedulerStep
  PROVE  DecodeInv'
<1>1. UNCHANGED loopVars /\ UNCHANGED <<prefill_end, phase>>
  BY DEF SchedulerStep, loopVars
<1>2. CASE FillSequenceQueue(iter_time)
  <2>1. \A i \in Live : i \in Ids /\ i \notin token_list \ Running
    BY DEF Live, IInv, TypeOK, ReturnedNotQueued, Running, Queued
  <2>2. \A i \in Live : seq'[i] = seq[i]
    BY <1>2, <2>1 DEF FillSequenceQueue
  <2> QED
    BY <1>1, <1>2, <2>2, DecodeUnchanged DEF FillSequenceQueue
<1>3. CASE PushDummySeq
  BY <1>1, <1>3, PushDummySeqDecode
<1>4. CASE AdmitSequence
  BY <1>1, <1>4, AdmitSequenceDecode
<1>5. CASE SetMetadata
  BY <1>1, <1>5, SetMetadataDecode
<1>6. CASE HitUpdate
  <2>1. phase = "hitting"
    BY <1>6 DEF SchedulerStep, HitUpdate, FillSequenceQueue, PushDummySeq,
                FillRunningQueue, FillPass, AdmitSequence, SkipFullBatches,
                InitialFillDone, SetMetadata
  <2> QED
    BY <1>1, <1>6, <2>1, HitUpdateDecode
<1>7. CASE FillRunningQueue \/ SkipFullBatches \/ InitialFillDone
  <2>1. /\ UNCHANGED <<seq, sequence_queue, running_queue, total_time>>
        /\ pc # "addLatency" /\ pc' # "addLatency"
    BY <1>7 DEF FillRunningQueue, SkipFullBatches, InitialFillDone
  <2> QED
    BY <1>1, <2>1, DecodeUnchanged
<1> QED
  BY <1>2, <1>3, <1>4, <1>5, <1>6, <1>7 DEF SchedulerStep, FillPass

LEMMA ClusterNextDecode ==
  IInv /\ LoopInv /\ DecodeInv /\ [ClusterNext]_vars => DecodeInv'
<1> SUFFICES ASSUME IInv, LoopInv, DecodeInv, [ClusterNext]_vars
             PROVE  DecodeInv'
  OBVIOUS
<1>1. CASE SchedulerStep
  BY <1>1, SchedulerStepDecode
<1>2. CASE \E time \in StepTimes : RunDecodeMachine(time)
  BY <1>2, RunDecodeMachineDecode
<1>3. CASE \E time \in StepTimes : RunSumMachine(time)
  BY <1>3, RunSumMachineDecode
<1>4. CASE AddLatency
  BY <1>4, AddLatencyDecode
<1>5. CASE StartTimed \/ StopTimed \/ RunIdle
  <2>1. /\ UNCHANGED <<seq, sequence_queue, running_queue, total_time,
                       prefill_end>>
        /\ pc # "addLatency" /\ pc' # "addLatency"
        /\ phase' = "hitting" => phase = "hitting"
    BY <1>5 DEF StartTimed, StopTimed, AtLoopTop, RunIdle, Executes
  <2> QED
    BY <2>1, DecodeUnchanged
<1>6. CASE Terminating \/ UNCHANGED vars
  <2>1. UNCHANGED <<seq, sequence_queue, running_queue, token_list, pc,
                    total_time, stat, phase, prefill_end>>
    BY <1>6 DEF Terminating, vars, schedulerVars, loopVars
  <2> QED
    BY <2>1 DEF DecodeInv, Disciplined, InPrefill, Remembered, Reported,
                TokensInTime, IsSum, Running, Queued
<1> QED
  BY <1>1, <1>2, <1>3, <1>4, <1>5, <1>6 DEF ClusterNext

\* The invariant holds in every state of the loop.
THEOREM DecodeInvariance == ClusterSpec => []DecodeInv
BY InitDecodeInv, ClusterNextDecode, LoopInvariance, PTL DEF ClusterSpec

\* However far the clocks of the two machines drift apart, and whatever tokens
\* setMetadata left over from an earlier iteration, no request decodes before
\* the prefill machine is done with it.
THEOREM LoopDecodesInTime == ClusterSpec => []NoEarlyDecode
<1>1. DecodeInv => NoEarlyDecode
  BY DEF DecodeInv, Disciplined, TokensInTime, NoEarlyDecode
<1> QED
  BY <1>1, DecodeInvariance, PTL
----------------------------------------------------------------------------
(***************************************************************************)
(* A first token is not reported before its request has been admitted and  *)
(* prefilled.  What a request in prefill has waited for does not reach     *)
(* past the later of the two clocks, where the next prefill would start;   *)
(* and the requests that would reach the end of their prompt on the decode *)
(* machine, with no prefill, never do: they decode a token at once.        *)
(***************************************************************************)
TwoClocks == system_config.use_inject_rate /\ system_config.disagg_system

Waited(s) == s.arrival_time + s.queueing_delay + s.first_token_time

\* A request that arrived at a time of its own and has no first token yet.
Unreported(i) == seq[i].arrival_time # 0 /\ ~seq[i].record

WaitsItsTurn(i) ==
  Unreported(i) =>
    /\ IsSum(i) => Waited(seq[i]) <= SumStart
    /\ seq[i].current_len = seq[i].input_len =>
         /\ seq[i].gen_start_time = 0
         /\ pc = "execute" => seq[i].num_process_token = 1

ReportsInTime(i) ==
  /\ i \in Running => seq[i].record
  /\ seq[i].arrival_time # 0 /\ ~IsDone(seq[i]) =>
       Waited(seq[i]) <= stat.time

SplitInv ==
  TwoClocks =>
    /\ phase = "hitting" => /\ total_time = 0
                            /\ \A i \in Live : seq[i].arrival_time = 0
    /\ \A i \in Queued : /\ seq[i].first_token_time = 0
                         /\ seq[i].gen_start_time = 0
    /\ \A i \in Running : WaitsItsTurn(i)
    /\ pc = "addLatency" => \A i \in token_list : ReportsInTime(i)

LEMMA InitSplitInv == ClusterInit => SplitInv
BY DEF ClusterInit, Init, SplitInv, Live, Running, Queued

\* An action that moves no request, touches none that lives and leaves the
\* clocks alone.
LEMMA SplitUnchanged ==
  ASSUME SplitInv,
         UNCHANGED <<system_config, sequence_queue, running_queue, total_time,
                     sum_machine_time>>,
         \A i \in Live : seq'[i] = seq[i],
         pc' \notin {"execute", "addLatency"},
         phase' = "hitting" => phase = "hitting"
  PROVE  SplitInv'
<1>1. Queued' = Queued /\ Running' = Running /\ (TwoClocks' <=> TwoClocks)
  BY DEF Running, Queued, TwoClocks
<1>2. SumStart' = SumStart
  BY DEF SumStart
<1>3. TwoClocks => \A i \in Running : WaitsItsTurn(i)'
  BY <1>2 DEF SplitInv, Live, WaitsItsTurn, Unreported, IsSum
<1> QED
  BY <1>1, <1>3 DEF SplitInv, Live

LEMMA PushDummySeqSplit ==
  ASSUME IInv, SplitInv, PushDummySeq, UNCHANGED loopVars
  PROVE  SplitInv'
<1>1. /\ UNCHANGED <<system_config, running_queue, total_time,
                     sum_machine_time, phase, pc>>
      /\ pc = "pushSeq"
  BY DEF PushDummySeq, loopVars
<1>2. CASE UNCHANGED <<seq, sequence_queue>>
  BY <1>1, <1>2, SplitUnchanged
<1>3. CASE ~UNCHANGED <<seq, sequence_queue>>
  <2> DEFINE id == CHOOSE i \in FreeIds : TRUE
             idx == to_push[2] - to_push[1]
  <2>1. PICK l \in system_config.lengths :
          /\ FreeIds # {}
          /\ seq' = [seq EXCEPT ![id] =
                       NewSequence(l[1], l[2], idx, to_push[2])]
          /\ sequence_queue' = Append(sequence_queue, id)
    BY <1>3 DEF PushDummySeq
  <2>2. id \in Ids /\ id \notin Running /\ id \notin Queued
    BY <2>1, FreeIdIsNew
  <2> DEFINE new == NewSequence(l[1], l[2], idx, to_push[2])
  <2>3. /\ new.first_token_time = 0
        /\ new.gen_start_time = 0
        /\ new.arrival_time = NextArrival
    BY DEF NewSequence, NoSequence
  <2>4. total_time = 0 => NextArrival = 0
    BY DEF NextArrival
  <2> HIDE DEF id, idx, new
  <2>5. /\ seq'[id] = new
        /\ \A i \in Running \union Queued : seq'[i] = seq[i]
    BY <2>1, <2>2 DEF IInv, TypeOK, Running, Queued, new, idx
  <2>6. Running' = Running /\ Queued' = Queued \union {id}
    BY <1>1, <2>1, <2>2, QueuedAppend DEF IInv, TypeOK, Running
  <2>7. SumStart' = SumStart /\ (TwoClocks' <=> TwoClocks)
    BY <1>1 DEF SumStart, TwoClocks
  <2>8. TwoClocks => \A i \in Running : WaitsItsTurn(i)'
    BY <1>1, <2>5, <2>7 DEF SplitInv, WaitsItsTurn, Unreported, IsSum
  <2> QED
    BY <1>1, <2>3, <2>4, <2>5, <2>6, <2>7, <2>8 DEF SplitInv, Live
<1> QED
  BY <1>2, <1>3

\* A request that is admitted has waited until now.
LEMMA AdmitSequenceSplit ==
  ASSUME IInv, LoopInv, SplitInv, AdmitSequence, UNCHANGED loopVars
  PROVE  SplitInv'
<1> SUFFICES ASSUME TwoClocks' PROVE SplitInv'
  BY DEF SplitInv
<1> DEFINE id == Head(sequence_queue)
<1>1. /\ UNCHANGED <<total_time, sum_machine_time, phase>>
      /\ TwoClocks
      /\ pc' \notin {"execute", "addLatency"}
      /\ seq' = [seq EXCEPT ![id].queueing_delay =
                              total_time - seq[id].arrival_time]
  BY DEF AdmitSequence, loopVars, TwoClocks
<1>2. /\ seq \in [Ids -> Sequence]
      /\ Live \subseteq Ids
      /\ Running \intersect Queued = {}
      /\ total_time \in Nat
      /\ sum_machine_time \in Nat
  BY DEF IInv, TypeOK, LoopInv, InOnePlace, Live, Running, Queued
<1>3. id \in Queued /\ id \in Ids /\ id \notin Running
  <2>1. sequence_queue \in Seq(Ids) /\ sequence_queue # <<>>
    BY DEF AdmitSequence, IInv, TypeOK, WithinCapacity
  <2> QED
    BY <1>2, <2>1, HeadAndTail DEF Queued
<1> HIDE DEF id
<1>4. ASSUME NEW i \in Ids
      PROVE  /\ seq'[i].input_len = seq[i].input_len
             /\ seq'[i].current_len = seq[i].current_len
             /\ seq'[i].gen_start_time = seq[i].gen_start_time
             /\ seq'[i].first_token_time = seq[i].first_token_time
             /\ seq'[i].arrival_time = seq[i].arrival_time
             /\ seq'[i].record = seq[i].record
             /\ seq'[i].queueing_delay = IF i = id
                                         THEN total_time - seq[i].arrival_time
                                         ELSE seq[i].queueing_delay
  <2>1. seq[i] \in Sequence
    BY <1>2
  <2> QED
    BY <1>1, <1>2, <2>1 DEF Sequence
<1>5. SumStart' = SumStart /\ total_time <= SumStart /\ SumStart \in Nat
  BY <1>1, <1>2 DEF SumStart, Greatest
<1>6. /\ Live' \subseteq Live
      /\ Queued' \subseteq Queued
      /\ Running' \subseteq Running \union {id}
  <2>1. PICK k \in Dp :
          running_queue' = [running_queue EXCEPT ![Probe(k)] = @ \union {id}]
    BY DEF AdmitSequence, id
  <2>2. running_queue \in [Dp -> SUBSET Ids]
    BY DEF IInv, TypeOK
  <2>3. Running' \subseteq Running \union {id}
    BY <2>1, <2>2 DEF Running
  <2> QED
    BY <1>3, <2>3, AdmitMoves DEF Live
<1>7. ASSUME NEW i \in Running'
      PROVE  WaitsItsTurn(i)'
  <2>1. i \in Ids
    BY <1>2, <1>6 DEF Live
  <2>2. CASE i # id
    BY <1>1, <1>4, <1>5, <1>6, <2>1, <2>2
    DEF SplitInv, WaitsItsTurn, Unreported, Waited, IsSum
  <2>3. CASE i = id
    <3>1. seq[i].first_token_time = 0 /\ seq[i].gen_start_time = 0
      BY <1>1, <1>3, <2>3 DEF SplitInv
    <3>2. seq[i].arrival_time \in Int
      BY <1>2, <2>1 DEF Sequence
    <3>3. Waited(seq'[i]) = total_time
      BY <1>2, <1>4, <2>1, <2>3, <3>1, <3>2 DEF Waited
    <3> QED
      BY <1>1, <1>4, <1>5, <2>1, <3>1, <3>3 DEF WaitsItsTurn
  <2> QED
    BY <2>2, <2>3
<1>8. \A i \in Queued' : /\ seq'[i].first_token_time = 0
                         /\ seq'[i].gen_start_time = 0
  BY <1>1, <1>2, <1>4, <1>6 DEF SplitInv, Live
<1>9. phase' = "hitting" => /\ total_time' = 0
                            /\ \A i \in Live' : seq'[i].arrival_time = 0
  BY <1>1, <1>2, <1>4, <1>6 DEF SplitInv
<1> QED
  BY <1>1, <1>7, <1>8, <1>9 DEF SplitInv

\* With a machine of its own the decode serves every request that may start.
LEMMA SetMetadataSplit ==
  ASSUME IInv, SplitInv, SetMetadata, UNCHANGED loopVars
  PROVE  SplitInv'
<1> SUFFICES ASSUME TwoClocks' PROVE SplitInv'
  BY DEF SplitInv
<1>1. /\ Running' = Running /\ Queued' = Queued /\ Live' = Live
      /\ UNCHANGED <<total_time, sum_machine_time, phase>>
      /\ pc' # "addLatency"
      /\ TwoClocks
  BY DEF SetMetadata, Running, Queued, Live, loopVars, TwoClocks
<1>2. /\ seq \in [Ids -> Sequence]
      /\ Running \subseteq Ids
      /\ Queued \subseteq Ids
      /\ Running \intersect Queued = {}
      /\ total_time \in Nat
  BY DEF IInv, TypeOK, InOnePlace, Running, Queued
<1>3. \A i \in Queued : seq'[i] = seq[i]
  BY <1>2 DEF SetMetadata
<1>4. ASSUME NEW i \in Running
      PROVE  WaitsItsTurn(i)' /\ seq'[i].arrival_time = seq[i].arrival_time
  <2> DEFINE tokens == ProcessTokens(BatchOf(i), i)
  <2>1. seq'[i] = [seq[i] EXCEPT !.num_process_token = tokens]
    BY <1>2 DEF SetMetadata
  <2>2. seq[i] \in Sequence
    BY <1>2
  <2>3. seq[i].current_len = seq[i].input_len /\ seq[i].gen_start_time = 0
          => tokens = 1
    <3> SUFFICES ASSUME seq[i].current_len = seq[i].input_len,
                        seq[i].gen_start_time = 0
                 PROVE  tokens = 1
      OBVIOUS
    <3>1. ~IsSum(i)
      BY <2>2 DEF IsSum, Sequence
    <3>2. ProcessGen
      BY <1>1 DEF ProcessGen, TwoClocks
    <3>3. 0 <= total_time
      BY <1>2
    <3> QED
      BY <3>1, <3>2, <3>3 DEF ProcessTokens
  <2> HIDE DEF tokens
  <2>4. /\ seq'[i].input_len = seq[i].input_len
        /\ seq'[i].current_len = seq[i].current_len
        /\ seq'[i].num_process_token = tokens
        /\ seq'[i].gen_start_time = seq[i].gen_start_time
        /\ seq'[i].record = seq[i].record
        /\ seq'[i].arrival_time = seq[i].arrival_time
        /\ seq'[i].queueing_delay = seq[i].queueing_delay
        /\ seq'[i].first_token_time = seq[i].first_token_time
    BY <2>1, <2>2 DEF Sequence
  <2>5. SumStart' = SumStart
    BY <1>1 DEF SumStart
  <2>6. WaitsItsTurn(i)
    BY <1>1 DEF SplitInv
  <2> QED
    BY <2>3, <2>4, <2>5, <2>6 DEF WaitsItsTurn, Unreported, Waited, IsSum
<1> QED
  BY <1>1, <1>3, <1>4 DEF SplitInv, Live

\* What an update makes of a request that advances.
LEMMA AdvanceWaits ==
  ASSUME NEW s \in Sequence, NEW time \in Nat
  PROVE  LET a == Advance(s, time)
         IN /\ a.first_token_time <= s.first_token_time + time
            /\ a.first_token_time \in Int
BY DEF Advance, Sequence

\* The decode machine runs when no request is in prefill, so none comes to the
\* end of its prompt there.
LEMMA RunDecodeMachineSplit ==
  ASSUME IInv, DecodeInv, SplitInv, NEW time \in StepTimes,
         RunDecodeMachine(time)
  PROVE  SplitInv'
<1> SUFFICES ASSUME TwoClocks' PROVE SplitInv'
  BY DEF SplitInv
<1> DEFINE a(i) == Advance(seq[i], time)
           r(i) == [a(i) EXCEPT !.record = TRUE]
           done == {i \in Running : IsDone(a(i))}
           first == {i \in Running \ done : IsFirstToken(a(i))}
<1>1. /\ time \in Nat
      /\ UpdateScheduler(time)
      /\ phase' = "timed"
      /\ pc = "execute" /\ pc' = "addLatency"
      /\ TwoClocks /\ ~HasSumSeq
  BY ClusterLoopAssumption
  DEF RunDecodeMachine, Executes, UpdateScheduler, TwoClocks
<1>2. /\ seq \in [Ids -> Sequence]
      /\ Running \subseteq Ids
      /\ Running \intersect Queued = {}
      /\ Queued \subseteq Ids
  BY DEF IInv, TypeOK, InOnePlace, Running, Queued
<1>3. /\ running_queue' = [b \in Dp |-> running_queue[b] \ done]
      /\ token_list' = done \union first
      /\ \A i \in Queued : seq'[i] = seq[i]
      /\ \A i \in first : seq'[i] = r(i)
      /\ \A i \in Running \ first : seq'[i] = a(i)
      /\ Queued' = Queued
  BY <1>1, <1>2 DEF UpdateScheduler, UpdateSequences, Queued
<1>4. Running' = Running \ done
  BY <1>3 DEF Running
<1>5. ASSUME NEW i \in Running
      PROVE  /\ a(i).record = seq[i].record
             /\ a(i).arrival_time = seq[i].arrival_time
             /\ a(i).input_len <= a(i).current_len
             /\ seq[i].num_process_token = 1 =>
                  a(i).input_len < a(i).current_len
             /\ a(i).input_len \in Int /\ a(i).current_len \in Int
             /\ a(i).current_len = a(i).input_len =>
                  seq[i].current_len = seq[i].input_len
             /\ r(i).record = TRUE
             /\ r(i).arrival_time = seq[i].arrival_time
             /\ a(i).gen_start_time = seq[i].gen_start_time
  <2>1. seq[i] \in Sequence /\ time \in Int
    BY <1>1, <1>2
  <2>2. ~IsSum(i) /\ seq[i].num_process_token >= 0
    BY <1>1 DEF HasSumSeq, DecodeInv, Disciplined, InPrefill
  <2>3. a(i) \in Sequence
    BY <2>1, AdvanceType
  <2>4. /\ a(i).record = seq[i].record
        /\ a(i).arrival_time = seq[i].arrival_time
        /\ a(i).gen_start_time = seq[i].gen_start_time
        /\ a(i).input_len = seq[i].input_len
        /\ a(i).current_len = seq[i].current_len + seq[i].num_process_token
    BY <2>1, AdvanceFields
  <2>5. /\ r(i).record = TRUE
        /\ r(i).arrival_time = a(i).arrival_time
    BY <2>3 DEF Sequence
  <2>6. /\ seq[i].input_len \in Int /\ seq[i].current_len \in Int
        /\ seq[i].num_process_token \in Int
    BY <2>1 DEF Sequence
  <2> HIDE DEF a, r
  <2> QED
    BY <2>2, <2>4, <2>5, <2>6 DEF IsSum
<1>6. ASSUME NEW i \in Running, Unreported(i)
      PROVE  a(i).current_len # a(i).input_len
  BY <1>1, <1>5, <1>6 DEF SplitInv, WaitsItsTurn
<1>7. \A i \in first : a(i).current_len = a(i).input_len /\ ~a(i).record
  BY DEF IsFirstToken
<1>8. \A i \in first : seq[i].arrival_time = 0
  BY <1>5, <1>6, <1>7 DEF Unreported
<1>9. \A i \in done : IsDone(a(i)) /\ i \in Running \ first
  OBVIOUS
<1>10. first \subseteq Running /\ done \subseteq Running
  OBVIOUS
<1> HIDE DEF a, r, done, first
<1>11. ASSUME NEW i \in Running'
       PROVE  WaitsItsTurn(i)'
  <2>1. CASE i \in first
    BY <1>3, <1>4, <1>5, <1>8, <2>1 DEF WaitsItsTurn, Unreported
  <2>2. CASE i \notin first
    <3>1. i \in Running /\ seq'[i] = a(i)
      BY <1>3, <1>4, <2>2
    <3>2. Unreported(i)' => a(i).current_len # a(i).input_len
      BY <1>5, <1>6, <3>1 DEF Unreported
    <3>3. ~IsSum(i)'
      <4>1. /\ a(i).input_len <= a(i).current_len
            /\ a(i).input_len \in Int /\ a(i).current_len \in Int
        BY <1>5, <3>1
      <4>2. PICK x : x = a(i)
        OBVIOUS
      <4>3. ~(x.current_len < x.input_len)
        BY <4>1, <4>2
      <4> QED
        BY <3>1, <4>2, <4>3 DEF IsSum
    <3> QED
      BY <3>1, <3>2, <3>3 DEF WaitsItsTurn
  <2> QED
    BY <2>1, <2>2
<1>12. ASSUME NEW i \in token_list'
       PROVE  ReportsInTime(i)'
  <2>1. CASE i \in first
    BY <1>3, <1>5, <1>8, <1>10, <2>1 DEF ReportsInTime
  <2>2. CASE i \in done
    BY <1>3, <1>4, <1>9, <2>2 DEF ReportsInTime
  <2> QED
    BY <1>3, <2>1, <2>2
<1>13. \A i \in Queued' : /\ seq'[i].first_token_time = 0
                          /\ seq'[i].gen_start_time = 0
  BY <1>1, <1>3 DEF SplitInv
<1> QED
  BY <1>1, <1>11, <1>12, <1>13 DEF SplitInv

\* A prefill starts no earlier than both clocks allow, so what its requests
\* have waited for is over when it ends.
LEMMA RunSumMachineSplit ==
  ASSUME IInv, LoopInv, DecodeInv, SplitInv, NEW time \in StepTimes,
         RunSumMachine(time)
  PROVE  SplitInv'
<1> SUFFICES ASSUME TwoClocks' PROVE SplitInv'
  BY DEF SplitInv
<1> DEFINE a(i) == Advance(seq[i], time)
           g(i) == [a(i) EXCEPT !.gen_start_time = total_time + time]
           r(i) == [g(i) EXCEPT !.record = TRUE]
           sum == {i \in Running : IsSum(i)}
           done == {i \in sum : IsDone(g(i))}
           first == {i \in sum \ done : IsFirstToken(g(i))}
<1>1. /\ time \in Nat
      /\ UpdateSchedulerSumGenSplit(time)
      /\ phase' = "timed"
      /\ pc' = "addLatency"
      /\ TwoClocks
      /\ total_time' = total_time
      /\ sum_machine_time' = SumStart + time
      /\ stat'.time = SumStart + time
  BY ClusterLoopAssumption
  DEF RunSumMachine, Executes, UpdateSchedulerSumGenSplit, TwoClocks
<1>2. /\ seq \in [Ids -> Sequence]
      /\ Running \subseteq Ids
      /\ Running \intersect Queued = {}
      /\ Queued \subseteq Ids
      /\ total_time \in Nat /\ sum_machine_time \in Nat
  BY DEF IInv, TypeOK, LoopInv, InOnePlace, Running, Queued
<1>3. /\ running_queue' = [b \in Dp |-> running_queue[b] \ done]
      /\ token_list' = done \union first
      /\ \A i \in Queued : seq'[i] = seq[i]
      /\ \A i \in first : seq'[i] = r(i)
      /\ \A i \in sum \ first : seq'[i] = g(i)
      /\ \A i \in Running \ sum : seq'[i] = seq[i]
      /\ Queued' = Queued
  BY <1>1, <1>2 DEF UpdateSchedulerSumGenSplit, UpdateSequences, Queued
<1>4. Running' = Running \ done
  <2>1. PICK gone : gone = done
    OBVIOUS
  <2>2. running_queue' = [b \in Dp |-> running_queue[b] \ gone]
    BY <1>3, <2>1
  <2> HIDE DEF done
  <2> QED
    BY <2>1, <2>2 DEF Running
<1>5. /\ SumStart \in Nat
      /\ SumStart' = SumStart + time
      /\ stat'.time = SumStart'
  BY <1>1, <1>2 DEF SumStart, Greatest
<1>6. ASSUME NEW i \in sum
      PROVE  /\ g(i).record = FALSE
             /\ g(i).arrival_time = seq[i].arrival_time
             /\ seq[i].arrival_time # 0 => /\ Waited(g(i)) <= SumStart'
                                           /\ Waited(r(i)) <= SumStart'
             /\ r(i).record = TRUE
             /\ r(i).arrival_time = seq[i].arrival_time
  <2>1. seq[i] \in Sequence /\ time \in Int
    BY <1>1, <1>2
  <2>2. ~seq[i].record
    BY DEF DecodeInv, Disciplined, InPrefill
  <2>3. a(i) \in Sequence
    BY <2>1, AdvanceType
  <2>4. /\ a(i).record = seq[i].record
        /\ a(i).arrival_time = seq[i].arrival_time
        /\ a(i).queueing_delay = seq[i].queueing_delay
    BY <2>1, AdvanceFields
  <2>5. /\ a(i).first_token_time <= seq[i].first_token_time + time
        /\ a(i).first_token_time \in Int
    BY <1>1, <2>1, AdvanceWaits
  <2>6. /\ g(i).record = a(i).record
        /\ g(i).arrival_time = a(i).arrival_time
        /\ g(i).queueing_delay = a(i).queueing_delay
        /\ g(i).first_token_time = a(i).first_token_time
        /\ r(i).record = TRUE
        /\ r(i).arrival_time = a(i).arrival_time
        /\ r(i).queueing_delay = a(i).queueing_delay
        /\ r(i).first_token_time = a(i).first_token_time
    <3>1. PICK x : x = a(i)
      OBVIOUS
    <3> QED
      BY <2>3 DEF Sequence
  <2>7. seq[i].arrival_time # 0 => Waited(seq[i]) <= SumStart
    BY <1>1, <2>2 DEF SplitInv, WaitsItsTurn, Unreported
  <2>8. /\ seq[i].arrival_time \in Int /\ seq[i].queueing_delay \in Int
        /\ seq[i].first_token_time \in Int
    BY <2>1 DEF Sequence
  <2> HIDE DEF a, g, r
  <2>9. seq[i].arrival_time # 0 =>
          seq[i].arrival_time + seq[i].queueing_delay + a(i).first_token_time
            <= SumStart + time
    BY <1>1, <1>5, <2>5, <2>7, <2>8 DEF Waited
  <2> QED
    BY <1>5, <2>2, <2>4, <2>6, <2>9 DEF Waited
<1>7. \A i \in sum \ (done \union first) : g(i).current_len # g(i).input_len
  BY <1>6 DEF IsFirstToken
<1>8. \A i \in done : IsDone(g(i)) /\ i \in sum \ first
  OBVIOUS
<1>9. first \subseteq sum /\ done \subseteq sum /\ sum \subseteq Running
  OBVIOUS
<1>10. \A i \in Running \ sum : ~IsSum(i)
  OBVIOUS
<1> HIDE DEF a, g, r, sum, done, first
<1>11. ASSUME NEW i \in Running'
       PROVE  WaitsItsTurn(i)'
  <2>1. CASE i \in first
    BY <1>3, <1>6, <1>9, <2>1 DEF WaitsItsTurn, Unreported
  <2>2. CASE i \in sum \ first
    <3>1. seq'[i] = g(i) /\ i \notin done /\ i \in sum
      BY <1>3, <1>4, <2>2
    <3> QED
      BY <1>6, <1>7, <2>2, <3>1 DEF WaitsItsTurn, Unreported
  <2>3. CASE i \notin sum
    <3>1. i \in Running /\ seq'[i] = seq[i]
      BY <1>3, <1>4, <2>3
    <3>2. ~IsSum(i)'
      BY <1>10, <2>3, <3>1 DEF IsSum
    <3> QED
      BY <1>1, <3>1, <3>2 DEF SplitInv, WaitsItsTurn, Unreported
  <2> QED
    BY <2>1, <2>2, <2>3
<1>12. ASSUME NEW i \in token_list'
       PROVE  ReportsInTime(i)'
  <2>1. CASE i \in first
    BY <1>3, <1>5, <1>6, <1>9, <2>1 DEF ReportsInTime
  <2>2. CASE i \in done
    BY <1>3, <1>4, <1>8, <2>2 DEF ReportsInTime
  <2> QED
    BY <1>3, <2>1, <2>2
<1>13. \A i \in Queued' : /\ seq'[i].first_token_time = 0
                          /\ seq'[i].gen_start_time = 0
  BY <1>1, <1>3 DEF SplitInv
<1> QED
  BY <1>1, <1>11, <1>12, <1>13 DEF SplitInv

\* In the untimed rounds no request has an arrival time yet.
LEMMA HitUpdateSplit ==
  ASSUME IInv, SplitInv, HitUpdate, phase = "hitting", UNCHANGED loopVars
  PROVE  SplitInv'
<1> SUFFICES ASSUME TwoClocks' PROVE SplitInv'
  BY DEF SplitInv
<1>1. /\ UpdateScheduler(0)
      /\ UNCHANGED <<total_time, phase>>
      /\ pc' \notin {"execute", "addLatency"}
      /\ TwoClocks
  BY DEF HitUpdate, UpdateScheduler, loopVars, TwoClocks
<1>2. /\ seq \in [Ids -> Sequence]
      /\ Running \subseteq Ids
      /\ Running \intersect Queued = {}
      /\ Queued \subseteq Ids
  BY DEF IInv, TypeOK, InOnePlace, Running, Queued
<1>3. /\ Running' \subseteq Running
      /\ Queued' = Queued
      /\ \A i \in Queued : seq'[i] = seq[i]
      /\ \A i \in Running : \/ seq'[i] = Advance(seq[i], 0)
                            \/ seq'[i] = [Advance(seq[i], 0) EXCEPT
                                            !.record = TRUE]
  <2>1. Running' \subseteq Running
    <3>1. PICK done \in SUBSET Running :
            running_queue' = [b \in Dp |-> running_queue[b] \ done]
      BY <1>1, UpdateEffect
    <3> QED
      BY <3>1 DEF Running
  <2>2. Queued' = Queued /\ \A i \in Queued : seq'[i] = seq[i]
    BY <1>1, <1>2 DEF UpdateScheduler, UpdateSequences, Queued
  <2>3. \A i \in Running : \/ seq'[i] = Advance(seq[i], 0)
                          \/ seq'[i] = [Advance(seq[i], 0) EXCEPT
                                          !.record = TRUE]
    BY <1>1, <1>2 DEF UpdateScheduler, UpdateSequences
  <2> QED
    BY <2>1, <2>2, <2>3
<1>4. ASSUME NEW i \in Running
      PROVE  seq'[i].arrival_time = seq[i].arrival_time
  <2>1. seq[i] \in Sequence /\ 0 \in Int
    BY <1>2
  <2>2. PICK a : a = Advance(seq[i], 0)
    OBVIOUS
  <2>3. a \in Sequence /\ a.arrival_time = seq[i].arrival_time
    BY <2>1, <2>2, AdvanceType, AdvanceFields
  <2>4. [a EXCEPT !.record = TRUE].arrival_time = a.arrival_time
    BY <2>3 DEF Sequence
  <2> QED
    BY <1>3, <2>2, <2>3, <2>4
<1>5. \A i \in Live' : seq'[i].arrival_time = 0
  BY <1>1, <1>3, <1>4 DEF SplitInv, Live
<1> QED
  BY <1>1, <1>3, <1>5 DEF SplitInv, WaitsItsTurn, Unreported, Live

\* addLatency tells a request when decode may start only after its first token
\* was reported.
LEMMA AddLatencySplit ==
  ASSUME IInv, SplitInv, AddLatency
  PROVE  SplitInv'
<1> SUFFICES ASSUME TwoClocks' PROVE SplitInv'
  BY DEF SplitInv
<1>1. /\ Running' = Running /\ Queued' = Queued /\ Live' = Live
      /\ UNCHANGED <<total_time, sum_machine_time, phase>>
      /\ pc = "addLatency" /\ pc' \notin {"execute", "addLatency"}
      /\ TwoClocks
      /\ SumStart' = SumStart
  BY DEF AddLatency, Running, Queued, Live, TwoClocks, SumStart
<1>2. /\ seq \in [Ids -> Sequence]
      /\ Running \subseteq Ids
      /\ Queued \subseteq Ids
      /\ Running \intersect Queued = {}
  BY DEF IInv, TypeOK, InOnePlace, Running, Queued
<1>3. \A i \in Queued : seq'[i] = seq[i]
  BY <1>2 DEF AddLatency, IInv, ReturnedNotQueued
<1>4. ASSUME NEW i \in Running
      PROVE  WaitsItsTurn(i)' /\ seq'[i].arrival_time = seq[i].arrival_time
  <2>1. seq'[i] = IF i \in token_list
                  THEN [seq[i] EXCEPT !.gen_start_time = stat.time]
                  ELSE seq[i]
    BY <1>2 DEF AddLatency, DecodeMayStart
  <2>2. seq[i] \in Sequence
    BY <1>2
  <2>3. /\ seq'[i].input_len = seq[i].input_len
        /\ seq'[i].current_len = seq[i].current_len
        /\ seq'[i].record = seq[i].record
        /\ seq'[i].arrival_time = seq[i].arrival_time
        /\ seq'[i].queueing_delay = seq[i].queueing_delay
        /\ seq'[i].first_token_time = seq[i].first_token_time
        /\ i \notin token_list =>
             seq'[i].gen_start_time = seq[i].gen_start_time
    BY <2>1, <2>2 DEF Sequence
  <2>4. i \in token_list => seq[i].record
    BY <1>1 DEF SplitInv, ReportsInTime
  <2>5. WaitsItsTurn(i)
    BY <1>1 DEF SplitInv
  <2> QED
    BY <1>1, <2>3, <2>4, <2>5 DEF WaitsItsTurn, Unreported, Waited, IsSum
<1> QED
  BY <1>1, <1>3, <1>4 DEF SplitInv, Live

LEMMA SchedulerStepSplit ==
  ASSUME IInv, LoopInv, SplitInv, SchedulerStep
  PROVE  SplitInv'
<1>1. UNCHANGED loopVars /\ UNCHANGED <<sum_machine_time, phase>>
  BY DEF SchedulerStep, loopVars
<1>2. CASE FillSequenceQueue(iter_time)
  <2>1. \A i \in Live : i \in Ids /\ i \notin token_list \ Running
    BY DEF Live, IInv, TypeOK, ReturnedNotQueued, Running, Queued
  <2>2. \A i \in Live : seq'[i] = seq[i]
    BY <1>2, <2>1 DEF FillSequenceQueue
  <2> QED
    BY <1>1, <1>2, <2>2, SplitUnchanged DEF FillSequenceQueue
<1>3. CASE PushDummySeq
  BY <1>1, <1>3, PushDummySeqSplit
<1>4. CASE AdmitSequence
  BY <1>1, <1>4, AdmitSequenceSplit
<1>5. CASE SetMetadata
  BY <1>1, <1>5, SetMetadataSplit
<1>6. CASE HitUpdate
  <2>1. phase = "hitting"
    BY <1>6 DEF SchedulerStep, HitUpdate, FillSequenceQueue, PushDummySeq,
                FillRunningQueue, FillPass, AdmitSequence, SkipFullBatches,
                InitialFillDone, SetMetadata
  <2> QED
    BY <1>1, <1>6, <2>1, HitUpdateSplit
<1>7. CASE FillRunningQueue \/ SkipFullBatches \/ InitialFillDone
  <2>1. /\ UNCHANGED <<system_config, seq, sequence_queue, running_queue,
                       total_time>>
        /\ pc' \notin {"execute", "addLatency"}
    BY <1>7 DEF FillRunningQueue, SkipFullBatches, InitialFillDone
  <2> QED
    BY <1>1, <2>1, SplitUnchanged
<1> QED
  BY <1>2, <1>3, <1>4, <1>5, <1>6, <1>7 DEF SchedulerStep, FillPass

LEMMA ClusterNextSplit ==
  IInv /\ LoopInv /\ DecodeInv /\ SplitInv /\ [ClusterNext]_vars => SplitInv'
<1> SUFFICES ASSUME IInv, LoopInv, DecodeInv, SplitInv, [ClusterNext]_vars
             PROVE  SplitInv'
  OBVIOUS
<1>1. CASE SchedulerStep
  BY <1>1, SchedulerStepSplit
<1>2. CASE \E time \in StepTimes : RunDecodeMachine(time)
  BY <1>2, RunDecodeMachineSplit
<1>3. CASE \E time \in StepTimes : RunSumMachine(time)
  BY <1>3, RunSumMachineSplit
<1>4. CASE AddLatency
  BY <1>4, AddLatencySplit
<1>5. CASE StartTimed \/ StopTimed \/ RunIdle
  <2>1. /\ UNCHANGED <<system_config, seq, sequence_queue, running_queue,
                       total_time, sum_machine_time>>
        /\ pc' \notin {"execute", "addLatency"}
        /\ phase' = "hitting" => phase = "hitting"
    BY <1>5 DEF StartTimed, StopTimed, AtLoopTop, RunIdle, Executes
  <2> QED
    BY <2>1, SplitUnchanged
<1>6. CASE Terminating \/ UNCHANGED vars
  <2>1. UNCHANGED <<system_config, seq, sequence_queue, running_queue,
                    token_list, pc, total_time, sum_machine_time, stat, phase>>
    BY <1>6 DEF Terminating, vars, schedulerVars, loopVars
  <2> QED
    BY <2>1 DEF SplitInv, TwoClocks, WaitsItsTurn, ReportsInTime, Unreported,
                IsSum, SumStart, Live, Running, Queued
<1> QED
  BY <1>1, <1>2, <1>3, <1>4, <1>5, <1>6 DEF ClusterNext

\* Only addLatency writes rows, and a row of a first token is of a request
\* that reports in time.
LEMMA RowsAreInTime ==
  ASSUME IInv, SplitInv, PrefillAfterAdmission, [ClusterNext]_vars
  PROVE  PrefillAfterAdmission'
<1>1. UNCHANGED system_config
  BY DEF ClusterNext, SchedulerStep, FillSequenceQueue, PushDummySeq,
         FillRunningQueue, FillPass, AdmitSequence, SkipFullBatches,
         InitialFillDone,
         SetMetadata, HitUpdate, UpdateScheduler, StartTimed, StopTimed,
         RunIdle, RunDecodeMachine, RunSumMachine, UpdateSchedulerSumGenSplit,
         AddLatency, Terminating, vars, schedulerVars
<1>2. CASE AddLatency
  <2> SUFFICES ASSUME TwoClocks, NEW row \in rows', row.type = "t2ft"
               PROVE  row.arrival_time + row.queueing_delay + row.latency
                        <= row.time
    BY <1>1 DEF PrefillAfterAdmission, TwoClocks
  <2>1. PICK i \in token_list : HasRow(i) /\ row = LatencyRow(i, stat.time)
    BY <1>2 DEF AddLatency
  <2>2. ReportsInTime(i)
    BY <1>2 DEF AddLatency, SplitInv
  <2>3. ~IsDone(seq[i])
    BY <2>1 DEF LatencyRow
  <2>4. Waited(seq[i]) <= stat.time
    BY <2>1, <2>2, <2>3 DEF HasRow, ReportsInTime
  <2> QED
    BY <2>1, <2>3, <2>4 DEF LatencyRow, Waited
<1>3. CASE ~AddLatency
  <2>1. UNCHANGED rows
    BY <1>3 DEF ClusterNext, SchedulerStep, StartTimed, StopTimed, RunIdle,
                RunDecodeMachine, RunSumMachine, Terminating, vars, loopVars
  <2> QED
    BY <1>1, <2>1 DEF PrefillAfterAdmission
<1> QED
  BY <1>2, <1>3

\* With separate machines no first token is reported before its request has
\* arrived, waited for its place and been prefilled, however far the decode
\* machine was ahead when the prefill began.
THEOREM LoopPrefillsAfterAdmission == ClusterSpec => []PrefillAfterAdmission
<1>1. ClusterInit => SplitInv /\ PrefillAfterAdmission
  BY InitSplitInv DEF ClusterInit, PrefillAfterAdmission
<1>2. IInv /\ SplitInv /\ PrefillAfterAdmission /\ [ClusterNext]_vars
        => PrefillAfterAdmission'
  BY RowsAreInTime
<1> QED
  BY <1>1, <1>2, ClusterNextSplit, LoopInvariance, DecodeInvariance, PTL
  DEF ClusterSpec
----------------------------------------------------------------------------
(***************************************************************************)
(* Every KV token is counted once.  A prefill gets no more tokens than its *)
(* prompt has left, which admission counted, and a decode gets one or      *)
(* none, so that counting requests counts tokens.                          *)
(***************************************************************************)
TokensFit(i) ==
  IF IsSum(i)
  THEN seq[i].current_len + seq[i].num_process_token <= seq[i].input_len
  ELSE seq[i].num_process_token \in {0, 1}

KvCountInv ==
  /\ kv_counting <=> phase = "timed"
  /\ \A i \in Live : seq[i].input_len <= seq[i].total_len
  /\ \A i \in Running : TokensFit(i)

Kv == [i \in Ids |-> KvOf(i)]
Contexts == [i \in Ids |-> seq[i].total_len]

\* A request that waits is not served, and each is an object.
LEMMA ServedAndWaiting ==
  ASSUME IInv
  PROVE  /\ seq \in [Ids -> Sequence]
         /\ Running \subseteq Ids /\ Queued \subseteq Ids \ Running
         /\ Running \subseteq Live /\ Queued \subseteq Live
         /\ Live \subseteq Ids
         /\ IsFiniteSet(Running)
<1>1. seq \in [Ids -> Sequence] /\ Running \subseteq Ids
  BY DEF IInv, TypeOK, Running
<1>2. Queued \subseteq Ids
  BY DEF IInv, TypeOK, Queued
<1>3. Running \intersect Queued = {}
  BY DEF IInv, InOnePlace
<1>4. IsFiniteSet(Running)
  BY RunningFinite DEF IInv
<1> QED
  BY <1>1, <1>2, <1>3, <1>4 DEF Live

\* The KV of the running requests, as a sum.
LEMMA KvHeldIs == IInv => KvHeld = SumIn(Kv, Running)
<1> SUFFICES ASSUME IInv
             PROVE  KvHeld = SumIn(Kv, Running)
  OBVIOUS
<1> DEFINE S == Running
           Held(it) == it = [s \in SUBSET S |->
                               IF s = {} THEN 0
                               ELSE KvOf(Choice(s)) + it[s \ {Choice(s)}]]
<1>1. IsFiniteSet(S) /\ S \subseteq Ids
  BY ServedAndWaiting
<1>2. ASSUME NEW it
      PROVE  Held(it) <=> Adds(it, Kv, S)
  <2>1. ASSUME NEW s \in SUBSET S, s # {}
        PROVE  Kv[Choice(s)] = KvOf(Choice(s))
    <3>1. Choice(s) \in Ids
      BY <1>1, <2>1, SmallerSet
    <3> QED
      BY <3>1 DEF Kv
  <2> QED
    BY <2>1 DEF Adds, SumAt
<1>3. \E it : Held(it)
  BY <1>1, <1>2, SumExists
<1>4. Held(CHOOSE it : Held(it))
  BY <1>3
<1>5. KvHeld = (CHOOSE it : Held(it))[S]
  BY DEF KvHeld, MapThenSumSet, MapThenFoldSet, Choice
<1> HIDE DEF S
<1>6. PICK F : F = CHOOSE it : Held(it)
  OBVIOUS
<1>7. Adds(F, Kv, S)
  BY <1>2, <1>4, <1>6
<1>8. F[S] = SumIn(Kv, S)
  BY <1>1, <1>7, SumOverIs
<1> QED
  BY <1>5, <1>6, <1>8 DEF S

\* So is the KV of the requests that leave.
LEMMA KvOfLeaversIs ==
  ASSUME IInv
  PROVE  KvOfLeavers = SumIn(Contexts, Running \ Running')
<1> DEFINE S == Running \ UNION {running_queue'[b] : b \in Dp}
           Left(it) == it = [s \in SUBSET S |->
                               IF s = {} THEN 0
                               ELSE seq[Choice(s)].total_len
                                      + it[s \ {Choice(s)}]]
<1>1. IsFiniteSet(S) /\ S \subseteq Ids
  <2>1. S \subseteq Running
    OBVIOUS
  <2> HIDE DEF S
  <2> QED
    BY <2>1, ServedAndWaiting, FS_Subset
<1>2. ASSUME NEW it
      PROVE  Left(it) <=> Adds(it, Contexts, S)
  <2> HIDE DEF S
  <2>1. ASSUME NEW s \in SUBSET S, s # {}
        PROVE  Contexts[Choice(s)] = seq[Choice(s)].total_len
    <3>1. Choice(s) \in Ids
      BY <1>1, <2>1, SmallerSet
    <3> QED
      BY <3>1 DEF Contexts
  <2> QED
    BY <2>1 DEF Adds, SumAt
<1>3. \E it : Left(it)
  BY <1>1, <1>2, SumExists
<1>4. Left(CHOOSE it : Left(it))
  BY <1>3
<1>5. KvOfLeavers = (CHOOSE it : Left(it))[S]
  BY DEF KvOfLeavers, MapThenSumSet, MapThenFoldSet, Choice
<1>6. S = Running \ Running'
  BY DEF Running
<1> HIDE DEF S
<1>7. PICK F : F = CHOOSE it : Left(it)
  OBVIOUS
<1>8. Adds(F, Contexts, S)
  BY <1>2, <1>4, <1>7
<1>9. F[S] = SumIn(Contexts, S)
  BY <1>1, <1>8, SumOverIs
<1> QED
  BY <1>5, <1>6, <1>7, <1>9

\* A step in which nobody enters: what the requests in D get is what the KV
\* grows by.
LEMMA KvGrows ==
  ASSUME IInv, IInv', Running' \subseteq Running, NEW D \in SUBSET Running,
         \A i \in Running :
           (IF i \in Running' THEN KvOf(i)' ELSE seq[i].total_len)
             = IF i \in D THEN KvOf(i) + 1 ELSE KvOf(i)
  PROVE  KvHeld' + KvOfLeavers - KvHeld = Cardinality(D)
<1> DEFINE h == [i \in Ids |-> IF i \in Running' THEN KvOf(i)'
                               ELSE seq[i].total_len]
           gone == Running \ Running'
<1>1. /\ IsFiniteSet(Running) /\ IsFiniteSet(gone) /\ IsFiniteSet(Running')
      /\ Running \subseteq Ids
  BY ServedAndWaiting, FS_Subset
<1>2. \A i \in Running : Kv[i] = KvOf(i) /\ KvOf(i) \in Int
  <2> SUFFICES ASSUME NEW i \in Running
               PROVE  Kv[i] = KvOf(i) /\ KvOf(i) \in Int
    OBVIOUS
  <2>1. i \in Ids /\ seq[i] \in Sequence
    BY ServedAndWaiting
  <2> QED
    BY <2>1 DEF Kv, KvOf, Greatest, Sequence
<1>3. \A i \in Running : /\ h[i] = IF i \in D THEN Kv[i] + 1 ELSE Kv[i]
                         /\ h[i] \in Int /\ Kv[i] \in Int
  BY <1>1, <1>2
<1>4. \A i \in Running' : h[i] = Kv'[i]
  BY <1>1 DEF Kv
<1>5. \A i \in gone : h[i] = Contexts[i]
  BY <1>1 DEF Contexts
<1>6. Running \ Running' = gone /\ gone \subseteq Running
  OBVIOUS
<1> HIDE DEF h, gone
<1>7. SumIn(h, Running) = SumIn(Kv, Running) + Cardinality(D)
  BY <1>1, <1>3, SumOfOneMore
<1>8. SumIn(h, Running) = SumIn(h, Running') + SumIn(h, gone)
  BY <1>1, <1>3, <1>6, SumOfParts
<1>9. SumIn(h, Running') = SumIn(Kv', Running')
  BY <1>1, <1>4, SumOfSame
<1>10. SumIn(h, gone) = SumIn(Contexts, gone)
  BY <1>1, <1>5, SumOfSame
<1>11. KvHeld = SumIn(Kv, Running)
  BY KvHeldIs
<1>12. KvHeld' = SumIn(Kv', Running')
  <2>1. (IInv => KvHeld = SumIn(Kv, Running))'
    BY KvHeldIs, PTL
  <2> QED
    BY <2>1
<1>13. KvOfLeavers = SumIn(Contexts, gone)
  BY <1>6, KvOfLeaversIs
<1>14. /\ SumIn(h, Running') \in Int /\ SumIn(h, gone) \in Int
       /\ SumIn(Kv, Running) \in Int
  <2>1. /\ \A i \in Running' : h[i] \in Int
        /\ \A i \in gone : h[i] \in Int
    BY <1>3, <1>6
  <2> QED
    BY <1>1, <1>3, <2>1, SumType
<1>15. Cardinality(D) \in Int
  BY <1>1, FS_Subset, FS_CardinalityType
<1> QED
  BY <1>7, <1>8, <1>9, <1>10, <1>11, <1>12, <1>13, <1>14, <1>15

\* An action that moves no running request and changes no length counts
\* nothing.
LEMMA NothingCounted ==
  ASSUME IInv, IInv', Running' = Running,
         \A i \in Running : KvOf(i)' = KvOf(i)
  PROVE  KvHeld' + KvOfLeavers - KvHeld = 0
<1>1. KvHeld' + KvOfLeavers - KvHeld = Cardinality({})
  BY KvGrows
<1> QED
  BY <1>1, FS_EmptySet

\* What an update does to a request that gets its turn.
Served(i) ==
  /\ seq'[i].input_len = seq[i].input_len
  /\ seq'[i].total_len = seq[i].total_len
  /\ seq'[i].current_len = seq[i].current_len + seq[i].num_process_token
  /\ seq'[i].num_process_token = 0
  /\ i \notin Running' =>
       seq[i].current_len + seq[i].num_process_token = seq[i].total_len

LEMMA UpdateServes ==
  ASSUME IInv, NEW time \in Nat, UpdateScheduler(time)
  PROVE  /\ Running' \subseteq Running
         /\ \A i \in Running : Served(i)
         /\ \A i \in Ids \ Running : seq'[i] = seq[i]
<1> DEFINE a(i) == Advance(seq[i], time)
           done == {i \in Running : IsDone(a(i))}
           first == {i \in Running \ done : IsFirstToken(a(i))}
<1>1. /\ seq' = [i \in Ids |->
                   IF i \in first THEN [a(i) EXCEPT !.record = TRUE]
                   ELSE IF i \in Running THEN a(i)
                   ELSE seq[i]]
      /\ running_queue' = [b \in Dp |-> running_queue[b] \ done]
  BY DEF UpdateScheduler, UpdateSequences
<1>2. Running' \subseteq Running
  BY <1>1 DEF Running
<1>3. ASSUME NEW i \in Running
      PROVE  Served(i)
  <2>1. i \in Ids /\ seq[i] \in Sequence /\ time \in Int
    BY ServedAndWaiting
  <2>2. a(i) \in Sequence
    BY <2>1, AdvanceType
  <2>3. /\ a(i).input_len = seq[i].input_len
        /\ a(i).total_len = seq[i].total_len
        /\ a(i).current_len = seq[i].current_len + seq[i].num_process_token
        /\ a(i).num_process_token = 0
    BY <2>1, AdvanceFields
  <2>4. i \notin Running' => i \in done
    BY <1>1 DEF Running
  <2>5. i \in done => a(i).current_len = a(i).total_len
    BY DEF IsDone
  <2>6. seq'[i] = a(i) \/ seq'[i] = [a(i) EXCEPT !.record = TRUE]
    BY <1>1, <2>1
  <2> HIDE DEF a, done
  <2>7. /\ seq'[i].input_len = a(i).input_len
        /\ seq'[i].total_len = a(i).total_len
        /\ seq'[i].current_len = a(i).current_len
        /\ seq'[i].num_process_token = a(i).num_process_token
    BY <2>2, <2>6 DEF Sequence
  <2> QED
    BY <2>3, <2>4, <2>5, <2>7 DEF Served
<1>4. \A i \in Ids \ Running : seq'[i] = seq[i]
  BY <1>1
<1> QED
  BY <1>2, <1>3, <1>4

\* A prefill of the other machine serves the requests in prefill, and leaves
\* the others alone.
LEMMA PrefillServes ==
  ASSUME IInv, NEW time \in Nat, UpdateSchedulerSumGenSplit(time)
  PROVE  /\ Running' \subseteq Running
         /\ \A i \in Running :
              IF IsSum(i) THEN Served(i)
              ELSE i \in Running' /\ seq'[i] = seq[i]
         /\ \A i \in Ids \ Running : seq'[i] = seq[i]
<1> DEFINE a(i) == [Advance(seq[i], time) EXCEPT
                      !.gen_start_time = total_time + time]
           prefill == {i \in Running : IsSum(i)}
           done == {i \in prefill : IsDone(a(i))}
           first == {i \in prefill \ done : IsFirstToken(a(i))}
<1>1. /\ seq' = [i \in Ids |->
                   IF i \in first THEN [a(i) EXCEPT !.record = TRUE]
                   ELSE IF i \in prefill THEN a(i)
                   ELSE seq[i]]
      /\ running_queue' = [b \in Dp |-> running_queue[b] \ done]
  BY DEF UpdateSchedulerSumGenSplit, UpdateSequences
<1>2. Running' \subseteq Running
  BY <1>1 DEF Running
<1>3. ASSUME NEW i \in Running, IsSum(i)
      PROVE  Served(i)
  <2>1. i \in Ids /\ seq[i] \in Sequence /\ time \in Int
    BY ServedAndWaiting
  <2>2. Advance(seq[i], time) \in Sequence
    BY <2>1, AdvanceType
  <2>3. /\ Advance(seq[i], time).input_len = seq[i].input_len
        /\ Advance(seq[i], time).total_len = seq[i].total_len
        /\ Advance(seq[i], time).current_len
             = seq[i].current_len + seq[i].num_process_token
        /\ Advance(seq[i], time).num_process_token = 0
    BY <2>1, AdvanceFields
  <2>4. total_time + time \in Int
    BY <2>1 DEF IInv, TypeOK
  <2>5. /\ a(i) \in Sequence
        /\ a(i).input_len = seq[i].input_len
        /\ a(i).total_len = seq[i].total_len
        /\ a(i).current_len = seq[i].current_len + seq[i].num_process_token
        /\ a(i).num_process_token = 0
    <3>1. PICK s : s = Advance(seq[i], time)
      OBVIOUS
    <3> QED
      BY <2>2, <2>3, <2>4, <3>1 DEF Sequence
  <2>6. i \notin Running' => i \in done
    <3> HIDE DEF a, done, first, prefill
    <3> QED
      BY <1>1 DEF Running
  <2>7. i \in done => a(i).current_len = a(i).total_len
    BY DEF IsDone
  <2>8. seq'[i] = a(i) \/ seq'[i] = [a(i) EXCEPT !.record = TRUE]
    BY <1>1, <1>3, <2>1
  <2> HIDE DEF a, done
  <2>9. /\ seq'[i].input_len = a(i).input_len
        /\ seq'[i].total_len = a(i).total_len
        /\ seq'[i].current_len = a(i).current_len
        /\ seq'[i].num_process_token = a(i).num_process_token
    BY <2>5, <2>8 DEF Sequence
  <2> QED
    BY <2>5, <2>6, <2>7, <2>9 DEF Served
<1>4. ASSUME NEW i \in Running, ~IsSum(i)
      PROVE  i \in Running' /\ seq'[i] = seq[i]
  <2>1. i \in Ids /\ i \notin done /\ i \notin prefill /\ i \notin first
    BY <1>4 DEF IInv, TypeOK, Running
  <2> HIDE DEF a, done, prefill, first
  <2> QED
    BY <1>1, <2>1 DEF Running
<1>5. \A i \in Ids \ Running : seq'[i] = seq[i]
  BY <1>1
<1> QED
  BY <1>2, <1>3, <1>4, <1>5

\* The KV of a request grows by the token it decodes.  When it leaves, it has
\* the KV of its full context.
LEMMA ServedGrows ==
  ASSUME IInv, KvCountInv, NEW i \in Running, Served(i)
  PROVE  /\ (IF i \in Running' THEN KvOf(i)' ELSE seq[i].total_len)
              = IF ~IsSum(i) /\ seq[i].num_process_token > 0
                THEN KvOf(i) + 1 ELSE KvOf(i)
         /\ seq'[i].input_len <= seq'[i].total_len
         /\ TokensFit(i)'
<1> DEFINE s == seq[i]
<1>1. s \in Sequence /\ s.input_len <= s.total_len /\ TokensFit(i)
  BY ServedAndWaiting DEF KvCountInv
<1>2. /\ s.input_len \in Int /\ s.current_len \in Int
      /\ s.total_len \in Int /\ s.num_process_token \in Int
  BY <1>1 DEF Sequence
<1> QED
  BY <1>1, <1>2 DEF Served, TokensFit, IsSum, KvOf, Greatest


\* What a step counts, and what the KV of the running requests grows by.
CountsKv ==
  (kv_admission + kv_decode)' - (kv_admission + kv_decode)
    = IF phase = "timed" THEN KvHeld' + KvOfLeavers - KvHeld ELSE 0

KvIsCounted == KvCountInv' /\ CountsKv

\* An action that moves no request and touches none that lives.
LEMMA KvUnchanged ==
  ASSUME IInv, IInv', KvCountInv,
         UNCHANGED <<sequence_queue, running_queue, kv_admission, kv_decode>>,
         \A i \in Live : seq'[i] = seq[i],
         (kv_counting <=> phase = "timed")'
  PROVE  KvIsCounted
<1>1. Running' = Running /\ Queued' = Queued /\ Live' = Live
  BY DEF Running, Queued, Live
<1>2. \A i \in Running : KvOf(i)' = KvOf(i) /\ TokensFit(i)'
  BY DEF KvCountInv, KvOf, TokensFit, IsSum, Live
<1>3. KvHeld' + KvOfLeavers - KvHeld = 0
  BY <1>1, <1>2, NothingCounted
<1>4. (kv_admission + kv_decode)' - (kv_admission + kv_decode) = 0
  BY DEF IInv, TypeOK
<1> QED
  BY <1>1, <1>2, <1>3, <1>4 DEF KvIsCounted, KvCountInv, CountsKv

LEMMA PushDummySeqKv ==
  ASSUME IInv, IInv', KvCountInv, PushDummySeq, UNCHANGED loopVars
  PROVE  KvIsCounted
<1>1. UNCHANGED <<running_queue, kv_counting, kv_admission, kv_decode, phase>>
  BY DEF PushDummySeq, loopVars
<1>2. CASE UNCHANGED <<seq, sequence_queue>>
  BY <1>1, <1>2, KvUnchanged DEF KvCountInv
<1>3. CASE ~UNCHANGED <<seq, sequence_queue>>
  <2> DEFINE id == CHOOSE i \in FreeIds : TRUE
             idx == to_push[2] - to_push[1]
  <2>1. PICK l \in system_config.lengths :
          /\ FreeIds # {}
          /\ l[2] # 0
          /\ seq' = [seq EXCEPT ![id] =
                       NewSequence(l[1], l[2], idx, to_push[2])]
          /\ sequence_queue' = Append(sequence_queue, id)
    BY <1>3 DEF PushDummySeq
  <2>2. id \in Ids /\ id \notin Running /\ id \notin Queued
    BY <2>1, FreeIdIsNew
  <2> DEFINE new == NewSequence(l[1], l[2], idx, to_push[2])
  <2>3. new.input_len <= new.total_len
    <3>1. l[1] \in Nat \ {0} /\ l[2] \in Nat \ {0}
      BY <2>1, ConfigType DEF IInv, Configuration
    <3>2. new.input_len = l[1] /\ new.total_len = TotalLen(l[1], l[2])
      BY DEF NewSequence, NoSequence
    <3> HIDE DEF new
    <3> QED
      BY <3>1, <3>2 DEF TotalLen
  <2> HIDE DEF id, idx, new
  <2>4. /\ seq'[id] = new
        /\ \A i \in Live : seq'[i] = seq[i]
    <3>1. seq' = [seq EXCEPT ![id] = new]
      BY <2>1 DEF new, idx
    <3>2. id \notin Live
      BY <2>2 DEF Live
    <3> QED
      BY <2>2, <3>1, <3>2, ServedAndWaiting
  <2>5. Running' = Running /\ Queued' = Queued \union {id}
    BY <1>1, <2>1, <2>2, QueuedAppend DEF IInv, TypeOK, Running
  <2>6. \A i \in Running : KvOf(i)' = KvOf(i) /\ TokensFit(i)'
    BY <2>4 DEF KvCountInv, KvOf, TokensFit, IsSum, Live
  <2>7. KvHeld' + KvOfLeavers - KvHeld = 0
    BY <2>5, <2>6, NothingCounted
  <2>8. (kv_admission + kv_decode)' - (kv_admission + kv_decode) = 0
    BY <1>1 DEF IInv, TypeOK
  <2>9. KvCountInv'
    BY <1>1, <2>3, <2>4, <2>5, <2>6 DEF KvCountInv, Live
  <2> QED
    BY <2>7, <2>8, <2>9 DEF KvIsCounted, CountsKv
<1> QED
  BY <1>2, <1>3

\* The request that enters brings the KV of its prompt.
LEMMA AdmitSequenceKv ==
  ASSUME IInv, IInv', DecodeInv, KvCountInv, WarmedUp, AdmitSequence,
         UNCHANGED loopVars
  PROVE  KvIsCounted
<1> DEFINE id == Head(sequence_queue)
<1>1. /\ UNCHANGED <<kv_counting, kv_decode, phase>>
      /\ kv_admission' = IF kv_counting
                         THEN kv_admission + seq[id].input_len
                         ELSE kv_admission
      /\ seq' = IF system_config.use_inject_rate
                THEN [seq EXCEPT ![id].queueing_delay =
                                   total_time - seq[id].arrival_time]
                ELSE seq
  BY DEF AdmitSequence, loopVars, AdmissionKv
<1>2. /\ seq \in [Ids -> Sequence]
      /\ Live \subseteq Ids
      /\ Running \intersect Queued = {}
  BY ServedAndWaiting
<1>3. sequence_queue \in Seq(Ids) /\ sequence_queue # <<>>
  BY DEF AdmitSequence, IInv, TypeOK, WithinCapacity
<1>4. id \in Queued /\ id \notin Running /\ id \in Ids
  BY <1>2, <1>3, HeadAndTail DEF Queued
<1>5. phase = "timed" => seq[id].current_len <= seq[id].input_len
  BY <1>3 DEF WarmedUp
<1>6. Running' = Running \union {id}
  <2>1. PICK k \in Dp :
          running_queue' = [running_queue EXCEPT ![Probe(k)] = @ \union {id}]
    BY DEF AdmitSequence
  <2>2. running_queue \in [Dp -> SUBSET Ids]
    BY DEF IInv, TypeOK
  <2>3. Probe(k) \in Dp
    BY RotationType DEF IInv, TypeOK
  <2> HIDE DEF id
  <2> QED
    BY <2>1, <2>2, <2>3 DEF Running
<1> HIDE DEF id
<1>7. ASSUME NEW i \in Ids
      PROVE  /\ seq'[i].input_len = seq[i].input_len
             /\ seq'[i].current_len = seq[i].current_len
             /\ seq'[i].total_len = seq[i].total_len
             /\ seq'[i].num_process_token = seq[i].num_process_token
  <2>1. seq[i] \in Sequence
    BY <1>2
  <2> QED
    BY <1>1, <1>2, <2>1 DEF Sequence
<1>8. KvCountInv'
  <2>1. Live' \subseteq Live
    BY AdmitMoves
  <2>2. \A i \in Live' : seq'[i].input_len <= seq'[i].total_len
    BY <1>2, <1>7, <2>1 DEF KvCountInv
  <2>3. \A i \in Running : TokensFit(i)'
    BY <1>2, <1>7 DEF KvCountInv, TokensFit, IsSum, Live
  <2>4. \A i \in Queued : TokensFit(i)'
    <3> SUFFICES ASSUME NEW i \in Queued
                 PROVE  TokensFit(i)'
      OBVIOUS
    <3>1. i \in Ids
      BY <1>2 DEF Live
    <3>2. /\ seq[i].num_process_token = 0
          /\ seq[i].input_len \in Int /\ seq[i].current_len \in Int
      BY <1>2, <3>1 DEF DecodeInv, Sequence
    <3> QED
      BY <1>7, <3>1, <3>2 DEF TokensFit, IsSum
  <2> QED
    BY <1>1, <1>4, <1>6, <2>2, <2>3, <2>4 DEF KvCountInv
<1>9. phase = "timed" =>
        KvHeld' + KvOfLeavers - KvHeld = seq[id].input_len
  <2> SUFFICES ASSUME phase = "timed"
               PROVE  KvHeld' + KvOfLeavers - KvHeld = seq[id].input_len
    OBVIOUS
  <2>1. /\ IsFiniteSet(Running) /\ IsFiniteSet(Running')
        /\ Running \subseteq Ids
    <3>1. IsFiniteSet(Running')
      BY <1>6, ServedAndWaiting, FS_AddElement
    <3> QED
      BY <3>1, ServedAndWaiting
  <2>2. \A i \in Ids : Kv'[i] = KvOf(i) /\ Kv[i] = KvOf(i) /\ KvOf(i) \in Int
    <3> SUFFICES ASSUME NEW i \in Ids
                 PROVE  Kv'[i] = KvOf(i) /\ Kv[i] = KvOf(i) /\ KvOf(i) \in Int
      OBVIOUS
    <3>1. seq[i] \in Sequence
      BY <1>2
    <3> QED
      BY <1>7, <3>1 DEF Kv, KvOf, Greatest, Sequence
  <2>3. Kv'[id] = seq[id].input_len
    <3>1. seq[id].input_len \in Int /\ seq[id].current_len \in Int
      BY <1>2, <1>4 DEF Sequence
    <3> QED
      BY <1>4, <1>5, <2>2, <3>1 DEF KvOf, Greatest
  <2>4. id \in Running' /\ Running' \ {id} = Running /\ Running' \subseteq Ids
    BY <1>4, <1>6, <2>1
  <2>5. SumIn(Kv', Running') = Kv'[id] + SumIn(Kv', Running)
    <3>1. \A i \in Running' : Kv'[i] \in Int
      BY <2>2, <2>4
    <3>2. SumIn(Kv', Running') = Kv'[id] + SumIn(Kv', Running' \ {id})
      BY <2>1, <2>4, <3>1, SumOfAny
    <3> QED
      BY <2>4, <3>2
  <2>6. SumIn(Kv', Running) = SumIn(Kv, Running)
    <3>1. \A i \in Running : Kv'[i] = Kv[i]
      BY <2>1, <2>2
    <3> QED
      BY <2>1, <3>1, SumOfSame
  <2>7. KvHeld = SumIn(Kv, Running)
    BY KvHeldIs
  <2>8. KvHeld' = SumIn(Kv', Running')
    <3>1. (IInv => KvHeld = SumIn(Kv, Running))'
      BY KvHeldIs, PTL
    <3> QED
      BY <3>1
  <2>9. KvOfLeavers = 0
    <3>1. Running \ Running' = {}
      BY <1>6
    <3> QED
      BY <3>1, KvOfLeaversIs, SumOfNone
  <2>10. SumIn(Kv, Running) \in Int /\ Kv'[id] \in Int
    <3>1. \A i \in Running : Kv[i] \in Int
      BY <2>1, <2>2
    <3> QED
      BY <1>4, <2>1, <2>2, <3>1, SumType
  <2> QED
    BY <2>3, <2>5, <2>6, <2>7, <2>8, <2>9, <2>10
<1>10. kv_admission \in Int /\ kv_decode \in Int /\ seq[id].input_len \in Int
  BY <1>2, <1>4 DEF IInv, TypeOK, Sequence
<1>11. CountsKv
  BY <1>1, <1>9, <1>10 DEF CountsKv, KvCountInv
<1> QED
  BY <1>8, <1>11 DEF KvIsCounted


\* A request in prefill gets no more tokens than its prompt has left, another
\* one token or none.
LEMMA SetMetadataKv ==
  ASSUME IInv, IInv', KvCountInv, SetMetadata, UNCHANGED loopVars
  PROVE  KvIsCounted
<1>1. /\ Running' = Running /\ Live' = Live
      /\ UNCHANGED <<kv_counting, kv_admission, kv_decode, phase>>
  BY DEF SetMetadata, Running, Queued, Live, loopVars
<1>2. /\ seq \in [Ids -> Sequence]
      /\ Live \subseteq Ids
      /\ Running \subseteq Live
  BY ServedAndWaiting
<1>3. ASSUME NEW i \in Running
      PROVE  /\ KvOf(i)' = KvOf(i)
             /\ seq'[i].input_len <= seq'[i].total_len
             /\ TokensFit(i)'
  <2> DEFINE tokens == ProcessTokens(BatchOf(i), i)
  <2>1. seq'[i] = [seq[i] EXCEPT !.num_process_token = tokens]
    BY <1>2 DEF SetMetadata
  <2>2. seq[i] \in Sequence /\ seq[i].input_len <= seq[i].total_len
    BY <1>2 DEF KvCountInv
  <2>3. BatchOf(i) \in Dp /\ i \in running_queue[BatchOf(i)]
    BY DEF BatchOf, Running
  <2>4. IsSum(i) =>
          PrefillTokens(BatchOf(i), i) <= seq[i].input_len - seq[i].current_len
    BY <2>3, PrefillTokensFit
  <2>5. IsSum(i) => tokens = PrefillTokens(BatchOf(i), i)
    BY DEF ProcessTokens, ProcessSum, HasSumSeq
  <2>6. ~IsSum(i) => tokens = 1 \/ tokens = seq[i].num_process_token
    BY DEF ProcessTokens
  <2>7. tokens \in Int
    BY <2>3, ProcessTokensType DEF IInv
  <2> HIDE DEF tokens
  <2>8. /\ seq'[i].input_len = seq[i].input_len
        /\ seq'[i].total_len = seq[i].total_len
        /\ seq'[i].current_len = seq[i].current_len
        /\ seq'[i].num_process_token = tokens
    BY <2>1, <2>2 DEF Sequence
  <2>9. seq[i].input_len \in Int /\ seq[i].current_len \in Int
    BY <2>2 DEF Sequence
  <2>10. TokensFit(i)
    BY DEF KvCountInv
  <2>11. IsSum(i) => tokens <= seq[i].input_len - seq[i].current_len
    BY <2>4, <2>5
  <2>12. TokensFit(i)'
    BY <2>6, <2>7, <2>8, <2>9, <2>10, <2>11 DEF TokensFit, IsSum
  <2> QED
    BY <2>2, <2>8, <2>12 DEF KvOf
<1>4. \A i \in Queued : seq'[i].input_len <= seq'[i].total_len
  <2> SUFFICES ASSUME NEW i \in Queued
               PROVE  seq'[i].input_len <= seq'[i].total_len
    OBVIOUS
  <2>1. i \notin Running /\ i \in Ids
    BY ServedAndWaiting
  <2>2. seq'[i] = seq[i]
    BY <2>1 DEF SetMetadata
  <2> QED
    BY <2>2 DEF KvCountInv, Live
<1>5. KvHeld' + KvOfLeavers - KvHeld = 0
  BY <1>1, <1>3, NothingCounted
<1>6. (kv_admission + kv_decode)' - (kv_admission + kv_decode) = 0
  BY <1>1 DEF IInv, TypeOK
<1>7. KvCountInv'
  BY <1>1, <1>3, <1>4 DEF KvCountInv, Live
<1> QED
  BY <1>5, <1>6, <1>7 DEF KvIsCounted, CountsKv

\* An update counts the requests that decode.
LEMMA UpdateSchedulerKv ==
  ASSUME IInv, IInv', KvCountInv, NEW time \in Nat, UpdateScheduler(time),
         phase' = phase
  PROVE  KvIsCounted
<1> DEFINE D == {i \in Running : ~IsSum(i) /\ seq[i].num_process_token > 0}
<1>1. /\ UNCHANGED <<kv_counting, kv_admission, sequence_queue>>
      /\ kv_decode' = IF kv_counting THEN kv_decode + Cardinality(D)
                      ELSE kv_decode
  BY DEF UpdateScheduler, DecodedTokens
<1>2. /\ Running' \subseteq Running
      /\ \A i \in Running : Served(i)
      /\ \A i \in Ids \ Running : seq'[i] = seq[i]
  BY UpdateServes
<1>3. ASSUME NEW i \in Running
      PROVE  /\ (IF i \in Running' THEN KvOf(i)' ELSE seq[i].total_len)
                   = IF i \in D THEN KvOf(i) + 1 ELSE KvOf(i)
             /\ seq'[i].input_len <= seq'[i].total_len
             /\ TokensFit(i)'
  BY <1>2, ServedGrows
<1>4. KvCountInv'
  <2>1. Queued' = Queued
    BY <1>1 DEF Queued
  <2>2. \A i \in Queued : seq'[i].input_len <= seq'[i].total_len
    <3> SUFFICES ASSUME NEW i \in Queued
                 PROVE  seq'[i].input_len <= seq'[i].total_len
      OBVIOUS
    <3>1. i \in Ids \ Running
      BY ServedAndWaiting
    <3> QED
      BY <1>2, <3>1 DEF KvCountInv, Live
  <2> QED
    BY <1>1, <1>2, <1>3, <2>1, <2>2 DEF KvCountInv, Live
<1>5. D \subseteq Running
  OBVIOUS
<1> HIDE DEF D
<1>6. KvHeld' + KvOfLeavers - KvHeld = Cardinality(D)
  BY <1>2, <1>3, <1>5, KvGrows
<1>7. Cardinality(D) \in Int
  BY <1>5, ServedAndWaiting, FS_Subset, FS_CardinalityType
<1>8. kv_admission \in Int /\ kv_decode \in Int
  BY DEF IInv, TypeOK
<1>9. CountsKv
  BY <1>1, <1>6, <1>7, <1>8 DEF CountsKv, KvCountInv
<1> QED
  BY <1>4, <1>9 DEF KvIsCounted

\* A prefill counts nothing: admission has counted the prompt.
LEMMA RunSumMachineKv ==
  ASSUME IInv, IInv', KvCountInv, NEW time \in StepTimes, RunSumMachine(time)
  PROVE  KvIsCounted
<1>1. /\ UNCHANGED <<kv_counting, kv_admission, kv_decode, sequence_queue,
                     phase>>
      /\ time \in Nat
      /\ UpdateSchedulerSumGenSplit(time)
  BY ClusterLoopAssumption DEF RunSumMachine, UpdateSchedulerSumGenSplit
<1>2. /\ Running' \subseteq Running
      /\ \A i \in Running : IF IsSum(i) THEN Served(i)
                            ELSE i \in Running' /\ seq'[i] = seq[i]
      /\ \A i \in Ids \ Running : seq'[i] = seq[i]
  BY <1>1, PrefillServes
<1>3. ASSUME NEW i \in Running
      PROVE  /\ (IF i \in Running' THEN KvOf(i)' ELSE seq[i].total_len)
                   = KvOf(i)
             /\ seq'[i].input_len <= seq'[i].total_len
             /\ TokensFit(i)'
  <2>1. CASE IsSum(i)
    BY <1>2, <2>1, ServedGrows
  <2>2. CASE ~IsSum(i)
    BY <1>2, <2>2 DEF KvCountInv, KvOf, TokensFit, IsSum, Live
  <2> QED
    BY <2>1, <2>2
<1>4. KvCountInv'
  <2>1. Queued' = Queued
    BY <1>1 DEF Queued
  <2>2. \A i \in Queued : seq'[i].input_len <= seq'[i].total_len
    <3> SUFFICES ASSUME NEW i \in Queued
                 PROVE  seq'[i].input_len <= seq'[i].total_len
      OBVIOUS
    <3>1. i \in Ids \ Running
      BY ServedAndWaiting
    <3> QED
      BY <1>2, <3>1 DEF KvCountInv, Live
  <2> QED
    BY <1>1, <1>2, <1>3, <2>1, <2>2 DEF KvCountInv, Live
<1>5. KvHeld' + KvOfLeavers - KvHeld = 0
  <2>1. KvHeld' + KvOfLeavers - KvHeld = Cardinality({})
    BY <1>2, <1>3, KvGrows
  <2> QED
    BY <2>1, FS_EmptySet
<1>6. (kv_admission + kv_decode)' - (kv_admission + kv_decode) = 0
  BY <1>1 DEF IInv, TypeOK
<1> QED
  BY <1>4, <1>5, <1>6 DEF KvIsCounted, CountsKv

LEMMA AddLatencyKv ==
  ASSUME IInv, IInv', KvCountInv, AddLatency
  PROVE  KvIsCounted
<1>1. /\ Running' = Running /\ Queued' = Queued
      /\ UNCHANGED <<kv_counting, kv_admission, kv_decode, phase>>
  BY DEF AddLatency, Running, Queued
<1>2. ASSUME NEW i \in Live
      PROVE  /\ seq'[i].input_len = seq[i].input_len
             /\ seq'[i].current_len = seq[i].current_len
             /\ seq'[i].total_len = seq[i].total_len
             /\ seq'[i].num_process_token = seq[i].num_process_token
  <2>1. i \in Ids /\ seq[i] \in Sequence
    BY ServedAndWaiting
  <2>2. i \in Queued => i \notin token_list
    BY DEF IInv, ReturnedNotQueued
  <2>3. seq'[i] = seq[i] \/ seq'[i] = DecodeMayStart(seq[i], stat.time)
    BY <2>1, <2>2 DEF AddLatency, Live
  <2> QED
    BY <2>1, <2>3 DEF DecodeMayStart, Sequence
<1>3. \A i \in Running : KvOf(i)' = KvOf(i) /\ TokensFit(i)'
  BY <1>2 DEF KvCountInv, KvOf, TokensFit, IsSum, Live
<1>4. KvCountInv'
  BY <1>1, <1>2, <1>3 DEF KvCountInv, Live
<1>5. KvHeld' + KvOfLeavers - KvHeld = 0
  BY <1>1, <1>3, NothingCounted
<1>6. (kv_admission + kv_decode)' - (kv_admission + kv_decode) = 0
  BY <1>1 DEF IInv, TypeOK
<1> QED
  BY <1>4, <1>5, <1>6 DEF KvIsCounted, CountsKv

LEMMA SchedulerStepKv ==
  ASSUME IInv, IInv', DecodeInv, KvCountInv, WarmedUp, SchedulerStep
  PROVE  KvIsCounted
<1>1. UNCHANGED loopVars /\ phase' = phase
  BY DEF SchedulerStep, loopVars
<1>2. CASE FillSequenceQueue(iter_time)
  <2>1. \A i \in Live : seq'[i] = seq[i]
    BY <1>2 DEF FillSequenceQueue, IInv, TypeOK, ReturnedNotQueued, Live,
                Running, Queued
  <2>2. UNCHANGED <<sequence_queue, running_queue, kv_counting, kv_admission,
                    kv_decode>>
    BY <1>2 DEF FillSequenceQueue
  <2> QED
    BY <1>1, <2>1, <2>2, KvUnchanged DEF KvCountInv
<1>3. CASE PushDummySeq
  BY <1>1, <1>3, PushDummySeqKv
<1>4. CASE AdmitSequence
  BY <1>1, <1>4, AdmitSequenceKv
<1>5. CASE SetMetadata
  BY <1>1, <1>5, SetMetadataKv
<1>6. CASE HitUpdate
  BY <1>1, <1>6, UpdateSchedulerKv DEF HitUpdate
<1>7. CASE FillRunningQueue \/ SkipFullBatches \/ InitialFillDone
  BY <1>1, <1>7, KvUnchanged
  DEF FillRunningQueue, SkipFullBatches, InitialFillDone, KvCountInv
<1> QED
  BY <1>2, <1>3, <1>4, <1>5, <1>6, <1>7 DEF SchedulerStep, FillPass

LEMMA ClusterNextKv ==
  IInv /\ IInv' /\ DecodeInv /\ KvCountInv /\ WarmedUp /\ [ClusterNext]_vars
    => KvCountInv' /\ (CountsKv \/ UNCHANGED vars)
<1> SUFFICES ASSUME IInv, IInv', DecodeInv, KvCountInv, WarmedUp,
                    [ClusterNext]_vars
             PROVE  KvCountInv' /\ (CountsKv \/ UNCHANGED vars)
  OBVIOUS
<1>1. CASE SchedulerStep
  BY <1>1, SchedulerStepKv DEF KvIsCounted
<1>2. CASE StartTimed \/ StopTimed \/ RunIdle
  <2>1. /\ UNCHANGED <<seq, sequence_queue, running_queue, kv_admission,
                       kv_decode>>
        /\ (kv_counting <=> phase = "timed")'
    BY <1>2 DEF StartTimed, StopTimed, RunIdle, Executes, KvCountInv
  <2> QED
    BY <2>1, KvUnchanged DEF KvIsCounted
<1>3. CASE \E time \in StepTimes : RunDecodeMachine(time)
  <2>1. PICK time \in StepTimes : RunDecodeMachine(time)
    BY <1>3
  <2>2. time \in Nat /\ UpdateScheduler(time) /\ phase' = phase
    BY <2>1, ClusterLoopAssumption DEF RunDecodeMachine
  <2> QED
    BY <2>2, UpdateSchedulerKv DEF KvIsCounted
<1>4. CASE \E time \in StepTimes : RunSumMachine(time)
  BY <1>4, RunSumMachineKv DEF KvIsCounted
<1>5. CASE AddLatency
  BY <1>5, AddLatencyKv DEF KvIsCounted
<1>6. CASE Terminating \/ UNCHANGED vars
  <2>1. UNCHANGED vars
    BY <1>6 DEF Terminating
  <2> QED
    BY <2>1
    DEF vars, schedulerVars, loopVars, KvCountInv, TokensFit, IsSum, Live,
        Running, Queued
<1> QED
  BY <1>1, <1>2, <1>3, <1>4, <1>5, <1>6 DEF ClusterNext

\* In the timed loop every KV token is counted once: the prompt when its
\* request enters a batch, in one piece although it is prefilled in chunks, and
\* then each token when it is decoded, the last one of a request that leaves
\* included.  The warm-up has outlasted the initial fill, whose requests start
\* at an age that no counter has seen.
THEOREM LoopCountsKvOnce == ClusterSpec /\ []WarmedUp => KvCountedOnce
<1>1. ClusterInit => KvCountInv
  BY DEF ClusterInit, Init, KvCountInv, Live, Running, Queued
<1>2. CountsKv \/ UNCHANGED vars
        => [(kv_admission + kv_decode)' - (kv_admission + kv_decode)
              = IF phase = "timed" THEN KvHeld' + KvOfLeavers - KvHeld
                ELSE 0]_vars
  BY DEF CountsKv
<1> QED
  BY <1>1, <1>2, ClusterNextKv, LoopInvariance, DecodeInvariance, PTL
  DEF ClusterSpec, KvCountedOnce
=============================================================================
