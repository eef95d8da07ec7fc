-------------------------- MODULE SchedulerProofs --------------------------
(***************************************************************************)
(* Proofs about the module Scheduler, for every number of requests and     *)
(* batches, every batch size and every set of configurations.              *)
(***************************************************************************)
EXTENDS Scheduler, Counting, TLAPS, FiniteSetTheorems

----------------------------------------------------------------------------
(***************************************************************************)
(* The operators the actions are built from.                               *)
(***************************************************************************)

\* A batch holds a natural number of requests, whether or not the division of
\* total_batch_size leaves a remainder.
LEMMA BatchSizePerDpType == BatchSizePerDp \in Nat
BY SchedulerAssumption DEF BatchSizePerDp

\* There are finitely many batches.
LEMMA DpFinite == IsFiniteSet(Dp)
BY SchedulerAssumption, FS_Interval DEF Dp

\* Requests are removed from and added to the batches one by one, so a batch is
\* a finite set.
FiniteBatches == \A b \in Dp : IsFiniteSet(running_queue[b])

\* Finite batches hold finitely many requests together.
LEMMA RunningFinite ==
  ASSUME FiniteBatches
  PROVE  IsFiniteSet(Running)
<1> DEFINE batches == {running_queue[b] : b \in Dp}
<1>1. IsFiniteSet(batches)
  <2> DEFINE batch == [b \in Dp |-> running_queue[b]]
  <2>1. batch \in Surjection(Dp, batches)
    BY DEF Surjection
  <2> QED
    BY <2>1, DpFinite, FS_Surjection
<1>2. \A B \in batches : IsFiniteSet(B)
  BY DEF FiniteBatches
<1> QED
  BY <1>1, <1>2, FS_UNION DEF Running

\* getBatchSize returns a natural number.
LEMMA BatchSizeType ==
  ASSUME FiniteBatches
  PROVE  BatchSize \in Nat
<1> DEFINE pairs == {p \in Dp \X Running : p[2] \in running_queue[p[1]]}
<1>1. IsFiniteSet(Dp \X Running)
  BY RunningFinite, DpFinite, FS_Product
<1>2. IsFiniteSet(pairs)
  <2>1. pairs \subseteq Dp \X Running
    OBVIOUS
  <2> QED
    BY <1>1, <2>1, FS_Subset
<1> QED
  BY <1>2, FS_CardinalityType DEF BatchSize

\* The rotation stays a batch and a probe looks at a batch.
LEMMA RotationType ==
  ASSUME rotate \in Dp, NEW k \in Dp
  PROVE  Probe(k) \in Dp /\ RotatedPast(k) \in Dp
BY SchedulerAssumption DEF Dp, Probe, RotatedPast

\* The head of a queue of identities and what remains of the queue.
LEMMA HeadAndTail ==
  ASSUME NEW S, NEW q \in Seq(S), q # <<>>
  PROVE  /\ Head(q) \in S
         /\ Tail(q) \in Seq(S)
         /\ Len(Tail(q)) = Len(q) - 1
         /\ \A k \in 1 .. Len(q) - 1 : Tail(q)[k] = q[k + 1]
         /\ Head(q) = q[1]
OBVIOUS
----------------------------------------------------------------------------
(***************************************************************************)
(* The inductive invariant.  InOnePlace alone is not inductive: that a     *)
(* request which an update returned is not in the queue is what keeps      *)
(* fillSequenceQueue from wiping a request that waits.                     *)
(***************************************************************************)
ReturnedNotQueued == token_list \intersect Queued = {}

IInv ==
  /\ TypeOK
  /\ FiniteBatches
  /\ WithinCapacity
  /\ InOnePlace
  /\ ReturnedNotQueued

\* The scheduler starts with empty queues.
LEMMA InitIInv == Init => IInv
<1> SUFFICES ASSUME Init PROVE IInv
  OBVIOUS
<1> USE DEF Init
<1>1. TypeOK
  <2>1. NoSequence \in Sequence
    BY DEF NoSequence, Sequence
  <2>2. rotate \in Dp
    BY SchedulerAssumption DEF Dp
  <2>3. /\ seq \in [Ids -> Sequence]
        /\ to_push \in Int \X Int
        /\ running_queue \in [Dp -> SUBSET Ids]
    BY <2>1
  <2>4. sequence_queue \in Seq(Ids)
    OBVIOUS
  <2>5. DOMAIN p2_kv_offload = Dp /\ \A b \in Dp : 0 <= p2_kv_offload[b]
    OBVIOUS
  <2> QED
    BY <2>2, <2>3, <2>4, <2>5 DEF TypeOK
<1>2. FiniteBatches
  BY FS_EmptySet DEF FiniteBatches
<1>3. WithinCapacity
  BY FS_EmptySet, BatchSizePerDpType DEF WithinCapacity
<1>4. InOnePlace
  BY DEF InOnePlace, Running, Queued
<1>5. ReturnedNotQueued
  BY DEF ReturnedNotQueued
<1> QED
  BY <1>1, <1>2, <1>3, <1>4, <1>5 DEF IInv
----------------------------------------------------------------------------
(***************************************************************************)
(* The values the actions compute.                                         *)
(***************************************************************************)

\* The configuration in use is one of the configurations.
LEMMA ConfigType == TypeOK => system_config \in Configuration
BY SchedulerAssumption DEF TypeOK

\* A window holds finitely many arrivals.
LEMMA ArrivalsInType ==
  ASSUME TypeOK, NEW from \in Int, NEW to \in Int
  PROVE  ArrivalsIn(from, to) \in Nat
<1> DEFINE arrivals == system_config.actual_arrival_time
           window == {k \in DOMAIN arrivals : /\ from <= arrivals[k]
                                              /\ arrivals[k] < to}
<1>1. arrivals \in Seq(Nat)
  BY ConfigType DEF Configuration
<1>2. DOMAIN arrivals = 1 .. Len(arrivals) /\ Len(arrivals) \in Nat
  BY <1>1
<1>3. IsFiniteSet(DOMAIN arrivals)
  BY <1>2, FS_Interval
<1>4. window \subseteq DOMAIN arrivals
  OBVIOUS
<1>5. IsFiniteSet(window)
  BY <1>3, <1>4, FS_Subset
<1> QED
  BY <1>5, FS_CardinalityType DEF ArrivalsIn

\* fillSequenceQueue asks for an integral number of requests.
LEMMA RequestsToInjectType ==
  ASSUME TypeOK, FiniteBatches, NEW time \in Nat
  PROVE  RequestsToInject(time) \in Int
<1>1. BatchSize \in Nat
  BY BatchSizeType
<1>2. (7 * TotalBatch) \div 10 \in Int
  BY SchedulerAssumption
<1>3. ArrivalsIn(total_time - time, total_time) \in Nat
  <2>1. total_time \in Int /\ total_time - time \in Int
    BY DEF TypeOK
  <2> QED
    BY <2>1, ArrivalsInType
<1> QED
  BY <1>1, <1>2, <1>3, SchedulerAssumption DEF RequestsToInject, Greatest

\* A share of an integer that a count of requests divides.
LEMMA StaggerType ==
  ASSUME NEW idx \in Int, NEW count \in Int, NEW output_len \in Int
  PROVE  Stagger(idx, count, output_len) \in Int
<1>1. Greatest(count, 1) \in Int /\ Greatest(count, 1) > 0
  BY DEF Greatest
<1>2. idx * output_len \in Int
  OBVIOUS
<1>3. (idx * output_len) \div Greatest(count, 1) \in Int
  BY <1>1, <1>2
<1> QED
  BY <1>3 DEF Stagger, Least, Greatest

\* A new request is a Sequence.
LEMMA NewSequenceType ==
  ASSUME TypeOK, NEW l \in system_config.lengths,
         NEW idx \in Int, NEW count \in Int
  PROVE  NewSequence(l[1], l[2], idx, count) \in Sequence
<1>1. system_config \in Configuration
  BY ConfigType
<1>2. l[1] \in Nat /\ l[2] \in Nat
  BY <1>1 DEF Configuration
<1>3. TotalLen(l[1], l[2]) \in Int
  BY <1>2 DEF TotalLen
<1>4. StartLen(l[1], l[2], idx, count) \in Int
  <2>1. Stagger(idx, count, l[2]) \in Int
    <3>1. l[2] \in Int
      BY <1>2
    <3> QED
      BY <3>1, StaggerType
  <2>2. ReusedLen(l[1]) \in Int
    <3>1. system_config.reuse_percent \in 0 .. 100
      BY <1>1 DEF Configuration
    <3>2. l[1] * system_config.reuse_percent \in Int
      BY <1>2, <3>1
    <3> QED
      BY <3>2 DEF ReusedLen
  <2> QED
    BY <1>2, <2>1, <2>2 DEF StartLen
<1>5. NextArrival \in Int
  <2>1. system_config.actual_arrival_time \in Seq(Nat)
    BY <1>1 DEF Configuration
  <2>2. cur_arrival_time_idx \in Nat
    BY DEF TypeOK
  <2> QED
    BY <2>1, <2>2 DEF NextArrival
<1>6. NoSequence \in Sequence
  BY DEF NoSequence, Sequence
<1> QED
  BY <1>2, <1>3, <1>4, <1>5, <1>6 DEF NewSequence, Sequence

\* setMetadata gives every request an integral number of tokens.
LEMMA ProcessTokensType ==
  ASSUME TypeOK, FiniteBatches, NEW b \in Dp, NEW i \in running_queue[b]
  PROVE  ProcessTokens(b, i) \in Int
<1>1. /\ i \in Ids
      /\ seq[i].input_len \in Int
      /\ seq[i].current_len \in Int
      /\ seq[i].num_process_token \in Int
  BY DEF TypeOK, Sequence
<1>2. ASSUME IsSum(i) PROVE PrefillTokens(b, i) \in Int
  <2>1. system_config.max_process_token \in Nat
    BY ConfigType DEF Configuration
  <2>2. Cardinality(SumOf(b)) \in Nat \ {0}
    <3>1. IsFiniteSet(SumOf(b))
      BY FS_Subset DEF SumOf, FiniteBatches
    <3>2. i \in SumOf(b)
      BY <1>2 DEF SumOf
    <3> QED
      BY <3>1, <3>2, FS_CardinalityType, FS_EmptySet
  <2>3. system_config.max_process_token \div Cardinality(SumOf(b)) \in Int
    BY <2>1, <2>2
  <2> QED
    BY <1>1, <2>1, <2>3 DEF PrefillTokens, Least, Greatest
<1> QED
  BY <1>1, <1>2 DEF ProcessTokens

\* A Sequence with new values of its fields is a Sequence.
LEMMA SequenceExcept ==
  ASSUME NEW s \in Sequence, NEW end \in Int, NEW first \in Int,
         NEW len \in Int, NEW tokens \in Int, NEW stage \in BOOLEAN
  PROVE  [s EXCEPT !.end_token_time = end, !.first_token_time = first,
                   !.current_len = len, !.num_process_token = tokens,
                   !.sum_stage = stage] \in Sequence
BY DEF Sequence

\* A request that advances stays a Sequence.
LEMMA AdvanceType ==
  ASSUME NEW s \in Sequence, NEW time \in Int
  PROVE  /\ Advance(s, time) \in Sequence
         /\ [Advance(s, time) EXCEPT !.record = TRUE] \in Sequence
<1> DEFINE end == s.end_token_time + time
           first == IF s.sum_stage THEN s.first_token_time + time
                                   ELSE s.first_token_time
           len == s.current_len + s.num_process_token
           stage == s.sum_stage /\ len # s.input_len
           a == Advance(s, time)
<1>1. end \in Int /\ first \in Int /\ len \in Int
  BY DEF Sequence
<1>2. stage \in BOOLEAN
  BY Zenon
<1>3. a \in Sequence
  <2>1. a = [s EXCEPT !.end_token_time = end, !.first_token_time = first,
                      !.current_len = len, !.num_process_token = 0,
                      !.sum_stage = stage]
    BY Zenon DEF Advance
  <2>2. 0 \in Int
    OBVIOUS
  <2> HIDE DEF end, first, len, stage, a
  <2> QED
    BY <1>1, <1>2, <2>1, <2>2, SequenceExcept, Zenon
<1> HIDE DEF a
<1>4. [a EXCEPT !.record = TRUE] \in Sequence
  BY <1>3 DEF Sequence
<1> QED
  BY <1>3, <1>4 DEF a
----------------------------------------------------------------------------
(***************************************************************************)
(* Each action preserves the invariant.                                    *)
(***************************************************************************)

\* An action that leaves the queues, the batches and to_admit alone and
\* returns nothing new keeps what the invariant says of their structure, when
\* it does not resume an admission somewhere else.
LEMMA StructureUnchanged ==
  ASSUME IInv, UNCHANGED <<sequence_queue, running_queue, to_admit>>,
         token_list' \subseteq token_list,
         pc' = "fillRunningQueue" =>
           pc = "fillRunningQueue" \/ to_admit = 0
  PROVE  /\ FiniteBatches'
         /\ WithinCapacity'
         /\ InOnePlace'
         /\ ReturnedNotQueued'
<1>1. Running' = Running /\ Queued' = Queued
  BY DEF Running, Queued
<1> QED
  BY <1>1 DEF IInv, TypeOK, FiniteBatches, WithinCapacity, InOnePlace,
              ReturnedNotQueued

\* Opening a round frees what only the returned list held.
LEMMA FillSequenceQueueIInv ==
  ASSUME IInv, NEW time \in Nat, FillSequenceQueue(time)
  PROVE  IInv'
<1> USE DEF FillSequenceQueue
<1>1. TypeOK'
  <2>1. RequestsToInject(time) \in Int
    BY RequestsToInjectType DEF IInv
  <2>2. NoSequence \in Sequence
    BY DEF NoSequence, Sequence
  <2>3. seq' \in [Ids -> Sequence]
    BY <2>2 DEF IInv, TypeOK
  <2> QED
    BY <2>1, <2>3 DEF IInv, TypeOK
<1> QED
  BY <1>1, StructureUnchanged DEF IInv

\* The identity of a new request is free.
LEMMA FreeIdIsNew ==
  ASSUME FreeIds # {}, NEW id, id = CHOOSE i \in FreeIds : TRUE
  PROVE  id \in Ids /\ id \notin Running /\ id \notin Queued
                    /\ id \notin token_list
<1>1. id \in FreeIds
  OBVIOUS
<1> QED
  BY <1>1 DEF FreeIds

\* A request that joins the queue.
LEMMA QueuedAppend ==
  ASSUME sequence_queue \in Seq(Ids), NEW id \in Ids,
         sequence_queue' = Append(sequence_queue, id)
  PROVE  Queued' = Queued \union {id}
BY DEF Queued

\* A push puts a new identity at the end of the queue.
LEMMA PushDummySeqIInv ==
  ASSUME IInv, PushDummySeq
  PROVE  IInv'
<1> USE DEF PushDummySeq
<1>1. PICK l \in system_config.lengths :
        \/ UNCHANGED <<seq, sequence_queue, cur_arrival_time_idx>>
        \/ /\ FreeIds # {}
           /\ LET id == CHOOSE i \in FreeIds : TRUE
                  idx == to_push[2] - to_push[1]
              IN /\ seq' = [seq EXCEPT ![id] =
                              NewSequence(l[1], l[2], idx, to_push[2])]
                 /\ sequence_queue' = Append(sequence_queue, id)
           /\ cur_arrival_time_idx' =
                IF total_time > 0
                THEN Least(cur_arrival_time_idx + 1,
                           Len(system_config.actual_arrival_time))
                ELSE cur_arrival_time_idx
  OBVIOUS
<1>2. to_push' \in Int \X Int
  BY DEF IInv, TypeOK
<1>3. CASE UNCHANGED <<seq, sequence_queue, cur_arrival_time_idx>>
  <2>1. TypeOK'
    BY <1>2, <1>3 DEF IInv, TypeOK
  <2> QED
    BY <1>3, <2>1, StructureUnchanged DEF IInv
<1>4. CASE FreeIds # {}
           /\ ~UNCHANGED <<seq, sequence_queue, cur_arrival_time_idx>>
  <2> DEFINE id == CHOOSE i \in FreeIds : TRUE
             idx == to_push[2] - to_push[1]
  <2>1. /\ seq' = [seq EXCEPT ![id] =
                     NewSequence(l[1], l[2], idx, to_push[2])]
        /\ sequence_queue' = Append(sequence_queue, id)
        /\ cur_arrival_time_idx' =
             IF total_time > 0
             THEN Least(cur_arrival_time_idx + 1,
                        Len(system_config.actual_arrival_time))
             ELSE cur_arrival_time_idx
    BY <1>1, <1>4
  <2>2. /\ id \in Ids
        /\ id \notin Running
        /\ id \notin Queued
        /\ id \notin token_list
    BY <1>4, FreeIdIsNew
  <2>3. to_push[2] \in Int /\ idx \in Int
    BY DEF IInv, TypeOK
  <2>4. NewSequence(l[1], l[2], idx, to_push[2]) \in Sequence
    BY <2>3, NewSequenceType DEF IInv
  <2> HIDE DEF id, idx
  <2>5. TypeOK'
    <3>1. seq' \in [Ids -> Sequence]
      BY <2>1, <2>4 DEF IInv, TypeOK
    <3>2. sequence_queue' \in Seq(Ids)
      BY <2>1, <2>2 DEF IInv, TypeOK
    <3>3. cur_arrival_time_idx' \in Nat
      <4>1. system_config.actual_arrival_time \in Seq(Nat)
        BY ConfigType DEF IInv, Configuration
      <4>2. cur_arrival_time_idx \in Nat
        BY DEF IInv, TypeOK
      <4> QED
        BY <2>1, <4>1, <4>2 DEF Least
    <3> QED
      BY <1>2, <3>1, <3>2, <3>3 DEF IInv, TypeOK
  <2>6. Running' = Running /\ Queued' = Queued \union {id}
    BY <2>1, <2>2, QueuedAppend DEF IInv, TypeOK, Running
  <2>7. FiniteBatches' /\ WithinCapacity'
    BY DEF IInv, FiniteBatches, WithinCapacity
  <2>8. InOnePlace'
    <3>1. ASSUME NEW j \in 1 .. Len(sequence_queue'),
                 NEW k \in 1 .. Len(sequence_queue'),
                 sequence_queue'[j] = sequence_queue'[k]
          PROVE  j = k
      BY <2>1, <2>2, <3>1 DEF IInv, TypeOK, InOnePlace, Queued
    <3> QED
      BY <2>2, <2>6, <3>1 DEF IInv, InOnePlace
  <2>9. ReturnedNotQueued'
    BY <2>2, <2>6 DEF IInv, ReturnedNotQueued
  <2> QED
    BY <2>5, <2>7, <2>8, <2>9 DEF IInv
<1> QED
  BY <1>1, <1>3, <1>4

\* The passes counted are no more than the requests that wait.
LEMMA FillRunningQueueIInv ==
  ASSUME IInv, FillRunningQueue
  PROVE  IInv'
<1> USE DEF FillRunningQueue
<1>1. Passes \in Int /\ Passes <= Len(sequence_queue)
  <2>1. BatchSize \in Nat
    BY BatchSizeType DEF IInv
  <2>2. Len(sequence_queue) \in Nat
    BY DEF IInv, TypeOK
  <2> QED
    BY <2>1, <2>2, SchedulerAssumption DEF Passes, Least
<1>2. TypeOK'
  BY <1>1 DEF IInv, TypeOK
<1>3. Running' = Running /\ Queued' = Queued
  BY DEF Running, Queued
<1> QED
  BY <1>1, <1>2, <1>3 DEF IInv, FiniteBatches, WithinCapacity, InOnePlace,
                          ReturnedNotQueued

\* A pass moves the head of the queue into a batch that has room.
LEMMA AdmitSequenceIInv ==
  ASSUME IInv, AdmitSequence
  PROVE  IInv'
<1> USE DEF AdmitSequence
<1> DEFINE id == Head(sequence_queue)
<1>1. PICK k \in Dp :
        /\ HasRoom(Probe(k))
        /\ running_queue' = [running_queue EXCEPT ![Probe(k)] = @ \union {id}]
        /\ seq' = IF system_config.use_inject_rate
                  THEN [seq EXCEPT ![id].queueing_delay =
                                     total_time - seq[id].arrival_time]
                  ELSE seq
        /\ kv_admission' = IF kv_counting
                           THEN kv_admission + AdmissionKv(id)
                           ELSE kv_admission
        /\ rotate' = RotatedPast(k)
  OBVIOUS
<1> DEFINE b == Probe(k)
<1>2. b \in Dp /\ RotatedPast(k) \in Dp
  BY RotationType DEF IInv, TypeOK
<1>3. sequence_queue \in Seq(Ids) /\ sequence_queue # <<>>
  BY DEF IInv, TypeOK, WithinCapacity
<1>4. /\ id \in Ids
      /\ sequence_queue' \in Seq(Ids)
      /\ Len(sequence_queue') = Len(sequence_queue) - 1
      /\ \A j \in 1 .. Len(sequence_queue) - 1 :
           sequence_queue'[j] = sequence_queue[j + 1]
      /\ id = sequence_queue[1]
  BY <1>3, HeadAndTail
<1>5. id \in Queued /\ id \notin Running
  <2>1. id \in Queued
    BY <1>3, <1>4 DEF Queued
  <2> QED
    BY <2>1 DEF IInv, InOnePlace
<1>6. Queued' = Queued \ {id}
  <2>1. Queued' \subseteq Queued
    BY <1>3, <1>4 DEF Queued
  <2>2. id \notin Queued'
    BY <1>3, <1>4 DEF IInv, InOnePlace, Queued
  <2>3. ASSUME NEW j \in 1 .. Len(sequence_queue), sequence_queue[j] # id
        PROVE  sequence_queue[j] \in Queued'
    <3>1. j - 1 \in 1 .. Len(sequence_queue')
      BY <1>3, <1>4, <2>3
    <3>2. sequence_queue'[j - 1] = sequence_queue[j]
      BY <1>3, <1>4, <3>1
    <3> QED
      BY <3>1, <3>2 DEF Queued
  <2> QED
    BY <2>1, <2>2, <2>3 DEF Queued
<1>7. /\ running_queue' \in [Dp -> SUBSET Ids]
      /\ running_queue'[b] = running_queue[b] \union {id}
      /\ \A c \in Dp \ {b} : running_queue'[c] = running_queue[c]
  <2>1. running_queue \in [Dp -> SUBSET Ids]
    BY DEF IInv, TypeOK
  <2> QED
    BY <1>1, <1>2, <1>4, <2>1
<1> HIDE DEF id, b
<1>8. Running' = Running \union {id}
  BY <1>2, <1>7 DEF Running
<1>9. TypeOK'
  <2>1. seq[id] \in Sequence
    BY <1>4 DEF IInv, TypeOK
  <2>2. seq' \in [Ids -> Sequence]
    <3>1. total_time - seq[id].arrival_time \in Int
      <4>1. total_time \in Nat
        BY DEF IInv, TypeOK
      <4>2. seq[id].arrival_time \in Int
        BY <2>1 DEF Sequence
      <4> QED
        BY <4>1, <4>2
    <3>2. [seq[id] EXCEPT !.queueing_delay =
                            total_time - seq[id].arrival_time] \in Sequence
      BY <2>1, <3>1 DEF Sequence
    <3> QED
      BY <1>1, <1>4, <3>2 DEF IInv, TypeOK
  <2>3. kv_admission' \in Int
    <3>1. AdmissionKv(id) \in Nat
      BY <2>1 DEF AdmissionKv, Sequence
    <3> QED
      BY <1>1, <3>1 DEF IInv, TypeOK
  <2> QED
    BY <1>1, <1>2, <1>4, <1>7, <2>2, <2>3 DEF IInv, TypeOK
<1>10. FiniteBatches'
  <2>1. IsFiniteSet(running_queue'[b])
    <3>1. IsFiniteSet(running_queue[b])
      BY <1>2 DEF IInv, FiniteBatches
    <3> QED
      BY <1>7, <3>1, FS_AddElement
  <2> QED
    BY <1>2, <1>7, <2>1 DEF IInv, FiniteBatches
<1>11. WithinCapacity'
  <2>1. Cardinality(running_queue'[b]) <= BatchSizePerDp
    <3>1. Cardinality(running_queue[b]) < BatchSizePerDp
      BY <1>1 DEF HasRoom, b
    <3>2. Cardinality(running_queue'[b]) = Cardinality(running_queue[b]) + 1
      <4>1. id \notin running_queue[b] /\ IsFiniteSet(running_queue[b])
        BY <1>2, <1>5 DEF IInv, FiniteBatches, Running
      <4> QED
        BY <1>7, <4>1, FS_AddElement
    <3>3. Cardinality(running_queue[b]) \in Nat
      BY <1>2, FS_CardinalityType DEF IInv, FiniteBatches
    <3> QED
      BY <3>1, <3>2, <3>3, BatchSizePerDpType
  <2>2. to_admit' <= Len(sequence_queue')
    BY <1>3, <1>4 DEF IInv, TypeOK, WithinCapacity
  <2> QED
    BY <1>2, <1>7, <2>1, <2>2 DEF IInv, WithinCapacity
<1>12. InOnePlace'
  <2>1. \A c, d \in Dp :
          c # d => running_queue'[c] \intersect running_queue'[d] = {}
    BY <1>2, <1>5, <1>7 DEF IInv, InOnePlace, Running
  <2>2. Running' \intersect Queued' = {}
    BY <1>6, <1>8 DEF IInv, InOnePlace
  <2>3. \A i, j \in 1 .. Len(sequence_queue') :
          sequence_queue'[i] = sequence_queue'[j] => i = j
    BY <1>3, <1>4 DEF IInv, InOnePlace
  <2> QED
    BY <2>1, <2>2, <2>3 DEF InOnePlace
<1>13. ReturnedNotQueued'
  BY <1>6 DEF IInv, ReturnedNotQueued
<1> QED
  BY <1>9, <1>10, <1>11, <1>12, <1>13 DEF IInv

\* A pass that finds no room only counts down.
LEMMA SkipFullBatchesIInv ==
  ASSUME IInv, SkipFullBatches
  PROVE  IInv'
<1> USE DEF SkipFullBatches
<1>1. TypeOK'
  BY DEF IInv, TypeOK
<1>2. WithinCapacity'
  BY DEF IInv, TypeOK, WithinCapacity
<1>3. Running' = Running /\ Queued' = Queued
  BY DEF Running, Queued
<1> QED
  BY <1>1, <1>2, <1>3 DEF IInv, FiniteBatches, InOnePlace, ReturnedNotQueued

\* The flag of the initial fill is about no request.
LEMMA InitialFillDoneIInv ==
  ASSUME IInv, InitialFillDone
  PROVE  IInv'
<1>1. TypeOK'
  BY DEF InitialFillDone, IInv, TypeOK
<1> QED
  BY <1>1, StructureUnchanged DEF InitialFillDone, IInv

\* Tokens and reservations are of the right types; nobody moves.
LEMMA SetMetadataIInv ==
  ASSUME IInv, SetMetadata
  PROVE  IInv'
<1> USE DEF SetMetadata
<1>1. seq' \in [Ids -> Sequence]
  <2>1. ASSUME NEW i \in Running
        PROVE  [seq[i] EXCEPT !.num_process_token =
                                ProcessTokens(BatchOf(i), i)] \in Sequence
    <3>1. i \in Ids
      BY DEF IInv, TypeOK, Running
    <3>2. BatchOf(i) \in Dp /\ i \in running_queue[BatchOf(i)]
      BY DEF BatchOf, Running
    <3>3. ProcessTokens(BatchOf(i), i) \in Int
      BY <3>2, ProcessTokensType DEF IInv
    <3>4. seq[i] \in Sequence
      BY <3>1 DEF IInv, TypeOK
    <3> QED
      BY <3>3, <3>4 DEF Sequence
  <2> QED
    BY <2>1 DEF IInv, TypeOK
<1>2. DOMAIN p2_kv_offload' = Dp /\ \A b \in Dp : 0 <= p2_kv_offload'[b]
  <2>1. CASE system_config.kv_budget >= 0
    <3>1. p2_kv_offload' = [b \in Dp |-> Offload(b)]
      BY <2>1
    <3>2. \A b \in Dp : 0 <= Offload(b)
      BY DEF Offload, Greatest
    <3> QED
      BY <3>1, <3>2
  <2>2. CASE ~(system_config.kv_budget >= 0)
    BY <2>2 DEF IInv, TypeOK
  <2> QED
    BY <2>1, <2>2
<1>3. TypeOK'
  BY <1>1, <1>2 DEF IInv, TypeOK
<1> QED
  BY <1>3, StructureUnchanged DEF IInv

\* Requests leave the batches, and an update returns them and others that
\* stay.
LEMMA CollectionKeepsStructure ==
  ASSUME IInv, NEW done \in SUBSET Running,
         running_queue' = [b \in Dp |-> running_queue[b] \ done],
         token_list' \subseteq Running,
         sequence_queue' = sequence_queue,
         pc' # "fillRunningQueue"
  PROVE  /\ FiniteBatches'
         /\ WithinCapacity'
         /\ InOnePlace'
         /\ ReturnedNotQueued'
<1>1. /\ \A b \in Dp : running_queue'[b] \subseteq running_queue[b]
      /\ Running' \subseteq Running
      /\ Queued' = Queued
  BY DEF Running, Queued
<1>2. FiniteBatches'
  BY <1>1, FS_Subset DEF IInv, FiniteBatches
<1>3. WithinCapacity'
  <2>1. ASSUME NEW b \in Dp
        PROVE  Cardinality(running_queue'[b]) <= BatchSizePerDp
    <3>1. /\ IsFiniteSet(running_queue[b])
          /\ running_queue'[b] \in SUBSET running_queue[b]
          /\ Cardinality(running_queue[b]) <= BatchSizePerDp
      BY <1>1 DEF IInv, FiniteBatches, WithinCapacity
    <3>2. /\ Cardinality(running_queue'[b]) <= Cardinality(running_queue[b])
          /\ Cardinality(running_queue'[b]) \in Nat
          /\ Cardinality(running_queue[b]) \in Nat
      BY <3>1, FS_Subset, FS_CardinalityType
    <3> QED
      BY <3>1, <3>2, BatchSizePerDpType
  <2> QED
    BY <2>1 DEF WithinCapacity
<1>4. InOnePlace'
  <2>1. \A b, c \in Dp :
          b # c => running_queue'[b] \intersect running_queue'[c] = {}
    BY <1>1 DEF IInv, InOnePlace
  <2> QED
    BY <1>1, <2>1 DEF IInv, InOnePlace
<1>5. ReturnedNotQueued'
  BY <1>1 DEF IInv, InOnePlace, ReturnedNotQueued
<1> QED
  BY <1>2, <1>3, <1>4, <1>5

\* What updateScheduler does to the batches, to what it returns and to the
\* requests.
LEMMA UpdateEffect ==
  ASSUME IInv, NEW time \in Nat, UpdateScheduler(time)
  PROVE  /\ \E done \in SUBSET Running :
              /\ running_queue' = [b \in Dp |-> running_queue[b] \ done]
              /\ token_list' \subseteq Running
              /\ done \subseteq token_list'
         /\ seq' \in [Ids -> Sequence]
         /\ running_queue' \in [Dp -> SUBSET Ids]
         /\ token_list' \subseteq Ids
         /\ kv_decode' \in Nat
<1> DEFINE done == {i \in Running : IsDone(Advance(seq[i], time))}
<1>1. /\ done \subseteq Running
      /\ running_queue' = [b \in Dp |-> running_queue[b] \ done]
      /\ token_list' \subseteq Running
      /\ done \subseteq token_list'
  BY DEF UpdateScheduler, UpdateSequences
<1>2. seq' \in [Ids -> Sequence]
  <2>1. \A i \in Ids : seq[i] \in Sequence
    BY DEF IInv, TypeOK
  <2>2. \A i \in Ids :
          /\ Advance(seq[i], time) \in Sequence
          /\ [Advance(seq[i], time) EXCEPT !.record = TRUE] \in Sequence
    <3>1. time \in Int
      OBVIOUS
    <3> QED
      BY <2>1, <3>1, AdvanceType
  <2> QED
    BY <2>1, <2>2 DEF UpdateScheduler, UpdateSequences
<1>3. running_queue' \in [Dp -> SUBSET Ids] /\ token_list' \subseteq Ids
  BY <1>1 DEF IInv, TypeOK, Running
<1>4. kv_decode' \in Nat
  <2>1. DecodedTokens \in Nat
    <3>1. IsFiniteSet(Running)
      BY RunningFinite DEF IInv
    <3> QED
      BY <3>1, FS_Subset, FS_CardinalityType DEF DecodedTokens
  <2> QED
    BY <2>1 DEF UpdateScheduler, IInv, TypeOK
<1> QED
  BY <1>1, <1>2, <1>3, <1>4

\* A hit round is an update that takes no time.
LEMMA HitUpdateIInv ==
  ASSUME IInv, HitUpdate
  PROVE  IInv'
<1>1. UpdateScheduler(0) /\ pc' = "fillSequenceQueue"
  BY DEF HitUpdate
<1>2. PICK done \in SUBSET Running :
        /\ running_queue' = [b \in Dp |-> running_queue[b] \ done]
        /\ token_list' \subseteq Running
  BY <1>1, UpdateEffect
<1>3. TypeOK'
  <2>1. /\ seq' \in [Ids -> Sequence]
        /\ running_queue' \in [Dp -> SUBSET Ids]
        /\ token_list' \subseteq Ids
        /\ kv_decode' \in Nat
    BY <1>1, UpdateEffect
  <2> QED
    BY <1>1, <2>1 DEF HitUpdate, UpdateScheduler, IInv, TypeOK
<1>4. sequence_queue' = sequence_queue
  BY <1>1 DEF UpdateScheduler
<1> QED
  BY <1>1, <1>2, <1>3, <1>4, CollectionKeepsStructure DEF IInv

\* No step of the scheduler leaves the invariant.
LEMMA NextIInv == IInv /\ [Next]_schedulerVars => IInv'
<1> SUFFICES ASSUME IInv, [Next]_schedulerVars PROVE IInv'
  OBVIOUS
<1>1. CASE UNCHANGED schedulerVars
  <2>1. TypeOK'
    BY <1>1 DEF IInv, TypeOK, schedulerVars
  <2> QED
    BY <1>1, <2>1, StructureUnchanged DEF IInv, schedulerVars
<1>2. CASE FillSequenceQueue(0)
  BY <1>2, FillSequenceQueueIInv
<1>3. CASE PushDummySeq
  BY <1>3, PushDummySeqIInv
<1>4. CASE FillRunningQueue
  BY <1>4, FillRunningQueueIInv
<1>5. CASE AdmitSequence
  BY <1>5, AdmitSequenceIInv
<1>6. CASE SkipFullBatches
  BY <1>6, SkipFullBatchesIInv
<1>7. CASE InitialFillDone
  BY <1>7, InitialFillDoneIInv
<1>8. CASE SetMetadata
  BY <1>8, SetMetadataIInv
<1>9. CASE HitUpdate
  BY <1>9, HitUpdateIInv
<1> QED
  BY <1>1, <1>2, <1>3, <1>4, <1>5, <1>6, <1>7, <1>8, <1>9 DEF Next, FillPass

\* The invariant holds in every state of the scheduler.
THEOREM Invariance == Spec => []IInv
BY InitIInv, NextIInv, PTL DEF Spec

\* Every variable keeps its type: no rotation outside the batches, no request
\* without a Sequence, whatever the configurations.
THEOREM TypeCorrect == Spec => []TypeOK
<1>1. IInv => TypeOK
  BY DEF IInv
<1> QED
  BY <1>1, Invariance, PTL

\* No batch ever holds more than batch_size_per_dp requests, and
\* fillRunningQueue never takes the head of an empty queue.
THEOREM CapacityRespected == Spec => []WithinCapacity
<1>1. IInv => WithinCapacity
  BY DEF IInv
<1> QED
  BY <1>1, Invariance, PTL

\* A request is in the queue or in one batch, and there once.
THEOREM OnePlaceOnly == Spec => []InOnePlace
<1>1. IInv => InOnePlace
  BY DEF IInv
<1> QED
  BY <1>1, Invariance, PTL
----------------------------------------------------------------------------
(***************************************************************************)
(* The scheduler implements the batch server: an action that moves a       *)
(* request is a step of the server, the others do not show.                *)
(***************************************************************************)

\* The requests the server holds are those of the batches and of the queue.
LEMMA ServerSets == Server!served = Running /\ Server!queued = Queued
BY DEF Server!served, Server!queued, Running, Queued

\* The server counts as the scheduler does.
LEMMA ServerCardinality ==
  ASSUME NEW S
  PROVE  Server!Cardinality(S) = Cardinality(S)
BY Zenon DEF Server!Cardinality, Cardinality

\* A push that makes a request is an arrival at the server.
LEMMA PushArrives ==
  ASSUME IInv, PushDummySeq, ~UNCHANGED <<sequence_queue, running_queue>>
  PROVE  \E r \in Ids : Server!Arrive(r)
<1> DEFINE id == CHOOSE i \in FreeIds : TRUE
<1>1. /\ FreeIds # {}
      /\ sequence_queue' = Append(sequence_queue, id)
      /\ running_queue' = running_queue
  BY DEF PushDummySeq
<1>2. id \in Ids /\ id \notin Running /\ id \notin Queued
  BY <1>1, FreeIdIsNew
<1>3. Server!Arrive(id)
  BY <1>1, <1>2, ServerSets DEF Server!Arrive
<1> QED
  BY <1>2, <1>3

\* A pass that places a request is an admission.
LEMMA AdmitAdmits ==
  ASSUME IInv, AdmitSequence
  PROVE  \E b \in Dp : Server!Admit(b)
<1>1. PICK k \in Dp :
        /\ HasRoom(Probe(k))
        /\ running_queue' = [running_queue EXCEPT
             ![Probe(k)] = @ \union {Head(sequence_queue)}]
  BY DEF AdmitSequence
<1>2. Probe(k) \in Dp
  BY RotationType DEF IInv, TypeOK
<1>3. sequence_queue # <<>>
  BY DEF AdmitSequence, IInv, TypeOK, WithinCapacity
<1>4. /\ sequence_queue' = Tail(sequence_queue)
      /\ Cardinality(running_queue[Probe(k)]) < BatchSizePerDp
  BY <1>1 DEF AdmitSequence, HasRoom
<1>5. Server!Admit(Probe(k))
  BY <1>1, <1>3, <1>4, ServerCardinality DEF Server!Admit
<1> QED
  BY <1>2, <1>5

\* Taking requests out of the batches completes them.
LEMMA CollectionCompletes ==
  ASSUME IInv, NEW done \in SUBSET Running,
         running_queue' = [b \in Dp |-> running_queue[b] \ done],
         sequence_queue' = sequence_queue,
         ~UNCHANGED <<sequence_queue, running_queue>>
  PROVE  \E S \in SUBSET Ids : Server!Complete(S)
<1>1. running_queue \in [Dp -> SUBSET Ids]
  BY DEF IInv, TypeOK
<1>2. done # {} /\ done \subseteq Ids
  BY <1>1 DEF Running
<1>3. Server!Complete(done)
  BY <1>2, ServerSets DEF Server!Complete
<1> QED
  BY <1>2, <1>3

\* An update that lets requests go is a completion.
LEMMA UpdateCompletes ==
  ASSUME IInv, NEW time \in Nat, UpdateScheduler(time),
         ~UNCHANGED <<sequence_queue, running_queue>>
  PROVE  \E S \in SUBSET Ids : Server!Complete(S)
<1>1. PICK done \in SUBSET Running :
        running_queue' = [b \in Dp |-> running_queue[b] \ done]
  BY UpdateEffect
<1>2. sequence_queue' = sequence_queue
  BY DEF UpdateScheduler
<1> QED
  BY <1>1, <1>2, CollectionCompletes

\* Requests enter the batches first come, first served, only where there is
\* room, stay where they are, and leave once: every behaviour of the scheduler
\* is one of the batch server.
THEOREM SchedulerImplementsBatchServer == Spec => ImplementsBatchServer
<1>1. Init => Server!Init
  BY DEF Init, Server!Init
<1>2. IInv /\ [Next]_schedulerVars
        => [Server!Next]_<<sequence_queue, running_queue>>
  <2> SUFFICES ASSUME IInv, [Next]_schedulerVars,
                      ~UNCHANGED <<sequence_queue, running_queue>>
               PROVE  Server!Next
    OBVIOUS
  <2>1. CASE PushDummySeq
    BY <2>1, PushArrives DEF Server!Next
  <2>2. CASE AdmitSequence
    BY <2>2, AdmitAdmits DEF Server!Next
  <2>3. CASE HitUpdate
    BY <2>3, UpdateCompletes DEF HitUpdate, Server!Next
  <2>4. CASE \/ FillSequenceQueue(0) \/ FillRunningQueue
             \/ SkipFullBatches \/ InitialFillDone \/ SetMetadata
             \/ UNCHANGED schedulerVars
    BY <2>4 DEF FillSequenceQueue, FillRunningQueue, SkipFullBatches,
                InitialFillDone, SetMetadata, schedulerVars
  <2> QED
    BY <2>1, <2>2, <2>3, <2>4 DEF Next, FillPass
<1> QED
  BY <1>1, <1>2, Invariance, PTL
  DEF Spec, ImplementsBatchServer, Server!Spec
----------------------------------------------------------------------------
(***************************************************************************)
(* No zombies.  A request starts short of total_len when its workload      *)
(* leaves it something to do; that prefill never takes it past its prompt  *)
(* and decode goes token by token keeps it from jumping past total_len.    *)
(***************************************************************************)

\* Prefill may not have the whole prompt reused; decode needs an output of two
\* tokens, or one with a part of the prompt still to process.
ProperWorkload ==
  \A c \in Configs : \A l \in c.lengths :
    IF c.prefill_mode THEN c.reuse_percent < 100
    ELSE \/ l[2] = 0
         \/ l[2] >= 2
         \/ ~c.decode_mode /\ c.reuse_percent < 100

Unfinished(s) ==
  /\ s.current_len < s.total_len
  /\ s.input_len <= s.total_len
  /\ s.current_len + s.num_process_token <= s.total_len

NoZombieInv ==
  /\ \A i \in Live : Unfinished(seq[i])
  /\ \A i \in Queued : seq[i].num_process_token = 0

\* A reuse rate below one leaves a token of the prompt.
LEMMA ReusedLenBound ==
  ASSUME NEW n \in Nat \ {0}, NEW p \in 0 .. 99
  PROVE  /\ (n * p) \div 100 \in Int
         /\ (n * p) \div 100 < n
<1>1. n * p \in Nat /\ n * p <= n * 99
  OBVIOUS
<1>2. n * 99 < n * 100
  OBVIOUS
<1> QED
  BY <1>1, <1>2

\* The reused part of a prompt is no longer than the prompt.
LEMMA ReusedLenAtMost ==
  ASSUME NEW n \in Nat \ {0}, NEW p \in 0 .. 100
  PROVE  /\ (n * p) \div 100 \in Int
         /\ (n * p) \div 100 <= n
<1>1. n * p \in Nat /\ n * p <= n * 100
  OBVIOUS
<1> QED
  BY <1>1

\* The staggered start leaves two tokens of the output.
LEMMA StaggerBound ==
  ASSUME NEW idx \in Int, NEW count \in Int,
         NEW output_len \in Nat, output_len >= 2
  PROVE  Stagger(idx, count, output_len) <= output_len - 2
<1>1. Greatest(count, 1) \in Int /\ Greatest(count, 1) > 0
  BY DEF Greatest
<1>2. (idx * output_len) \div Greatest(count, 1) \in Int
  BY <1>1
<1> QED
  BY <1>2 DEF Stagger, Least, Greatest

\* A new request of a proper workload has something to do.
LEMMA NewSequenceUnfinished ==
  ASSUME ProperWorkload, TypeOK,
         NEW l \in system_config.lengths, l[2] # 0,
         NEW idx \in Int, NEW count \in Int
  PROVE  /\ Unfinished(NewSequence(l[1], l[2], idx, count))
         /\ NewSequence(l[1], l[2], idx, count).num_process_token = 0
<1> DEFINE input == l[1]
           output == l[2]
           reused == ReusedLen(input)
           start == StartLen(input, output, idx, count)
           total == TotalLen(input, output)
<1>1. system_config \in Configuration /\ system_config \in Configs
  BY ConfigType DEF TypeOK
<1>2. input \in Nat \ {0} /\ output \in Nat \ {0}
  BY <1>1 DEF Configuration
<1>3. system_config.reuse_percent \in 0 .. 100
  BY <1>1 DEF Configuration
<1>4. reused \in Int /\ reused <= input
  BY <1>2, <1>3, ReusedLenAtMost DEF ReusedLen
<1>5. ASSUME system_config.reuse_percent < 100
      PROVE  reused < input
  <2>1. PICK n \in Nat \ {0} : n = input
    BY <1>2
  <2>2. PICK p \in 0 .. 99 : p = system_config.reuse_percent
    BY <1>3, <1>5
  <2>3. (n * p) \div 100 < n
    BY ReusedLenBound
  <2> QED
    BY <2>1, <2>2, <2>3 DEF ReusedLen
<1>6. IF system_config.prefill_mode THEN system_config.reuse_percent < 100
      ELSE \/ output >= 2
           \/ ~system_config.decode_mode /\ system_config.reuse_percent < 100
  BY <1>1 DEF ProperWorkload
<1>7. start < total /\ input <= total
  <2>1. CASE system_config.prefill_mode
    BY <1>2, <1>5, <1>6, <2>1 DEF StartLen, TotalLen
  <2>2. CASE ~system_config.prefill_mode /\ ~system_config.decode_mode
    BY <1>2, <1>4, <1>5, <1>6, <2>2 DEF StartLen, TotalLen
  <2>3. CASE ~system_config.prefill_mode /\ system_config.decode_mode
    <3>1. output >= 2
      BY <1>6, <2>3
    <3>2. /\ Stagger(idx, count, output) \in Int
          /\ Stagger(idx, count, output) <= output - 2
      <4>1. output \in Int
        BY <1>2
      <4> QED
        BY <1>2, <3>1, <4>1, StaggerType, StaggerBound
    <3> QED
      BY <1>2, <2>3, <3>1, <3>2 DEF StartLen, TotalLen
  <2> QED
    BY <2>1, <2>2, <2>3
<1>8. /\ NewSequence(input, output, idx, count).current_len = start
      /\ NewSequence(input, output, idx, count).total_len = total
      /\ NewSequence(input, output, idx, count).input_len = input
      /\ NewSequence(input, output, idx, count).num_process_token = 0
  <2> HIDE DEF input, output, start, total
  <2> QED
    BY DEF NewSequence, NoSequence, start, total
<1>9. start \in Int /\ total \in Int
  <2>1. PICK new : new = NewSequence(input, output, idx, count)
    OBVIOUS
  <2>2. new \in Sequence
    BY <2>1, NewSequenceType
  <2>3. new.current_len \in Int /\ new.total_len \in Int
    BY <2>2 DEF Sequence
  <2> QED
    BY <1>8, <2>1, <2>3
<1> QED
  BY <1>7, <1>8, <1>9 DEF Unfinished

\* A request in prefill gets no more tokens than its prompt has left.
LEMMA PrefillTokensFit ==
  ASSUME IInv, NEW b \in Dp, NEW i \in running_queue[b], IsSum(i)
  PROVE  PrefillTokens(b, i) <= seq[i].input_len - seq[i].current_len
<1> DEFINE left == seq[i].input_len - seq[i].current_len
           cap == system_config.max_process_token
           share == Greatest(1, cap \div Cardinality(SumOf(b)))
<1>1. left \in Int
  <2>1. seq[i] \in Sequence
    BY DEF IInv, TypeOK
  <2> QED
    BY <2>1 DEF Sequence
<1>2. cap \in Nat
  BY ConfigType DEF IInv, Configuration
<1>3. Cardinality(SumOf(b)) \in Nat \ {0}
  <2>1. IsFiniteSet(SumOf(b))
    BY FS_Subset DEF SumOf, IInv, FiniteBatches
  <2>2. i \in SumOf(b)
    BY DEF SumOf
  <2> QED
    BY <2>1, <2>2, FS_CardinalityType, FS_EmptySet
<1>4. share \in Int
  BY <1>2, <1>3 DEF Greatest
<1>5. PrefillTokens(b, i) = IF cap > 0 THEN Least(share, left) ELSE left
  BY DEF PrefillTokens
<1> HIDE DEF left, cap, share
<1>6. PrefillTokens(b, i) <= left
  BY <1>1, <1>4, <1>5 DEF Least
<1> QED
  BY <1>6 DEF left

\* setMetadata gives no request more tokens than it has left.
LEMMA ProcessTokensFit ==
  ASSUME IInv, NEW b \in Dp, NEW i \in running_queue[b],
         Unfinished(seq[i])
  PROVE  seq[i].current_len + ProcessTokens(b, i) <= seq[i].total_len
<1>1. i \in Ids
  BY DEF IInv, TypeOK
<1>2. seq[i] \in Sequence
  BY <1>1 DEF IInv, TypeOK
<1>3. /\ seq[i].input_len \in Int
      /\ seq[i].current_len \in Int
      /\ seq[i].total_len \in Int
  BY <1>2 DEF Sequence
<1>4. IsSum(i) =>
        PrefillTokens(b, i) <= seq[i].input_len - seq[i].current_len
  BY PrefillTokensFit
<1>5. PrefillTokens(b, i) \in Int \/ ~IsSum(i) \/ ~ProcessSum
  BY ProcessTokensType DEF ProcessTokens, IInv
<1>6. CASE IsSum(i)
  BY <1>3, <1>4, <1>5, <1>6 DEF ProcessTokens, Unfinished
<1>7. CASE ~IsSum(i)
  BY <1>3, <1>7 DEF ProcessTokens, Unfinished
<1> QED
  BY <1>6, <1>7

\* No request lives at the start.
LEMMA InitNoZombieInv == Init => NoZombieInv
BY DEF Init, NoZombieInv, Live, Running, Queued

\* An action that moves no request and touches none that lives.
LEMMA NoZombieUnchanged ==
  ASSUME NoZombieInv, UNCHANGED <<sequence_queue, running_queue>>,
         \A i \in Live : seq'[i] = seq[i]
  PROVE  NoZombieInv'
<1>1. Queued' = Queued /\ Live' = Live
  BY DEF Running, Queued, Live
<1>2. \A i \in Live' : Unfinished(seq'[i])
  BY <1>1 DEF NoZombieInv
<1>3. \A i \in Queued' : seq'[i].num_process_token = 0
  BY <1>1 DEF NoZombieInv, Live
<1> QED
  BY <1>2, <1>3 DEF NoZombieInv

\* What the update returned and no batch holds is no request that lives.
LEMMA FillSequenceQueueNoZombie ==
  ASSUME IInv, NoZombieInv, NEW time \in Nat, FillSequenceQueue(time)
  PROVE  NoZombieInv'
<1>1. \A i \in Live : i \in Ids /\ i \notin token_list \ Running
  BY DEF Live, IInv, TypeOK, ReturnedNotQueued, Running, Queued
<1>2. \A i \in Live : seq'[i] = seq[i]
  BY <1>1 DEF FillSequenceQueue
<1> QED
  BY <1>2, NoZombieUnchanged DEF FillSequenceQueue

\* A request of a proper workload starts short of its end.
LEMMA PushDummySeqNoZombie ==
  ASSUME ProperWorkload, IInv, NoZombieInv, PushDummySeq
  PROVE  NoZombieInv'
<1>1. PICK l \in system_config.lengths :
        \/ UNCHANGED <<seq, sequence_queue>>
        \/ /\ l[2] # 0
           /\ FreeIds # {}
           /\ LET id == CHOOSE i \in FreeIds : TRUE
                  idx == to_push[2] - to_push[1]
              IN /\ seq' = [seq EXCEPT ![id] =
                              NewSequence(l[1], l[2], idx, to_push[2])]
                 /\ sequence_queue' = Append(sequence_queue, id)
  BY DEF PushDummySeq
<1>2. UNCHANGED <<running_queue, pc>>
  BY DEF PushDummySeq
<1>3. CASE UNCHANGED <<seq, sequence_queue>>
  BY <1>2, <1>3, NoZombieUnchanged
<1>4. CASE l[2] # 0 /\ ~UNCHANGED <<seq, sequence_queue>>
  <2> DEFINE id == CHOOSE i \in FreeIds : TRUE
             idx == to_push[2] - to_push[1]
             new == NewSequence(l[1], l[2], idx, to_push[2])
  <2>1. /\ seq' = [seq EXCEPT ![id] = new]
        /\ sequence_queue' = Append(sequence_queue, id)
        /\ FreeIds # {}
    BY <1>1, <1>4
  <2>2. id \in Ids /\ id \notin Running /\ id \notin Queued
    BY <2>1, FreeIdIsNew
  <2>3. to_push[2] \in Int /\ idx \in Int
    BY DEF IInv, TypeOK
  <2>4. Unfinished(new) /\ new.num_process_token = 0
    BY <1>4, <2>3, NewSequenceUnfinished DEF IInv
  <2> HIDE DEF id, idx, new
  <2>5. /\ seq'[id] = new
        /\ \A i \in Running \union Queued : seq'[i] = seq[i]
    BY <2>1, <2>2 DEF IInv, TypeOK, Running, Queued
  <2>6. Running' = Running /\ Queued' = Queued \union {id}
    BY <1>2, <2>1, <2>2, QueuedAppend DEF IInv, TypeOK, Running
  <2>7. \A i \in Live' : Unfinished(seq'[i])
    BY <2>4, <2>5, <2>6 DEF NoZombieInv, Live
  <2>8. \A i \in Queued' : seq'[i].num_process_token = 0
    BY <2>4, <2>5, <2>6 DEF NoZombieInv
  <2> QED
    BY <2>7, <2>8 DEF NoZombieInv
<1> QED
  BY <1>1, <1>3, <1>4

\* Admission moves the head of the queue into a batch.
LEMMA AdmitMoves ==
  ASSUME IInv, AdmitSequence
  PROVE  /\ Live' \subseteq Live
         /\ Queued' \subseteq Queued
         /\ Running' \subseteq Running \union Queued
<1> DEFINE id == Head(sequence_queue)
<1>1. PICK k \in Dp :
        running_queue' = [running_queue EXCEPT ![Probe(k)] = @ \union {id}]
  BY DEF AdmitSequence
<1>2. sequence_queue \in Seq(Ids) /\ sequence_queue # <<>>
  BY DEF AdmitSequence, IInv, TypeOK, WithinCapacity
<1>3. id \in Queued
  BY <1>2, HeadAndTail DEF Queued
<1>4. Queued' \subseteq Queued
  BY <1>2, HeadAndTail DEF AdmitSequence, Queued
<1>5. running_queue \in [Dp -> SUBSET Ids]
  BY DEF IInv, TypeOK
<1> HIDE DEF id
<1>6. Running' \subseteq Running \union {id}
  BY <1>1, <1>5 DEF Running
<1> QED
  BY <1>3, <1>4, <1>6 DEF Live

\* An admission changes no length.
LEMMA AdmitSequenceNoZombie ==
  ASSUME IInv, NoZombieInv, AdmitSequence
  PROVE  NoZombieInv'
<1> DEFINE id == Head(sequence_queue)
<1>1. seq' = IF system_config.use_inject_rate
             THEN [seq EXCEPT ![id].queueing_delay =
                                total_time - seq[id].arrival_time]
             ELSE seq
  BY DEF AdmitSequence
<1>2. seq \in [Ids -> Sequence]
  BY DEF IInv, TypeOK
<1> HIDE DEF id
<1>3. ASSUME NEW i \in Ids
      PROVE  /\ seq'[i].input_len = seq[i].input_len
             /\ seq'[i].current_len = seq[i].current_len
             /\ seq'[i].total_len = seq[i].total_len
             /\ seq'[i].num_process_token = seq[i].num_process_token
  <2>1. seq[i] \in Sequence
    BY <1>2
  <2> QED
    BY <1>1, <1>2, <2>1 DEF Sequence
<1>4. Live \subseteq Ids
  BY DEF IInv, TypeOK, Live, Running, Queued
<1>5. \A i \in Live' : Unfinished(seq'[i])
  BY <1>3, <1>4, AdmitMoves DEF NoZombieInv, Unfinished
<1>6. \A i \in Queued' : seq'[i].num_process_token = 0
  BY <1>3, <1>4, AdmitMoves DEF NoZombieInv, Live
<1> QED
  BY <1>5, <1>6 DEF NoZombieInv

\* Nobody is given more tokens than it lacks.
LEMMA SetMetadataNoZombie ==
  ASSUME IInv, NoZombieInv, SetMetadata
  PROVE  NoZombieInv'
<1>1. Running' = Running /\ Queued' = Queued /\ Live' = Live
  BY DEF SetMetadata, Running, Queued, Live
<1>2. /\ seq \in [Ids -> Sequence]
      /\ Running \subseteq Ids
      /\ Queued \subseteq Ids
  BY DEF IInv, TypeOK, Running, Queued
<1>3. \A i \in Queued : seq'[i] = seq[i]
  BY <1>2 DEF SetMetadata, IInv, InOnePlace
<1>4. ASSUME NEW i \in Running
      PROVE  Unfinished(seq'[i])
  <2> DEFINE tokens == ProcessTokens(BatchOf(i), i)
  <2>1. seq'[i] = [seq[i] EXCEPT !.num_process_token = tokens]
    BY <1>2 DEF SetMetadata
  <2>2. BatchOf(i) \in Dp /\ i \in running_queue[BatchOf(i)]
    BY DEF BatchOf, Running
  <2>3. Unfinished(seq[i])
    BY DEF NoZombieInv, Live
  <2>4. seq[i].current_len + tokens <= seq[i].total_len
    BY <2>2, <2>3, ProcessTokensFit
  <2>5. seq[i] \in Sequence
    BY <1>2
  <2> HIDE DEF tokens
  <2>6. /\ seq'[i].current_len = seq[i].current_len
        /\ seq'[i].total_len = seq[i].total_len
        /\ seq'[i].input_len = seq[i].input_len
        /\ seq'[i].num_process_token = tokens
    BY <2>1, <2>5 DEF Sequence
  <2> QED
    BY <2>3, <2>4, <2>6 DEF Unfinished
<1> QED
  BY <1>1, <1>3, <1>4 DEF NoZombieInv, Live

\* A request that advances and is not done has something left to do.
LEMMA AdvanceUnfinished ==
  ASSUME NEW s \in Sequence, NEW time \in Nat, Unfinished(s),
         ~IsDone(Advance(s, time))
  PROVE  /\ Unfinished(Advance(s, time))
         /\ Unfinished([Advance(s, time) EXCEPT !.record = TRUE])
<1> DEFINE a == Advance(s, time)
<1>1. /\ a.current_len = s.current_len + s.num_process_token
      /\ a.total_len = s.total_len
      /\ a.input_len = s.input_len
      /\ a.num_process_token = 0
  BY DEF Advance, Sequence
<1>2. a \in Sequence
  <2>1. time \in Int
    OBVIOUS
  <2> QED
    BY <2>1, AdvanceType
<1>3. a.current_len # a.total_len
  BY DEF IsDone
<1> HIDE DEF a
<1>4. Unfinished(a)
  BY <1>1, <1>2, <1>3 DEF Unfinished, Sequence
<1>5. Unfinished([a EXCEPT !.record = TRUE])
  BY <1>2, <1>4 DEF Unfinished, Sequence
<1> QED
  BY <1>4, <1>5 DEF a

\* A request that stays has not come to its end.
LEMMA UpdateSchedulerNoZombie ==
  ASSUME IInv, NoZombieInv, NEW time \in Nat, UpdateScheduler(time)
  PROVE  NoZombieInv'
<1> DEFINE step(i) == Advance(seq[i], time)
           done == {i \in Running : IsDone(step(i))}
<1>1. /\ running_queue' = [b \in Dp |-> running_queue[b] \ done]
      /\ sequence_queue' = sequence_queue
  BY DEF UpdateScheduler, UpdateSequences
<1>2. /\ seq \in [Ids -> Sequence]
      /\ Running \subseteq Ids
      /\ Queued \subseteq Ids
  BY DEF IInv, TypeOK, Running, Queued
<1>3. \A i \in Queued : seq'[i] = seq[i]
  BY <1>2 DEF UpdateScheduler, UpdateSequences, IInv, InOnePlace
<1>4. \A i \in Running :
        seq'[i] = step(i) \/ seq'[i] = [step(i) EXCEPT !.record = TRUE]
  BY <1>2 DEF UpdateScheduler, UpdateSequences
<1>5. Running' = Running \ done /\ Queued' = Queued
  BY <1>1 DEF Running, Queued
<1>6. ASSUME NEW i \in Running \ done
      PROVE  Unfinished(seq'[i])
  <2>1. seq[i] \in Sequence
    BY <1>2
  <2>2. Unfinished(seq[i])
    BY DEF NoZombieInv, Live
  <2>3. ~IsDone(step(i))
    OBVIOUS
  <2>4. Unfinished(step(i)) /\ Unfinished([step(i) EXCEPT !.record = TRUE])
    BY <2>1, <2>2, <2>3, AdvanceUnfinished
  <2> QED
    BY <1>4, <2>4
<1> HIDE DEF done, step
<1> QED
  BY <1>3, <1>5, <1>6 DEF NoZombieInv, Live

\* Every step of a proper workload keeps its requests short of their end.
LEMMA NextNoZombieInv ==
  ASSUME ProperWorkload
  PROVE  IInv /\ NoZombieInv /\ [Next]_schedulerVars => NoZombieInv'
<1> SUFFICES ASSUME IInv, NoZombieInv, [Next]_schedulerVars
             PROVE  NoZombieInv'
  OBVIOUS
<1>1. CASE UNCHANGED schedulerVars
  BY <1>1, NoZombieUnchanged DEF schedulerVars
<1>2. CASE FillSequenceQueue(0)
  BY <1>2, FillSequenceQueueNoZombie
<1>3. CASE PushDummySeq
  BY <1>3, PushDummySeqNoZombie
<1>4. CASE FillRunningQueue
  BY <1>4, NoZombieUnchanged DEF FillRunningQueue
<1>5. CASE AdmitSequence
  BY <1>5, AdmitSequenceNoZombie
<1>6. CASE SkipFullBatches
  BY <1>6, NoZombieUnchanged DEF SkipFullBatches
<1>7. CASE InitialFillDone
  BY <1>7, NoZombieUnchanged DEF InitialFillDone
<1>8. CASE SetMetadata
  BY <1>8, SetMetadataNoZombie
<1>9. CASE HitUpdate
  BY <1>9, UpdateSchedulerNoZombie DEF HitUpdate
<1> QED
  BY <1>1, <1>2, <1>3, <1>4, <1>5, <1>6, <1>7, <1>8, <1>9 DEF Next, FillPass

\* A request that has something left to do is no zombie.
LEMMA NoZombieFollows == NoZombieInv => NoZombie
BY DEF NoZombieInv, NoZombie, Unfinished

\* With a proper workload no request ever reaches or jumps past total_len
\* without being collected.
THEOREM ProperWorkloadHasNoZombie ==
  ASSUME ProperWorkload
  PROVE  Spec => []NoZombie
<1>1. Init => NoZombieInv
  BY InitNoZombieInv
<1>2. IInv /\ NoZombieInv /\ [Next]_schedulerVars => NoZombieInv'
  BY NextNoZombieInv
<1> QED
  BY <1>1, <1>2, NoZombieFollows, Invariance, PTL DEF Spec
----------------------------------------------------------------------------
(***************************************************************************)
(* How full the batches are.  The number of free places is a difference of *)
(* two counts, and a pass of fillRunningQueue takes one of them.           *)
(***************************************************************************)
AllPlaces == DpDegree * BatchSizePerDp

\* getBatchSize counts the places taken: there are no more of them than the
\* batches have, all are taken when no batch has room, and total_batch_size
\* counts them all when the batches divide it.
LEMMA BatchSizeBound ==
  ASSUME IInv
  PROVE  /\ BatchSize \in Nat
         /\ AllPlaces \in Nat
         /\ BatchSize <= AllPlaces
         /\ AllPlaces <= TotalBatch
         /\ BatchSize = AllPlaces <=> \A b \in Dp : ~HasRoom(b)
         /\ TotalBatch % DpDegree = 0 => AllPlaces = TotalBatch
<1> DEFINE n == DpDegree
           c == BatchSizePerDp
<1>1. n \in Nat \ {0} /\ c \in Nat /\ TotalBatch \in Nat
  BY SchedulerAssumption, BatchSizePerDpType
<1>2. AllPlaces \in Nat
  BY <1>1 DEF AllPlaces
<1>3. AllPlaces <= TotalBatch /\ (TotalBatch % DpDegree = 0
        => AllPlaces = TotalBatch)
  <2>1. \A t \in Nat, d \in Nat \ {0} :
          /\ d * (t \div d) <= t
          /\ t % d = 0 => d * (t \div d) = t
    OBVIOUS
  <2> QED
    BY <1>1, <2>1 DEF AllPlaces, BatchSizePerDp
<1>4. IsFiniteSet(Running)
  BY RunningFinite DEF IInv
<1>5. running_queue \in [0 .. n - 1 -> SUBSET Running]
  BY DEF IInv, TypeOK, Running, Dp
<1>6. \A b \in 0 .. n - 1 : Cardinality(running_queue[b]) <= c
  BY DEF IInv, WithinCapacity, Dp
<1>7. BatchSize = Cardinality(Places(running_queue, n, Running))
  BY DEF BatchSize, Places, Dp
<1>8. /\ BatchSize \in Nat
      /\ BatchSize <= n * c
      /\ BatchSize = n * c <=> EachHas(running_queue, n, c)
  <2> HIDE DEF n, c
  <2>1. n \in Nat /\ c \in Nat
    BY <1>1
  <2> QED
    BY <2>1, <1>4, <1>5, <1>6, <1>7, PlacesBound
<1>9. \A b \in Dp :
        Cardinality(running_queue[b]) \in Nat
          /\ (HasRoom(b) <=> Cardinality(running_queue[b]) # c)
  BY <1>1, <1>6, FS_CardinalityType DEF IInv, FiniteBatches, HasRoom, Dp
<1> QED
  BY <1>2, <1>3, <1>8, <1>9 DEF AllPlaces, Dp, EachHas

\* Each request in a batch takes one place.
LEMMA OnePlaceEach == IInv => BatchSize = Cardinality(Running)
<1> SUFFICES ASSUME IInv
             PROVE  BatchSize = Cardinality(Running)
  OBVIOUS
<1> DEFINE pairs == {p \in Dp \X Running : p[2] \in running_queue[p[1]]}
           f == [p \in pairs |-> p[2]]
<1>1. IsFiniteSet(pairs)
  <2>1. IsFiniteSet(Dp \X Running)
    BY RunningFinite, DpFinite, FS_Product DEF IInv
  <2>2. pairs \in SUBSET (Dp \X Running)
    OBVIOUS
  <2> QED
    BY <2>1, <2>2, FS_Subset
<1>2. f \in Surjection(pairs, Running)
  <2>1. f \in [pairs -> Running]
    OBVIOUS
  <2>2. ASSUME NEW i \in Running
        PROVE  \E p \in pairs : f[p] = i
    <3>1. PICK b \in Dp : i \in running_queue[b]
      BY DEF Running
    <3>2. <<b, i>> \in pairs
      BY <3>1
    <3> QED
      BY <3>2
  <2> QED
    BY <2>1, <2>2 DEF Surjection
<1>3. f \in Injection(pairs, Running)
  <2>1. ASSUME NEW p \in pairs, NEW q \in pairs, f[p] = f[q]
        PROVE  p = q
    <3>1. p[1] \in Dp /\ q[1] \in Dp /\ p = <<p[1], p[2]>>
            /\ q = <<q[1], q[2]>>
      OBVIOUS
    <3>2. p[2] = q[2] /\ p[2] \in running_queue[p[1]]
            /\ q[2] \in running_queue[q[1]]
      BY <2>1
    <3>3. p[1] = q[1]
      BY <3>1, <3>2 DEF IInv, InOnePlace
    <3> QED
      BY <3>1, <3>2, <3>3
  <2>2. f \in [pairs -> Running]
    OBVIOUS
  <2> HIDE DEF f, pairs
  <2> QED
    BY <2>1, <2>2 DEF Injection, IsInjective
<1> HIDE DEF f, pairs
<1>4. Cardinality(Running) = Cardinality(pairs)
  BY <1>1, <1>2, <1>3, FS_Surjection
<1> QED
  BY <1>4 DEF BatchSize, pairs

\* The probes of one pass look at every batch.
LEMMA EveryBatchIsProbed ==
  ASSUME rotate \in Dp, NEW b \in Dp
  PROVE  \E k \in Dp : Probe(k) = b
<1> DEFINE k == IF rotate <= b THEN b - rotate ELSE b + DpDegree - rotate
<1>1. k \in Dp
  BY SchedulerAssumption DEF Dp
<1>2. rotate + k = b \/ rotate + k = b + DpDegree
  BY SchedulerAssumption DEF Dp
<1>3. \A d \in Nat \ {0} : \A x \in 0 .. d - 1 : x % d = x /\ (x + d) % d = x
  OBVIOUS
<1> HIDE DEF k
<1>4. Probe(k) = b
  BY <1>2, <1>3, SchedulerAssumption DEF Probe, Dp
<1> QED
  BY <1>1, <1>4

\* A pass that places a request takes a place that was free.
LEMMA AdmissionCounts ==
  ASSUME IInv, AdmitSequence
  PROVE  /\ BatchSize' = BatchSize + 1
         /\ Len(sequence_queue') = Len(sequence_queue) - 1
         /\ Len(sequence_queue) \in Nat
         /\ sequence_queue # << >>
<1> DEFINE id == Head(sequence_queue)
           pairs == {p \in Dp \X Running : p[2] \in running_queue[p[1]]}
<1>1. PICK k \in Dp :
        running_queue' = [running_queue EXCEPT ![Probe(k)] = @ \union {id}]
  BY DEF AdmitSequence
<1> DEFINE b == Probe(k)
<1>2. b \in Dp
  BY RotationType DEF IInv, TypeOK
<1>3. sequence_queue \in Seq(Ids) /\ sequence_queue # <<>>
  BY DEF AdmitSequence, IInv, TypeOK, WithinCapacity
<1>4. id \in Queued /\ id \notin Running
  <2>1. id \in Queued
    BY <1>3, HeadAndTail DEF Queued
  <2> QED
    BY <2>1 DEF IInv, InOnePlace
<1>5. running_queue \in [Dp -> SUBSET Ids]
  BY DEF IInv, TypeOK
<1> HIDE DEF id, b
<1>6. /\ running_queue'[b] = running_queue[b] \union {id}
      /\ \A d \in Dp \ {b} : running_queue'[d] = running_queue[d]
  BY <1>1, <1>2, <1>5 DEF b
<1>7. Running' = Running \union {id}
  BY <1>2, <1>6 DEF Running
<1>8. {p \in Dp \X Running' : p[2] \in running_queue'[p[1]]}
        = pairs \union {<<b, id>>}
  BY <1>2, <1>4, <1>6, <1>7 DEF Running
<1>9. <<b, id>> \notin pairs
  BY <1>4
<1>10. IsFiniteSet(pairs)
  <2>1. IsFiniteSet(Dp \X Running)
    BY RunningFinite, DpFinite, FS_Product DEF IInv
  <2>2. pairs \in SUBSET (Dp \X Running)
    OBVIOUS
  <2> QED
    BY <2>1, <2>2, FS_Subset
<1>11. BatchSize' = BatchSize + 1
  <2> HIDE DEF pairs
  <2>1. Cardinality(pairs \union {<<b, id>>}) = Cardinality(pairs) + 1
    BY <1>9, <1>10, FS_AddElement
  <2> QED
    BY <1>8, <2>1 DEF BatchSize, pairs
<1>12. /\ Len(sequence_queue') = Len(sequence_queue) - 1
       /\ Len(sequence_queue) \in Nat
  BY <1>3, HeadAndTail DEF AdmitSequence
<1> QED
  BY <1>3, <1>11, <1>12

\* Batches that stay keep their size.
LEMMA SameBatchSize ==
  ASSUME UNCHANGED running_queue
  PROVE  BatchSize' = BatchSize
BY DEF BatchSize, Running
----------------------------------------------------------------------------
(***************************************************************************)
(* fillRunningQueue conserves work.  Each pass takes a free place or finds *)
(* none, so the passes left cover what waits or what is free.              *)
(***************************************************************************)
WorkInv ==
  pc = "fillRunningQueue" =>
    \/ Len(sequence_queue) <= to_admit
    \/ AllPlaces - BatchSize <= to_admit

\* What is neither a push nor a pass leaves the count alone.
LEMMA WorkUnchanged ==
  ASSUME WorkInv, UNCHANGED <<sequence_queue, running_queue, to_admit>>,
         pc' = "fillRunningQueue" => pc = "fillRunningQueue"
  PROVE  WorkInv'
BY SameBatchSize DEF WorkInv, AllPlaces, BatchSizePerDp

\* Every step keeps enough passes for what waits or what is free.
LEMMA NextWorkInv == IInv /\ WorkInv /\ [Next]_schedulerVars => WorkInv'
<1> SUFFICES ASSUME IInv, WorkInv, [Next]_schedulerVars
             PROVE  WorkInv'
  OBVIOUS
<1>1. CASE FillRunningQueue
  <2>1. to_admit' = Passes /\ UNCHANGED <<sequence_queue, running_queue>>
    BY <1>1 DEF FillRunningQueue
  <2>2. BatchSize' = BatchSize
    BY <2>1, SameBatchSize
  <2>3. Len(sequence_queue) \in Nat
    BY DEF IInv, TypeOK
  <2> QED
    BY <2>1, <2>2, <2>3, BatchSizeBound, SchedulerAssumption
    DEF WorkInv, Passes, Least, AllPlaces, BatchSizePerDp
<1>2. CASE AdmitSequence
  <2>1. pc = "fillRunningQueue" /\ to_admit' = to_admit - 1 /\ to_admit \in Int
    BY <1>2 DEF AdmitSequence, IInv, TypeOK
  <2>2. /\ BatchSize' = BatchSize + 1
        /\ Len(sequence_queue') = Len(sequence_queue) - 1
        /\ Len(sequence_queue) \in Nat
    BY <1>2, AdmissionCounts
  <2>3. AllPlaces' = AllPlaces
    BY DEF AllPlaces, BatchSizePerDp
  <2> QED
    BY <2>1, <2>2, <2>3, BatchSizeBound DEF WorkInv
<1>3. CASE SkipFullBatches
  <2>1. /\ to_admit' = to_admit - 1 /\ to_admit \in Int /\ to_admit > 0
        /\ running_queue' = running_queue
        /\ \A k \in Dp : ~HasRoom(Probe(k))
    BY <1>3 DEF SkipFullBatches, IInv, TypeOK
  <2>2. BatchSize' = BatchSize
    BY <2>1, SameBatchSize
  <2>3. AllPlaces' = AllPlaces
    BY DEF AllPlaces, BatchSizePerDp
  <2>4. \A b \in Dp : ~HasRoom(b)
    BY <2>1, EveryBatchIsProbed DEF IInv, TypeOK
  <2> QED
    BY <2>1, <2>2, <2>3, <2>4, BatchSizeBound DEF WorkInv
<1>4. CASE \/ FillSequenceQueue(0) \/ PushDummySeq \/ SetMetadata \/ HitUpdate
  BY <1>4 DEF WorkInv, FillSequenceQueue, PushDummySeq, SetMetadata, HitUpdate
<1>5. CASE InitialFillDone
  BY <1>5, WorkUnchanged DEF InitialFillDone
<1>6. CASE UNCHANGED schedulerVars
  BY <1>6, WorkUnchanged DEF schedulerVars
<1> QED
  BY <1>1, <1>2, <1>3, <1>4, <1>5, <1>6 DEF Next, FillPass

\* No request waits beside a free place once fillRunningQueue is through: the
\* passes counted before the loop are enough, whatever batches the rotation has
\* to skip.
THEOREM WorkIsConserved == Spec => []WorkConserving
<1>1. Init => WorkInv
  BY DEF Init, WorkInv
<1>2. IInv /\ WorkInv => WorkConserving
  <2> SUFFICES ASSUME IInv, WorkInv, pc = "fillRunningQueue", to_admit = 0,
                      sequence_queue # << >>
               PROVE  \A b \in Dp : ~HasRoom(b)
    BY DEF WorkConserving
  <2>1. Len(sequence_queue) \in Nat /\ Len(sequence_queue) # 0
    BY DEF IInv, TypeOK
  <2> QED
    BY <2>1, BatchSizeBound DEF WorkInv
<1> QED
  BY <1>1, <1>2, NextWorkInv, Invariance, PTL DEF Spec
----------------------------------------------------------------------------
(***************************************************************************)
(* The queue drains when the batches divide total_batch_size.              *)
(***************************************************************************)
DrainInv ==
  /\ pc \in {"fillSequenceQueue", "execute"} => sequence_queue = << >>
  /\ pc = "pushSeq" =>
       /\ to_push[1] >= 0
       /\ Len(sequence_queue) + to_push[1] <= TotalBatch - BatchSize
  /\ pc = "fillRunningQueue" =>
       /\ to_admit = Len(sequence_queue)
       /\ to_admit <= TotalBatch - BatchSize

\* Steps that move no request keep the queue within the free places.
LEMMA DrainUnchanged ==
  ASSUME DrainInv,
         UNCHANGED <<sequence_queue, running_queue, to_push, to_admit, pc>>
  PROVE  DrainInv'
BY SameBatchSize DEF DrainInv

\* A warm-up without arrivals asks for no more requests than the batches lack.
LEMMA InjectsWhatLacks ==
  ASSUME IInv
  PROVE  RequestsToInject(0) \in 0 .. TotalBatch - BatchSize
<1>1. BatchSize \in Nat /\ BatchSize <= TotalBatch
  BY BatchSizeBound, SchedulerAssumption
<1>2. (7 * TotalBatch) \div 10 \in Int
        /\ (7 * TotalBatch) \div 10 <= TotalBatch
  BY SchedulerAssumption
<1> QED
  BY <1>1, <1>2, SchedulerAssumption DEF RequestsToInject, Greatest

\* Every step keeps the queue within the free places.
LEMMA NextDrainInv ==
  ASSUME TotalBatch % DpDegree = 0
  PROVE  IInv /\ DrainInv /\ [Next]_schedulerVars => DrainInv'
<1> SUFFICES ASSUME IInv, DrainInv, [Next]_schedulerVars
             PROVE  DrainInv'
  OBVIOUS
<1>0. Len(sequence_queue) \in Nat /\ sequence_queue \in Seq(Ids)
        /\ to_push \in Int \X Int /\ to_admit \in Int
  BY DEF IInv, TypeOK
<1>1. CASE FillSequenceQueue(0)
  <2>1. /\ pc = "fillSequenceQueue" /\ pc' = "pushSeq"
        /\ to_push'[1] = RequestsToInject(0)
        /\ UNCHANGED <<sequence_queue, running_queue>>
    BY <1>1 DEF FillSequenceQueue
  <2>2. BatchSize' = BatchSize
    BY <2>1, SameBatchSize
  <2>3. Len(sequence_queue') = 0
    BY <2>1 DEF DrainInv
  <2>4. to_push'[1] \in 0 .. TotalBatch - BatchSize'
    BY <2>1, <2>2, InjectsWhatLacks
  <2>5. TotalBatch - BatchSize' \in Int
    BY <2>2, BatchSizeBound, SchedulerAssumption
  <2>6. /\ to_push'[1] >= 0
        /\ Len(sequence_queue') + to_push'[1] <= TotalBatch - BatchSize'
    BY <2>3, <2>4, <2>5
  <2> QED
    BY <2>1, <2>6 DEF DrainInv
<1>2. CASE PushDummySeq
  <2>1. /\ pc = "pushSeq" /\ pc' = "pushSeq" /\ to_push[1] > 0
        /\ to_push'[1] = to_push[1] - 1
        /\ running_queue' = running_queue
    BY <1>0, <1>2 DEF PushDummySeq
  <2>2. BatchSize' = BatchSize
    BY <2>1, SameBatchSize
  <2>3. Len(sequence_queue') <= Len(sequence_queue) + 1
        /\ Len(sequence_queue') \in Nat
    BY <1>0, <1>2 DEF PushDummySeq
  <2>4. Len(sequence_queue) + to_push[1] <= TotalBatch - BatchSize
    BY <2>1 DEF DrainInv
  <2>5. BatchSize \in Nat /\ TotalBatch \in Nat
    BY BatchSizeBound, SchedulerAssumption
  <2>6. /\ to_push'[1] >= 0
        /\ Len(sequence_queue') + to_push'[1] <= TotalBatch - BatchSize'
    BY <1>0, <2>1, <2>2, <2>3, <2>4, <2>5
  <2> QED
    BY <2>1, <2>6 DEF DrainInv
<1>3. CASE FillRunningQueue
  <2>1. /\ pc = "pushSeq" /\ pc' = "fillRunningQueue" /\ to_push[1] = 0
        /\ to_admit' = Passes
        /\ UNCHANGED <<sequence_queue, running_queue>>
    BY <1>3 DEF FillRunningQueue
  <2>2. BatchSize' = BatchSize
    BY <2>1, SameBatchSize
  <2>3. Len(sequence_queue) <= TotalBatch - BatchSize
    BY <1>0, <2>1 DEF DrainInv
  <2>4. TotalBatch - BatchSize \in Int
    BY BatchSizeBound, SchedulerAssumption
  <2>5. Passes = Len(sequence_queue)
    BY <1>0, <2>3, <2>4 DEF Passes, Least
  <2> QED
    BY <2>1, <2>2, <2>3, <2>5 DEF DrainInv
<1>4. CASE AdmitSequence
  <2>1. pc = "fillRunningQueue" /\ pc' = pc /\ to_admit' = to_admit - 1
    BY <1>4 DEF AdmitSequence
  <2>2. /\ BatchSize' = BatchSize + 1
        /\ Len(sequence_queue') = Len(sequence_queue) - 1
    BY <1>4, AdmissionCounts
  <2>3. to_admit = Len(sequence_queue) /\ to_admit <= TotalBatch - BatchSize
    BY <2>1 DEF DrainInv
  <2>4. BatchSize \in Nat /\ TotalBatch \in Nat
    BY BatchSizeBound, SchedulerAssumption
  <2>5. /\ to_admit' = Len(sequence_queue')
        /\ to_admit' <= TotalBatch - BatchSize'
    BY <1>0, <2>1, <2>2, <2>3, <2>4
  <2> QED
    BY <2>1, <2>5 DEF DrainInv
<1>5. CASE SkipFullBatches
  <2>1. /\ pc = "fillRunningQueue" /\ to_admit > 0
        /\ \A k \in Dp : ~HasRoom(Probe(k))
    BY <1>5 DEF SkipFullBatches
  <2>2. \A b \in Dp : ~HasRoom(b)
    BY <2>1, EveryBatchIsProbed DEF IInv, TypeOK
  <2>3. BatchSize = TotalBatch
    BY <2>2, BatchSizeBound
  <2>4. to_admit <= TotalBatch - BatchSize
    BY <2>1 DEF DrainInv
  <2> QED
    BY <1>0, <2>1, <2>3, <2>4, SchedulerAssumption
<1>6. CASE SetMetadata
  <2>1. /\ pc = "fillRunningQueue" /\ pc' = "execute" /\ to_admit = 0
        /\ sequence_queue' = sequence_queue
    BY <1>6 DEF SetMetadata
  <2>2. Len(sequence_queue) = 0
    BY <2>1 DEF DrainInv
  <2> QED
    BY <1>0, <2>1, <2>2 DEF DrainInv
<1>7. CASE HitUpdate
  <2>1. /\ pc = "execute" /\ pc' = "fillSequenceQueue"
        /\ sequence_queue' = sequence_queue
    BY <1>7 DEF HitUpdate, UpdateScheduler
  <2> QED
    BY <2>1 DEF DrainInv
<1>8. CASE InitialFillDone
  BY <1>8, DrainUnchanged DEF InitialFillDone
<1>9. CASE UNCHANGED schedulerVars
  BY <1>9, DrainUnchanged DEF schedulerVars
<1> QED
  BY <1>1, <1>2, <1>3, <1>4, <1>5, <1>6, <1>7, <1>8, <1>9 DEF Next, FillPass

\* When the batches divide total_batch_size every request pushed gets its place
\* before the next iteration, and the queue never grows.
THEOREM QueueIsDrained == Spec => []QueueDrained
<1>1. CASE TotalBatch % DpDegree = 0
  <2>1. Init => DrainInv
    BY DEF Init, DrainInv
  <2>2. DrainInv => QueueDrained
    BY DEF DrainInv, QueueDrained
  <2>3. IInv /\ DrainInv /\ [Next]_schedulerVars => DrainInv'
    BY <1>1, NextDrainInv
  <2> QED
    BY <2>1, <2>2, <2>3, Invariance, PTL DEF Spec
<1>2. CASE TotalBatch % DpDegree # 0
  <2>1. QueueDrained
    BY <1>2 DEF QueueDrained
  <2> QED
    BY <2>1, PTL
<1> QED
  BY <1>1, <1>2
----------------------------------------------------------------------------
(***************************************************************************)
(* The KV cache.  Without zombies no request outgrows its total_len, which *)
(* is what setMetadata reserves.                                           *)
(***************************************************************************)
\* What a batch reserves is a sum of the full contexts of its requests.
ReservedSum(F, b) ==
  Adds(F, [i \in running_queue[b] |-> seq[i].total_len], running_queue[b])

KvInv ==
  pc = "execute" /\ system_config.kv_budget >= 0 =>
    \A b \in Dp : \E F :
      /\ ReservedSum(F, b)
      /\ p2_kv_offload[b]
           = Greatest(0, F[running_queue[b]] - system_config.kv_budget)

\* Reserved is the sum of the full contexts.
LEMMA ReservedIs ==
  ASSUME IInv, NEW b \in Dp
  PROVE  \E F : /\ ReservedSum(F, b)
                /\ Reserved(b) = F[running_queue[b]]
<1> DEFINE S == running_queue[b]
           f == [i \in S |-> seq[i].total_len]
           Kv(it) == it = [s \in SUBSET S |->
                             IF s = {} THEN 0
                             ELSE seq[Choice(s)].total_len
                                    + it[s \ {Choice(s)}]]
<1>1. IsFiniteSet(S)
  BY DEF IInv, FiniteBatches
<1>2. ASSUME NEW it
      PROVE  Kv(it) <=> Adds(it, f, S)
  <2>1. ASSUME NEW s \in SUBSET S, s # {}
        PROVE  f[Choice(s)] = seq[Choice(s)].total_len
    BY <1>1, <2>1, SmallerSet
  <2> HIDE DEF f
  <2> QED
    BY <2>1 DEF Adds, SumAt
<1>3. \E it : Kv(it)
  BY <1>1, <1>2, SumExists
<1>4. Kv(CHOOSE it : Kv(it))
  BY <1>3
<1>5. Reserved(b) = (CHOOSE it : Kv(it))[S]
  BY DEF Reserved, MapThenSumSet, MapThenFoldSet, Choice
<1> QED
  BY <1>2, <1>4, <1>5 DEF ReservedSum

\* So is the KV a batch has after its step.
LEMMA KvUsedIs ==
  ASSUME IInv, NEW b \in Dp
  PROVE  \E F : /\ Adds(F, [i \in running_queue[b] |->
                              seq[i].current_len + seq[i].num_process_token],
                        running_queue[b])
                /\ MapThenSumSet(LAMBDA i : seq[i].current_len
                                              + seq[i].num_process_token,
                                 running_queue[b])
                     = F[running_queue[b]]
<1> DEFINE S == running_queue[b]
           used(i) == seq[i].current_len + seq[i].num_process_token
           f == [i \in S |-> used(i)]
           Kv(it) == it = [s \in SUBSET S |->
                             IF s = {} THEN 0
                             ELSE used(Choice(s)) + it[s \ {Choice(s)}]]
<1>1. IsFiniteSet(S)
  BY DEF IInv, FiniteBatches
<1>2. ASSUME NEW it
      PROVE  Kv(it) <=> Adds(it, f, S)
  <2>1. ASSUME NEW s \in SUBSET S, s # {}
        PROVE  f[Choice(s)] = used(Choice(s))
    BY <1>1, <2>1, SmallerSet
  <2> HIDE DEF f
  <2> QED
    BY <2>1 DEF Adds, SumAt
<1>3. \E it : Kv(it)
  BY <1>1, <1>2, SumExists
<1>4. Kv(CHOOSE it : Kv(it))
  BY <1>3
<1>5. MapThenSumSet(LAMBDA i : seq[i].current_len + seq[i].num_process_token,
                    S)
        = (CHOOSE it : Kv(it))[S]
  BY DEF MapThenSumSet, MapThenFoldSet, Choice
<1> QED
  BY <1>2, <1>4, <1>5

\* Every step keeps the offload what the reservation exceeds the budget by.
LEMMA NextKvInv == IInv /\ KvInv /\ [Next]_schedulerVars => KvInv'
<1> SUFFICES ASSUME IInv, KvInv, [Next]_schedulerVars
             PROVE  KvInv'
  OBVIOUS
<1>1. CASE SetMetadata
  <2> SUFFICES ASSUME system_config.kv_budget >= 0, NEW b \in Dp
               PROVE  (\E F :
                        /\ ReservedSum(F, b)
                        /\ p2_kv_offload[b]
                             = Greatest(0, F[running_queue[b]]
                                             - system_config.kv_budget))'
    BY <1>1 DEF KvInv, SetMetadata
  <2> DEFINE S == running_queue[b]
  <2>1. PICK F : ReservedSum(F, b) /\ Reserved(b) = F[S]
    BY ReservedIs
  <2>2. p2_kv_offload'[b] = Greatest(0, F[S] - system_config.kv_budget)
    BY <1>1, <2>1 DEF SetMetadata, Offload
  <2>3. ASSUME NEW i \in S
        PROVE  seq'[i].total_len = seq[i].total_len
    <3>1. i \in Running /\ i \in Ids
      BY DEF Running, IInv, TypeOK
    <3>2. seq[i] \in Sequence
      BY <3>1 DEF IInv, TypeOK
    <3>3. seq'[i] = [seq[i] EXCEPT !.num_process_token =
                                     ProcessTokens(BatchOf(i), i)]
      BY <1>1, <3>1 DEF SetMetadata
    <3> QED
      BY <3>2, <3>3 DEF Sequence
  <2>4. [i \in S |-> seq'[i].total_len] = [i \in S |-> seq[i].total_len]
    BY <2>3
  <2>5. UNCHANGED <<running_queue, system_config>>
    BY <1>1 DEF SetMetadata
  <2>6. ReservedSum(F, b)'
    BY <2>1, <2>4, <2>5 DEF ReservedSum
  <2> QED
    BY <2>2, <2>5, <2>6
<1>2. CASE UNCHANGED schedulerVars
  BY <1>2 DEF KvInv, schedulerVars, ReservedSum
<1>3. CASE \/ FillSequenceQueue(0) \/ PushDummySeq \/ FillRunningQueue
           \/ FillPass \/ InitialFillDone \/ HitUpdate
  BY <1>3 DEF KvInv, FillSequenceQueue, PushDummySeq, FillRunningQueue,
              FillPass, AdmitSequence, SkipFullBatches, InitialFillDone,
              HitUpdate
<1> QED
  BY <1>1, <1>2, <1>3 DEF Next

\* The tokens a batch keeps out of HBM are enough for the step that follows:
\* without zombies no request has more KV after it than it reserved.
THEOREM OffloadIsEnough ==
  ASSUME ProperWorkload
  PROVE  Spec => []OffloadCoversKv
<1>1. Init => NoZombieInv /\ KvInv
  BY InitNoZombieInv DEF Init, KvInv
<1>2. IInv /\ NoZombieInv /\ [Next]_schedulerVars => NoZombieInv'
  BY NextNoZombieInv
<1>3. IInv /\ NoZombieInv /\ KvInv => OffloadCoversKv
  <2> SUFFICES ASSUME IInv, NoZombieInv, KvInv, pc = "execute",
                      system_config.kv_budget >= 0, NEW b \in Dp
               PROVE  MapThenSumSet(LAMBDA i : seq[i].current_len
                                                 + seq[i].num_process_token,
                                    running_queue[b])
                        <= system_config.kv_budget + p2_kv_offload[b]
    BY DEF OffloadCoversKv
  <2> DEFINE S == running_queue[b]
             used == [i \in S |-> seq[i].current_len
                                    + seq[i].num_process_token]
             full == [i \in S |-> seq[i].total_len]
             budget == system_config.kv_budget
  <2>1. PICK G : /\ ReservedSum(G, b)
                 /\ p2_kv_offload[b] = Greatest(0, G[S] - budget)
    BY DEF KvInv
  <2>2. PICK F : /\ Adds(F, used, S)
                 /\ MapThenSumSet(LAMBDA i : seq[i].current_len
                                               + seq[i].num_process_token,
                                  S) = F[S]
    BY KvUsedIs
  <2>3. IsFiniteSet(S)
    BY DEF IInv, FiniteBatches
  <2>4. ASSUME NEW i \in S
        PROVE  /\ used[i] \in Int
               /\ full[i] \in Int
               /\ used[i] <= full[i]
    <3>1. i \in Live /\ i \in Ids
      BY DEF Live, Running, IInv, TypeOK
    <3>2. seq[i] \in Sequence /\ Unfinished(seq[i])
      BY <3>1 DEF IInv, TypeOK, NoZombieInv
    <3> QED
      BY <3>2 DEF Sequence, Unfinished
  <2>5. used \in [S -> Int] /\ full \in [S -> Int]
    BY <2>4
  <2>6. Adds(G, full, S)
    BY <2>1 DEF ReservedSum
  <2> HIDE DEF used, full
  <2>7. F[S] \in Int /\ G[S] \in Int /\ F[S] <= G[S]
    BY <2>2, <2>3, <2>4, <2>5, <2>6, SumMonotone
  <2>8. budget \in Int
    BY ConfigType DEF IInv, Configuration
  <2>9. G[S] <= budget + p2_kv_offload[b] /\ p2_kv_offload[b] \in Int
    BY <2>1, <2>7, <2>8 DEF Greatest
  <2> HIDE DEF S
  <2>10. F[S] <= budget + p2_kv_offload[b]
    BY <2>7, <2>8, <2>9
  <2> QED
    BY <2>2, <2>10 DEF S
<1> QED
  BY <1>1, <1>2, <1>3, NextKvInv, Invariance, PTL DEF Spec
----------------------------------------------------------------------------
(***************************************************************************)
(* Steady-state decode.  What lacks is pushed and admitted in every round, *)
(* and a request in decode mode is past its prompt from the start.         *)
(***************************************************************************)

\* In decode mode requests replace the ones that leave, none arrives at a time
\* of its own, and each has the output of two tokens the sampler clamps it to.
SteadyWorkload ==
  \A c \in Configs :
    c.decode_mode /\ ~c.prefill_mode =>
      ~c.use_inject_rate /\ \A l \in c.lengths : l[2] >= 2

Decoding == system_config.decode_mode /\ ~system_config.prefill_mode

\* The prompt of the request is behind it, and no prefill keeps it waiting.
PastPrompt(s) == s.input_len <= s.current_len /\ s.gen_start_time = 0

SteadyInv ==
  Decoding =>
    /\ \A i \in Live : PastPrompt(seq[i])
    /\ pc = "pushSeq" =>
         Len(sequence_queue) + to_push[1] >= TotalBatch - BatchSize
    /\ pc = "fillRunningQueue" => to_admit >= AllPlaces - BatchSize
    /\ pc = "execute" => /\ BatchSize = AllPlaces
                         /\ \A i \in Running : seq[i].num_process_token = 1

\* The fields of two requests that the ages and the tokens depend on.
SameProgress(s, t) ==
  /\ s.input_len = t.input_len
  /\ s.current_len = t.current_len
  /\ s.total_len = t.total_len
  /\ s.gen_start_time = t.gen_start_time
  /\ s.num_process_token = t.num_process_token

\* Only a push adds a request, only an update removes one, and only setMetadata
\* and an update give a request another length or tokens.
LEMMA LiveKept ==
  ASSUME IInv,
         \/ FillSequenceQueue(0) \/ FillRunningQueue \/ AdmitSequence
         \/ SkipFullBatches \/ InitialFillDone \/ UNCHANGED schedulerVars
  PROVE  Live' = Live /\ \A i \in Live : SameProgress(seq'[i], seq[i])
<1>1. CASE AdmitSequence
  <2> DEFINE id == Head(sequence_queue)
  <2>1. PICK k \in Dp :
          /\ running_queue' = [running_queue EXCEPT ![Probe(k)]
               = @ \union {id}]
          /\ seq' = IF system_config.use_inject_rate
                    THEN [seq EXCEPT ![id].queueing_delay =
                                       total_time - seq[id].arrival_time]
                    ELSE seq
    BY <1>1 DEF AdmitSequence
  <2>2. sequence_queue \in Seq(Ids) /\ sequence_queue # <<>>
    BY <1>1 DEF AdmitSequence, IInv, TypeOK, WithinCapacity
  <2>3. Probe(k) \in Dp
    BY RotationType DEF IInv, TypeOK
  <2>4. /\ running_queue \in [Dp -> SUBSET Ids]
        /\ seq \in [Ids -> Sequence]
    BY DEF IInv, TypeOK
  <2>5. /\ sequence_queue' = Tail(sequence_queue)
        /\ Len(Tail(sequence_queue)) = Len(sequence_queue) - 1
        /\ Len(sequence_queue) \in Nat
        /\ \A j \in 1 .. Len(sequence_queue) - 1 :
             Tail(sequence_queue)[j] = sequence_queue[j + 1]
        /\ id = sequence_queue[1]
    BY <1>1, <2>2, HeadAndTail DEF AdmitSequence
  <2> HIDE DEF id
  <2>6. Running' = Running \union {id}
    BY <2>1, <2>3, <2>4 DEF Running
  <2>7. Queued = Queued' \union {id}
    <3>1. Queued' \union {id} \subseteq Queued
      BY <2>2, <2>5 DEF Queued
    <3>2. ASSUME NEW j \in 1 .. Len(sequence_queue)
          PROVE  sequence_queue[j] \in Queued' \union {id}
      <4>1. CASE j = 1
        BY <2>5, <4>1
      <4>2. CASE j # 1
        <5>1. j - 1 \in 1 .. Len(sequence_queue')
          BY <2>5, <4>2
        <5>2. sequence_queue'[j - 1] = sequence_queue[j]
          BY <2>5, <4>2
        <5> QED
          BY <5>1, <5>2 DEF Queued
      <4> QED
        BY <4>1, <4>2
    <3> QED
      BY <3>1, <3>2 DEF Queued
  <2>8. ASSUME NEW i \in Ids
        PROVE  SameProgress(seq'[i], seq[i])
    <3>1. seq[i] \in Sequence
      BY <2>4
    <3> QED
      BY <2>1, <2>4, <3>1 DEF SameProgress, Sequence
  <2>9. Live \subseteq Ids
    BY DEF IInv, TypeOK, Live, Running, Queued
  <2> QED
    BY <2>6, <2>7, <2>8, <2>9 DEF Live
<1>2. CASE FillSequenceQueue(0)
  <2>1. UNCHANGED <<sequence_queue, running_queue>>
    BY <1>2 DEF FillSequenceQueue
  <2>2. \A i \in Live : i \in Ids /\ i \notin token_list \ Running
    BY DEF Live, IInv, TypeOK, ReturnedNotQueued, Running, Queued
  <2>3. \A i \in Live : seq'[i] = seq[i]
    BY <1>2, <2>2 DEF FillSequenceQueue
  <2> QED
    BY <2>1, <2>3 DEF Live, Running, Queued, SameProgress
<1>3. CASE UNCHANGED <<sequence_queue, running_queue, seq>>
  BY <1>3 DEF Live, Running, Queued, SameProgress
<1> QED
  BY <1>1, <1>2, <1>3 DEF FillRunningQueue, SkipFullBatches, InitialFillDone,
                          schedulerVars

\* A push adds the request it makes or none.
LEMMA PushAdds ==
  ASSUME IInv, PushDummySeq
  PROVE  \/ \E l \in system_config.lengths :
              /\ l[2] = 0
              /\ UNCHANGED <<seq, sequence_queue>>
              /\ Live' = Live
         \/ \E l \in system_config.lengths, id \in Ids \ Live :
              /\ l[2] # 0
              /\ seq'[id] = NewSequence(l[1], l[2], to_push[2] - to_push[1],
                                        to_push[2])
              /\ sequence_queue' = Append(sequence_queue, id)
              /\ Live' = Live \union {id}
              /\ \A i \in Live : seq'[i] = seq[i]
<1>1. PICK l \in system_config.lengths :
        \/ l[2] = 0 /\ UNCHANGED <<seq, sequence_queue>>
        \/ /\ l[2] # 0
           /\ FreeIds # {}
           /\ LET id == CHOOSE i \in FreeIds : TRUE
                  idx == to_push[2] - to_push[1]
              IN /\ seq' = [seq EXCEPT ![id] =
                              NewSequence(l[1], l[2], idx, to_push[2])]
                 /\ sequence_queue' = Append(sequence_queue, id)
  BY DEF PushDummySeq
<1>2. running_queue' = running_queue
  BY DEF PushDummySeq
<1>3. CASE l[2] = 0 /\ UNCHANGED <<seq, sequence_queue>>
  BY <1>2, <1>3 DEF Live, Running, Queued
<1>4. CASE l[2] # 0 /\ ~(l[2] = 0 /\ UNCHANGED <<seq, sequence_queue>>)
  <2> DEFINE id == CHOOSE i \in FreeIds : TRUE
             new == NewSequence(l[1], l[2], to_push[2] - to_push[1],
                                to_push[2])
  <2>1. /\ seq' = [seq EXCEPT ![id] = new]
        /\ sequence_queue' = Append(sequence_queue, id)
        /\ FreeIds # {}
    BY <1>1, <1>4
  <2>2. id \in Ids /\ id \notin Running /\ id \notin Queued
    BY <2>1, FreeIdIsNew
  <2> HIDE DEF id, new
  <2>3. /\ seq'[id] = new
        /\ \A i \in Live : seq'[i] = seq[i]
    BY <2>1, <2>2 DEF IInv, TypeOK, Live, Running, Queued
  <2>4. Live' = Live \union {id}
    BY <1>2, <2>1, <2>2, QueuedAppend DEF IInv, TypeOK, Running, Live
  <2>5. id \in Ids \ Live
    BY <2>2 DEF Live
  <2> QED
    BY <1>4, <2>1, <2>3, <2>4, <2>5 DEF new
<1> QED
  BY <1>1, <1>3, <1>4

\* The lengths of a request as it is made.
LEMMA NewFields ==
  ASSUME NEW n, NEW o, NEW idx, NEW count
  PROVE  /\ NewSequence(n, o, idx, count).input_len = n
         /\ NewSequence(n, o, idx, count).current_len
              = StartLen(n, o, idx, count)
         /\ NewSequence(n, o, idx, count).total_len = TotalLen(n, o)
         /\ NewSequence(n, o, idx, count).num_process_token = 0
         /\ NewSequence(n, o, idx, count).gen_start_time = 0
<1>1. PICK start : start = StartLen(n, o, idx, count)
  OBVIOUS
<1>2. PICK total : total = TotalLen(n, o)
  OBVIOUS
<1> QED
  BY <1>1, <1>2 DEF NewSequence, NoSequence

\* Where a request starts in decode mode.
LEMMA DecodeStart ==
  ASSUME IInv, Decoding, NEW l \in system_config.lengths,
         NEW idx \in Int, NEW count \in Int
  PROVE  /\ l[1] \in Nat /\ l[2] \in Nat
         /\ Stagger(idx, count, l[2]) \in Nat
         /\ StartLen(l[1], l[2], idx, count)
              = IF initial_fill_done THEN l[1]
                ELSE l[1] + Stagger(idx, count, l[2])
         /\ TotalLen(l[1], l[2]) = l[1] + l[2] - 1
<1>1. l[1] \in Nat /\ l[2] \in Nat
  BY ConfigType DEF IInv, Configuration
<1>2. Stagger(idx, count, l[2]) \in Int
  <2>1. l[2] \in Int
    BY <1>1
  <2> QED
    BY <2>1, StaggerType
<1>3. Stagger(idx, count, l[2]) >= 0
  <2>1. PICK x : x = Least((idx * l[2]) \div Greatest(count, 1), l[2] - 2)
    OBVIOUS
  <2>2. x \in Int
    <3>1. Greatest(count, 1) \in Int /\ Greatest(count, 1) > 0
      BY DEF Greatest
    <3>2. (idx * l[2]) \div Greatest(count, 1) \in Int
      BY <1>1, <3>1
    <3> QED
      BY <1>1, <2>1, <3>2 DEF Least
  <2> QED
    BY <2>1, <2>2 DEF Stagger, Greatest
<1> QED
  BY <1>1, <1>2, <1>3 DEF StartLen, TotalLen, Decoding

\* In decode mode setMetadata gives each running request its token.
LEMMA OneTokenEach ==
  ASSUME IInv, SetMetadata, \A i \in Live : PastPrompt(seq[i])
  PROVE  /\ Live' = Live /\ Running' = Running
         /\ \A i \in Live : /\ seq'[i].input_len = seq[i].input_len
                            /\ seq'[i].current_len = seq[i].current_len
                            /\ seq'[i].total_len = seq[i].total_len
                            /\ seq'[i].gen_start_time = seq[i].gen_start_time
         /\ \A i \in Running : seq'[i].num_process_token = 1
<1>1. Running' = Running /\ Queued' = Queued /\ Live' = Live
  BY DEF SetMetadata, Running, Queued, Live
<1>2. /\ seq \in [Ids -> Sequence]
      /\ Live \subseteq Ids
      /\ Running \subseteq Live
      /\ total_time \in Nat
  BY DEF IInv, TypeOK, Live, Running, Queued
<1>3. ASSUME NEW i \in Running
      PROVE  ~IsSum(i) /\ seq[i].gen_start_time <= total_time
  <2>1. seq[i] \in Sequence /\ PastPrompt(seq[i])
    BY <1>2
  <2> QED
    BY <1>2, <2>1 DEF PastPrompt, IsSum, Sequence
<1>4. ProcessGen
  BY <1>3 DEF ProcessGen, HasSumSeq
<1>5. ASSUME NEW i \in Running
      PROVE  ProcessTokens(BatchOf(i), i) = 1
  BY <1>3, <1>4 DEF ProcessTokens
<1>6. ASSUME NEW i \in Live
      PROVE  \/ seq'[i] = [seq[i] EXCEPT !.num_process_token = 1]
             \/ i \notin Running /\ seq'[i] = seq[i]
  BY <1>2, <1>5 DEF SetMetadata
<1>7. ASSUME NEW i \in Live
      PROVE  /\ seq'[i].input_len = seq[i].input_len
             /\ seq'[i].current_len = seq[i].current_len
             /\ seq'[i].total_len = seq[i].total_len
             /\ seq'[i].gen_start_time = seq[i].gen_start_time
             /\ i \in Running => seq'[i].num_process_token = 1
  <2>1. seq[i] \in Sequence
    BY <1>2
  <2> QED
    BY <1>6, <2>1 DEF Sequence
<1> QED
  BY <1>1, <1>2, <1>7

\* An update of a hit round advances each running request by its tokens and
\* lets those go that have come to their end.
LEMMA HitAdvances ==
  ASSUME IInv, HitUpdate
  PROVE  /\ \A i \in Running :
              /\ seq'[i].input_len = seq[i].input_len
              /\ seq'[i].total_len = seq[i].total_len
              /\ seq'[i].gen_start_time = seq[i].gen_start_time
              /\ seq'[i].current_len
                   = seq[i].current_len + seq[i].num_process_token
         /\ \A i \in Queued : seq'[i] = seq[i]
         /\ Running' = Running \ {i \in Running :
                                    seq[i].current_len
                                      + seq[i].num_process_token
                                      = seq[i].total_len}
         /\ Queued' = Queued
         /\ sequence_queue' = sequence_queue
<1> DEFINE step(i) == Advance(seq[i], 0)
           done == {i \in Running : IsDone(step(i))}
<1>1. /\ running_queue' = [b \in Dp |-> running_queue[b] \ done]
      /\ sequence_queue' = sequence_queue
  BY DEF HitUpdate, UpdateScheduler, UpdateSequences
<1>2. /\ seq \in [Ids -> Sequence]
      /\ Running \subseteq Ids
      /\ Queued \subseteq Ids
  BY DEF IInv, TypeOK, Running, Queued
<1>3. \A i \in Queued : seq'[i] = seq[i]
  BY <1>2 DEF HitUpdate, UpdateScheduler, UpdateSequences, IInv, InOnePlace
<1>4. \A i \in Running :
        seq'[i] = step(i) \/ seq'[i] = [step(i) EXCEPT !.record = TRUE]
  BY <1>2 DEF HitUpdate, UpdateScheduler, UpdateSequences
<1>5. Running' = Running \ done /\ Queued' = Queued
  BY <1>1 DEF Running, Queued
<1>6. ASSUME NEW i \in Running
      PROVE  /\ step(i).input_len = seq[i].input_len
             /\ step(i).total_len = seq[i].total_len
             /\ step(i).gen_start_time = seq[i].gen_start_time
             /\ step(i).current_len
                  = seq[i].current_len + seq[i].num_process_token
             /\ step(i) \in Sequence
  <2>1. seq[i] \in Sequence
    BY <1>2
  <2>2. PICK s : s = seq[i]
    OBVIOUS
  <2>3. s \in Sequence /\ 0 \in Int
    BY <2>1, <2>2
  <2>4. Advance(s, 0) \in Sequence
    BY <2>3, AdvanceType
  <2>5. /\ Advance(s, 0).input_len = s.input_len
        /\ Advance(s, 0).total_len = s.total_len
        /\ Advance(s, 0).gen_start_time = s.gen_start_time
        /\ Advance(s, 0).current_len = s.current_len + s.num_process_token
    BY <2>3 DEF Advance, Sequence
  <2> QED
    BY <2>2, <2>4, <2>5
<1>7. done = {i \in Running :
                seq[i].current_len + seq[i].num_process_token
                  = seq[i].total_len}
  BY <1>6 DEF IsDone
<1>8. ASSUME NEW i \in Running
      PROVE  /\ seq'[i].input_len = seq[i].input_len
             /\ seq'[i].total_len = seq[i].total_len
             /\ seq'[i].gen_start_time = seq[i].gen_start_time
             /\ seq'[i].current_len
                  = seq[i].current_len + seq[i].num_process_token
  <2>1. PICK a : a = step(i)
    OBVIOUS
  <2>2. a \in Sequence
    BY <1>6, <2>1
  <2>3. seq'[i] = a \/ seq'[i] = [a EXCEPT !.record = TRUE]
    BY <1>4, <2>1
  <2> QED
    BY <1>6, <2>1, <2>2, <2>3 DEF Sequence
<1> HIDE DEF done, step
<1> QED
  BY <1>1, <1>3, <1>5, <1>7, <1>8

\* Every step of decode mode keeps the batches on their way to full.
LEMMA NextSteadyInv ==
  ASSUME SteadyWorkload
  PROVE  IInv /\ SteadyInv /\ [Next]_schedulerVars => SteadyInv'
<1> SUFFICES ASSUME IInv, SteadyInv, [Next]_schedulerVars, Decoding'
             PROVE  SteadyInv'
  BY DEF SteadyInv
<1>1. system_config' = system_config /\ Decoding
  BY DEF Decoding, Next, FillPass, FillSequenceQueue, PushDummySeq,
         FillRunningQueue, AdmitSequence, SkipFullBatches, InitialFillDone,
         SetMetadata, HitUpdate, UpdateScheduler, schedulerVars
<1>2. /\ \A i \in Live : PastPrompt(seq[i])
      /\ pc = "pushSeq" =>
           Len(sequence_queue) + to_push[1] >= TotalBatch - BatchSize
      /\ pc = "fillRunningQueue" => to_admit >= AllPlaces - BatchSize
      /\ pc = "execute" => /\ BatchSize = AllPlaces
                           /\ \A i \in Running : seq[i].num_process_token = 1
  BY <1>1 DEF SteadyInv
<1>3. /\ sequence_queue \in Seq(Ids)
      /\ Len(sequence_queue) \in Nat
      /\ to_push \in Int \X Int
      /\ to_admit \in Int
      /\ AllPlaces' = AllPlaces
  BY DEF IInv, TypeOK, AllPlaces, BatchSizePerDp
<1>4. system_config \in Configs /\ ~system_config.use_inject_rate
        /\ \A l \in system_config.lengths : l[2] >= 2
  BY <1>1 DEF IInv, TypeOK, SteadyWorkload, Decoding
<1>5. ASSUME \/ FillSequenceQueue(0) \/ FillRunningQueue \/ AdmitSequence
             \/ SkipFullBatches \/ InitialFillDone \/ UNCHANGED schedulerVars
      PROVE  \A i \in Live' : PastPrompt(seq'[i])
  BY <1>2, <1>5, LiveKept DEF PastPrompt, SameProgress
<1>6. CASE FillSequenceQueue(0)
  <2>1. /\ pc' = "pushSeq"
        /\ to_push'[1] = TotalBatch - BatchSize
        /\ UNCHANGED <<sequence_queue, running_queue>>
    BY <1>4, <1>6 DEF FillSequenceQueue, RequestsToInject
  <2>2. BatchSize' = BatchSize
    BY <2>1, SameBatchSize
  <2> QED
    BY <1>3, <1>5, <1>6, <2>1, <2>2, BatchSizeBound, SchedulerAssumption
    DEF SteadyInv
<1>7. CASE PushDummySeq
  <2>1. /\ pc = "pushSeq" /\ pc' = "pushSeq"
        /\ to_push'[1] = to_push[1] - 1
        /\ running_queue' = running_queue
    BY <1>3, <1>7 DEF PushDummySeq
  <2>2. BatchSize' = BatchSize
    BY <2>1, SameBatchSize
  <2>3. PICK l \in system_config.lengths, id \in Ids \ Live :
          /\ seq'[id] = NewSequence(l[1], l[2], to_push[2] - to_push[1],
                                    to_push[2])
          /\ sequence_queue' = Append(sequence_queue, id)
          /\ Live' = Live \union {id}
          /\ \A i \in Live : seq'[i] = seq[i]
    <3>1. \A l \in system_config.lengths : l[2] # 0
      BY <1>4, ConfigType DEF IInv, Configuration
    <3> QED
      BY <1>7, <3>1, PushAdds
  <2>4. Len(sequence_queue') = Len(sequence_queue) + 1
    BY <1>3, <2>3
  <2>5. PastPrompt(seq'[id])
    <3>1. to_push[2] - to_push[1] \in Int /\ to_push[2] \in Int
      BY <1>3
    <3>2. PICK idx \in Int, count \in Int :
            idx = to_push[2] - to_push[1] /\ count = to_push[2]
      BY <3>1
    <3>3. seq'[id] = NewSequence(l[1], l[2], idx, count)
      BY <2>3, <3>2
    <3>4. PICK start : start = StartLen(l[1], l[2], idx, count)
      OBVIOUS
    <3>5. /\ seq'[id].input_len = l[1]
          /\ seq'[id].current_len = start
          /\ seq'[id].gen_start_time = 0
      BY <3>3, <3>4, NewFields
    <3>6. PICK stagger : stagger = Stagger(idx, count, l[2])
      OBVIOUS
    <3>7. l[1] \in Nat /\ stagger \in Nat
            /\ (start = l[1] \/ start = l[1] + stagger)
      BY <1>1, <3>4, <3>6, DecodeStart
    <3> QED
      BY <3>5, <3>7 DEF PastPrompt
  <2>6. \A i \in Live' : PastPrompt(seq'[i])
    BY <1>2, <2>3, <2>5
  <2> QED
    BY <1>2, <1>3, <2>1, <2>2, <2>4, <2>6, BatchSizeBound,
       SchedulerAssumption
    DEF SteadyInv
<1>8. CASE FillRunningQueue
  <2>1. /\ pc = "pushSeq" /\ pc' = "fillRunningQueue" /\ to_push[1] = 0
        /\ to_admit' = Passes
        /\ UNCHANGED <<sequence_queue, running_queue>>
    BY <1>8 DEF FillRunningQueue
  <2>2. BatchSize' = BatchSize
    BY <2>1, SameBatchSize
  <2>3. Passes >= AllPlaces - BatchSize
    BY <1>2, <1>3, <2>1, BatchSizeBound, SchedulerAssumption
    DEF Passes, Least
  <2> QED
    BY <1>3, <1>5, <1>8, <2>1, <2>2, <2>3 DEF SteadyInv
<1>9. CASE AdmitSequence
  <2>1. pc = "fillRunningQueue" /\ pc' = pc /\ to_admit' = to_admit - 1
    BY <1>9 DEF AdmitSequence
  <2>2. BatchSize' = BatchSize + 1
    BY <1>9, AdmissionCounts
  <2> QED
    BY <1>2, <1>3, <1>5, <1>9, <2>1, <2>2, BatchSizeBound DEF SteadyInv
<1>10. CASE SkipFullBatches
  <2>1. /\ pc' = "fillRunningQueue" /\ to_admit > 0
        /\ to_admit' = to_admit - 1
        /\ running_queue' = running_queue
        /\ \A k \in Dp : ~HasRoom(Probe(k))
    BY <1>10 DEF SkipFullBatches
  <2>2. BatchSize' = BatchSize
    BY <2>1, SameBatchSize
  <2>3. \A b \in Dp : ~HasRoom(b)
    BY <2>1, EveryBatchIsProbed DEF IInv, TypeOK
  <2>4. to_admit' >= AllPlaces' - BatchSize'
    BY <1>3, <2>1, <2>2, <2>3, BatchSizeBound
  <2> QED
    BY <1>5, <1>10, <2>1, <2>4 DEF SteadyInv
<1>11. CASE InitialFillDone \/ UNCHANGED schedulerVars
  <2>1. UNCHANGED <<pc, to_admit, to_push, sequence_queue, running_queue, seq>>
    BY <1>11 DEF InitialFillDone, schedulerVars
  <2>2. BatchSize' = BatchSize /\ Running' = Running
    BY <2>1, SameBatchSize DEF Running
  <2> QED
    BY <1>2, <1>3, <1>5, <1>11, <2>1, <2>2 DEF SteadyInv
<1>12. CASE SetMetadata
  <2>1. /\ pc = "fillRunningQueue" /\ pc' = "execute" /\ to_admit = 0
        /\ running_queue' = running_queue
    BY <1>12 DEF SetMetadata
  <2>2. BatchSize' = BatchSize
    BY <2>1, SameBatchSize
  <2>3. BatchSize' = AllPlaces'
    BY <1>2, <1>3, <2>1, <2>2, BatchSizeBound
  <2>4. \A i \in Live' : PastPrompt(seq'[i])
    BY <1>2, <1>12, OneTokenEach DEF PastPrompt
  <2>5. \A i \in Running' : seq'[i].num_process_token = 1
    BY <1>2, <1>12, OneTokenEach
  <2> QED
    BY <2>1, <2>3, <2>4, <2>5 DEF SteadyInv
<1>13. CASE HitUpdate
  <2>1. pc = "execute" /\ pc' = "fillSequenceQueue"
    BY <1>13 DEF HitUpdate
  <2>2. ASSUME NEW i \in Live'
        PROVE  PastPrompt(seq'[i])
    <3>1. CASE i \in Running
      <4>1. PastPrompt(seq[i]) /\ seq[i].num_process_token = 1
        BY <1>2, <2>1, <3>1 DEF Live
      <4>2. seq[i] \in Sequence
        BY <3>1 DEF IInv, TypeOK, Running
      <4> QED
        BY <1>13, <3>1, <4>1, <4>2, HitAdvances DEF PastPrompt, Sequence
    <3>2. CASE i \in Queued
      BY <1>2, <1>13, <3>2, HitAdvances DEF Live
    <3> QED
      BY <1>13, <3>1, <3>2, HitAdvances DEF Live
  <2> QED
    BY <2>1, <2>2 DEF SteadyInv
<1> QED
  BY <1>6, <1>7, <1>8, <1>9, <1>10, <1>11, <1>12, <1>13 DEF Next, FillPass

\* Tokens of one each add up to the number of requests.
LEMMA TokensOfOnes ==
  ASSUME IInv, \A i \in Running : seq[i].num_process_token = 1
  PROVE  TokensOf(Running) = Cardinality(Running)
<1> DEFINE S == Running
           ones == [i \in S |-> 1]
           Tokens(it) == it = [s \in SUBSET S |->
                                 IF s = {} THEN 0
                                 ELSE seq[Choice(s)].num_process_token
                                        + it[s \ {Choice(s)}]]
<1>1. IsFiniteSet(S)
  BY RunningFinite DEF IInv
<1>2. ASSUME NEW it
      PROVE  Tokens(it) <=> Adds(it, ones, S)
  <2>1. ASSUME NEW s \in SUBSET S, s # {}
        PROVE  ones[Choice(s)] = seq[Choice(s)].num_process_token
    BY <1>1, <2>1, SmallerSet
  <2> HIDE DEF ones
  <2> QED
    BY <2>1 DEF Adds, SumAt
<1>3. \E it : Tokens(it)
  BY <1>1, <1>2, SumExists
<1>4. Tokens(CHOOSE it : Tokens(it))
  BY <1>3
<1>5. TokensOf(S) = (CHOOSE it : Tokens(it))[S]
  BY DEF TokensOf, MapThenSumSet, MapThenFoldSet, Choice
<1> HIDE DEF S
<1>6. PICK F : F = CHOOSE it : Tokens(it)
  OBVIOUS
<1>7. Adds(F, ones, S)
  BY <1>2, <1>4, <1>6
<1>8. F[S] = Cardinality(S)
  BY <1>1, <1>7, SumOfOnes
<1> QED
  BY <1>5, <1>6, <1>8 DEF S

\* In decode mode every iteration has full batches and processes one token of
\* each request: nobody is in prefill, and what leaves is replaced at once.
THEOREM DecodeIsSteady ==
  ASSUME SteadyWorkload
  PROVE  Spec => []SteadyDecode
<1>1. Init => SteadyInv
  BY DEF Init, SteadyInv, Live, Running, Queued
<1>2. IInv /\ SteadyInv => SteadyDecode
  <2> SUFFICES ASSUME IInv, SteadyInv, pc = "execute", Decoding
               PROVE  /\ \A b \in Dp :
                           Cardinality(running_queue[b]) = BatchSizePerDp
                      /\ TokensOf(Running) = BatchSize
    BY DEF SteadyDecode, Decoding
  <2>1. /\ BatchSize = AllPlaces
        /\ \A i \in Running : seq[i].num_process_token = 1
    BY DEF SteadyInv
  <2>2. ASSUME NEW b \in Dp
        PROVE  Cardinality(running_queue[b]) = BatchSizePerDp
    <3>1. ~HasRoom(b)
      BY <2>1, BatchSizeBound
    <3>2. Cardinality(running_queue[b]) \in Nat
      BY FS_CardinalityType DEF IInv, FiniteBatches
    <3> QED
      BY <3>1, <3>2, BatchSizePerDpType DEF IInv, WithinCapacity, HasRoom
  <2> QED
    BY <2>1, <2>2, TokensOfOnes, OnePlaceEach
<1>3. IInv /\ SteadyInv /\ [Next]_schedulerVars => SteadyInv'
  BY NextSteadyInv
<1> QED
  BY <1>1, <1>2, <1>3, Invariance, PTL DEF Spec
----------------------------------------------------------------------------
(***************************************************************************)
(* The ages of the decoding population.  With one pair of lengths and no   *)
(* queue that lasts, the requests that live have at every point of a round *)
(* the ages of the initial fill, turned, the youngest of them still to be  *)
(* pushed while a round begins.                                            *)
(***************************************************************************)
UniformWorkload ==
  /\ SteadyWorkload
  /\ \A c \in Configs : IsFiniteSet(c.lengths)

AgeOf(s) == s.current_len - s.input_len
AgeCount(a) == Cardinality({i \in Live : AgeOf(seq[i]) = a})

\* The requests of age 0 this round has not pushed yet.
Missing == IF pc = "fillSequenceQueue" THEN TotalBatch - BatchSize
           ELSE IF pc = "pushSeq" THEN to_push[1]
           ELSE 0

CountAt(a) == AgeCount(a) + (IF a = 0 THEN Missing ELSE 0)

Turned(output_len, turn) ==
  \A a \in 0 .. output_len - 2 :
    CountAt((a + turn) % (output_len - 1)) = InitialAges(output_len)[a]

\* A request of the only lengths there are.
OfLengths(s, l) == /\ s.input_len = l[1]
                   /\ s.total_len = l[1] + l[2] - 1
                   /\ AgeOf(s) \in 0 .. l[2] - 2

\* The initial fill before its admission: the k-th request has its own age.
Filling(l) ==
  /\ Running = {}
  /\ pc = "fillSequenceQueue" => sequence_queue = << >>
  /\ pc = "pushSeq" =>
       /\ to_push[2] = TotalBatch
       /\ Len(sequence_queue) = TotalBatch - to_push[1]
       /\ \A k \in 1 .. Len(sequence_queue) :
            AgeOf(seq[sequence_queue[k]]) = Stagger(k - 1, TotalBatch, l[2])

AgesInv ==
  Decoding =>
    \A l \in system_config.lengths :
      system_config.lengths = {l} =>
        /\ \A i \in Live : OfLengths(seq[i], l)
        /\ pc = "execute" => initial_fill_done
        /\ IF ~initial_fill_done /\ pc # "fillRunningQueue" THEN Filling(l)
           ELSE \E turn \in 0 .. l[2] - 2 : Turned(l[2], turn)

\* There are finitely many requests.
LEMMA LiveFinite ==
  ASSUME IInv
  PROVE  IsFiniteSet(Live)
<1>1. IsFiniteSet(Running)
  BY RunningFinite DEF IInv
<1>2. IsFiniteSet(Queued)
  <2> DEFINE f == [k \in 1 .. Len(sequence_queue) |-> sequence_queue[k]]
  <2>1. Len(sequence_queue) \in Nat
    BY DEF IInv, TypeOK
  <2>2. f \in Surjection(1 .. Len(sequence_queue), Queued)
    BY DEF Surjection, Queued
  <2>3. IsFiniteSet(1 .. Len(sequence_queue))
    <3>1. 1 \in Int /\ Len(sequence_queue) \in Int
      BY <2>1
    <3> QED
      BY <3>1, FS_Interval
  <2> QED
    BY <2>2, <2>3, FS_Surjection
<1> QED
  BY <1>1, <1>2, FS_Union DEF Live

\* An age has a natural number of requests.
LEMMA AgeCountType ==
  ASSUME IInv, NEW a
  PROVE  /\ IsFiniteSet({i \in Live : AgeOf(seq[i]) = a})
         /\ AgeCount(a) \in Nat
<1>1. {i \in Live : AgeOf(seq[i]) = a} \in SUBSET Live
  OBVIOUS
<1> QED
  BY <1>1, LiveFinite, FS_Subset, FS_CardinalityType DEF AgeCount

\* Ages that stay are counted the same.
LEMMA SameAges ==
  ASSUME Live' = Live, Missing' = Missing,
         \A i \in Live : AgeOf(seq'[i]) = AgeOf(seq[i])
  PROVE  /\ \A a : CountAt(a)' = CountAt(a)
         /\ \A n, turn : Turned(n, turn)' = Turned(n, turn)
<1>1. ASSUME NEW a
      PROVE  CountAt(a)' = CountAt(a)
  <2>1. {i \in Live : AgeOf(seq[i]) = a} = {i \in Live' : AgeOf(seq'[i]) = a}
    OBVIOUS
  <2> QED
    BY <2>1 DEF CountAt, AgeCount
<1> QED
  BY <1>1 DEF Turned

\* x and y are what age a becomes after a turn and after the next turn n.
NextTurn(m, a, t, n, x, y) ==
  /\ m \in Nat \ {0}
  /\ a \in 0 .. m - 1
  /\ t \in 0 .. m - 1
  /\ n = IF t = m - 1 THEN 0 ELSE t + 1
  /\ x = (a + t) % m
  /\ y = (a + n) % m

\* A remainder turns round.
LEMMA NextRemainder ==
  ASSUME NEW m, NEW a, NEW t, NEW n, NEW x, NEW y,
         NextTurn(m, a, t, n, x, y)
  PROVE  /\ x \in 0 .. m - 1
         /\ y = IF x = m - 1 THEN 0 ELSE x + 1
<1> USE DEF NextTurn
<1>1. \A k \in 0 .. m - 1 : k % m = k /\ (k + m) % m = k
  OBVIOUS
<1>2. ASSUME NEW k \in 0 .. m + m - 1
      PROVE  k % m = IF k < m THEN k ELSE k - m
  <2>1. CASE k < m
    BY <1>1, <2>1
  <2>2. CASE ~(k < m)
    <3>1. k - m \in 0 .. m - 1 /\ (k - m) + m = k
      BY <2>2
    <3> QED
      BY <1>1, <2>2, <3>1
  <2> QED
    BY <2>1, <2>2
<1>3. (a + t) % m = IF a + t < m THEN a + t ELSE a + t - m
  BY <1>2
<1>4. (a + n) % m = IF a + n < m THEN a + n ELSE a + n - m
  BY <1>2
<1> QED
  BY <1>3, <1>4

\* The initial fill has the ages it is made with.
LEMMA FilledAges ==
  ASSUME IInv, NEW l \in system_config.lengths, Decoding, l[2] >= 2,
         Running = {}, Len(sequence_queue) = TotalBatch,
         \A k \in 1 .. Len(sequence_queue) :
           AgeOf(seq[sequence_queue[k]]) = Stagger(k - 1, TotalBatch, l[2]),
         NEW a \in 0 .. l[2] - 2
  PROVE  AgeCount(a) = InitialAges(l[2])[a]
<1> DEFINE K == {idx \in 0 .. TotalBatch - 1 :
                   Stagger(idx, TotalBatch, l[2]) = a}
           S == {i \in Live : AgeOf(seq[i]) = a}
           f == [idx \in K |-> sequence_queue[idx + 1]]
<1>1. IsFiniteSet(K)
  <2>1. IsFiniteSet(0 .. TotalBatch - 1)
    <3>1. 0 \in Int /\ TotalBatch - 1 \in Int
      BY SchedulerAssumption
    <3> QED
      BY <3>1, FS_Interval
  <2>2. K \in SUBSET (0 .. TotalBatch - 1)
    OBVIOUS
  <2> QED
    BY <2>1, <2>2, FS_Subset
<1>2. Live = Queued
  BY DEF Live
<1>3. ASSUME NEW idx \in K
      PROVE  /\ idx + 1 \in 1 .. Len(sequence_queue)
             /\ f[idx] = sequence_queue[idx + 1]
             /\ f[idx] \in S
  <2>1. idx + 1 \in 1 .. Len(sequence_queue) /\ (idx + 1) - 1 = idx
    BY SchedulerAssumption
  <2>2. AgeOf(seq[sequence_queue[idx + 1]]) = a
    BY <2>1
  <2> QED
    BY <1>2, <2>1, <2>2 DEF Queued
<1>4. f \in Surjection(K, S)
  <2>1. f \in [K -> S]
    BY <1>3
  <2>2. ASSUME NEW i \in S
        PROVE  \E idx \in K : f[idx] = i
    <3>1. PICK k \in 1 .. Len(sequence_queue) : i = sequence_queue[k]
      BY <1>2 DEF Queued
    <3>2. k - 1 \in K /\ (k - 1) + 1 = k
      BY <3>1, SchedulerAssumption
    <3>3. f[k - 1] = i
      BY <3>1, <3>2
    <3> QED
      BY <3>2, <3>3
  <2> HIDE DEF f, K, S
  <2> QED
    BY <2>1, <2>2 DEF Surjection
<1>5. f \in Injection(K, S)
  <2>1. f \in [K -> S]
    BY <1>3
  <2>2. ASSUME NEW x \in K, NEW y \in K, f[x] = f[y]
        PROVE  x = y
    <3>1. x + 1 = y + 1
      BY <1>3, <2>2 DEF IInv, InOnePlace
    <3>2. x \in Int /\ y \in Int
      OBVIOUS
    <3> QED
      BY <3>1, <3>2
  <2> HIDE DEF f, K, S
  <2> QED
    BY <2>1, <2>2 DEF Injection, IsInjective
<1>6. Cardinality(S) = Cardinality(K)
  <2> HIDE DEF f, K, S
  <2> QED
    BY <1>1, <1>4, <1>5, FS_Surjection
<1> QED
  BY <1>6 DEF AgeCount, InitialAges

\* A request that is pushed is counted at its age.
LEMMA PushCounts ==
  ASSUME IInv, NEW id, id \notin Live, Live' = Live \union {id},
         \A i \in Live : seq'[i] = seq[i], NEW a
  PROVE  AgeCount(a)'
           = IF AgeOf(seq'[id]) = a THEN AgeCount(a) + 1 ELSE AgeCount(a)
<1> DEFINE S == {i \in Live : AgeOf(seq[i]) = a}
           T == {i \in Live' : AgeOf(seq'[i]) = a}
<1>1. T = IF AgeOf(seq'[id]) = a THEN S \union {id} ELSE S
  OBVIOUS
<1>2. id \notin S /\ IsFiniteSet(S)
  BY AgeCountType
<1>3. Cardinality(S \union {id}) = Cardinality(S) + 1
  BY <1>2, FS_AddElement
<1>4. AgeCount(a)' = Cardinality(T) /\ AgeCount(a) = Cardinality(S)
  BY DEF AgeCount
<1> HIDE DEF S, T
<1> QED
  BY <1>1, <1>3, <1>4

\* A push takes one from what is missing at age 0, or makes the next request of
\* the initial fill.
LEMMA PushAges ==
  ASSUME SteadyWorkload, IInv, AgesInv, PushDummySeq, Decoding,
         NEW l \in system_config.lengths, system_config.lengths = {l}
  PROVE  /\ \A i \in Live' : OfLengths(seq'[i], l)
         /\ IF ~initial_fill_done THEN Filling(l)'
            ELSE \E turn \in 0 .. l[2] - 2 : Turned(l[2], turn)'
<1>1. l[2] >= 2 /\ l[1] \in Nat /\ l[2] \in Nat
  <2>1. system_config \in Configs
    BY DEF IInv, TypeOK
  <2> QED
    BY <2>1, ConfigType DEF IInv, SteadyWorkload, Decoding, Configuration
<1>2. PICK count \in Int : count = to_push[2]
  BY DEF IInv, TypeOK
<1>3. PICK left \in Int : left = to_push[1]
  BY DEF IInv, TypeOK
<1>4. PICK idx \in Int : idx = count - left
  OBVIOUS
<1>5. PICK id \in Ids \ Live :
        /\ seq'[id] = NewSequence(l[1], l[2], idx, count)
        /\ sequence_queue' = Append(sequence_queue, id)
        /\ Live' = Live \union {id}
        /\ \A i \in Live : seq'[i] = seq[i]
  BY <1>1, <1>2, <1>3, <1>4, PushAdds
<1>6. /\ pc = "pushSeq" /\ pc' = "pushSeq"
      /\ to_push'[1] = left - 1 /\ to_push'[2] = count
      /\ left > 0
      /\ running_queue' = running_queue
      /\ initial_fill_done' = initial_fill_done
  BY <1>2, <1>3 DEF PushDummySeq, IInv, TypeOK
<1>7. PICK stagger : stagger = Stagger(idx, count, l[2])
  OBVIOUS
<1>8. stagger \in Nat /\ stagger <= l[2] - 2
  BY <1>1, <1>7, DecodeStart, StaggerBound
<1>9. PICK age \in 0 .. l[2] - 2 :
        age = IF initial_fill_done THEN 0 ELSE stagger
  BY <1>1, <1>8
<1>10. /\ seq'[id].input_len = l[1]
       /\ seq'[id].current_len = l[1] + age
       /\ seq'[id].total_len = l[1] + l[2] - 1
  <2>1. PICK start : start = StartLen(l[1], l[2], idx, count)
    OBVIOUS
  <2>2. PICK total : total = TotalLen(l[1], l[2])
    OBVIOUS
  <2>3. /\ seq'[id].input_len = l[1]
        /\ seq'[id].current_len = start
        /\ seq'[id].total_len = total
    BY <1>5, <2>1, <2>2, NewFields
  <2>4. /\ start = IF initial_fill_done THEN l[1] ELSE l[1] + stagger
        /\ total = l[1] + l[2] - 1
    BY <1>7, <2>1, <2>2, DecodeStart
  <2> QED
    BY <1>1, <1>8, <1>9, <2>3, <2>4
<1>11. AgeOf(seq'[id]) = age
  BY <1>1, <1>9, <1>10 DEF AgeOf
<1>12. OfLengths(seq'[id], l)
  BY <1>10, <1>11 DEF OfLengths
<1>13. \A i \in Live : OfLengths(seq[i], l)
  BY DEF AgesInv
<1>14. \A i \in Live' : OfLengths(seq'[i], l)
  BY <1>5, <1>12, <1>13
<1>15. CASE ~initial_fill_done
  <2>1. /\ Running = {}
        /\ count = TotalBatch
        /\ Len(sequence_queue) = TotalBatch - left
        /\ \A k \in 1 .. Len(sequence_queue) :
             AgeOf(seq[sequence_queue[k]]) = Stagger(k - 1, TotalBatch, l[2])
    BY <1>2, <1>3, <1>6, <1>15 DEF AgesInv, Filling
  <2>2. Running' = {}
    BY <1>6, <2>1 DEF Running
  <2>3. /\ sequence_queue \in Seq(Ids)
        /\ Len(sequence_queue) \in Nat
    BY DEF IInv, TypeOK
  <2>4. /\ Len(sequence_queue') = Len(sequence_queue) + 1
        /\ \A k \in 1 .. Len(sequence_queue) :
             sequence_queue'[k] = sequence_queue[k]
        /\ sequence_queue'[Len(sequence_queue) + 1] = id
    BY <1>5, <2>3
  <2>5. idx = Len(sequence_queue)
    BY <1>4, <2>1, SchedulerAssumption
  <2>6. ASSUME NEW k \in 1 .. Len(sequence_queue')
        PROVE  AgeOf(seq'[sequence_queue'[k]])
                 = Stagger(k - 1, TotalBatch, l[2])
    <3>1. CASE k \in 1 .. Len(sequence_queue)
      <4>1. sequence_queue[k] \in Live
        BY <3>1 DEF Live, Queued
      <4>2. seq'[sequence_queue'[k]] = seq[sequence_queue[k]]
        BY <1>5, <2>4, <3>1, <4>1
      <4> QED
        BY <2>1, <3>1, <4>2
    <3>2. CASE k = Len(sequence_queue) + 1
      <4>1. k - 1 = idx /\ sequence_queue'[k] = id
        BY <2>3, <2>4, <2>5, <3>2
      <4> QED
        BY <1>7, <1>9, <1>11, <1>15, <2>1, <4>1
    <3> QED
      BY <2>3, <2>4, <3>1, <3>2
  <2>7. Len(sequence_queue') = TotalBatch - to_push'[1]
    BY <1>6, <2>1, <2>4, SchedulerAssumption
  <2>8. Filling(l)'
    BY <1>6, <2>1, <2>2, <2>6, <2>7 DEF Filling
  <2> QED
    BY <1>14, <1>15, <2>8
<1>16. CASE initial_fill_done
  <2>1. PICK turn \in 0 .. l[2] - 2 : Turned(l[2], turn)
    BY <1>16 DEF AgesInv
  <2>2. Missing = left /\ Missing' = left - 1
    BY <1>3, <1>6 DEF Missing
  <2>3. ASSUME NEW a
        PROVE  CountAt(a)' = CountAt(a)
    <3>1. AgeCount(a) \in Nat
      BY AgeCountType
    <3>2. AgeCount(a)' = IF age = a THEN AgeCount(a) + 1 ELSE AgeCount(a)
      BY <1>5, <1>11, PushCounts
    <3>3. age = 0
      BY <1>9, <1>16
    <3> QED
      BY <2>2, <3>1, <3>2, <3>3 DEF CountAt
  <2>4. Turned(l[2], turn)'
    BY <2>1, <2>3 DEF Turned
  <2> QED
    BY <1>14, <1>16, <2>4
<1> QED
  BY <1>15, <1>16

\* An update ages every request by one; those it returns are as many as the
\* next round has to push.
LEMMA HitAges ==
  ASSUME TotalBatch % DpDegree = 0,
         IInv, IInv', SteadyInv, DrainInv, AgesInv, HitUpdate, Decoding,
         NEW l \in system_config.lengths, system_config.lengths = {l},
         l[2] >= 2, l[1] \in Nat, l[2] \in Nat
  PROVE  /\ \A i \in Live' : OfLengths(seq'[i], l)
         /\ \E turn \in 0 .. l[2] - 2 : Turned(l[2], turn)'
<1> DEFINE m == l[2] - 1
           done == {i \in Live : AgeOf(seq[i]) = m - 1}
<1>1. /\ pc = "execute" /\ pc' = "fillSequenceQueue"
  BY DEF HitUpdate
<1>2. /\ BatchSize = TotalBatch
      /\ \A i \in Running : seq[i].num_process_token = 1
      /\ sequence_queue = << >>
      /\ initial_fill_done
  BY <1>1, BatchSizeBound DEF SteadyInv, DrainInv, AgesInv
<1>3. Queued = {} /\ Live = Running
  BY <1>2 DEF Queued, Live
<1>4. \A i \in Live : OfLengths(seq[i], l)
  BY DEF AgesInv
<1>5. PICK turn \in 0 .. l[2] - 2 : Turned(l[2], turn)
  BY <1>1, <1>2 DEF AgesInv
<1>6. m \in Nat \ {0} /\ 0 .. l[2] - 2 = 0 .. m - 1
  OBVIOUS
<1>7. ASSUME NEW i \in Live
      PROVE  /\ seq[i].current_len \in Int
             /\ AgeOf(seq[i]) \in 0 .. m - 1
             /\ seq[i].input_len = l[1]
             /\ seq[i].total_len = l[1] + m
             /\ AgeOf(seq[i]) = seq[i].current_len - l[1]
             /\ seq[i].num_process_token = 1
  <2>1. seq[i] \in Sequence
    BY <1>3 DEF IInv, TypeOK, Running
  <2>2. seq[i].current_len \in Int
    BY <2>1 DEF Sequence
  <2>3. /\ seq[i].input_len = l[1]
        /\ seq[i].total_len = l[1] + l[2] - 1
        /\ AgeOf(seq[i]) \in 0 .. l[2] - 2
    BY <1>4 DEF OfLengths
  <2>4. AgeOf(seq[i]) = seq[i].current_len - l[1]
    BY <2>3 DEF AgeOf
  <2>5. l[1] + l[2] - 1 = l[1] + m
    OBVIOUS
  <2> QED
    BY <1>2, <1>3, <1>6, <2>2, <2>3, <2>4, <2>5
<1>8. /\ Live' = Running'
      /\ Running' = Running \ {i \in Running : seq[i].current_len
                                    + seq[i].num_process_token
                                    = seq[i].total_len}
      /\ \A i \in Running : /\ seq'[i].input_len = seq[i].input_len
                            /\ seq'[i].total_len = seq[i].total_len
                            /\ seq'[i].current_len
                                 = seq[i].current_len
                                     + seq[i].num_process_token
  BY <1>3, HitAdvances DEF Live
<1>9. Live' = Live \ done
  <2>1. ASSUME NEW i \in Live
        PROVE  seq[i].current_len + seq[i].num_process_token
                 = seq[i].total_len <=> AgeOf(seq[i]) = m - 1
    <3>1. PICK c : c = seq[i].current_len
      OBVIOUS
    <3>2. /\ c \in Int
          /\ seq[i].num_process_token = 1
          /\ seq[i].total_len = l[1] + m
          /\ AgeOf(seq[i]) = c - l[1]
      BY <1>7, <3>1
    <3>3. PICK g : g = AgeOf(seq[i])
      OBVIOUS
    <3>4. PICK n : n = l[1]
      OBVIOUS
    <3> HIDE DEF m
    <3>5. c + 1 = n + m <=> g = m - 1
      BY <1>6, <3>2, <3>3, <3>4
    <3> QED
      BY <3>1, <3>2, <3>3, <3>4, <3>5
  <2> QED
    BY <1>3, <1>8, <2>1
<1>10. ASSUME NEW i \in Live
       PROVE  /\ AgeOf(seq'[i]) = AgeOf(seq[i]) + 1
              /\ seq'[i].input_len = l[1]
              /\ seq'[i].total_len = l[1] + m
  BY <1>3, <1>7, <1>8 DEF AgeOf
<1> HIDE DEF done
<1>11. ASSUME NEW i \in Live'
       PROVE  OfLengths(seq'[i], l)
  <2>1. i \in Live /\ AgeOf(seq[i]) # m - 1
    BY <1>9 DEF done
  <2>2. AgeOf(seq'[i]) \in 0 .. l[2] - 2
    BY <1>6, <1>7, <1>10, <2>1
  <2>3. l[1] + m = l[1] + l[2] - 1
    OBVIOUS
  <2> HIDE DEF m
  <2> QED
    BY <1>10, <2>1, <2>2, <2>3 DEF OfLengths
<1>12. Missing = 0 /\ Missing' = AgeCount(m - 1)
  <2>1. BatchSize = Cardinality(Running)
    BY OnePlaceEach
  <2>2. (IInv => BatchSize = Cardinality(Running))'
    BY OnePlaceEach, PTL
  <2>3. BatchSize' = Cardinality(Running')
    BY <2>2
  <2>4. Cardinality(Live \ done)
          = Cardinality(Live) - Cardinality(Live \intersect done)
    BY LiveFinite, FS_Difference
  <2>5. Live \intersect done = done /\ AgeCount(m - 1) = Cardinality(done)
    BY DEF done, AgeCount
  <2>6. Cardinality(Live) \in Nat /\ Cardinality(done) \in Nat
    BY <2>5, LiveFinite, FS_CardinalityType, AgeCountType
  <2>7. BatchSize' = TotalBatch - AgeCount(m - 1)
    BY <1>2, <1>3, <1>8, <1>9, <2>1, <2>3, <2>4, <2>5
  <2> HIDE DEF m
  <2> QED
    BY <1>1, <2>5, <2>6, <2>7, SchedulerAssumption DEF Missing
<1>13. AgeCount(0)' = 0
  <2>1. {i \in Live' : AgeOf(seq'[i]) = 0} = {}
    <3>1. ASSUME NEW i \in Live'
          PROVE  AgeOf(seq'[i]) # 0
      <4>1. i \in Live
        BY <1>9
      <4> HIDE DEF m
      <4> QED
        BY <1>6, <1>7, <1>10, <4>1
    <3> QED
      BY <3>1
  <2> QED
    BY <2>1, FS_EmptySet DEF AgeCount
<1>14. ASSUME NEW age \in 0 .. m - 2
       PROVE  AgeCount(age + 1)' = AgeCount(age)
  <2>1. {i \in Live' : AgeOf(seq'[i]) = age + 1}
          = {i \in Live : AgeOf(seq[i]) = age}
    <3>1. ASSUME NEW i \in Live
          PROVE  /\ AgeOf(seq'[i]) = age + 1 <=> AgeOf(seq[i]) = age
                 /\ AgeOf(seq[i]) = age => i \in Live'
      <4>1. AgeOf(seq[i]) \in Int /\ AgeOf(seq'[i]) = AgeOf(seq[i]) + 1
        BY <1>7, <1>10
      <4>2. AgeOf(seq[i]) = age => i \in Live'
        BY <1>6, <1>9 DEF done
      <4> HIDE DEF m
      <4> QED
        BY <1>6, <4>1, <4>2
    <3> QED
      BY <1>9, <3>1
  <2> QED
    BY <2>1 DEF AgeCount
<1> HIDE DEF m
<1> DEFINE next == IF turn = m - 1 THEN 0 ELSE turn + 1
<1>15. next \in 0 .. m - 1
  BY <1>5, <1>6
<1>16. ASSUME NEW a \in 0 .. l[2] - 2
       PROVE  CountAt((a + next) % (l[2] - 1))' = InitialAges(l[2])[a]
  <2>1. PICK x : x = (a + turn) % m
    OBVIOUS
  <2>2. PICK y : y = (a + next) % m
    OBVIOUS
  <2>3. /\ x \in 0 .. m - 1
        /\ y = IF x = m - 1 THEN 0 ELSE x + 1
    <3>1. PICK M : M = m
      OBVIOUS
    <3>2. PICK n : n = next
      OBVIOUS
    <3>3. NextTurn(M, a, turn, n, x, y)
      BY <1>5, <1>6, <2>1, <2>2, <3>1, <3>2 DEF NextTurn
    <3>4. x \in 0 .. M - 1 /\ y = IF x = M - 1 THEN 0 ELSE x + 1
      BY <3>3, NextRemainder
    <3> QED
      BY <3>1, <3>4
  <2>4. CountAt(x) = InitialAges(l[2])[a]
    BY <1>5, <2>1 DEF Turned, m
  <2>5. AgeCount(x) \in Nat
    BY AgeCountType
  <2>6. CountAt(x) = AgeCount(x)
    BY <1>12, <2>5 DEF CountAt
  <2>7. CountAt(y)' = CountAt(x)
    <3>1. CASE x = m - 1
      <4>1. y = 0 /\ AgeCount(y)' = 0 /\ Missing' = AgeCount(x)
        BY <1>12, <1>13, <2>3, <3>1
      <4> QED
        BY <2>5, <2>6, <4>1 DEF CountAt
    <3>2. CASE x # m - 1
      <4>1. x \in 0 .. m - 2 /\ y = x + 1 /\ y # 0
        BY <1>6, <2>3, <3>2
      <4>2. AgeCount(y)' = AgeCount(x)
        BY <1>14, <4>1
      <4> QED
        BY <2>5, <2>6, <4>1, <4>2 DEF CountAt
    <3> QED
      BY <3>1, <3>2
  <2> QED
    BY <2>2, <2>4, <2>7 DEF m
<1>17. Turned(l[2], next)'
  BY <1>16 DEF Turned
<1> QED
  BY <1>6, <1>11, <1>15, <1>17

\* The initial fill is complete: no turn has passed.
LEMMA FilledTurn ==
  ASSUME SteadyWorkload, IInv, AgesInv, Decoding, FillRunningQueue,
         ~initial_fill_done,
         NEW l \in system_config.lengths, system_config.lengths = {l},
         l[2] >= 2, l[2] \in Nat
  PROVE  Turned(l[2], 0)
<1>1. pc = "pushSeq" /\ to_push[1] = 0
  BY DEF FillRunningQueue
<1>2. /\ Running = {}
      /\ Len(sequence_queue) = TotalBatch
      /\ \A k \in 1 .. Len(sequence_queue) :
           AgeOf(seq[sequence_queue[k]]) = Stagger(k - 1, TotalBatch, l[2])
  BY <1>1, SchedulerAssumption DEF AgesInv, Filling
<1>3. ASSUME NEW a \in 0 .. l[2] - 2
      PROVE  CountAt((a + 0) % (l[2] - 1)) = InitialAges(l[2])[a]
  <2>1. (a + 0) % (l[2] - 1) = a
    OBVIOUS
  <2>2. AgeCount(a) = InitialAges(l[2])[a]
    BY <1>2, FilledAges
  <2>3. AgeCount(a) \in Nat
    BY AgeCountType
  <2>4. Missing = 0
    BY <1>1 DEF Missing
  <2>5. CountAt(a) = AgeCount(a)
    BY <2>3, <2>4 DEF CountAt
  <2> QED
    BY <2>1, <2>2, <2>5
<1> QED
  BY <1>3 DEF Turned

\* Every step keeps the ages, turned by the rounds that passed.
LEMMA NextAgesInv ==
  ASSUME TotalBatch % DpDegree = 0, SteadyWorkload
  PROVE  IInv /\ IInv' /\ SteadyInv /\ DrainInv /\ AgesInv
           /\ [Next]_schedulerVars => AgesInv'
<1> SUFFICES ASSUME IInv, IInv', SteadyInv, DrainInv, AgesInv,
                    [Next]_schedulerVars, Decoding',
                    NEW l \in system_config'.lengths,
                    system_config'.lengths = {l}
             PROVE  /\ \A i \in Live' : OfLengths(seq'[i], l)
                    /\ pc' = "execute" => initial_fill_done'
                    /\ IF ~initial_fill_done' /\ pc' # "fillRunningQueue"
                       THEN Filling(l)'
                       ELSE \E turn \in 0 .. l[2] - 2 : Turned(l[2], turn)'
  BY DEF AgesInv
<1>1. system_config' = system_config /\ Decoding
  BY DEF Decoding, Next, FillPass, FillSequenceQueue, PushDummySeq,
         FillRunningQueue, AdmitSequence, SkipFullBatches, InitialFillDone,
         SetMetadata, HitUpdate, UpdateScheduler, schedulerVars
<1>2. l \in system_config.lengths /\ system_config.lengths = {l}
  BY <1>1
<1>3. l[1] \in Nat /\ l[2] \in Nat /\ l[2] >= 2
        /\ ~system_config.use_inject_rate
  <2>1. system_config \in Configs
    BY DEF IInv, TypeOK
  <2> QED
    BY <1>1, <1>2, <2>1, ConfigType
    DEF IInv, SteadyWorkload, Decoding, Configuration
<1>4. /\ \A i \in Live : OfLengths(seq[i], l)
      /\ pc = "execute" => initial_fill_done
      /\ IF ~initial_fill_done /\ pc # "fillRunningQueue" THEN Filling(l)
         ELSE \E turn \in 0 .. l[2] - 2 : Turned(l[2], turn)
  BY <1>1, <1>2 DEF AgesInv
<1>5. /\ sequence_queue \in Seq(Ids)
      /\ to_push \in Int \X Int
      /\ BatchSize \in Nat
  BY BatchSizeBound DEF IInv, TypeOK
<1>6. ASSUME Live' = Live,
             \A i \in Live : /\ seq'[i].input_len = seq[i].input_len
                             /\ seq'[i].current_len = seq[i].current_len
                             /\ seq'[i].total_len = seq[i].total_len
      PROVE  /\ \A i \in Live' : OfLengths(seq'[i], l)
             /\ \A i \in Live : AgeOf(seq'[i]) = AgeOf(seq[i])
  BY <1>4, <1>6 DEF OfLengths, AgeOf
<1>7. ASSUME \/ FillSequenceQueue(0) \/ FillRunningQueue \/ AdmitSequence
             \/ SkipFullBatches \/ InitialFillDone \/ UNCHANGED schedulerVars
      PROVE  /\ Live' = Live
             /\ \A i \in Live' : OfLengths(seq'[i], l)
             /\ \A i \in Live : AgeOf(seq'[i]) = AgeOf(seq[i])
  <2>1. /\ Live' = Live
        /\ \A i \in Live : /\ seq'[i].input_len = seq[i].input_len
                           /\ seq'[i].current_len = seq[i].current_len
                           /\ seq'[i].total_len = seq[i].total_len
    BY <1>7, LiveKept DEF SameProgress
  <2> QED
    BY <1>6, <2>1
<1>8. CASE FillSequenceQueue(0)
  <2>1. /\ pc = "fillSequenceQueue" /\ pc' = "pushSeq"
        /\ to_push' = <<TotalBatch - BatchSize, TotalBatch - BatchSize>>
        /\ UNCHANGED <<sequence_queue, running_queue, initial_fill_done>>
    BY <1>3, <1>8 DEF FillSequenceQueue, RequestsToInject
  <2>2. CASE ~initial_fill_done
    <3>1. Running = {} /\ sequence_queue = << >>
      BY <1>4, <2>1, <2>2 DEF Filling
    <3>2. BatchSize = 0
      BY <3>1, OnePlaceEach, FS_EmptySet
    <3>3. to_push' = <<TotalBatch, TotalBatch>>
      BY <2>1, <3>2, SchedulerAssumption
    <3>4. Running' = {} /\ sequence_queue' = << >>
      BY <2>1, <3>1 DEF Running
    <3>5. Filling(l)'
      BY <2>1, <3>3, <3>4, SchedulerAssumption DEF Filling
    <3> QED
      BY <1>7, <1>8, <2>1, <2>2, <3>5
  <2>3. CASE initial_fill_done
    <3>1. Missing' = Missing
      BY <2>1 DEF Missing
    <3>2. PICK turn \in 0 .. l[2] - 2 : Turned(l[2], turn)
      BY <1>4, <2>3
    <3>3. Turned(l[2], turn)'
      BY <1>7, <1>8, <3>1, <3>2, SameAges
    <3> QED
      BY <1>7, <1>8, <2>1, <2>3, <3>3
  <2> QED
    BY <2>2, <2>3
<1>9. CASE PushDummySeq
  <2>1. /\ pc' = "pushSeq"
        /\ initial_fill_done' = initial_fill_done
    BY <1>9 DEF PushDummySeq
  <2>2. /\ \A i \in Live' : OfLengths(seq'[i], l)
        /\ IF ~initial_fill_done THEN Filling(l)'
           ELSE \E turn \in 0 .. l[2] - 2 : Turned(l[2], turn)'
    BY <1>1, <1>2, <1>9, PushAges
  <2> QED
    BY <2>1, <2>2
<1>10. CASE FillRunningQueue
  <2>1. /\ pc = "pushSeq" /\ to_push[1] = 0
        /\ pc' = "fillRunningQueue"
    BY <1>10 DEF FillRunningQueue
  <2>2. Missing = 0 /\ Missing' = 0
    BY <2>1 DEF Missing
  <2>3. PICK turn \in 0 .. l[2] - 2 : Turned(l[2], turn)
    <3>1. CASE initial_fill_done
      BY <1>4, <3>1
    <3>2. CASE ~initial_fill_done
      <4>1. Turned(l[2], 0)
        BY <1>1, <1>2, <1>3, <1>10, <3>2, FilledTurn
      <4>2. 0 \in 0 .. l[2] - 2
        BY <1>3
      <4> QED
        BY <4>1, <4>2
    <3> QED
      BY <3>1, <3>2
  <2>4. Turned(l[2], turn)'
    BY <1>7, <1>10, <2>2, <2>3, SameAges
  <2> QED
    BY <1>7, <1>10, <2>1, <2>4
<1>11. CASE AdmitSequence \/ SkipFullBatches \/ InitialFillDone
  <2>1. pc = "fillRunningQueue" /\ pc' = "fillRunningQueue"
    BY <1>11 DEF AdmitSequence, SkipFullBatches, InitialFillDone
  <2>2. Missing = 0 /\ Missing' = 0
    BY <2>1 DEF Missing
  <2>3. PICK turn \in 0 .. l[2] - 2 : Turned(l[2], turn)
    BY <1>4, <2>1
  <2>4. Turned(l[2], turn)'
    BY <1>7, <1>11, <2>2, <2>3, SameAges
  <2> QED
    BY <1>7, <1>11, <2>1, <2>4
<1>12. CASE SetMetadata
  <2>1. /\ pc = "fillRunningQueue" /\ pc' = "execute"
        /\ initial_fill_done /\ initial_fill_done' = initial_fill_done
    BY <1>12 DEF SetMetadata
  <2>2. \A i \in Live : PastPrompt(seq[i])
    BY <1>1 DEF SteadyInv
  <2>3. /\ Live' = Live
        /\ \A i \in Live : /\ seq'[i].input_len = seq[i].input_len
                           /\ seq'[i].current_len = seq[i].current_len
                           /\ seq'[i].total_len = seq[i].total_len
    BY <1>12, <2>2, OneTokenEach
  <2>4. Missing = 0 /\ Missing' = 0
    BY <2>1 DEF Missing
  <2>5. PICK turn \in 0 .. l[2] - 2 : Turned(l[2], turn)
    BY <1>4, <2>1
  <2>6. /\ \A i \in Live' : OfLengths(seq'[i], l)
        /\ \A i \in Live : AgeOf(seq'[i]) = AgeOf(seq[i])
    BY <1>6, <2>3
  <2>7. Turned(l[2], turn)'
    BY <2>3, <2>4, <2>5, <2>6, SameAges
  <2> QED
    BY <2>1, <2>6, <2>7
<1>13. CASE HitUpdate
  <2>1. /\ pc = "execute" /\ pc' = "fillSequenceQueue"
        /\ initial_fill_done' = initial_fill_done
    BY <1>13 DEF HitUpdate, UpdateScheduler
  <2>2. initial_fill_done
    BY <1>4, <2>1
  <2>3. /\ \A i \in Live' : OfLengths(seq'[i], l)
        /\ \E turn \in 0 .. l[2] - 2 : Turned(l[2], turn)'
    BY <1>1, <1>2, <1>3, <1>13, HitAges
  <2> QED
    BY <2>1, <2>2, <2>3
<1>14. CASE UNCHANGED schedulerVars
  <2>1. /\ pc' = pc /\ initial_fill_done' = initial_fill_done
        /\ UNCHANGED <<to_push, running_queue, sequence_queue, seq>>
    BY <1>14 DEF schedulerVars
  <2>2. Missing' = Missing
    BY <2>1 DEF Missing, BatchSize, Running
  <2>3. CASE ~initial_fill_done /\ pc # "fillRunningQueue"
    <3>1. Filling(l)
      BY <1>4, <2>3
    <3>2. Filling(l)'
      BY <2>1, <3>1 DEF Filling, Running
    <3> QED
      BY <1>4, <1>7, <1>14, <2>1, <2>3, <3>2
  <2>4. CASE ~(~initial_fill_done /\ pc # "fillRunningQueue")
    <3>1. PICK turn \in 0 .. l[2] - 2 : Turned(l[2], turn)
      BY <1>4, <2>4
    <3>2. Turned(l[2], turn)'
      BY <1>7, <1>14, <2>2, <3>1, SameAges
    <3> QED
      BY <1>4, <1>7, <1>14, <2>1, <2>4, <3>2
  <2> QED
    BY <2>3, <2>4
<1> QED
  BY <1>8, <1>9, <1>10, <1>11, <1>12, <1>13, <1>14 DEF Next, FillPass

\* In decode mode with one pair of lengths the population keeps the ages of the
\* initial fill for ever, turned by one with each round: the refills of
\* pushDummySeq start with the first output token and take the places of those
\* that leave.
THEOREM AgesAreUniform ==
  ASSUME TotalBatch % DpDegree = 0, UniformWorkload
  PROVE  Spec => []AgesStayUniform
<1>1. SteadyWorkload
  BY DEF UniformWorkload
<1>2. Init => SteadyInv /\ DrainInv /\ AgesInv
  <2> SUFFICES ASSUME Init
               PROVE  SteadyInv /\ DrainInv /\ AgesInv
    OBVIOUS
  <2>1. Running = {} /\ Queued = {} /\ Live = {}
    BY DEF Init, Running, Queued, Live
  <2> QED
    BY <2>1 DEF Init, SteadyInv, DrainInv, AgesInv, Filling
<1>3. IInv /\ DrainInv /\ AgesInv => AgesStayUniform
  <2> SUFFICES ASSUME IInv, DrainInv, AgesInv, pc = "execute", Decoding,
                      NEW l \in system_config.lengths,
                      Cardinality(system_config.lengths) = 1
               PROVE  \E turn \in 0 .. l[2] - 2 :
                        \A a \in 0 .. l[2] - 2 :
                          Ages(l[2])[(a + turn) % (l[2] - 1)]
                            = InitialAges(l[2])[a]
    BY DEF AgesStayUniform, Decoding
  <2>1. system_config.lengths = {l}
    <3>1. IsFiniteSet(system_config.lengths)
      BY DEF UniformWorkload, IInv, TypeOK
    <3> QED
      BY <3>1, FS_Singleton
  <2>2. l[2] \in Nat /\ l[2] >= 2
    <3>1. system_config \in Configs
      BY DEF IInv, TypeOK
    <3> QED
      BY <1>1, <3>1, ConfigType
      DEF IInv, SteadyWorkload, Decoding, Configuration
  <2>3. PICK turn \in 0 .. l[2] - 2 : Turned(l[2], turn)
    BY <2>1 DEF AgesInv
  <2>4. Live = Running
    BY DEF DrainInv, Queued, Live
  <2>5. ASSUME NEW a \in 0 .. l[2] - 2
        PROVE  Ages(l[2])[(a + turn) % (l[2] - 1)] = InitialAges(l[2])[a]
    <3>1. PICK x : x = (a + turn) % (l[2] - 1)
      OBVIOUS
    <3>2. x \in 0 .. l[2] - 2
      BY <2>2, <3>1
    <3>3. CountAt(x) = InitialAges(l[2])[a]
      BY <2>3, <3>1 DEF Turned
    <3>4. AgeCount(x) \in Nat /\ Missing = 0
      BY AgeCountType DEF Missing
    <3>5. CountAt(x) = AgeCount(x)
      BY <3>4 DEF CountAt
    <3>6. Ages(l[2])[x] = AgeCount(x)
      BY <2>4, <3>2 DEF Ages, AgeCount, AgeOf
    <3> QED
      BY <3>1, <3>3, <3>5, <3>6
  <2> QED
    BY <2>5
<1>4. IInv /\ SteadyInv /\ [Next]_schedulerVars => SteadyInv'
  BY <1>1, NextSteadyInv
<1>5. IInv /\ DrainInv /\ [Next]_schedulerVars => DrainInv'
  BY NextDrainInv
<1>6. IInv /\ IInv' /\ SteadyInv /\ DrainInv /\ AgesInv
        /\ [Next]_schedulerVars => AgesInv'
  BY <1>1, NextAgesInv
<1> QED
  BY <1>2, <1>3, <1>4, <1>5, <1>6, Invariance, PTL DEF Spec
=============================================================================
