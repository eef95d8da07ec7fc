----------------------------- MODULE Scheduler -----------------------------
(***************************************************************************)
(* The request scheduler of the simulator (src/scheduler/scheduler.cpp and *)
(* sequence.cpp): a FIFO queue of requests, dp_degree running batches that *)
(* are filled round-robin, and the per-iteration bookkeeping that hands    *)
(* tokens out and advances the sequences.                                  *)
(*                                                                         *)
(* One action per method.  The two methods that loop over requests,        *)
(* pushSeq and fillRunningQueue, are one action per pass of the loop, with *)
(* the number of passes left in to_push and to_admit.                      *)
(*                                                                         *)
(* Spec drives the scheduler the way the untimed part of                   *)
(* Cluster::runIteration does: one initial fill, then the rounds of        *)
(* hittingQueue, in which an iteration takes no time.  The timed loops are *)
(* in the module ClusterLoop.                                              *)
(*                                                                         *)
(* A definition whose comment starts with "Slip" is not part of the model: *)
(* it is the definition after it with a plausible mistake, to show that a  *)
(* property notices the mistake.                                           *)
(***************************************************************************)
EXTENDS Integers, Sequences, FiniteSets, FiniteSetsExt

CONSTANTS
  Ids,              \* identities of Sequence objects (a fresh one per object)
  DpDegree,         \* dp_degree: number of data-parallel batches
  TotalBatch,       \* total_batch_size
  Configs           \* the configurations: modes and workload

\* What of SystemConfig, the workload presets and the constructor's arguments
\* the scheduler reads.
Configuration ==
  [lengths           : SUBSET ((Nat \ {0}) \X Nat),
                               \* pairs <<input_len, output_len>> to draw from
   disagg_system     : BOOLEAN,  \* prefill and decode on separate machines
   prefill_mode      : BOOLEAN,
   decode_mode       : BOOLEAN,
   use_inject_rate   : BOOLEAN,  \* requests arrive at times of their own
   actual_arrival_time : Seq(Nat), \* these times, ascending
   max_process_token : Nat,      \* prefill tokens per batch, step; 0: no cap
   reuse_percent     : 0..100,   \* kv_cache_reuse_rate; 0: no reuse_kv_cache
   kv_budget         : Int]      \* HBM tokens for a batch's KV; -1 without
                                 \*   cpu_kv_offload

ASSUME SchedulerAssumption ==
  /\ DpDegree \in Nat \ {0}
  /\ TotalBatch \in Nat
  /\ Configs \subseteq Configuration

VARIABLES
  system_config,      \* the configuration, fixed when the program starts
  seq,                \* the Sequence object behind each identity
  sequence_queue,     \* the FIFO of requests that wait
  running_queue,      \* the requests in each running batch
  token_list,         \* what the last update returned
  rotate,             \* fillRunningQueue's static counter, modulo the batches
  initial_fill_done,
  total_time,         \* the clock of the decode machine
  cur_arrival_time_idx, \* arrival times handed out so far
  p2_kv_offload,      \* tokens of KV each batch keeps in CPU memory
  kv_counting,        \* p2_byte_counting_enabled
  kv_admission,       \* p2_admission_kv_bytes, in tokens
  kv_decode,          \* p2_decode_kv_bytes, in tokens
  pc,                 \* the method that runs
  to_push,            \* <<passes left, passes in all>> of pushSeq
  to_admit            \* passes left of fillRunningQueue

schedulerVars == <<system_config, seq, sequence_queue, running_queue,
                   token_list, rotate, initial_fill_done, total_time,
                   cur_arrival_time_idx, p2_kv_offload, kv_counting,
                   kv_admission, kv_decode, pc, to_push, to_admit>>
----------------------------------------------------------------------------
Least(a, b) == IF a <= b THEN a ELSE b
Greatest(a, b) == IF a <= b THEN b ELSE a

Dp == 0 .. DpDegree - 1

\* batch_size_per_dp: the division drops the remainder.
BatchSizePerDp == TotalBatch \div DpDegree

Sequence == [input_len : Nat, total_len : Int, current_len : Int,
             num_process_token : Int, gen_start_time : Int,
             arrival_time : Int, queueing_delay : Int, record : BOOLEAN,
             sum_stage : BOOLEAN, first_token_time : Int, end_token_time : Int]

\* What an identity that no object has stands for.
NoSequence == [input_len |-> 0, total_len |-> 0, current_len |-> 0,
               num_process_token |-> 0, gen_start_time |-> 0,
               arrival_time |-> 0, queueing_delay |-> 0, record |-> FALSE,
               sum_stage |-> FALSE, first_token_time |-> 0,
               end_token_time |-> 0]

Running == UNION {running_queue[b] : b \in Dp}
Queued == {sequence_queue[k] : k \in 1..Len(sequence_queue)}
\* Slip: an identity is given out again while its request waits.
FreeIds_Reused == Ids \ (Running \union token_list)
FreeIds == Ids \ (Running \union Queued \union token_list)

\* The sizes of all batches together.
BatchSize == Cardinality({p \in Dp \X Running : p[2] \in running_queue[p[1]]})
TokensOf(S) == MapThenSumSet(LAMBDA i : seq[i].num_process_token, S)

IsSum(i) == seq[i].current_len < seq[i].input_len
SumOf(b) == {i \in running_queue[b] : IsSum(i)}
HasSumSeq == \E i \in Running : IsSum(i)
----------------------------------------------------------------------------
(***************************************************************************)
(* Creating requests: fillSequenceQueue, pushSeq, pushDummySeq.            *)
(***************************************************************************)

\* The prefix of the prompt whose KV is reused: a truncated product.
ReusedLen(input_len) == (input_len * system_config.reuse_percent) \div 100

\* Slip: the last ages of the spread are not clamped.
Stagger_NoClamp(idx, count, output_len) ==
  (idx * output_len) \div Greatest(count, 1)

\* Where decode mode puts request idx of the count requests of the initial
\* fill in its output, so that the ages of the population are spread evenly.
Stagger(idx, count, output_len) ==
  Greatest(0, Least((idx * output_len) \div Greatest(count, 1),
                    output_len - 2))

TotalLen(input_len, output_len) ==
  IF system_config.prefill_mode THEN input_len ELSE input_len + output_len - 1

\* Slip: refills are spread over the ages like the initial fill.
StartLen_AlwaysStagger(input_len, output_len, idx, count) ==
  IF system_config.prefill_mode \/ ~system_config.decode_mode
  THEN ReusedLen(input_len)
  ELSE input_len + Stagger(idx, count, output_len)

\* Slip: decode mode starts a refill before its prompt.
StartLen_NoPrompt(input_len, output_len, idx, count) ==
  IF ~initial_fill_done /\ system_config.decode_mode
  THEN input_len + Stagger(idx, count, output_len)
  ELSE ReusedLen(input_len)

StartLen(input_len, output_len, idx, count) ==
  IF system_config.prefill_mode \/ ~system_config.decode_mode
  THEN ReusedLen(input_len)
  ELSE IF initial_fill_done THEN input_len
  ELSE input_len + Stagger(idx, count, output_len)

\* How many requests fillSequenceQueue asks for after an iteration that took
\* iter_time: the arrivals in [total_time - iter_time, total_time), in a
\* warm-up what 70% of the places lack, and without an injection rate what the
\* batches lack.
ArrivalsIn(from, to) ==
  Cardinality({k \in DOMAIN system_config.actual_arrival_time :
                 /\ from <= system_config.actual_arrival_time[k]
                 /\ system_config.actual_arrival_time[k] < to})

\* Slip: the window is closed at both ends.
RequestsToInject_Closed(iter_time) ==
  IF ~system_config.use_inject_rate THEN TotalBatch - BatchSize
  ELSE IF iter_time = 0 THEN Greatest(0, (7 * TotalBatch) \div 10 - BatchSize)
  ELSE ArrivalsIn(total_time - iter_time, total_time + 1)

RequestsToInject(iter_time) ==
  IF ~system_config.use_inject_rate THEN TotalBatch - BatchSize
  ELSE IF iter_time = 0 THEN Greatest(0, (7 * TotalBatch) \div 10 - BatchSize)
  ELSE ArrivalsIn(total_time - iter_time, total_time)

\* The list the previous update returned is out of scope, and the objects only
\* it held are gone.
FillSequenceQueue(iter_time) ==
  /\ pc = "fillSequenceQueue"
  /\ to_push' = <<RequestsToInject(iter_time), RequestsToInject(iter_time)>>
  /\ pc' = "pushSeq"
  /\ token_list' = {}
  /\ seq' = [i \in Ids |->
               IF i \in token_list \ Running THEN NoSequence ELSE seq[i]]
  /\ UNCHANGED <<system_config, sequence_queue, running_queue, rotate,
                 initial_fill_done, total_time, cur_arrival_time_idx,
                 p2_kv_offload, kv_counting, kv_admission, kv_decode,
                 to_admit>>

\* The arrival time of the next request: none before the clock runs, and 1 when
\* the list has no more.  Past the end every draw fails alike.
NextArrival ==
  LET arrivals == system_config.actual_arrival_time
  IN IF total_time = 0 THEN 0
     ELSE IF cur_arrival_time_idx < Len(arrivals)
          THEN arrivals[cur_arrival_time_idx + 1] ELSE 1

NewSequence(input_len, output_len, idx, count) ==
  [NoSequence EXCEPT
     !.input_len    = input_len,
     !.total_len    = TotalLen(input_len, output_len),
     !.current_len  = StartLen(input_len, output_len, idx, count),
     !.arrival_time = NextArrival,
     !.sum_stage    = TRUE]

\* One pass of pushSeq: pushDummySeq with lengths of the workload.  A request
\* without output is dropped.
PushDummySeq ==
  /\ pc = "pushSeq"
  /\ to_push[1] > 0
  /\ \E l \in system_config.lengths :
       \/ /\ l[2] = 0
          /\ UNCHANGED <<seq, sequence_queue, cur_arrival_time_idx>>
       \/ /\ l[2] # 0
          /\ FreeIds # {}
          /\ LET id == CHOOSE i \in FreeIds : TRUE
                 idx == to_push[2] - to_push[1]
             IN /\ seq' = [seq EXCEPT ![id] =
                             NewSequence(l[1], l[2], idx, to_push[2])]
                /\ sequence_queue' = Append(sequence_queue, id)
          /\ cur_arrival_time_idx' =
               IF total_time > 0
               THEN Least(cur_arrival_time_idx + 1,
                          Len(system_config.actual_arrival_time))
               ELSE cur_arrival_time_idx
  /\ to_push' = [to_push EXCEPT ![1] = @ - 1]
  /\ UNCHANGED <<system_config, running_queue, token_list, rotate,
                 initial_fill_done, total_time, p2_kv_offload, kv_counting,
                 kv_admission, kv_decode, pc, to_admit>>
----------------------------------------------------------------------------
(***************************************************************************)
(* fillRunningQueue.                                                       *)
(***************************************************************************)

\* Slip: one pass for each place of a batch.
Passes_OneBatch == Least(BatchSizePerDp, Len(sequence_queue))

\* The passes of the loop, counted before it starts.
Passes == Least(TotalBatch - BatchSize, Len(sequence_queue))

FillRunningQueue ==
  /\ pc = "pushSeq"
  /\ to_push[1] = 0
  /\ pc' = "fillRunningQueue"
  /\ to_admit' = Passes
  /\ UNCHANGED <<system_config, seq, sequence_queue, running_queue,
                 token_list, rotate, initial_fill_done, total_time,
                 cur_arrival_time_idx, p2_kv_offload, kv_counting,
                 kv_admission, kv_decode, to_push>>

\* Slip: the capacity test is off by one.
HasRoom_OneMore(b) == Cardinality(running_queue[b]) <= BatchSizePerDp
HasRoom(b) == Cardinality(running_queue[b]) < BatchSizePerDp

\* The batch that the k-th probe of one pass looks at.
Probe(k) == (rotate + k) % DpDegree

\* Where the rotation stands after a pass that used the probes 0 .. k.  The
\* code's counter goes on and on; only its remainder is ever used, and rotate
\* here is that remainder.
RotatedPast(k) == (rotate + k + 1) % DpDegree

\* Slip: the KV of the whole context is counted, as setMetadata reserves it.
AdmissionKv_Reserved(i) == seq[i].total_len

\* KV tokens counted when a request enters a batch.
AdmissionKv(i) == seq[i].input_len

\* One pass that places the head of the queue: the first probe that finds
\* room decides, and rotate has moved past it.
AdmitSequence ==
  /\ pc = "fillRunningQueue"
  /\ to_admit > 0
  /\ \E k \in Dp :
       /\ HasRoom(Probe(k))
       /\ \A j \in 0 .. k - 1 : ~HasRoom(Probe(j))
       /\ LET id == Head(sequence_queue)
          IN /\ running_queue' =
                  [running_queue EXCEPT ![Probe(k)] = @ \union {id}]
             /\ seq' = IF system_config.use_inject_rate
                       THEN [seq EXCEPT ![id].queueing_delay =
                                          total_time - seq[id].arrival_time]
                       ELSE seq
             /\ kv_admission' = IF kv_counting
                                THEN kv_admission + AdmissionKv(id)
                                ELSE kv_admission
       /\ rotate' = RotatedPast(k)
  /\ sequence_queue' = Tail(sequence_queue)
  /\ to_admit' = to_admit - 1
  /\ UNCHANGED <<system_config, token_list, initial_fill_done, total_time,
                 cur_arrival_time_idx, p2_kv_offload, kv_counting, kv_decode,
                 pc, to_push>>

\* Slip: the pass gives up after the first full batch.
SkipFullBatches_OneProbe ==
  /\ pc = "fillRunningQueue"
  /\ to_admit > 0
  /\ ~HasRoom(Probe(0))
  /\ to_admit' = to_admit - 1
  /\ UNCHANGED <<system_config, seq, sequence_queue, running_queue,
                 token_list, rotate, initial_fill_done, total_time,
                 cur_arrival_time_idx, p2_kv_offload, kv_counting,
                 kv_admission, kv_decode, pc, to_push>>

\* One pass that finds every batch full: rotate comes round to where it was.
SkipFullBatches ==
  /\ pc = "fillRunningQueue"
  /\ to_admit > 0
  /\ \A k \in Dp : ~HasRoom(Probe(k))
  /\ to_admit' = to_admit - 1
  /\ UNCHANGED <<system_config, seq, sequence_queue, running_queue,
                 token_list, rotate, initial_fill_done, total_time,
                 cur_arrival_time_idx, p2_kv_offload, kv_counting,
                 kv_admission, kv_decode, pc, to_push>>

\* A pass of the loop either places the head of the queue or finds no room.
FillPass == to_admit > 0 /\ (AdmitSequence \/ SkipFullBatches)
----------------------------------------------------------------------------
(***************************************************************************)
(* setMetadata: who processes how many tokens in this iteration.           *)
(***************************************************************************)

ProcessSum == system_config.disagg_system \/ HasSumSeq
ProcessGen == system_config.disagg_system \/ ~HasSumSeq

\* Slip: a share below one token is rounded down.
PrefillTokens_Floor(b, i) ==
  LET left == seq[i].input_len - seq[i].current_len
      cap == system_config.max_process_token
  IN IF cap > 0 THEN Least(cap \div Cardinality(SumOf(b)), left) ELSE left

\* The share of the prefill cap each request of batch b gets.
PrefillTokens(b, i) ==
  LET left == seq[i].input_len - seq[i].current_len
      cap == system_config.max_process_token
  IN IF cap > 0
     THEN Least(Greatest(1, cap \div Cardinality(SumOf(b))), left)
     ELSE left

\* A count that is not assigned keeps its value.
ProcessTokens(b, i) ==
  IF IsSum(i)
  THEN IF ProcessSum THEN PrefillTokens(b, i) ELSE seq[i].num_process_token
  ELSE IF ProcessGen /\ seq[i].gen_start_time <= total_time
       THEN 1 ELSE seq[i].num_process_token

BatchOf(i) == CHOOSE b \in Dp : i \in running_queue[b]

\* Slip: a request reserves the context it has now.
Reserved_Current(b) ==
  MapThenSumSet(LAMBDA i : seq[i].current_len, running_queue[b])

\* KV tokens a batch reserves: every request its full context.
Reserved(b) == MapThenSumSet(LAMBDA i : seq[i].total_len, running_queue[b])

\* Slip: a batch that fits the budget moves less than nothing out of it.
Offload_NoClamp(b) == Reserved(b) - system_config.kv_budget

\* What of that does not fit the HBM budget and lives in CPU memory.
Offload(b) == Greatest(0, Reserved(b) - system_config.kv_budget)

SetMetadata ==
  /\ pc = "fillRunningQueue"
  /\ to_admit = 0
  /\ initial_fill_done
  /\ pc' = "execute"
  /\ seq' = [i \in Ids |->
               IF i \in Running
               THEN [seq[i] EXCEPT !.num_process_token =
                                     ProcessTokens(BatchOf(i), i)]
               ELSE seq[i]]
  /\ p2_kv_offload' =
       IF system_config.kv_budget >= 0
       THEN [b \in Dp |-> Offload(b)]
       ELSE p2_kv_offload
  /\ UNCHANGED <<system_config, sequence_queue, running_queue, token_list,
                 rotate, initial_fill_done, total_time, cur_arrival_time_idx,
                 kv_counting, kv_admission, kv_decode, to_push, to_admit>>
----------------------------------------------------------------------------
(***************************************************************************)
(* updateScheduler and updateSchedulerSumGenSplit: sequences advance by    *)
(* the tokens they were given, and the finished ones leave.                *)
(***************************************************************************)

\* Slip: time passes only for the requests that processed a token.
Advance_ServedOnly(s, time) ==
  [s EXCEPT
     !.end_token_time = IF s.num_process_token > 0 THEN @ + time ELSE @,
     !.first_token_time = IF s.sum_stage THEN @ + time ELSE @,
     !.current_len = @ + s.num_process_token,
     !.num_process_token = 0,
     !.sum_stage = /\ s.sum_stage
                   /\ s.current_len + s.num_process_token # s.input_len]

\* Sequence::update
Advance(s, time) ==
  [s EXCEPT
     !.end_token_time = @ + time,
     !.first_token_time = IF s.sum_stage THEN @ + time ELSE @,
     !.current_len = @ + s.num_process_token,
     !.num_process_token = 0,
     !.sum_stage = /\ s.sum_stage
                   /\ s.current_len + s.num_process_token # s.input_len]

IsDone(s) == s.current_len = s.total_len
IsFirstToken(s) == s.current_len = s.input_len /\ ~s.record

\* The update of the requests in S; step is what it does to each of them.
UpdateSequences(S, step(_)) ==
  LET done == {i \in S : IsDone(step(seq[i]))}
      first == {i \in S \ done : IsFirstToken(step(seq[i]))}
  IN /\ seq' = [i \in Ids |->
                  IF i \in first THEN [step(seq[i]) EXCEPT !.record = TRUE]
                  ELSE IF i \in S THEN step(seq[i])
                  ELSE seq[i]]
     /\ running_queue' = [b \in Dp |-> running_queue[b] \ done]
     /\ token_list' = done \union first

\* Slip: a request is classified after the update, so that the iteration that
\* ends its prefill counts as decode.
DecodedTokens_AfterUpdate ==
  Cardinality({i \in Running :
                 /\ seq[i].num_process_token > 0
                 /\ seq[i].current_len + seq[i].num_process_token
                      >= seq[i].input_len})

\* The tokens this iteration decodes.
DecodedTokens ==
  Cardinality({i \in Running : ~IsSum(i) /\ seq[i].num_process_token > 0})

UpdateScheduler(time) ==
  /\ UpdateSequences(Running, LAMBDA s : Advance(s, time))
  /\ kv_decode' =
       IF kv_counting
       THEN kv_decode + DecodedTokens
       ELSE kv_decode
  /\ UNCHANGED <<system_config, sequence_queue, rotate, initial_fill_done,
                 cur_arrival_time_idx, p2_kv_offload, kv_counting,
                 kv_admission, to_push, to_admit>>

\* Only the requests in prefill advance, and decode may not start earlier
\* than this iteration ends.
UpdateSchedulerSumGenSplit(time) ==
  /\ UpdateSequences({i \in Running : IsSum(i)},
       LAMBDA s : [Advance(s, time) EXCEPT
                     !.gen_start_time = total_time + time])
  /\ UNCHANGED <<system_config, sequence_queue, rotate, initial_fill_done,
                 cur_arrival_time_idx, p2_kv_offload, kv_counting,
                 kv_admission, kv_decode, to_push, to_admit>>
----------------------------------------------------------------------------
(***************************************************************************)
(* The untimed part of Cluster::runIteration.                              *)
(***************************************************************************)

\* A new scheduler, with the empty batches of initRunningQueue.
Init ==
  /\ system_config \in Configs
  /\ seq = [i \in Ids |-> NoSequence]
  /\ sequence_queue = <<>>
  /\ running_queue = [b \in Dp |-> {}]
  /\ token_list = {}
  /\ rotate = 0
  /\ initial_fill_done = FALSE
  /\ total_time = 0
  /\ cur_arrival_time_idx = 0
  /\ p2_kv_offload = [b \in Dp |-> 0]
  /\ kv_counting = FALSE
  /\ kv_admission = 0
  /\ kv_decode = 0
  /\ pc = "fillSequenceQueue"
  /\ to_push = <<0, 0>>
  /\ to_admit = 0

InitialFillDone ==
  /\ pc = "fillRunningQueue"
  /\ to_admit = 0
  /\ ~initial_fill_done
  /\ initial_fill_done' = TRUE
  /\ UNCHANGED <<system_config, seq, sequence_queue, running_queue,
                 token_list, rotate, total_time, cur_arrival_time_idx,
                 p2_kv_offload, kv_counting, kv_admission, kv_decode, pc,
                 to_push, to_admit>>

\* A round of hittingQueue takes no time.
HitUpdate ==
  /\ pc = "execute"
  /\ pc' = "fillSequenceQueue"
  /\ UpdateScheduler(0)
  /\ UNCHANGED total_time

Next ==
  \/ FillSequenceQueue(0)
  \/ PushDummySeq
  \/ FillRunningQueue
  \/ FillPass
  \/ InitialFillDone
  \/ SetMetadata
  \/ HitUpdate

Spec == Init /\ [][Next]_schedulerVars

\* The loop never stops between two of its calls.
FairSpec == Spec /\ WF_schedulerVars(Next)
----------------------------------------------------------------------------
(***************************************************************************)
(* Properties.                                                             *)
(***************************************************************************)
Live == Running \union Queued

\* Every variable holds a value of its type; no batch has less than nothing in
\* CPU memory.
TypeOK ==
  /\ system_config \in Configs
  /\ seq \in [Ids -> Sequence]
  /\ sequence_queue \in Seq(Ids)
  /\ running_queue \in [Dp -> SUBSET Ids]
  /\ token_list \subseteq Ids
  /\ rotate \in Dp
  /\ initial_fill_done \in BOOLEAN
  /\ total_time \in Nat
  /\ cur_arrival_time_idx \in Nat
  /\ DOMAIN p2_kv_offload = Dp
  /\ \A b \in Dp : 0 <= p2_kv_offload[b]
  /\ kv_counting \in BOOLEAN
  /\ kv_admission \in Int
  /\ kv_decode \in Nat
  /\ pc \in {"fillSequenceQueue", "pushSeq", "fillRunningQueue", "execute",
             "addLatency"}
  /\ to_push \in Int \X Int
  /\ to_admit \in Int

\* No batch serves more requests than batch_size_per_dp, whatever the order in
\* which requests finish and the rotation hands out the free places, and
\* fillRunningQueue's loop never takes the head of an empty queue.
WithinCapacity ==
  /\ \A b \in Dp : Cardinality(running_queue[b]) <= BatchSizePerDp
  /\ pc = "fillRunningQueue" => to_admit <= Len(sequence_queue)

\* A request is in one place only: pop and erase by position and by id never
\* leave it in a second batch, in the queue, or twice in the queue.
InOnePlace ==
  /\ \A b, c \in Dp :
       b # c => running_queue[b] \intersect running_queue[c] = {}
  /\ Running \intersect Queued = {}
  /\ \A j, k \in 1 .. Len(sequence_queue) :
       sequence_queue[j] = sequence_queue[k] => j = k

\* No request becomes a zombie: updateScheduler tests current_len == total_len,
\* so a request that starts at or jumps past total_len would never be collected
\* (the comments of pushDummySeq and sampleWorkloadLengths).
NoZombie ==
  \A i \in Live :
    /\ seq[i].current_len < seq[i].total_len
    /\ seq[i].current_len + seq[i].num_process_token <= seq[i].total_len

\* fillRunningQueue leaves no place free beside a request that waits: the
\* rotation finds the last free place wherever it is.
WorkConserving ==
  pc = "fillRunningQueue" /\ to_admit = 0 =>
    \/ sequence_queue = <<>>
    \/ \A b \in Dp : ~HasRoom(b)

\* When the batches divide total_batch_size no request is left over in the
\* queue, so fillSequenceQueue, which does not look at its length, does not let
\* it grow round after round.
QueueDrained ==
  pc = "execute" /\ TotalBatch % DpDegree = 0 => sequence_queue = <<>>

\* What cluster.cpp says of decode mode: in every iteration the batches are
\* full and each request in them processes one token.
SteadyDecode ==
  pc = "execute" /\ system_config.decode_mode /\ ~system_config.prefill_mode =>
    /\ \A b \in Dp : Cardinality(running_queue[b]) = BatchSizePerDp
    /\ TokensOf(Running) = BatchSize

\* How many requests of the initial fill pushDummySeq puts at each age, and how
\* many there are now.
InitialAges(output_len) ==
  [a \in 0 .. output_len - 2 |->
     Cardinality({idx \in 0 .. TotalBatch - 1 :
                    Stagger(idx, TotalBatch, output_len) = a})]
Ages(output_len) ==
  [a \in 0 .. output_len - 2 |->
     Cardinality({i \in Running : seq[i].current_len - seq[i].input_len = a})]

\* The ages of the decoding population keep the distribution of the initial
\* fill for ever, turned round by the iterations that passed (the comment of
\* pushDummySeq on steady-state refills).
AgesStayUniform ==
  pc = "execute" /\ system_config.decode_mode /\ ~system_config.prefill_mode =>
    \A l \in system_config.lengths :
      Cardinality(system_config.lengths) = 1 =>
        \E turn \in 0 .. l[2] - 2 :
          \A a \in 0 .. l[2] - 2 :
            Ages(l[2])[(a + turn) % (l[2] - 1)] = InitialAges(l[2])[a]

\* The KV that a step leaves behind, less what is offloaded for it, fits the
\* HBM budget: the reservation at admission covers every later step.
OffloadCoversKv ==
  pc = "execute" /\ system_config.kv_budget >= 0 =>
    \A b \in Dp :
      MapThenSumSet(LAMBDA i : seq[i].current_len + seq[i].num_process_token,
                    running_queue[b])
        <= system_config.kv_budget + p2_kv_offload[b]

\* The batch server that the scheduler's queue and batches make up.
Server == INSTANCE BatchServer WITH
            Requests <- Ids, Batches <- Dp, Capacity <- BatchSizePerDp,
            waiting <- sequence_queue, serving <- running_queue

\* The scheduler is a batch server: FIFO admission into batches with room, no
\* request moved or served twice, whatever fillRunningQueue's rotation and
\* updateScheduler's pops do.
ImplementsBatchServer == Server!Spec

\* And it serves: a place that is free beside a waiting request is taken by
\* fillRunningQueue, and updateScheduler lets every request that was admitted
\* leave in the end.
ImplementsFairBatchServer == Server!Fairness
=============================================================================
