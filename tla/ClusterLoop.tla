---------------------------- MODULE ClusterLoop ----------------------------
(***************************************************************************)
(* Cluster::runIteration (src/hardware/cluster.cpp): the loop that owns    *)
(* the clock.  After the initial fill and the untimed rounds of            *)
(* hittingQueue it runs a fixed number of timed iterations.  In each one   *)
(* the scheduler hands out tokens, the device graph runs and says how long *)
(* the iteration took, and the sequences advance by that time, either on   *)
(* one machine (runIterationMixed) or with prefill and decode on machines  *)
(* that keep clocks of their own (runIterationSumGenSplit).                *)
(*                                                                         *)
(* The device graph is the choice of a time from StepTimes: how it comes   *)
(* about is not the loop's business.  total_time stands for the local      *)
(* variable of that name and for scheduler->total_time, which is always    *)
(* assigned from it before it is read.                                     *)
(***************************************************************************)
EXTENDS Scheduler

CONSTANTS
  Iter,             \* number of timed iterations
  StepTimes         \* what reportedIterationTime() may return

ASSUME ClusterLoopAssumption ==
  /\ Iter \in Nat
  /\ StepTimes \subseteq Nat \ {0}

VARIABLES
  phase,              \* "hitting", then "timed", then "done"
  iterations_left,    \* timed iterations still to run
  iter_time,          \* the time of the last iteration, 0 in the warm-up
  sum_machine_time,   \* the clock of the prefill machine
  stat,               \* the Stat of the last iteration: type and time
  rows,               \* the latency rows addLatency wrote last
  prefill_end         \* history: when each request's prefill was over, on
                      \*   the clock of the machine that ran it

loopVars == <<phase, iterations_left, iter_time, sum_machine_time, stat, rows,
              prefill_end>>
vars == <<schedulerVars, loopVars>>

ClusterInit ==
  /\ Init
  /\ phase = "hitting"
  /\ iterations_left = Iter
  /\ iter_time = 0
  /\ sum_machine_time = 0
  /\ stat = [type |-> "t2t", time |-> 0]
  /\ rows = {}
  /\ prefill_end = [i \in Ids |-> 0]
----------------------------------------------------------------------------
\* The scheduler is between two iterations.
AtLoopTop == /\ pc = "fillRunningQueue"
             /\ to_admit = 0
             /\ initial_fill_done

\* Slip: the loop goes on for one more iteration than it was told.
IterationRemains_OneMore == iterations_left >= 0

\* The condition of the loop over the iterations.
IterationRemains == iterations_left > 0

\* The scheduler's own steps.  The timed loop ends with its last iteration.
SchedulerStep ==
  /\ \/ FillSequenceQueue(iter_time)
     \/ PushDummySeq
     \/ FillRunningQueue
     \/ FillPass
     \/ InitialFillDone
     \/ phase # "done" /\ IterationRemains /\ SetMetadata
     \/ phase = "hitting" /\ HitUpdate
  /\ UNCHANGED loopVars

\* hittingQueue is over.  The code runs 10000 rounds; any number of them is
\* allowed here.
StartTimed ==
  /\ phase = "hitting"
  /\ AtLoopTop
  /\ phase' = "timed"
  /\ kv_counting' = TRUE
  /\ UNCHANGED <<system_config, seq, sequence_queue, running_queue,
                 token_list, rotate, initial_fill_done, total_time,
                 cur_arrival_time_idx, p2_kv_offload, kv_admission, kv_decode,
                 pc, to_push, to_admit, iterations_left, iter_time,
                 sum_machine_time, stat, rows, prefill_end>>

StopTimed ==
  /\ phase = "timed"
  /\ AtLoopTop
  /\ ~IterationRemains
  /\ phase' = "done"
  /\ kv_counting' = FALSE
  /\ UNCHANGED <<system_config, seq, sequence_queue, running_queue,
                 token_list, rotate, initial_fill_done, total_time,
                 cur_arrival_time_idx, p2_kv_offload, kv_admission, kv_decode,
                 pc, to_push, to_admit, iterations_left, iter_time,
                 sum_machine_time, stat, rows, prefill_end>>
----------------------------------------------------------------------------
Executes == phase = "timed" /\ pc = "execute"

\* An iteration without a token is cut short by `continue', after the local
\* time got the 20 ms that nobody reads.
RunIdle ==
  /\ Executes
  /\ TokensOf(Running) = 0
  /\ iterations_left' = iterations_left - 1
  /\ pc' = "fillRunningQueue"
  /\ UNCHANGED <<system_config, seq, sequence_queue, running_queue,
                 token_list, rotate, initial_fill_done, total_time,
                 cur_arrival_time_idx, p2_kv_offload, kv_counting,
                 kv_admission, kv_decode, to_push, to_admit, phase, iter_time,
                 sum_machine_time, stat, rows, prefill_end>>

\* The requests whose prompt is processed by this iteration.
EndsPrefill(i) ==
  /\ i \in Running
  /\ IsSum(i)
  /\ seq[i].current_len + seq[i].num_process_token = seq[i].input_len

\* A request that leaves takes its history along.
PrefillEndsAt(time) ==
  prefill_end' = [i \in Ids |-> IF i \notin Running' THEN 0
                                ELSE IF EndsPrefill(i) THEN time
                                ELSE prefill_end[i]]

\* An iteration of runIterationMixed, and the gen branch of
\* runIterationSumGenSplit, do the same.
RunDecodeMachine(time) ==
  /\ Executes
  /\ TokensOf(Running) # 0
  /\ system_config.disagg_system => ~HasSumSeq
  /\ total_time' = total_time + time
  /\ stat' = [type |-> "t2t", time |-> total_time + time]
  /\ iter_time' = time
  /\ UpdateScheduler(time)
  /\ PrefillEndsAt(total_time + time)
  /\ pc' = "addLatency"
  /\ UNCHANGED <<phase, iterations_left, sum_machine_time, rows>>

\* Slip: a prefill starts when the prefill machine is free, although the
\* decode machine has not come so far.
SumStart_OwnClock == sum_machine_time

\* A prefill starts when both clocks allow it.
SumStart == Greatest(total_time, sum_machine_time)

\* The sum branch of runIterationSumGenSplit: a prefill.  The decode clock
\* stands still.
RunSumMachine(time) ==
  /\ Executes
  /\ TokensOf(Running) # 0
  /\ system_config.disagg_system
  /\ HasSumSeq
  /\ stat' = [type |-> "sum", time |-> SumStart + time]
  /\ sum_machine_time' = SumStart + time
  /\ iter_time' = time
  /\ UpdateSchedulerSumGenSplit(time)
  /\ PrefillEndsAt(SumStart + time)
  /\ pc' = "addLatency"
  /\ UNCHANGED <<total_time, phase, iterations_left, rows>>

LatencyRow(i, time) ==
  LET ended == IsDone(seq[i])
  IN [id             |-> i,
      type           |-> IF ended THEN "e2e" ELSE "t2ft",
      latency        |-> IF ended THEN seq[i].end_token_time
                                  ELSE seq[i].first_token_time,
      queueing_delay |-> seq[i].queueing_delay,
      arrival_time   |-> seq[i].arrival_time,
      time           |-> time]

\* Requests of the initial fill and of the warm-up have no arrival time and
\* get no row.
HasRow(i) == seq[i].first_token_time # 0 /\ seq[i].arrival_time # 0

\* Slip: decode may start at once.
DecodeMayStart_AtOnce(s, time) == s
DecodeMayStart(s, time) == [s EXCEPT !.gen_start_time = time]

\* addLatency, then the end of the loop's body: only an iteration of the
\* decode machine refills the queues.  The list of a prefill is kept until the
\* next iteration assigns it; nobody reads it, so it is dropped here.
AddLatency ==
  /\ pc = "addLatency"
  /\ rows' = {LatencyRow(i, stat.time) : i \in {j \in token_list : HasRow(j)}}
  /\ seq' = [i \in Ids |->
               IF i \in token_list \intersect Running
               THEN DecodeMayStart(seq[i], stat.time)
               ELSE IF i \in token_list THEN NoSequence
               ELSE seq[i]]
  /\ token_list' = {}
  /\ iterations_left' = iterations_left - 1
  /\ pc' = IF stat.type = "sum" THEN "fillRunningQueue"
                                ELSE "fillSequenceQueue"
  /\ UNCHANGED <<system_config, sequence_queue, running_queue, rotate,
                 initial_fill_done, total_time, cur_arrival_time_idx,
                 p2_kv_offload, kv_counting, kv_admission, kv_decode, to_push,
                 to_admit, phase, iter_time, sum_machine_time, stat,
                 prefill_end>>

\* The program is over.
Terminating == phase = "done" /\ UNCHANGED vars

ClusterNext ==
  \/ SchedulerStep
  \/ StartTimed
  \/ StopTimed
  \/ RunIdle
  \/ \E time \in StepTimes : RunDecodeMachine(time)
  \/ \E time \in StepTimes : RunSumMachine(time)
  \/ AddLatency
  \/ Terminating

ClusterSpec == ClusterInit /\ [][ClusterNext]_vars

\* One thread runs the loop; it stops only at its end.  Strong fairness says
\* that the warm-up has an end.
ClusterFairSpec == /\ ClusterSpec
                   /\ WF_vars(ClusterNext)
                   /\ SF_vars(StartTimed)
----------------------------------------------------------------------------
(***************************************************************************)
(* Properties.                                                             *)
(***************************************************************************)
Row == [id : Ids, type : {"t2ft", "e2e"}, latency : Int,
        queueing_delay : Int, arrival_time : Int, time : Nat]

\* Every variable holds a value of its type; the clocks never run backwards
\* past 0, and no loop makes more passes than it was told to.
ClusterTypeOK ==
  /\ seq \in [Ids -> Sequence]
  /\ sequence_queue \in Seq(Ids)
  /\ running_queue \in [Dp -> SUBSET Ids]
  /\ rotate \in Dp
  /\ pc \in {"fillSequenceQueue", "pushSeq", "fillRunningQueue", "execute",
             "addLatency"}
  /\ to_push \in Nat \X Nat
  /\ to_admit \in Nat
  /\ phase \in {"hitting", "timed", "done"}
  /\ iterations_left \in 0 .. Iter
  /\ iter_time \in StepTimes \union {0}
  /\ total_time \in Nat
  /\ sum_machine_time \in Nat
  /\ stat \in [type : {"t2t", "sum"}, time : Nat]
  /\ rows \subseteq Row
  /\ prefill_end \in [Ids -> Nat]

\* On one machine, with requests that arrive at times of their own, a latency
\* row accounts for the time of its request without gap or overlap: arrival,
\* the wait in the queue, then first token or completion, at the row's time.
RowsTellTheTime ==
  system_config.use_inject_rate /\ ~system_config.disagg_system =>
    \A r \in rows : r.arrival_time + r.queueing_delay + r.latency = r.time

\* What the guide promises of end_token_time with separate machines too: the
\* latency of a request that completed is the time from its admission to its
\* completion.
E2ELatencyIsElapsed ==
  system_config.use_inject_rate =>
    \A r \in rows :
      r.type = "e2e" => r.arrival_time + r.queueing_delay + r.latency = r.time

\* With separate machines a first token is not reported before its request has
\* arrived, waited for its place and been prefilled: the clock of the prefill
\* machine, which the decode machine may have overtaken, catches up first.
PrefillAfterAdmission ==
  system_config.use_inject_rate /\ system_config.disagg_system =>
    \A r \in rows :
      r.type = "t2ft" =>
        r.arrival_time + r.queueing_delay + r.latency <= r.time

\* Every arrival is injected in one window and in no second one, although the
\* windows are computed from a clock that idle and prefill iterations do not
\* move, so the n-th request of the run gets the n-th arrival time; and no
\* request is in the system before it arrives.
ArrivalsInjectedOnce ==
  system_config.use_inject_rate =>
    /\ AtLoopTop \/ (pc = "fillRunningQueue" /\ phase = "timed") =>
         cur_arrival_time_idx = ArrivalsIn(0, total_time)
    /\ \A i \in Live : seq[i].arrival_time <= total_time

\* A request does not decode before its prefill is over on the clock of the
\* machine that ran it.
NoEarlyDecode ==
  Executes => \A i \in Running :
    ~IsSum(i) /\ seq[i].num_process_token > 0 => prefill_end[i] <= total_time

\* The ten thousand rounds of the warm-up outlast the initial fill: none of its
\* requests, which start at an age, waits when the timed loop begins.
WarmedUp ==
  phase # "hitting" =>
    \A n \in DOMAIN sequence_queue :
      LET s == seq[sequence_queue[n]] IN s.current_len <= s.input_len

\* KV that request i has in the cache once it is admitted: the prompt at once,
\* then a token for every token it decodes.
KvOf(i) == Greatest(seq[i].current_len, seq[i].input_len)
KvHeld == MapThenSumSet(KvOf, Running)
KvOfLeavers == MapThenSumSet(LAMBDA i : seq[i].total_len,
                             Running \ UNION {running_queue'[b] : b \in Dp})

\* In the timed loop every KV token is counted once, when it is written, and
\* outside of it none: a step adds to the counters what the KV of the running
\* requests grows by, the KV of the requests that leave included.
KvCountedOnce ==
  [][(kv_admission + kv_decode)' - (kv_admission + kv_decode)
       = IF phase = "timed" THEN KvHeld' + KvOfLeavers - KvHeld ELSE 0]_vars

\* What the comment on an iteration without requests says: add time.
IdleAddsTime ==
  [][iterations_left' < iterations_left /\ pc = "execute"
       => total_time' > total_time]_vars
=============================================================================
