---------------------------- MODULE MCScheduler ----------------------------
(***************************************************************************)
(* The configurations TLC checks the scheduler with.  A workload is a set  *)
(* of pairs <<input_len, output_len>>: one pair is paper 1's uniform       *)
(* workload, several are what paper 2's sampler may draw.                  *)
(***************************************************************************)
EXTENDS Scheduler

Decode(lengths, kv_budget) ==
  [lengths |-> lengths, disagg_system |-> FALSE, prefill_mode |-> FALSE,
   decode_mode |-> TRUE, use_inject_rate |-> FALSE,
   actual_arrival_time |-> <<>>, max_process_token |-> 0,
   reuse_percent |-> 0, kv_budget |-> kv_budget]

\* Prefill followed by decode on one machine, prefill in chunks of at most cap
\* tokens, part of the prompt reused.
Mixed(lengths, cap, reuse) ==
  [Decode(lengths, -1) EXCEPT !.decode_mode = FALSE,
                              !.max_process_token = cap,
                              !.reuse_percent = reuse]

Prefill(lengths, cap) == [Mixed(lengths, cap, 0) EXCEPT !.prefill_mode = TRUE]

SchedulerConfigs ==
  { Decode({<<2, 5>>}, -1),
    Decode({<<2, 3>>}, -1),
    Decode({<<1, 2>>, <<2, 4>>}, 5),
    Mixed({<<4, 2>>, <<3, 3>>}, 3, 50),
    Mixed({<<3, 1>>, <<2, 0>>}, 0, 0),
    Prefill({<<2, 3>>, <<4, 3>>}, 1) }

\* The shortest output the configuration accepts.
OneTokenConfigs == { Decode({<<2, 1>>}, -1) }
=============================================================================
