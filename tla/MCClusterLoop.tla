--------------------------- MODULE MCClusterLoop ---------------------------
(***************************************************************************)
(* The configurations TLC checks the loop with.                            *)
(***************************************************************************)
EXTENDS ClusterLoop

SteadyConfig(lengths) ==
  [lengths |-> lengths, disagg_system |-> FALSE, prefill_mode |-> FALSE,
   decode_mode |-> TRUE, use_inject_rate |-> FALSE,
   actual_arrival_time |-> <<1, 2, 4, 5, 7, 8, 9>>, max_process_token |-> 0,
   reuse_percent |-> 0, kv_budget |-> -1]

\* Requests that arrive at times of their own and are prefilled first.
Inject(lengths, arrivals, cap) ==
  [SteadyConfig(lengths) EXCEPT !.decode_mode = FALSE,
                                !.use_inject_rate = TRUE,
                                !.actual_arrival_time = arrivals,
                                !.max_process_token = cap]

Split(config) == [config EXCEPT !.disagg_system = TRUE]

Arrivals == <<1, 2, 4, 5, 5, 8, 11>>

OneMachineConfigs ==
  { SteadyConfig({<<2, 4>>}),
    Inject({<<2, 3>>, <<1, 2>>}, Arrivals, 2) }

TwoMachineConfigs ==
  { Split(Inject({<<2, 4>>}, Arrivals, 1)),
    Split(Inject({<<1, 2>>, <<2, 5>>}, Arrivals, 0)) }

LoopConfigs == OneMachineConfigs \cup TwoMachineConfigs

\* A second request that comes long after the first has been served.
IdleConfigs == { Inject({<<2, 2>>}, <<1, 11>>, 0) }

\* Five places for two batches of two: when requests are refilled, the place
\* that no batch has adds one to the queue in every iteration.  It ends here.
QueueBound == Len(sequence_queue) <= 8
=============================================================================
