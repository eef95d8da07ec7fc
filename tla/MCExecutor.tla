------------------------------ MODULE MCExecutor ------------------------------
(***************************************************************************)
(* The machines and batches TLC executes layers with.                      *)
(***************************************************************************)
EXTENDS Executor, MCMachines

Flash == [Cost EXCEPT !.use_hbf = TRUE, !.expose_first_expert = TRUE]

Machine(c, procs, attention) ==
  [c |-> c, procs |-> procs, high |-> procs[1], low |-> procs[Len(procs)],
   hetero_subbatch |-> FALSE, use_low_unit_moe_only |-> FALSE,
   attention |-> attention, head_dim |-> 2, num_heads |-> 2,
   num_kv_heads |-> 1, rope |-> IF attention = "gqa" THEN 0 ELSE 1,
   kv_lora_rank |-> 2, max_seq_len |-> 4, use_flash_attention |-> FALSE,
   use_flash_mla |-> FALSE, compressed_kv |-> FALSE, precision |-> 1,
   hidden_dim |-> 2, intermediate_dim |-> 3]

\* One processor with flash or without, with and without the switch of the
\* first expert; several of which one executes the experts; several that
\* compete; the DRAM simulator; an offloaded cache.
ExecutorMachines ==
  { Machine([Flash EXCEPT !.pp = 2], <<"GPU">>, "gqa"),
    [Machine(Flash, <<"LOGIC">>, "mla") EXCEPT !.compressed_kv = TRUE,
                                               !.use_flash_mla = TRUE],
    Machine([Cost EXCEPT !.pp = 2, !.expose_first_expert = TRUE], <<"GPU">>,
            "absorb"),
    [Machine([Flash EXCEPT !.pp = 2], <<"GPU", "LOGIC">>, "absorb")
       EXCEPT !.use_low_unit_moe_only = TRUE, !.use_flash_attention = TRUE],
    [Machine(Cost, <<"GPU", "PIM">>, "mla") EXCEPT !.hetero_subbatch = TRUE],
    Machine([Cost EXCEPT !.mfu_m_half = 1], <<"GPU", "LOGIC">>, "gqa"),
    Machine([Cost EXCEPT !.pp = 2, !.ramulator = TRUE], <<"GPU", "PIM">>,
            "gqa"),
    Machine([Cost EXCEPT !.cpu_kv_offload = TRUE], <<"GPU">>, "gqa"),
    Machine([Cost EXCEPT !.cpu_kv_offload = TRUE], <<"GPU">>, "absorb") }

\* The GPU and the logic die compete for the experts, whose weights are in
\* flash.
CompetingMachines ==
  { Machine([Flash EXCEPT !.weight_stream_ops = 1], <<"GPU", "LOGIC">>,
            "gqa") }

\* Steps of one to three tokens: decoding, where one sequence is not due yet; a
\* prompt, for which a decoding sequence waits; and both.
StepBatches ==
  LET s(cur, tok) == [cur |-> cur, tok |-> tok]
  IN { << <<>>, <<s(2, 1), s(1, 0)>> >>, << <<s(0, 2)>>, <<s(2, 0)>> >>,
       << <<s(0, 1)>>, <<s(1, 1), s(5, 1)>> >> }
=============================================================================
