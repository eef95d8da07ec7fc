-------------------------------- MODULE MCCost --------------------------------
(***************************************************************************)
(* The machines TLC compares costs on.                                     *)
(***************************************************************************)
EXTENDS CostLaws, MCMachines, TLC

\* Memory of HBM; flash whose pages the transfer hides, in chunks of the pool
\* or smaller, and whose reads the activations of a few rows outlast; a slow peak, so that computation matters.
CostParameters ==
  LET flash == [Cost EXCEPT !.use_hbf = TRUE, !.hbm_read = 3]
  IN { Cost, [Cost EXCEPT !.flop_ticks = [GPU |-> 6, LOGIC |-> 9, PIM |-> 9],
                          !.mfu_m_half = 2],
       flash, [flash EXCEPT !.chunk_size = 15, !.num_hbm_stacks = 0,
                            !.softmax_hide = TRUE],
       [flash EXCEPT !.flop_ticks["GPU"] = 9, !.f_off = 3] }

Model(attention, flash_attention, flash_mla, compressed) ==
  [attention |-> attention, head_dim |-> 2, num_heads |-> 4,
   num_kv_heads |-> 2, rope |-> IF attention = "gqa" THEN 0 ELSE 1,
   kv_lora_rank |-> 2, max_seq_len |-> 4,
   use_flash_attention |-> flash_attention, use_flash_mla |-> flash_mla,
   compressed_kv |-> compressed, precision |-> 2, hidden_dim |-> 3,
   intermediate_dim |-> 4]

CostMachines ==
  { m @@ [c |-> parameters] :
      parameters \in CostParameters,
      m \in { Model("gqa", TRUE, TRUE, FALSE),
              Model("gqa", FALSE, TRUE, FALSE),
              Model("mla", TRUE, TRUE, TRUE),
              Model("mla", FALSE, FALSE, FALSE),
              Model("absorb", TRUE, TRUE, TRUE),
              Model("absorb", FALSE, FALSE, TRUE) } }
=============================================================================
