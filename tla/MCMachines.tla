------------------------------ MODULE MCMachines ------------------------------
(***************************************************************************)
(* The rates TLC runs the cost models with.  The GPU computes fastest and  *)
(* has the slowest memory for its peak; the PIM units are the opposite.    *)
(***************************************************************************)
EXTENDS Integers

Cost ==
  [use_hbf |-> FALSE, num_hbm_stacks |-> 1,
   flop_ticks |-> [GPU |-> 1, LOGIC |-> 3, PIM |-> 6],
   byte_ticks |-> [GPU |-> 8, LOGIC |-> 4, PIM |-> 2],
   flash_read |-> 4, flash_write |-> 8, hbm_read |-> 2, sram_read |-> 1,
   c2c |-> 16, page_read |-> 60, page_program |-> 80, sram |-> 16,
   chunk_size |-> 0, weight_stream_ops |-> 2, paper2_mode |-> FALSE,
   expose_first_expert |-> FALSE, cpu_kv_offload |-> FALSE,
   softmax_hide |-> FALSE, c2c_overlapped |-> FALSE, f_off |-> 2,
   mfu_m_half |-> 0, ramulator |-> FALSE,
   ram_ticks |-> [GPU |-> 3, LOGIC |-> 2, PIM |-> 1],
   pp |-> 1, num_layers |-> 2, input_len |-> 2, output_len |-> 2,
   int_limit |-> 1000000]
=============================================================================
