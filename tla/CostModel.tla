------------------------------ MODULE CostModel ------------------------------
(***************************************************************************)
(* What one layer costs on one processor of a device: the helpers of       *)
(* src/hardware/layer_impl.h, and the matrix product and the activation of *)
(* linear_impl.cpp and activation_impl.cpp.  A layer takes the longer of   *)
(* its computation and its memory traffic.  Rates are ticks for a flop or  *)
(* a byte, the inverse of the code's bandwidths, so that all times are     *)
(* integers.                                                               *)
(*                                                                         *)
(* A machine c is a record with the fields of the system's and the model's *)
(* configuration that the costs read:                                      *)
(*   use_hbf            weights and KV are in flash                        *)
(*   num_hbm_stacks     stacks of HBM beside the flash                     *)
(*   flop_ticks, byte_ticks   of each processor                            *)
(*   flash_read, flash_write, hbm_read, sram_read, c2c   ticks for a byte  *)
(*   page_read, page_program  latencies of flash                           *)
(*   sram               bytes of the staging pool, sram_per_stack * stacks *)
(*   chunk_size         of chunked attention, 0 for the whole pool         *)
(*   weight_stream_ops  calls that share a page fill                       *)
(*   paper2_mode, expose_first_expert, cpu_kv_offload, softmax_hide,       *)
(*   c2c_overlapped     switches                                           *)
(*   f_off              quarters of the KV that are offloaded              *)
(*   mfu_m_half         rows at which half the peak is reached             *)
(*   ramulator, ram_ticks   the DRAM simulator, external, and its rate     *)
(*   pp, num_layers, input_len, output_len   of the model                  *)
(*   int_limit          the first value the code's int cannot hold (2^31)  *)
(*                                                                         *)
(* A definition whose comment starts with "Slip" is not part of the model. *)
(***************************************************************************)
EXTENDS Integers, Sequences, FiniteSetsExt, Functions

Processors == {"GPU", "LOGIC", "PIM"}

\* The ranges of a machine's fields.
SystemConfig ==
  [use_hbf : BOOLEAN, num_hbm_stacks : Nat,
   flop_ticks : [Processors -> Nat], byte_ticks : [Processors -> Nat],
   flash_read : Nat, flash_write : Nat, hbm_read : Nat, sram_read : Nat,
   c2c : Nat, page_read : Nat, page_program : Nat, sram : Nat,
   chunk_size : Nat, weight_stream_ops : Nat, paper2_mode : BOOLEAN,
   expose_first_expert : BOOLEAN, cpu_kv_offload : BOOLEAN,
   softmax_hide : BOOLEAN, c2c_overlapped : BOOLEAN, f_off : 0..4,
   mfu_m_half : Nat, ramulator : BOOLEAN, ram_ticks : [Processors -> Nat],
   pp : Nat \ {0}, num_layers : Nat, input_len : Nat, output_len : Nat \ {0},
   int_limit : Nat \ {0}]

Least(a, b) == IF a <= b THEN a ELSE b
Longer(a, b) == IF a >= b THEN a ELSE b

\* Sum of an attribute over the sequences of a batch.
SumOver(b, F(_)) == SumFunction([i \in DOMAIN b |-> F(b[i])])
----------------------------------------------------------------------------
\* Ticks for a byte: Device::Device replaces the GPU's bandwidth with flash's.
Bandwidth(c, p) ==
  IF c.use_hbf /\ p = "GPU" THEN c.flash_read ELSE c.byte_ticks[p]

\* cpuKvOffloadActive
OffloadActive(c) == c.cpu_kv_offload /\ ~c.use_hbf

\* The time t at the peak, at the utilisation that m rows allow.
EffectiveMFU(c, t, m) ==
  IF m <= 0 \/ c.mfu_m_half <= 0 THEN t
  ELSE (t * (m + c.mfu_m_half)) \div m

\* LOGIC and PIM compute twice as fast on operands of one byte.
ComputeTime(c, p, precision, flops, m) ==
  LET peak == flops * c.flop_ticks[p]
      t == IF p # "GPU" /\ precision = 1 THEN peak \div 2 ELSE peak
  IN EffectiveMFU(c, t, m)

\* Activations are in HBM or in the SRAM of the logic die.
ActTime(c, bytes) ==
  bytes * (IF c.num_hbm_stacks > 0 THEN c.hbm_read ELSE c.sram_read)

\* A stream from flash in chunks: the first page is exposed once for the
\* calls that share the stream, the others as far as the transfer of the chunk
\* before them does not hide them.
FlashTime(c, bytes, chunk, amortize) ==
  LET chunks == Longer(1, IF chunk = 0 THEN 1
                          ELSE (bytes + chunk - 1) \div chunk)
      residual == Longer(0, c.page_read - chunk * c.flash_read)
      exposed == c.page_read \div amortize + (chunks - 1) * residual
  IN bytes * c.flash_read + (IF c.paper2_mode THEN 0 ELSE exposed)

\* getAttentionMemoryDuration with chunked attention.
AttentionMemory(c, kv, act, amortize) ==
  LET chunk == IF c.chunk_size > 0 THEN Least(c.chunk_size, c.sram) ELSE c.sram
  IN Longer(FlashTime(c, kv, chunk, amortize), ActTime(c, act))

\* The same without it.
AttentionMemoryUnchunked(c, kv, act, amortize) ==
  Longer(FlashTime(c, kv, c.sram, amortize), ActTime(c, act))

\* Slip: the resident part is not reduced.
OffloadRead_Whole(c, kv, act) ==
  LET resident == (kv + act) * c.byte_ticks["GPU"]
      offloaded == (kv * c.f_off * c.c2c) \div 4
  IN IF c.c2c_overlapped THEN Longer(resident, offloaded)
     ELSE resident + offloaded

\* hbmKvOffloadReadDuration
OffloadRead(c, kv, act) ==
  LET resident == (kv * (4 - c.f_off) * c.byte_ticks["GPU"]) \div 4
                  + act * c.byte_ticks["GPU"]
      offloaded == (kv * c.f_off * c.c2c) \div 4
  IN IF c.c2c_overlapped THEN Longer(resident, offloaded)
     ELSE resident + offloaded

\* getKVWriteDuration: each new request writes its prompt, or the window of
\* it that the layer keeps.
KvWrite(c, l, num_seq, compressed) ==
  LET entry == IF compressed THEN l.kv_lora_rank + l.rope
               ELSE l.num_kv_heads * (2 * l.head_dim + l.rope)
      kept == IF l.window > 0 THEN Least(c.input_len, l.window)
              ELSE c.input_len
  IN (num_seq * entry * kept * l.precision * c.flash_write) \div c.output_len
     + c.page_program \div (c.num_layers \div c.pp)
----------------------------------------------------------------------------
\* ExecStatus: the fields that times are made of.
EmptyStatus == [total |-> 0, compute |-> 0, dep |-> 0, kv_write |-> 0,
                flops |-> 0, size |-> 0]

\* The time the DRAM simulator reports for the elements it is given; external.
Ramulator(c, p, elements, precision) ==
  elements * precision * c.ram_ticks[p]

\* An expert that has no token in the first of the pp microbatches: tagged so
\* that the reconstruction takes nothing of it.
Cold(c, cold, total, dep) ==
  IF c.pp > 1 /\ cold /\ total > 0 THEN (total * c.pp) \div (c.pp - 1) ELSE dep

\* The operands of a product.  A shape s is [m, k, n, heads, duplicated]: the
\* heads of a batched product may share one input.
Weight(s) == s.k * s.n * s.heads
Act(s) ==
  s.m * s.k * (IF s.duplicated THEN 1 ELSE s.heads) + s.m * s.n * s.heads

\* getLinearMemoryDuration
LinearMemory(c, p, s, precision, expose) ==
  LET first == IF expose /\ c.expose_first_expert THEN c.page_read ELSE 0
      stream ==
        FlashTime(c, Weight(s) * precision, c.sram,
                  IF c.weight_stream_ops > 0 THEN c.weight_stream_ops ELSE 1)
  IN IF c.use_hbf
     THEN Longer(stream + first, ActTime(c, Act(s) * precision))
     ELSE (Weight(s) + Act(s)) * precision * Bandwidth(c, p)

\* Slip: the literal rule that the code's comment rejects: nothing when bound
\* by memory.
LinearDep_Literal(c, s, precision, compute, memory) ==
  IF compute > memory THEN compute
  ELSE IF c.use_hbf /\ ActTime(c, Act(s) * precision) >= memory THEN memory
  ELSE 0

\* The part of a product's time that grows with the batch: all of it when it is
\* bound by computation or by activations, nothing when it waits for flash, the
\* activations' share when they come from the memory of the weights.
LinearDep(c, s, precision, compute, memory) ==
  IF compute > memory THEN compute
  ELSE IF c.use_hbf
       THEN (IF ActTime(c, Act(s) * precision) >= memory THEN memory ELSE 0)
       ELSE (memory * Act(s)) \div (Weight(s) + Act(s))

\* linearCore; the flag of the first expert, expose, is read before it.
LinearCore(c, p, s, precision, expose, cold) ==
  LET flops == 2 * s.m * s.k * s.n * s.heads
      compute == ComputeTime(c, p, precision, flops, s.m)
      memory == IF c.ramulator
                THEN Ramulator(c, "GPU", Act(s), precision)
                     + Ramulator(c, p, Weight(s), precision)
                ELSE LinearMemory(c, p, s, precision, expose)
      total == Longer(compute, memory)
      dep == LinearDep(c, s, precision, compute, memory)
  IN IF s.m = 0 THEN EmptyStatus
     ELSE [EmptyStatus EXCEPT !.total = total, !.compute = compute,
             !.dep = Cold(c, cold, total, dep), !.flops = flops,
             !.size = (Act(s) + Weight(s)) * precision]

\* activationCore, on an input and a gate of m rows and n columns.
ActivationCore(c, p, m, n, precision, cold) ==
  LET size == 3 * m * n * precision
      compute == ComputeTime(c, p, precision, size, m)
      memory == IF c.ramulator THEN Ramulator(c, p, 3 * m * n, precision)
                ELSE IF c.use_hbf THEN ActTime(c, size)
                ELSE size * Bandwidth(c, p)
      total == Longer(compute, memory)
  IN IF m * n = 0 THEN EmptyStatus
     ELSE [EmptyStatus EXCEPT !.total = total, !.compute = compute,
                              !.dep = Cold(c, cold, total, total),
                              !.flops = size, !.size = size]
=============================================================================
