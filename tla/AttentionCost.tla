---------------------------- MODULE AttentionCost ----------------------------
(***************************************************************************)
(* What an attention layer costs when it decodes                           *)
(* (src/hardware/attention_gen_impl.cpp): grouped-query attention (Gqa),   *)
(* latent attention on expanded heads (Mla) and absorbed into the latent   *)
(* vectors (Absorb), each on the GPU, the logic die and the PIM units.     *)
(*                                                                         *)
(* A kernel is a sequence of phases (scoring, softmax, context, or a fused *)
(* one); each phase takes the longer of its computation and its memory     *)
(* traffic.  A batch b is a sequence of [cur, tok]: the tokens a sequence  *)
(* holds (current_len) and those it processes now, none when it waits for  *)
(* prompts or is not due; a kernel reads its cache all the same, unless    *)
(* the whole batch processes none.  A layer l is a record with the fields  *)
(* of LayerInfo that the kernels read (group is its attention_group_size,  *)
(* rope its qk_rope_head_dim, window its local_attention_window), the      *)
(* precision of its input, and compressed_kv of the model.  Sizes are      *)
(* counted in elements.                                                    *)
(*                                                                         *)
(* A definition whose comment starts with "Slip" is not part of the model. *)
(***************************************************************************)
EXTENDS CostModel, SequencesExt

Batch == Seq([cur : Nat, tok : Nat])

Tokens(b) == SumOver(b, LAMBDA s : s.tok)
Context(s) == s.cur + s.tok

\* What the layer's flash-attention flag saves: the scores' traffic.
Scores(l, s) ==
  IF l.use_flash_attention THEN 0 ELSE s.tok * Context(s) * l.num_heads
----------------------------------------------------------------------------
\* Work of a phase: flops, elements of the KV cache and of activations, and the
\* elements that the DRAM simulator is given.
Work(flops, kv, act, ops) ==
  [flops |-> flops, kv |-> kv, act |-> act, ops |-> ops]

\* Of all sequences of a batch.
Total(b, W(_)) ==
  Work(SumOver(b, LAMBDA s : W(s).flops), SumOver(b, LAMBDA s : W(s).kv),
       SumOver(b, LAMBDA s : W(s).act), SumOver(b, LAMBDA s : W(s).ops))

\* A phase: its two times, whether its computation is one that a KV write can
\* hide behind (exec_status.compute_duration), and what it reports.
Phase(c, p, l, b, w, memory) ==
  [compute |-> ComputeTime(c, p, l.precision, w.flops, Tokens(b)),
   memory |-> memory, hides |-> TRUE, flops |-> w.flops,
   size |-> (w.kv + w.act) * l.precision]

\* Through the processor's own memory.
Plain(c, p, l, b, w) ==
  Phase(c, p, l, b, w,
        IF c.ramulator THEN Ramulator(c, p, w.ops, l.precision)
        ELSE (w.kv + w.act) * l.precision * Bandwidth(c, p))

\* With the KV cache in flash, or partly in the memory of the CPU: one stream
\* for the whole batch, of which the phase is one of `fills' calls.
Streamed(c, l, b, w, fills) ==
  LET kv == w.kv * l.precision
      act == w.act * l.precision
  IN IF c.ramulator THEN Plain(c, "GPU", l, b, w)
     ELSE IF c.use_hbf
     THEN Phase(c, "GPU", l, b, w,
                IF l.use_chunked_attention
                THEN AttentionMemory(c, kv, act, fills)
                ELSE AttentionMemoryUnchunked(c, kv, act, fills))
     ELSE IF OffloadActive(c)
     THEN Phase(c, "GPU", l, b, w, OffloadRead(c, kv, act))
     ELSE Plain(c, "GPU", l, b, w)

\* The softmax of each sequence; its traffic is that of activations.  It counts
\* as computation that hides a write only when the configuration says so.
SoftmaxWork(l, s) ==
  Work(7 * s.tok * Context(s) * l.num_heads, 0, 2 * Scores(l, s),
       2 * Scores(l, s))

SoftmaxTime(c, p, bytes) ==
  IF c.use_hbf THEN ActTime(c, bytes) ELSE bytes * Bandwidth(c, p)

Softmax(c, p, l, b) ==
  [i \in DOMAIN b |->
     LET w == SoftmaxWork(l, b[i])
     IN [Phase(c, p, l, b, w,
               IF c.ramulator THEN Ramulator(c, p, w.ops, l.precision)
               ELSE SoftmaxTime(c, p, w.act * l.precision))
           EXCEPT !.hides = c.softmax_hide]]
----------------------------------------------------------------------------
\* The phases one after the other.
Run(phases) ==
  LET total == SumOver(phases, LAMBDA f : Longer(f.compute, f.memory))
  IN [EmptyStatus EXCEPT
        !.total = total,
        !.compute = SumOver(phases,
                            LAMBDA f : IF f.hides THEN f.compute ELSE 0),
        !.flops = SumOver(phases, LAMBDA f : f.flops),
        !.size = SumOver(phases, LAMBDA f : f.size)]

\* A decode kernel: all of its time grows with the batch; without tokens it
\* returns early.
Decode(b, phases) ==
  LET status == Run(phases)
  IN IF Tokens(b) = 0 THEN EmptyStatus
     ELSE [status EXCEPT !.dep = status.total]

\* Kernels of the GPU that know nothing of an offloaded cache stop the program.
Failure == [EmptyStatus EXCEPT !.total = -1]
NoOffload(c, b, status) ==
  IF OffloadActive(c) /\ Tokens(b) > 0 THEN Failure ELSE status

\* Slip: the write is hidden behind the whole kernel.
WithKvWrite_BehindAll(c, l, b, compressed, status) ==
  LET write == Longer(0, KvWrite(c, l, Len(b), compressed) - status.total)
  IN IF ~c.use_hbf \/ Tokens(b) = 0 THEN status
     ELSE [status EXCEPT !.total = @ + write, !.dep = @ + write,
                         !.kv_write = write]

\* With flash, the GPU's decode kernels charge what their computation does not
\* hide of the KV write.
WithKvWrite(c, l, b, compressed, status) ==
  LET write == Longer(0, KvWrite(c, l, Len(b), compressed) - status.compute)
  IN IF ~c.use_hbf \/ Tokens(b) = 0 THEN status
     ELSE [status EXCEPT !.total = @ + write, !.dep = @ + write,
                         !.kv_write = write]
----------------------------------------------------------------------------
(***************************************************************************)
(* Grouped-query attention.                                                *)
(***************************************************************************)

\* Slip: the layer's window is not looked at.
Reach_NoWindow(l, s) == Context(s)

\* The positions a layer reads: a local layer keeps a window.
Reach(l, s) == IF l.window > 0 THEN Least(Context(s), l.window) ELSE Context(s)

\* A sequence cut to what the layer reads of it.
Reached(l, b) ==
  [i \in DOMAIN b |-> [b[i] EXCEPT !.cur = Reach(l, b[i]) - b[i].tok]]

\* Scoring and context move the same amounts: queries or outputs, the K or V
\* cache, and the scores.
GqaWork(l, s) ==
  LET kv == l.head_dim * Context(s) * l.num_kv_heads
  IN Work(2 * s.tok * l.head_dim * Context(s) * l.group * l.num_kv_heads,
          kv, s.tok * l.head_dim * l.num_heads + Scores(l, s), kv)

GqaGenScoreGPU(c, l, b) ==
  Streamed(c, l, b, Total(b, LAMBDA s : GqaWork(l, s)), 2)

\* The softmax does not use the DRAM simulator.
GqaGenSoftmaxGPU(c, l, b) ==
  Softmax([c EXCEPT !.ramulator = FALSE], "GPU", l, b)

\* Slip: a page fill of its own, as before defect 22 was resolved.
GqaGenContextGPU_OwnFill(c, l, b) ==
  Streamed(c, l, b, Total(b, LAMBDA s : GqaWork(l, s)), 1)

GqaGenContextGPU(c, l, b) ==
  Streamed(c, l, b, Total(b, LAMBDA s : GqaWork(l, s)), 2)

AttentionGenExecutionGPU(c, l, batch) ==
  LET b == Reached(l, batch)
  IN WithKvWrite(c, [l EXCEPT !.rope = 0], b, FALSE,
       Decode(b, <<GqaGenScoreGPU(c, l, b)>> \o GqaGenSoftmaxGPU(c, l, b)
                 \o <<GqaGenContextGPU(c, l, b)>>))

\* Near the memory only the cache moves, in steps of four positions.
GqaNearWork(l, s) ==
  LET w == GqaWork(l, s)
  IN [w EXCEPT !.act = 0,
               !.ops = l.head_dim * l.num_kv_heads
                       * (((Context(s) + 3) \div 4) * 4)]

GqaGenNear(c, p, l, b) ==
  Plain(c, p, l, b, Total(b, LAMBDA s : GqaNearWork(l, s)))

\* The logic die reads the whole context and leaves the softmax out.
AttentionGenExecutionLogic(c, l, b) ==
  Decode(b, <<GqaGenNear(c, "LOGIC", l, b), GqaGenNear(c, "LOGIC", l, b)>>)

\* The PIM units compute a softmax that moves nothing.
GqaGenSoftmaxPIM(c, l, b) ==
  Softmax(c, "PIM", [l EXCEPT !.use_flash_attention = TRUE], b)

AttentionGenExecutionPIM(c, l, b) ==
  Decode(b, <<GqaGenNear(c, "PIM", l, b)>> \o GqaGenSoftmaxPIM(c, l, b)
            \o <<GqaGenNear(c, "PIM", l, b)>>)
----------------------------------------------------------------------------
(***************************************************************************)
(* Latent attention on expanded heads.                                     *)
(***************************************************************************)

\* The fused kernel: keys with their rotary part, and values.
MlaFusedWork(l, s) ==
  LET h == l.num_heads
      n == Context(s)
      entry == 2 * l.head_dim + l.rope
  IN Work(2 * s.tok * entry * n * h, n * entry * h, s.tok * entry * h,
          (1 + n) * entry * h)

MlaScoreWork(l, s) ==
  LET h == l.num_heads
      k == l.head_dim + l.rope
      n == Context(s)
      written == IF l.use_flash_attention THEN 0 ELSE h * n
  IN Work(2 * s.tok * k * n * h, k * n * h, s.tok * k * h + Scores(l, s),
          h * k + n * k * h + written)

MlaContextWork(l, s) ==
  LET h == l.num_heads
      n == Context(s)
      read == IF l.use_flash_attention THEN 0 ELSE h * n
  IN Work(2 * s.tok * n * l.head_dim * h, n * l.head_dim * h,
          Scores(l, s) + s.tok * l.head_dim * h,
          read + n * l.head_dim * h + h * l.head_dim)

\* The softmax's traffic takes its time but is not reported.
Unreported(phases) == [i \in DOMAIN phases |-> [phases[i] EXCEPT !.size = 0]]

MlaGenFusedGPU(c, l, b) ==
  <<Streamed(c, l, b, Total(b, LAMBDA s : MlaFusedWork(l, s)), 1)>>

MlaGenScoreGPU(c, l, b) ==
  <<Streamed(c, l, b, Total(b, LAMBDA s : MlaScoreWork(l, s)), 2)>>

MlaGenSoftmaxGPU(c, l, b) == Unreported(Softmax(c, "GPU", l, b))

MlaGenContextGPU(c, l, b) ==
  <<Streamed(c, l, b, Total(b, LAMBDA s : MlaContextWork(l, s)), 2)>>

MultiLatentAttentionGenExecutionGPU(c, l, b) ==
  NoOffload(c, b, WithKvWrite(c, l, b, l.compressed_kv,
    Decode(b, IF l.use_flash_mla THEN MlaGenFusedGPU(c, l, b)
              ELSE MlaGenScoreGPU(c, l, b) \o MlaGenSoftmaxGPU(c, l, b)
                   \o MlaGenContextGPU(c, l, b))))

MlaGenFusedLogic(c, l, b) ==
  <<Plain(c, "LOGIC", l, b, Total(b, LAMBDA s : MlaFusedWork(l, s)))>>

MlaGenScoreLogic(c, l, b) ==
  <<Plain(c, "LOGIC", l, b, Total(b, LAMBDA s : MlaScoreWork(l, s)))>>

MlaGenSoftmaxLogic(c, l, b) == Unreported(Softmax(c, "LOGIC", l, b))

MlaGenContextLogic(c, l, b) ==
  <<Plain(c, "LOGIC", l, b, Total(b, LAMBDA s : MlaContextWork(l, s)))>>

MultiLatentAttentionGenExecutionLogic(c, l, b) ==
  Decode(b, IF l.use_flash_mla THEN MlaGenFusedLogic(c, l, b)
            ELSE MlaGenScoreLogic(c, l, b) \o MlaGenSoftmaxLogic(c, l, b)
                 \o MlaGenContextLogic(c, l, b))

MlaGenFusedPIM(c, l, b) ==
  <<Plain(c, "PIM", l, b, Total(b, LAMBDA s : MlaFusedWork(l, s)))>>

MlaGenScorePIM(c, l, b) ==
  <<Plain(c, "PIM", l, b, Total(b, LAMBDA s : MlaScoreWork(l, s)))>>

MlaGenSoftmaxPIM(c, l, b) == Unreported(Softmax(c, "PIM", l, b))

MlaGenContextPIM(c, l, b) ==
  <<Plain(c, "PIM", l, b, Total(b, LAMBDA s : MlaContextWork(l, s)))>>

MultiLatentAttentionGenExecutionPIM(c, l, b) ==
  Decode(b, IF l.use_flash_mla THEN MlaGenFusedPIM(c, l, b)
            ELSE MlaGenScorePIM(c, l, b) \o MlaGenSoftmaxPIM(c, l, b)
                 \o MlaGenContextPIM(c, l, b))
----------------------------------------------------------------------------
(***************************************************************************)
(* Latent attention absorbed: all heads share one latent vector and one    *)
(* rotary key for each position.                                           *)
(***************************************************************************)

\* The fused kernel counts one query for each sequence.
AbsorbFusedWork(l, s) ==
  LET h == l.num_heads
      r == l.kv_lora_rank
      n == Context(s)
  IN Work(2 * h * (2 * r + l.rope) * n, n * (r + l.rope), h * (2 * r + l.rope),
          h * (2 * r + l.rope) + n * (r + l.rope))

\* Scores against k components of the cache: latent, or rotary.
AbsorbScoreWork(l, s, k) ==
  LET h == l.num_heads
      n == Context(s)
      written == IF l.use_flash_attention THEN 0 ELSE h * n
  IN Work(2 * s.tok * k * n * h, k * n, s.tok * k * h + Scores(l, s),
          k * h + k * n + written)

AbsorbContextWork(l, s) ==
  LET h == l.num_heads
      r == l.kv_lora_rank
      n == Context(s)
      read == IF l.use_flash_attention THEN 0 ELSE h * n
  IN Work(2 * s.tok * n * r * h, n * r, Scores(l, s) + s.tok * r * h,
          read + n * r + r * h)

AbsorbGenFusedGPU(c, l, b) ==
  <<Streamed(c, l, b, Total(b, LAMBDA s : AbsorbFusedWork(l, s)), 1)>>

\* The scores take the GPU's memory rate even when the cache is in flash.
AbsorbGenScoreGPU(c, l, b) ==
  <<Plain(c, "GPU", l, b,
          Total(b, LAMBDA s : AbsorbScoreWork(l, s, l.kv_lora_rank)))>>

AbsorbGenRopeGPU(c, l, b) ==
  <<Plain(c, "GPU", l, b, Total(b, LAMBDA s : AbsorbScoreWork(l, s, l.rope)))>>

AbsorbGenSoftmaxGPU(c, l, b) == Softmax(c, "GPU", l, b)

AbsorbGenContextGPU(c, l, b) ==
  <<Streamed(c, l, b, Total(b, LAMBDA s : AbsorbContextWork(l, s)), 1)>>

\* Only the fused kernel knows of an offloaded cache.
AbsorbMLAGenExecutionGPU(c, l, b) ==
  LET charged(phases) == WithKvWrite(c, l, b, TRUE, Decode(b, phases))
  IN IF l.use_flash_mla THEN charged(AbsorbGenFusedGPU(c, l, b))
     ELSE NoOffload(c, b, charged(
            AbsorbGenScoreGPU(c, l, b) \o AbsorbGenRopeGPU(c, l, b)
            \o AbsorbGenSoftmaxGPU(c, l, b) \o AbsorbGenContextGPU(c, l, b)))

AbsorbGenFusedLogic(c, l, b) ==
  <<Plain(c, "LOGIC", l, b, Total(b, LAMBDA s : AbsorbFusedWork(l, s)))>>

AbsorbGenScoreLogic(c, l, b) ==
  <<Plain(c, "LOGIC", l, b,
          Total(b, LAMBDA s : AbsorbScoreWork(l, s, l.kv_lora_rank)))>>

AbsorbGenRopeLogic(c, l, b) ==
  <<Plain(c, "LOGIC", l, b,
          Total(b, LAMBDA s : AbsorbScoreWork(l, s, l.rope)))>>

AbsorbGenSoftmaxLogic(c, l, b) == Softmax(c, "LOGIC", l, b)

AbsorbGenContextLogic(c, l, b) ==
  <<Plain(c, "LOGIC", l, b, Total(b, LAMBDA s : AbsorbContextWork(l, s)))>>

AbsorbMLAGenExecutionLogic(c, l, b) ==
  Decode(b, IF l.use_flash_mla THEN AbsorbGenFusedLogic(c, l, b)
            ELSE AbsorbGenScoreLogic(c, l, b) \o AbsorbGenRopeLogic(c, l, b)
                 \o AbsorbGenSoftmaxLogic(c, l, b)
                 \o AbsorbGenContextLogic(c, l, b))

AbsorbGenFusedPIM(c, l, b) ==
  <<Plain(c, "PIM", l, b, Total(b, LAMBDA s : AbsorbFusedWork(l, s)))>>

AbsorbGenScorePIM(c, l, b) ==
  <<Plain(c, "PIM", l, b,
          Total(b, LAMBDA s : AbsorbScoreWork(l, s, l.kv_lora_rank)))>>

AbsorbGenRopePIM(c, l, b) ==
  <<Plain(c, "PIM", l, b, Total(b, LAMBDA s : AbsorbScoreWork(l, s, l.rope)))>>

AbsorbGenSoftmaxPIM(c, l, b) == Softmax(c, "PIM", l, b)

AbsorbGenContextPIM(c, l, b) ==
  <<Plain(c, "PIM", l, b, Total(b, LAMBDA s : AbsorbContextWork(l, s)))>>

AbsorbMLAGenExecutionPIM(c, l, b) ==
  Decode(b, IF l.use_flash_mla THEN AbsorbGenFusedPIM(c, l, b)
            ELSE AbsorbGenScorePIM(c, l, b) \o AbsorbGenRopePIM(c, l, b)
                 \o AbsorbGenSoftmaxPIM(c, l, b)
                 \o AbsorbGenContextPIM(c, l, b))
=============================================================================
