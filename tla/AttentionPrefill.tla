--------------------------- MODULE AttentionPrefill ---------------------------
(***************************************************************************)
(* What an attention layer costs when it processes prompts                 *)
(* (src/hardware/attention_sum_impl.cpp).  Phases, batches, layers and     *)
(* machines are those of AttentionCost.  The kernels take the sequences of *)
(* a batch one after the other; only when the KV cache is in flash does    *)
(* the GPU read it for all of them as one stream.  No prefill kernel says  *)
(* what part of its time grows with the batch.                             *)
(*                                                                         *)
(* One more field of a layer is read here: columns, those of its input.    *)
(***************************************************************************)
EXTENDS AttentionCost

\* Sequence by sequence, each phase with its own traffic.
Each(c, p, l, b, W(_)) == [i \in DOMAIN b |-> Plain(c, p, l, b, W(b[i]))]

\* Work of which the DRAM simulator is given the elements `ops'.
Issued(w, ops) == [w EXCEPT !.ops = ops]

\* The phase has no traffic of its own; what it reports stays.
ComputeOnly(phases) ==
  [i \in DOMAIN phases |-> [phases[i] EXCEPT !.memory = 0]]

\* With flash the reads of a phase are one stream, deferred until all sequences
\* are known; it is one of `fills' calls that share a page fill.
Gathered(c, l, b, W(_), fills) ==
  IF c.use_hbf /\ ~c.ramulator
  THEN <<Streamed(c, l, b, Total(b, W), fills)>>
  ELSE Each(c, "GPU", l, b, W)

\* A prefill kernel; without tokens it returns early.
Prefill(b, phases) == IF Tokens(b) = 0 THEN EmptyStatus ELSE Run(phases)

\* The kernels that keep no account of their computation.
Unaccounted(status) == [status EXCEPT !.compute = 0]

\* A product of ints, which wraps around.
Int32(c, x) == ((x + c.int_limit) % (2 * c.int_limit)) - c.int_limit
----------------------------------------------------------------------------
(***************************************************************************)
(* Grouped-query attention.                                                *)
(***************************************************************************)

\* Slip: the queries of one group.
GqaSumScoreWork_PerGroup(l, s) ==
  LET w == GqaWork(l, s)
  IN [w EXCEPT !.flops = 2 * s.tok * l.head_dim * Context(s) * l.num_kv_heads,
               !.ops = w.act]

\* The simulator's read of the keys is issued and its time dropped.
GqaSumScoreWork(l, s) ==
  LET w == GqaWork(l, s)
  IN [w EXCEPT !.flops = 2 * s.tok * l.head_dim * Context(s) * l.num_heads,
               !.ops = w.act]

GqaSumContextWork(l, s) ==
  LET w == GqaSumScoreWork(l, s) IN Issued(w, w.act + w.kv)

GqaSumScoreGPU(c, l, b) ==
  Gathered(c, l, b, LAMBDA s : GqaSumScoreWork(l, s), 2)

\* The time the simulator gives for the softmax is dropped.
GqaSumSoftmaxGPU(c, l, b) ==
  Softmax([c EXCEPT !.ramulator = FALSE], "GPU", l, b)

GqaSumContextGPU(c, l, b) ==
  Gathered(c, l, b, LAMBDA s : GqaSumContextWork(l, s), 2)

AttentionSumExecutionGPU(c, l, batch) ==
  LET b == Reached(l, batch)
  IN NoOffload(c, b, Unaccounted(Prefill(b,
       GqaSumScoreGPU(c, l, b) \o GqaSumSoftmaxGPU(c, l, b)
       \o GqaSumContextGPU(c, l, b))))

\* Near the memory the scores stay on chip, and the context only reads the
\* cache; its counts are products of ints.
GqaNearScoreWork(l, s) ==
  LET q == s.tok * l.head_dim * l.num_heads
      kv == l.head_dim * Context(s) * l.num_kv_heads
  IN Work(2 * q * Context(s), kv, q, q + kv)

GqaNearContextWork(c, l, s) ==
  LET kv == Int32(c, Context(s) * l.head_dim * l.num_kv_heads)
  IN Work(2 * Int32(c, s.tok * Context(s) * l.head_dim) * l.num_heads, kv, 0,
          kv)

\* The softmax takes its computation alone and reports no traffic.
GqaNearSoftmax(c, p, l, b) ==
  ComputeOnly(Softmax(c, p, [l EXCEPT !.use_flash_attention = TRUE], b))

AttentionSumExecutionLogic(c, l, b) ==
  Unaccounted(Prefill(b,
    Each(c, "LOGIC", l, b, LAMBDA s : GqaNearScoreWork(l, s))
    \o GqaNearSoftmax(c, "LOGIC", l, b)
    \o Each(c, "LOGIC", l, b, LAMBDA s : GqaNearContextWork(c, l, s))))

\* The PIM units' requests keep the columns of the layer's input.
AttentionSumExecutionPIM(c, l, b) ==
  Unaccounted(Prefill(b,
    Each(c, "PIM", l, b,
         LAMBDA s : Issued(GqaNearScoreWork(l, s), s.tok * l.columns))
    \o GqaNearSoftmax(c, "PIM", l, b)
    \o Each(c, "PIM", l, b,
            LAMBDA s : Issued(GqaNearContextWork(c, l, s),
                              Context(s) * l.columns))))
----------------------------------------------------------------------------
(***************************************************************************)
(* Latent attention on expanded heads.  The logic die and the PIM units    *)
(* take the rates of the GPU, and twice its peak on operands of one byte.  *)
(***************************************************************************)
LikeGPU(c, p) ==
  [c EXCEPT !.flop_ticks[p] = c.flop_ticks["GPU"],
            !.byte_ticks[p] = Bandwidth(c, "GPU")]

\* Rows of a tile that fit in 256 KiB of shared memory with three others.
TileRows(l) == 65536 \div ((l.head_dim + l.rope) * l.precision)

\* The fused kernel in tiles of r queries by t keys; both tilings count the
\* queries.  It reads and writes outputs and two statistics for each tile.
MlaTiledWork(l, s, r, t) ==
  LET k == l.head_dim + l.rope
      rows == (s.tok + r - 1) \div r
      columns == (s.tok + t - 1) \div t
      tiles == rows * columns
      kv == t * (k + l.head_dim) * columns * l.num_heads
      act == tiles * r * (k + 2 * l.head_dim + 4) * l.num_heads
  IN Work(2 * tiles * r * t * (k + l.head_dim) * l.num_heads, kv, act,
          kv + act)

MlaSumScoreWork(l, s) ==
  LET w == MlaScoreWork(l, s) IN Issued(w, w.kv + w.act)

\* The simulator is given the values of num_kv_heads heads.
MlaSumContextWork(l, s) ==
  LET w == MlaContextWork(l, s)
  IN Issued(w, w.act + Context(s) * l.head_dim * l.num_kv_heads)

\* The tiles go through the processor's memory even with the cache in flash.
MlaSumFusedGPU(c, l, b) ==
  Each(c, "GPU", l, b,
       LAMBDA s : MlaTiledWork(l, s, Least(TileRows(l), l.head_dim + l.rope),
                               TileRows(l)))

MlaSumScoreGPU(c, l, b) ==
  Gathered(c, l, b, LAMBDA s : MlaSumScoreWork(l, s), 1)

MlaSumSoftmaxGPU(c, l, b) == Softmax(c, "GPU", l, b)

MlaSumContextGPU(c, l, b) ==
  Gathered(c, l, b, LAMBDA s : MlaSumContextWork(l, s), 1)

MultiLatentAttentionSumExecutionGPU(c, l, b) ==
  NoOffload(c, b, Unaccounted(Prefill(b,
    IF l.use_flash_attention THEN MlaSumFusedGPU(c, l, b)
    ELSE MlaSumScoreGPU(c, l, b) \o MlaSumSoftmaxGPU(c, l, b)
         \o MlaSumContextGPU(c, l, b))))

MlaSumFusedLogic(c, l, b) ==
  Each(c, "LOGIC", l, b,
       LAMBDA s : MlaTiledWork(l, s, TileRows(l), l.head_dim + l.rope))

MlaSumScoreLogic(c, l, b) ==
  Each(c, "LOGIC", l, b, LAMBDA s : MlaSumScoreWork(l, s))

MlaSumSoftmaxLogic(c, l, b) == Softmax(c, "LOGIC", l, b)

MlaSumContextLogic(c, l, b) ==
  Each(c, "LOGIC", l, b, LAMBDA s : MlaSumContextWork(l, s))

MultiLatentAttentionSumExecutionLogic(c, l, b) ==
  LET d == LikeGPU(c, "LOGIC")
  IN Unaccounted(Prefill(b,
       IF l.use_flash_attention THEN MlaSumFusedLogic(d, l, b)
       ELSE MlaSumScoreLogic(d, l, b) \o MlaSumSoftmaxLogic(d, l, b)
            \o MlaSumContextLogic(d, l, b)))

MlaSumFusedPIM(c, l, b) ==
  Each(c, "PIM", l, b,
       LAMBDA s : MlaTiledWork(l, s, TileRows(l), l.head_dim + l.rope))

MlaSumScorePIM(c, l, b) ==
  Each(c, "PIM", l, b, LAMBDA s : MlaSumScoreWork(l, s))

MlaSumSoftmaxPIM(c, l, b) == Softmax(c, "PIM", l, b)

MlaSumContextPIM(c, l, b) ==
  Each(c, "PIM", l, b, LAMBDA s : MlaSumContextWork(l, s))

MultiLatentAttentionSumExecutionPIM(c, l, b) ==
  LET d == LikeGPU(c, "PIM")
  IN Unaccounted(Prefill(b,
       IF l.use_flash_attention THEN MlaSumFusedPIM(d, l, b)
       ELSE MlaSumScorePIM(d, l, b) \o MlaSumSoftmaxPIM(d, l, b)
            \o MlaSumContextPIM(d, l, b)))
----------------------------------------------------------------------------
(***************************************************************************)
(* Latent attention absorbed.  All computation is accounted for, that of   *)
(* the softmax too.                                                        *)
(***************************************************************************)

\* Scores against k components of the cache, and the context.
AbsorbSumScoreWork(l, s, k) ==
  LET w == AbsorbScoreWork(l, s, k) IN Issued(w, w.kv + w.act)

AbsorbSumContextWork(l, s) ==
  LET w == AbsorbContextWork(l, s) IN Issued(w, w.kv + w.act)

AbsorbSumNopeGPU(c, l, b) ==
  Each(c, "GPU", l, b, LAMBDA s : AbsorbSumScoreWork(l, s, l.kv_lora_rank))

AbsorbSumRopeGPU(c, l, b) ==
  Each(c, "GPU", l, b, LAMBDA s : AbsorbSumScoreWork(l, s, l.rope))

AbsorbSumSoftmaxGPU(c, l, b) ==
  Softmax([c EXCEPT !.softmax_hide = TRUE], "GPU", l, b)

AbsorbSumContextGPU(c, l, b) ==
  Each(c, "GPU", l, b, LAMBDA s : AbsorbSumContextWork(l, s))

AbsorbMLASumExecutionGPU(c, l, b) ==
  NoOffload(c, b, Prefill(b,
    AbsorbSumNopeGPU(c, l, b) \o AbsorbSumRopeGPU(c, l, b)
    \o AbsorbSumSoftmaxGPU(c, l, b) \o AbsorbSumContextGPU(c, l, b)))

\* The logic die does not write the first scores.
AbsorbSumNopeLogic(c, l, b) ==
  Each(c, "LOGIC", l, b,
       LAMBDA s : LET w == AbsorbScoreWork(l, s, l.kv_lora_rank)
                  IN Issued(w, s.tok * l.kv_lora_rank * l.num_heads + w.kv))

\* The time of reading the rotary keys is dropped, that of the scores doubled.
AbsorbSumRopeLogic(c, l, b) ==
  Each(c, "LOGIC", l, b,
       LAMBDA s : Issued(AbsorbScoreWork(l, s, l.rope),
                         s.tok * l.rope * l.num_heads + 2 * Scores(l, s)))

\* The softmax takes its computation alone, and reports its traffic.
AbsorbSumSoftmaxLogic(c, l, b) ==
  ComputeOnly(Softmax([c EXCEPT !.softmax_hide = TRUE], "LOGIC", l, b))

\* Of three requests the time of the last is kept.
AbsorbSumContextLogic(c, l, b) ==
  Each(c, "LOGIC", l, b,
       LAMBDA s : Issued(AbsorbContextWork(l, s),
                         s.tok * l.kv_lora_rank * l.num_heads))

AbsorbMLASumExecutionLogic(c, l, b) ==
  Prefill(b, AbsorbSumNopeLogic(c, l, b) \o AbsorbSumRopeLogic(c, l, b)
             \o AbsorbSumSoftmaxLogic(c, l, b)
             \o AbsorbSumContextLogic(c, l, b))

\* The PIM units' requests are columns: of the queries, or of the cache.
AbsorbSumScorePIM(c, l, b, k) ==
  Each(c, "PIM", l, b, LAMBDA s : Issued(AbsorbScoreWork(l, s, k), s.tok))

\* The softmax takes its computation alone and reports no traffic.
AbsorbSumSoftmaxPIM(c, l, b) ==
  GqaNearSoftmax([c EXCEPT !.softmax_hide = TRUE], "PIM", l, b)

AbsorbSumContextPIM(c, l, b) ==
  Each(c, "PIM", l, b,
       LAMBDA s : Issued(AbsorbContextWork(l, s), Context(s)))

AbsorbMLASumExecutionPIM(c, l, b) ==
  Prefill(b, AbsorbSumScorePIM(c, l, b, l.kv_lora_rank)
             \o AbsorbSumScorePIM(c, l, b, l.rope)
             \o AbsorbSumSoftmaxPIM(c, l, b) \o AbsorbSumContextPIM(c, l, b))
=============================================================================
