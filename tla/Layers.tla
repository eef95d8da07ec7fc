-------------------------------- MODULE Layers --------------------------------
(***************************************************************************)
(* The attention layers as src/module/attention.cpp describes them to the  *)
(* kernels, and the table of kernels of src/hardware/executor.cpp.         *)
(*                                                                         *)
(* A machine m is a record with the cost parameters c (see CostModel), the *)
(* kind of attention ("gqa", "mla" or "absorb"), the precision, and the    *)
(* sizes and switches of the model's attention.                            *)
(***************************************************************************)
EXTENDS AttentionPrefill

\* Every processor computes, no dimension is empty, each key-value head serves
\* a query head, and a tile of the fused prefill kernel has a row.
IsMachine(m) ==
  /\ m.c \in SystemConfig
  /\ \A p \in Processors : m.c.flop_ticks[p] > 0
  /\ m.c.num_layers >= m.c.pp
  /\ m.attention \in {"gqa", "mla", "absorb"}
  /\ {m.head_dim, m.num_heads, m.num_kv_heads, m.precision, m.hidden_dim,
      m.intermediate_dim} \subseteq Nat \ {0}
  /\ {m.rope, m.kv_lora_rank, m.max_seq_len} \subseteq Nat
  /\ m.num_heads >= m.num_kv_heads
  /\ m.attention = "absorb" => m.kv_lora_rank > 0
  /\ m.attention = "mla" => (m.head_dim + m.rope) * m.precision <= 65536
  /\ {m.use_flash_attention, m.use_flash_mla, m.compressed_kv}
       \subseteq BOOLEAN

\* LayerInfo as it is declared.
LayerInfo(m) ==
  [group |-> 8, num_heads |-> 64, num_kv_heads |-> 8, head_dim |-> 1,
   rope |-> 0, kv_lora_rank |-> 0, use_flash_mla |-> TRUE,
   use_flash_attention |-> TRUE, use_chunked_attention |-> FALSE, window |-> 0,
   precision |-> m.precision, compressed_kv |-> m.compressed_kv, columns |-> 0]

\* The fields every forward sets.
Heads(m) ==
  [LayerInfo(m) EXCEPT !.num_heads = m.num_heads, !.head_dim = m.head_dim,
                       !.rope = m.rope,
                       !.use_flash_attention = m.use_flash_attention]

SelfAttentionGen(m) ==
  [Heads(m) EXCEPT !.group = m.num_heads \div m.num_kv_heads,
                   !.num_kv_heads = m.num_kv_heads,
                   !.use_chunked_attention = TRUE, !.window = m.max_seq_len]

SelfAttentionSum(m) ==
  [SelfAttentionGen(m) EXCEPT
     !.columns = (m.num_heads + 2 * m.num_kv_heads) * m.head_dim]

\* The decode layers of latent attention leave num_kv_heads as declared, and
\* without absorption kv_lora_rank too.
MultiLatentAttentionGen(m) ==
  [Heads(m) EXCEPT !.use_flash_mla = m.use_flash_mla,
                   !.use_chunked_attention = TRUE]

\* The prefill layers of latent attention do not chunk.
MultiLatentAttentionSum(m) ==
  [Heads(m) EXCEPT !.group = m.num_heads \div m.num_kv_heads,
                   !.num_kv_heads = m.num_kv_heads]

AbsorbMLAGen(m) ==
  [MultiLatentAttentionGen(m) EXCEPT !.kv_lora_rank = m.kv_lora_rank]

AbsorbMLASum(m) ==
  [MultiLatentAttentionSum(m) EXCEPT !.kv_lora_rank = m.kv_lora_rank]

\* The kernels of each kind of attention, by processor.
AttentionGen(m, p, b) ==
  LET c == m.c
  IN CASE m.attention = "gqa" ->
            (LET l == SelfAttentionGen(m)
             IN CASE p = "GPU" -> AttentionGenExecutionGPU(c, l, b)
                  [] p = "LOGIC" -> AttentionGenExecutionLogic(c, l, b)
                  [] p = "PIM" -> AttentionGenExecutionPIM(c, l, b))
       [] m.attention = "mla" ->
            (LET l == MultiLatentAttentionGen(m)
             IN CASE p = "GPU" -> MultiLatentAttentionGenExecutionGPU(c, l, b)
                  [] p = "LOGIC" ->
                       MultiLatentAttentionGenExecutionLogic(c, l, b)
                  [] p = "PIM" -> MultiLatentAttentionGenExecutionPIM(c, l, b))
       [] m.attention = "absorb" ->
            (LET l == AbsorbMLAGen(m)
             IN CASE p = "GPU" -> AbsorbMLAGenExecutionGPU(c, l, b)
                  [] p = "LOGIC" -> AbsorbMLAGenExecutionLogic(c, l, b)
                  [] p = "PIM" -> AbsorbMLAGenExecutionPIM(c, l, b))

AttentionSum(m, p, b) ==
  LET c == m.c
  IN CASE m.attention = "gqa" ->
            (LET l == SelfAttentionSum(m)
             IN CASE p = "GPU" -> AttentionSumExecutionGPU(c, l, b)
                  [] p = "LOGIC" -> AttentionSumExecutionLogic(c, l, b)
                  [] p = "PIM" -> AttentionSumExecutionPIM(c, l, b))
       [] m.attention = "mla" ->
            (LET l == MultiLatentAttentionSum(m)
             IN CASE p = "GPU" -> MultiLatentAttentionSumExecutionGPU(c, l, b)
                  [] p = "LOGIC" ->
                       MultiLatentAttentionSumExecutionLogic(c, l, b)
                  [] p = "PIM" -> MultiLatentAttentionSumExecutionPIM(c, l, b))
       [] m.attention = "absorb" ->
            (LET l == AbsorbMLASum(m)
             IN CASE p = "GPU" -> AbsorbMLASumExecutionGPU(c, l, b)
                  [] p = "LOGIC" -> AbsorbMLASumExecutionLogic(c, l, b)
                  [] p = "PIM" -> AbsorbMLASumExecutionPIM(c, l, b))
=============================================================================
