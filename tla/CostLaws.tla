------------------------------- MODULE CostLaws -------------------------------
(***************************************************************************)
(* Laws the cost models of a device keep, over the batches of one decode   *)
(* layer as they grow: a request joins, and a step adds a token to every   *)
(* sequence.  The costs are functions; the steps only lead through their   *)
(* arguments.                                                              *)
(***************************************************************************)
EXTENDS Layers

CONSTANTS
  Machines,           \* the machines to ask
  Starts,             \* what a request may hold when it joins
  MaxBatch, MaxLen    \* bounds on the batch and on a sequence

\* The fields of a machine, of which the laws change the cost parameters.
Fields == {"c", "attention", "head_dim", "num_heads", "num_kv_heads", "rope",
           "kv_lora_rank", "max_seq_len", "use_flash_attention",
           "use_flash_mla", "compressed_kv", "precision", "hidden_dim",
           "intermediate_dim"}

ASSUME CostLawsAssumption ==
  /\ \A m \in Machines : IsMachine(m) /\ Fields \subseteq DOMAIN m
  /\ Starts \subseteq Nat
  /\ MaxBatch \in Nat \ {0}
  /\ MaxLen \in Nat

VARIABLES machine, batch

vars == <<machine, batch>>

Init == machine \in Machines /\ batch = <<>>

Join ==
  /\ Len(batch) < MaxBatch
  /\ \E n \in Starts : batch' = Append(batch, [cur |-> n, tok |-> 1])
  /\ UNCHANGED machine

Step ==
  /\ batch # <<>>
  /\ \A i \in DOMAIN batch : batch[i].cur < MaxLen
  /\ batch' = [i \in DOMAIN batch |-> [batch[i] EXCEPT !.cur = @ + 1]]
  /\ UNCHANGED machine

Next == Join \/ Step

Spec == Init /\ [][Next]_vars
----------------------------------------------------------------------------
\* The machine with other cost parameters.
With(c) == [machine EXCEPT !.c = c]

\* The prefill that gives the sequences the contexts they have.
Prompts(b) == [i \in DOMAIN b |-> [cur |-> 0, tok |-> Context(b[i])]]

Decoding(m) == AttentionGen(m, "GPU", batch).total

\* A page read is hidden by the transfer of the chunk before it.
HidesPages(c) ==
  LET chunk == IF c.chunk_size > 0 THEN Least(c.chunk_size, c.sram) ELSE c.sram
  IN chunk * c.flash_read >= c.page_read

\* A layer exposes the latency of at most one page of flash in a step, however
\* many calls read its KV cache and however long the stream is: scoring and
\* context share the page fill.  So for every kind of attention that decodes,
\* and for grouped-query attention that processes prompts.
OneFillPerLayer ==
  LET c == machine.c
      hidden == With([c EXCEPT !.page_read = 0])
  IN c.use_hbf /\ HidesPages(c) =>
       /\ Decoding(machine) <= Decoding(hidden) + c.page_read
       /\ machine.attention = "gqa" =>
            AttentionSum(machine, "GPU", Prompts(batch)).total
              <= AttentionSum(hidden, "GPU", Prompts(batch)).total
                 + c.page_read

\* The kernels of one kind of attention, written once for each processor and
\* once for prefill, agree on the work: a batch takes the same flops on each
\* processor, and as many when its new tokens are processed as prompts that
\* continue a context.  (The logic die's grouped-query kernel leaves the
\* softmax out; only the GPU's looks at the window; the fused kernels count
\* differently.)
SameWork ==
  LET m == machine
      work(p) == AttentionGen(m, p, batch).flops
      continued(p) == AttentionSum(m, p, batch).flops
      whole == \A i \in DOMAIN batch : Context(batch[i]) <= m.max_seq_len
  IN IF m.attention = "gqa"
     THEN whole => work("PIM") = work("GPU")
                   /\ \A p \in Processors : continued(p) = work("GPU")
     ELSE /\ \A p \in Processors : work(p) = work("GPU")
          /\ ~m.use_flash_mla /\ ~m.use_flash_attention =>
               \A p \in Processors : continued(p) = work("GPU")

\* What the iteration loop reconstructs for a pipeline of pp stages from an
\* operation on the whole batch, total - dep * (pp - 1) / pp, is what the
\* operation costs on one of pp microbatches when both wait for memory and the
\* same part of their costs grows with the batch, and never more.
ReconstructsTheMicrobatch ==
  LET rows == Len(batch)
      shape(r) == [m |-> r, k |-> machine.hidden_dim,
                   n |-> machine.intermediate_dim, heads |-> 1,
                   duplicated |-> FALSE]
  IN \A p \in Processors, pp \in 2..MaxBatch :
       rows > 0 /\ rows % pp = 0 =>
         LET c == [machine.c EXCEPT !.pp = pp]
             cost(r) == LinearCore(c, p, shape(r), machine.precision, FALSE,
                                   FALSE)
             all == cost(rows)
             part == cost(rows \div pp)
             twice == pp * all.total - (pp - 1) * all.dep
         IN /\ twice <= pp * part.total
            /\ part.compute < part.total /\ all.compute < all.total
               /\ (part.dep > 0 <=> all.dep > 0) => twice = pp * part.total

\* Offloading moves the KV cache and loses none of it: over a link as fast as
\* the memory of the GPU it costs what no offloading costs, and overlapping
\* the two reads never costs more than doing one after the other.  The kernels
\* of latent attention but one stop the program instead.
OffloadConserves ==
  LET c == [machine.c EXCEPT !.use_hbf = FALSE, !.cpu_kv_offload = TRUE,
                             !.c2c_overlapped = FALSE]
      resident == With([c EXCEPT !.cpu_kv_offload = FALSE])
      stops == machine.attention = "mla"
               \/ (machine.attention = "absorb" /\ ~machine.use_flash_mla)
  IN ~stops =>
       /\ Decoding(With([c EXCEPT !.c2c = c.byte_ticks["GPU"]]))
            = Decoding(resident)
       /\ Decoding(With([c EXCEPT !.c2c_overlapped = TRUE]))
            <= Decoding(With(c))

\* Only computation hides a KV write: if it took no time, a decode layer would
\* take the time of its reads and then that of its write.  In no case does it
\* take less than the write.
ReadsThenWrites ==
  LET c == machine.c
      idle == [c EXCEPT !.flop_ticks["GPU"] = 0]
      reading == [idle EXCEPT !.flash_write = 0, !.page_program = 0]
      writing == [idle EXCEPT !.flash_read = 0, !.page_read = 0,
                              !.hbm_read = 0, !.sram_read = 0]
      write == Decoding(With(writing))
  IN c.use_hbf =>
       /\ Decoding(With(idle)) = Decoding(With(reading)) + write
       /\ Decoding(machine) >= write

\* A layer with a local window costs the GPU no more, from step to step, once
\* all sequences fill the window.
WindowCaps ==
  [][(machine.attention = "gqa" /\ machine.max_seq_len > 0
      /\ Len(batch') = Len(batch)
      /\ \A i \in DOMAIN batch : Context(batch[i]) >= machine.max_seq_len) =>
        AttentionGen(machine, "GPU", batch') = AttentionGen(machine, "GPU",
                                                            batch)]_vars
=============================================================================
