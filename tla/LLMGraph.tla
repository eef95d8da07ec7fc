------------------------------ MODULE LLMGraph ------------------------------
(***************************************************************************)
(* The list of modules each device runs in an iteration, as the forward    *)
(* methods of src/model/llm.cpp, src/module/decoder.cpp and                *)
(* src/module/expert.cpp record it: LLM::forward runs the layers of the    *)
(* device's pipeline stage, a layer is an attention and a dense or a       *)
(* mixture-of-experts feed-forward network.                                *)
(*                                                                         *)
(* An entry is a leaf module, one that is executed in every iteration, or  *)
(* several of them in a row that no other device waits for.  It takes the  *)
(* tensor input and makes output ready; a module that is synchronised does *)
(* so when the input of the same name is ready on all devices of group.    *)
(***************************************************************************)
EXTENDS Naturals, Sequences, FiniteSets

CONSTANTS
  NumDevice           \* num_total_device

Devices == 0 .. NumDevice - 1

\* The parallelism of a model: ne_tp_dg, pp_dg and e_tp_dg, and which layers
\* have experts (isMoELayer).
Layout == [tp : 1 .. NumDevice, pp : 1 .. NumDevice, e_tp : 1 .. NumDevice,
           moe : Seq(BOOLEAN)]

ASSUME LLMGraphAssumption == NumDevice \in Nat \ {0}
----------------------------------------------------------------------------
\* rank = dp_rank * (tp * pp) + stage * tp + tp_rank
Stage(layout, d) == (d \div layout.tp) % layout.pp
DpRank(layout, d) == d \div (layout.tp * layout.pp)

\* non_moe_device_list, stage_device_list and expert_device_list of device d.
TpGroup(layout, d) == {e \in Devices : e \div layout.tp = d \div layout.tp}
StageGroup(layout, d) ==
  {e \in Devices : Stage(layout, e) = Stage(layout, d)}
LocalRank(layout, d) ==
  Cardinality({e \in StageGroup(layout, d) : e < d})
ExpertGroup(layout, d) ==
  {e \in StageGroup(layout, d) :
     LocalRank(layout, e) \div layout.e_tp
       = LocalRank(layout, d) \div layout.e_tp}
----------------------------------------------------------------------------
SyncedModules == {"all_reduce", "moe_scatter", "sync__"}

Entry(op, layer, input, output, group) ==
  [op |-> op, layer |-> layer, input |-> <<layer, input>>,
   output |-> <<layer, output>>, group |-> group]

Local(op, layer, input, output) == Entry(op, layer, input, output, {})

\* Sync::forward.  The tensor "sync" of its own that it makes ready is what
\* the devices wait for.
Sync(name, layer, input, group) ==
  << Local("sync__set", layer, input, name),
     Entry("sync__", layer, name, name, group) >>

\* Attention::forward up to the post-attention LayerNorm.
AttentionGraph(layout, d, l) ==
  << Local("attention", l, "hidden", "o_proj"),
     Entry("all_reduce", l, "o_proj", "attention_out", TpGroup(layout, d)),
     Local("layer_norm", l, "attention_out", "post_attn_ln_out") >>

\* Decoder::forward
DecoderGraph(layout, d, l) ==
  AttentionGraph(layout, d, l) \o
  << Local("feedforward", l, "post_attn_ln_out", "ffn_out"),
     Entry("all_reduce", l, "ffn_out", "result", TpGroup(layout, d)) >>

\* ExpertFFN::forward.  Most of its modules take the layer's input, so the two
\* all-reduces wait for a tensor that has long been ready; what keeps the
\* devices together is the Sync before each of them.
ExpertGraph(layout, d, l) ==
  LET in == "post_attn_ln_out"
      stage == StageGroup(layout, d)
  IN Sync("sync_0", l, in, stage) \o
     << Local("gate_update", l, in, "gate_update_output"),
        Entry("moe_scatter", l, "gate_update_output", "moe_scatter_output",
              stage) >> \o
     Sync("sync_for_moe_scatter", l, in, stage) \o
     << Local("moe_route", l, "moe_scatter_output", "expert_input"),
        Local("expert_FFN", l, "expert_input", "expert_out") >> \o
     Sync("sync_2", l, in, stage) \o
     << Entry("all_reduce", l, in, "e_tp_out", ExpertGroup(layout, d)) >> \o
     Sync("sync_3", l, in, stage) \o
     << Local("moe_gather", l, "expert_out", "moe_gather_output") >> \o
     Sync("sync_for_moe_gather", l, in, stage) \o
     << Entry("all_reduce", l, in, "gathered", TpGroup(layout, d)) >> \o
     Sync("sync_5", l, in, stage) \o
     << Local("shared_expert_FFN", l, in, "result") >> \o
     Sync("sync_6", l, in, stage)

\* A layer ends with a residual, whose output is the next layer's input.
LayerGraph(layout, d, l) ==
  (IF layout.moe[l]
   THEN AttentionGraph(layout, d, l) \o ExpertGraph(layout, d, l)
   ELSE DecoderGraph(layout, d, l)) \o
  << [Local("residual", l, "result", "hidden")
        EXCEPT !.output = <<l + 1, "hidden">>] >>

\* LLM::forward: the layers of the device's stage, after its start and up to its
\* end, where the last stage takes what the division leaves over; then the hop
\* to the next stage, or the LM head.
LastStage(layout, d) == Stage(layout, d) = layout.pp - 1
StageStart(layout, d) ==
  Stage(layout, d) * (Len(layout.moe) \div layout.pp)
StageEnd(layout, d) ==
  IF LastStage(layout, d) THEN Len(layout.moe)
  ELSE StageStart(layout, d) + (Len(layout.moe) \div layout.pp)

StageLayers(layout, d) ==
  LET Layers[l \in StageStart(layout, d) .. StageEnd(layout, d)] ==
        IF l = StageStart(layout, d) THEN <<>>
        ELSE Layers[l - 1] \o LayerGraph(layout, d, l)
  IN Layers

Graph(layout, d) ==
  StageLayers(layout, d)[StageEnd(layout, d)] \o
  << Local(IF LastStage(layout, d) THEN "lm_head" ELSE "pipeline_stage",
           StageEnd(layout, d) + 1, "hidden", "out") >>
=============================================================================
