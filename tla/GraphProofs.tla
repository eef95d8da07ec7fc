----------------------------- MODULE GraphProofs -----------------------------
(***************************************************************************)
(* Proofs about the module ModuleGraph, for every number of devices and    *)
(* every layout of a model on them, that is every degree of tensor,        *)
(* pipeline and expert-tensor parallelism and every choice of the layers   *)
(* with experts, and for all loads and numbers of runs: the barrier, the   *)
(* clocks and the flags of the synchronised modules, that the devices do   *)
(* not wait for one another in a circle, and what the reported time of an  *)
(* iteration is made of.                                                   *)
(*                                                                         *)
(* First, that the graph LLM::forward builds on each device has the shape  *)
(* that keeps its execution from deadlock.  Then the execution: the        *)
(* conjuncts of the inductive invariant are named there, in the order      *)
(* in which they are proved.                                               *)
(***************************************************************************)
EXTENDS ModuleGraph, Counting, SequenceTheorems, TLAPS

----------------------------------------------------------------------------
(***************************************************************************)
(* A layer as a table.  The entries a layer contributes to the graph are   *)
(* the rows of one of two tables, whatever the device: only the layer      *)
(* number and the members of a group differ.  What the proofs need of a    *)
(* layer is then a fact about a constant table.                            *)
(***************************************************************************)
\* The groups a module may span: communicator lists of addDevice.
GroupNames == {"none", "tp", "stage", "expert"}

\* The devices of the named group of device d.
Group(scheme, d, name) ==
  CASE name = "tp" -> TpGroup(scheme, d)
    [] name = "stage" -> StageGroup(scheme, d)
    [] name = "expert" -> ExpertGroup(scheme, d)
    [] OTHER -> {}

\* A row: the operation, the tensors it reads and writes, and its group.
Row(op, in, out, group) == [op |-> op, in |-> in, out |-> out, group |-> group]

\* A decoder layer with a dense feed-forward block.
DenseTable ==
  << Row("attention", "hidden", "o_proj", "none"),
     Row("all_reduce", "o_proj", "attention_out", "tp"),
     Row("layer_norm", "attention_out", "post_attn_ln_out", "none"),
     Row("feedforward", "post_attn_ln_out", "ffn_out", "none"),
     Row("all_reduce", "ffn_out", "result", "tp"),
     Row("residual", "result", "hidden", "none") >>

\* A decoder layer with experts.
ExpertTable ==
  << Row("attention", "hidden", "o_proj", "none"),
     Row("all_reduce", "o_proj", "attention_out", "tp"),
     Row("layer_norm", "attention_out", "post_attn_ln_out", "none"),
     Row("sync__set", "post_attn_ln_out", "sync_0", "none"),
     Row("sync__", "sync_0", "sync_0", "stage"),
     Row("gate_update", "post_attn_ln_out", "gate_update_output", "none"),
     Row("moe_scatter", "gate_update_output", "moe_scatter_output", "stage"),
     Row("sync__set", "post_attn_ln_out", "sync_for_moe_scatter", "none"),
     Row("sync__", "sync_for_moe_scatter", "sync_for_moe_scatter", "stage"),
     Row("moe_route", "moe_scatter_output", "expert_input", "none"),
     Row("expert_FFN", "expert_input", "expert_out", "none"),
     Row("sync__set", "post_attn_ln_out", "sync_2", "none"),
     Row("sync__", "sync_2", "sync_2", "stage"),
     Row("all_reduce", "post_attn_ln_out", "e_tp_out", "expert"),
     Row("sync__set", "post_attn_ln_out", "sync_3", "none"),
     Row("sync__", "sync_3", "sync_3", "stage"),
     Row("moe_gather", "expert_out", "moe_gather_output", "none"),
     Row("sync__set", "post_attn_ln_out", "sync_for_moe_gather", "none"),
     Row("sync__", "sync_for_moe_gather", "sync_for_moe_gather", "stage"),
     Row("all_reduce", "post_attn_ln_out", "gathered", "tp"),
     Row("sync__set", "post_attn_ln_out", "sync_5", "none"),
     Row("sync__", "sync_5", "sync_5", "stage"),
     Row("shared_expert_FFN", "post_attn_ln_out", "result", "none"),
     Row("sync__set", "post_attn_ln_out", "sync_6", "none"),
     Row("sync__", "sync_6", "sync_6", "stage"),
     Row("residual", "result", "hidden", "none") >>

\* The rows that wait for the other devices of their group.
SyncedRow(row) == row.op \in SyncedModules

\* The rows whose cost differs between the devices of a tensor group.
ExpertOps == {"expert_FFN", "moe_scatter", "moe_gather"}

\* What a table must have for the devices that run it not to wait in a circle.
\* Every tensor is written before it is read; only the last row writes hidden;
\* a synced row reads a tensor that the row before it wrote, or follows a
\* sync__ at once; two that read the same tensor have a sync__ between them;
\* and what lets the clocks of a tensor group drift is followed by a sync__.
GoodTable(t, n) ==
  /\ Len(t) = n
  /\ \A k \in 1 .. n : t[k].group \in GroupNames
  /\ \A k \in 1 .. n : t[k].out = "hidden" <=> k = n
  /\ \A k \in 1 .. n : t[k].op # "pipeline_stage"
  /\ \A k \in 1 .. n : t[k].in = "hidden" \/ \E j \in 1 .. k - 1 :
       t[j].out = t[k].in
  /\ \A k \in 1 .. n : SyncedRow(t[k]) =>
       /\ t[k].in # "hidden"
       /\ t[k].group # "none"
       /\ \/ \A j \in 1 .. n : t[j].out = t[k].in => j >= k - 1
          \/ k > 1 /\ t[k].op # "sync__" /\ t[k-1].op = "sync__"
  /\ \A k \in 1 .. n : t[k].op = "sync__" => t[k].group = "stage"
  /\ \A k \in 1 .. n : \A i \in 1 .. k-1 :
       SyncedRow(t[k]) /\ SyncedRow(t[i]) /\ t[i].in = t[k].in
         => \E b \in i+1..k-1 : t[b].op = "sync__"
  /\ \A k \in 1 .. n : t[k].op \in ExpertOps \/ t[k].group = "expert" =>
        \E b \in k+1 .. n : t[b].op = "sync__"

\* The dense layer is a good table.
LEMMA DenseGood == GoodTable(DenseTable, 6)
<1>1. Len(DenseTable) = 6
  BY DEF DenseTable
<1>2. QED
  BY <1>1
     DEF GoodTable, DenseTable, Row, SyncedRow, SyncedModules, GroupNames,
         ExpertOps

\* The expert layer is a good table.  Its rows 14 and 20, the all-reduces after
\* the experts, read a tensor written long before: they follow a sync__.
LEMMA ExpertGood == GoodTable(ExpertTable, 26)
<1>1. Len(ExpertTable) = 26
  BY DEF ExpertTable
<1>2. /\ \A k \in 1 .. 26 : ExpertTable[k].group \in GroupNames
      /\ \A k \in 1 .. 26 : ExpertTable[k].out = "hidden" <=> k = 26
  BY DEF ExpertTable, Row, GroupNames
<1>3. \A k \in 1 .. 26 : ExpertTable[k].in = "hidden" \/ \E j \in 1 .. k - 1 :
        ExpertTable[j].out = ExpertTable[k].in
  BY DEF ExpertTable, Row
<1>4. \A k \in 1 .. 26 :
        SyncedRow(ExpertTable[k])
          => k \in {2, 5, 7, 9, 13, 14, 16, 19, 20, 22, 25}
  BY DEF ExpertTable, Row, SyncedRow, SyncedModules
<1>5. \A k \in {2, 5, 7, 9, 13, 16, 19, 22, 25} : \A j \in 1..26 :
        ExpertTable[j].out = ExpertTable[k].in => j >= k - 1
  BY DEF ExpertTable, Row
<1>6. \A k \in {14, 20} :
        ExpertTable[k].op # "sync__" /\ ExpertTable[k-1].op = "sync__"
  BY DEF ExpertTable, Row
<1>7. \A k \in 1 .. 26 :
        ExpertTable[k].op = "sync__" => ExpertTable[k].group = "stage"
  BY DEF ExpertTable, Row
<1>8. \A i, k \in  {2, 5, 7, 9, 13, 14, 16, 19, 20, 22, 25} :
        i < k /\ ExpertTable[i].in = ExpertTable[k].in => i = 14 /\ k = 20
  BY DEF ExpertTable, Row
<1>9. ExpertTable[16].op = "sync__" /\ ExpertTable[25].op = "sync__"
  BY DEF ExpertTable, Row
<1>10. \A k \in 1 .. 26 :
         ExpertTable[k].op \in ExpertOps \/ ExpertTable[k].group = "expert"
           => k < 25
  BY DEF ExpertTable, Row, ExpertOps
<1>11. \A k \in  {2, 5, 7, 9, 13, 14, 16, 19, 20, 22, 25} :
         ExpertTable[k].in # "hidden" /\ ExpertTable[k].group # "none"
  BY DEF ExpertTable, Row
<1>12. \A k \in 1 .. 26 : ExpertTable[k].op # "pipeline_stage"
  BY DEF ExpertTable, Row
<1>21. \A k \in 1 .. 26 : SyncedRow(ExpertTable[k]) =>
         \/ \A j \in 1 .. 26 :
              ExpertTable[j].out = ExpertTable[k].in => j >= k - 1
         \/ k > 1 /\ ExpertTable[k].op # "sync__"
              /\ ExpertTable[k-1].op = "sync__"
  <2> HIDE DEF ExpertTable
  <2> QED BY <1>4, <1>5, <1>6
<1>22. \A k \in 1 .. 26 : \A i \in 1 .. k-1 :
         SyncedRow(ExpertTable[k]) /\ SyncedRow(ExpertTable[i])
           /\ ExpertTable[i].in = ExpertTable[k].in
           => \E b \in i+1..k-1 : ExpertTable[b].op = "sync__"
  <2> HIDE DEF ExpertTable
  <2> TAKE k \in 1 .. 26
  <2> TAKE i \in 1 .. k-1
  <2> HAVE SyncedRow(ExpertTable[k]) /\ SyncedRow(ExpertTable[i])
             /\ ExpertTable[i].in = ExpertTable[k].in
  <2>1. i = 14 /\ k = 20
    BY <1>4, <1>8
  <2> QED BY <2>1, <1>9
<1>23. \A k \in 1 .. 26 :
         ExpertTable[k].op \in ExpertOps \/ ExpertTable[k].group = "expert" =>
        \E b \in k+1 .. 26 : ExpertTable[b].op = "sync__"
  <2> HIDE DEF ExpertTable
  <2> QED BY <1>9, <1>10
<1> HIDE DEF ExpertTable
<1> QED
  BY <1>1, <1>2, <1>3, <1>4, <1>7, <1>11, <1>12, <1>21, <1>22, <1>23
     DEF GoodTable

----------------------------------------------------------------------------
(***************************************************************************)
(* The graph of a layer has the rows of its table.  The entries have a     *)
(* type, the sequences LLMGraph concatenates have the length of the table, *)
(* and the entry at each place is the row at that place.                   *)
(***************************************************************************)
\* The names of the modules of a graph.
Operations ==
  {"attention", "all_reduce", "layer_norm", "feedforward",
   "sync__set", "sync__",
   "gate_update", "moe_scatter", "moe_route", "expert_FFN", "moe_gather",
   "shared_expert_FFN", "residual", "lm_head", "pipeline_stage"}

\* The names of the tensors of a graph.
TensorNames ==
  {"hidden", "o_proj", "attention_out", "post_attn_ln_out",
   "ffn_out", "result",
   "sync_0", "gate_update_output", "moe_scatter_output",
   "sync_for_moe_scatter",
   "expert_input", "expert_out", "sync_2", "e_tp_out", "sync_3",
   "moe_gather_output", "sync_for_moe_gather", "gathered", "sync_5", "sync_6",
   "out"}

\* The entries of a graph.
Entries ==
  [op : Operations, layer : Nat, input : Nat \X TensorNames,
   output : Nat \X TensorNames, group : SUBSET Devices]

\* The table of layer l.
LayerTable(scheme, l) == IF scheme.moe[l] THEN ExpertTable ELSE DenseTable

\* Entry e of layer l is the given row, on device d.
IsRow(scheme, d, l, e, row) ==
  /\ e.op = row.op
  /\ e.layer = l
  /\ e.input = <<l, row.in>>
  /\ e.output = <<IF row.out = "hidden" THEN l + 1 ELSE l, row.out>>
  /\ e.group = Group(scheme, d, row.group)

\* The entries g are those of the n rows of table t.
IsTable(scheme, d, l, g, t, n) ==
  /\ g \in Seq(Entries)
  /\ Len(g) = n
  /\ \A i \in 1 .. n : IsRow(scheme, d, l, g[i], t[i])

\* A group is a set of devices.
LEMMA GroupsAreSets ==
  ASSUME NEW scheme, NEW d, NEW name
  PROVE Group(scheme, d, name) \subseteq Devices
BY DEF Group, TpGroup, StageGroup, ExpertGroup

\* What Entry builds is an entry.
LEMMA EntryType ==
  ASSUME NEW op \in Operations, NEW l \in Nat, NEW in \in TensorNames,
         NEW out \in TensorNames,
         NEW group \in SUBSET Devices
  PROVE  Entry(op, l, in, out, group) \in Entries
BY DEF Entry, Entries

\* What Local builds is an entry.
LEMMA LocalType ==
  ASSUME NEW op \in Operations, NEW l \in Nat, NEW in \in TensorNames,
         NEW out \in TensorNames
  PROVE  Local(op, l, in, out) \in Entries
BY EntryType DEF Local

\* The residual entry, with its output moved to the next layer, is an entry.
LEMMA ResidualType ==
  ASSUME NEW l \in Nat
  PROVE  [Local("residual", l, "result", "hidden") EXCEPT !.output
           = <<l + 1, "hidden">>] \in Entries
<1> DEFINE r == Local("residual", l, "result", "hidden")
           o == <<l + 1, "hidden">>
<1>1. r \in Entries
  BY LocalType DEF Operations, TensorNames
<1>3. o \in Nat \X TensorNames
  BY DEF TensorNames
<1> HIDE DEF r, o
<1>2. [r EXCEPT !.output = o] \in Entries
  BY <1>1, <1>3 DEF Entries
<1> QED
  BY <1>2 DEF r, o

\* The names the layers use are names of modules and of tensors.
LEMMA TypesOfNames ==
  /\ {"attention", "all_reduce", "layer_norm", "feedforward",
      "sync__set", "sync__",
      "gate_update", "moe_scatter", "moe_route", "expert_FFN", "moe_gather",
      "shared_expert_FFN"} \subseteq Operations
  /\ {"hidden", "o_proj", "attention_out", "post_attn_ln_out",
      "ffn_out", "result",
      "gate_update_output", "moe_scatter_output", "expert_input", "expert_out",
      "e_tp_out", "moe_gather_output", "gathered"} \subseteq TensorNames
BY DEF Operations, TensorNames

\* The attention part of a layer is a sequence of entries.
LEMMA AttentionType ==
  ASSUME NEW scheme, NEW d, NEW l \in Nat
  PROVE  AttentionGraph(scheme, d, l) \in Seq(Entries)
<1>1. TpGroup(scheme, d) \in SUBSET Devices
  BY DEF TpGroup
<1>2. /\ Local("attention", l, "hidden", "o_proj") \in Entries
      /\ Local("layer_norm", l, "attention_out", "post_attn_ln_out")
           \in Entries
  BY LocalType, TypesOfNames
<1>3. Entry("all_reduce", l, "o_proj", "attention_out", TpGroup(scheme, d))
        \in Entries
  BY <1>1, EntryType, TypesOfNames
<1> QED
  BY <1>2, <1>3 DEF AttentionGraph

\* The graph of a dense layer has the rows of DenseTable.
LEMMA DenseIs ==
  ASSUME NEW scheme, NEW d, NEW l \in Nat, ~scheme.moe[l]
  PROVE  IsTable(scheme, d, l, LayerGraph(scheme, d, l), DenseTable, 6)
<1> DEFINE g == LayerGraph(scheme, d, l)
           residual ==
             [Local("residual", l, "result", "hidden") EXCEPT !.output
               = <<l + 1, "hidden">>]
<1>1. g = DecoderGraph(scheme, d, l) \o << residual >>
  BY DEF LayerGraph
<1>2. DecoderGraph(scheme, d, l) \in Seq(Entries)
  <2>1. TpGroup(scheme, d) \in SUBSET Devices
    BY DEF TpGroup
  <2>2. Local("feedforward", l, "post_attn_ln_out", "ffn_out") \in Entries
    BY LocalType, TypesOfNames
  <2>3. Entry("all_reduce", l, "ffn_out", "result", TpGroup(scheme, d))
          \in Entries
    BY <2>1, EntryType, TypesOfNames
  <2> QED
    BY <2>2, <2>3, AttentionType DEF DecoderGraph
<1>3. residual \in Entries
  BY ResidualType
<1>4. IsRow(scheme, d, l, residual, Row("residual", "result", "hidden",
        "none"))
  BY DEF Local, Entry, IsRow, Row, Group
<1> HIDE DEF g, residual
<1>5. /\ g \in Seq(Entries)
      /\ Len(g) = 6
      /\ g[1] = Local("attention", l, "hidden", "o_proj")
      /\ g[2]
           = Entry("all_reduce", l, "o_proj", "attention_out",
                   TpGroup(scheme, d))
      /\ g[3] = Local("layer_norm", l, "attention_out", "post_attn_ln_out")
      /\ g[4] = Local("feedforward", l, "post_attn_ln_out", "ffn_out")
      /\ g[5] = Entry("all_reduce", l, "ffn_out", "result", TpGroup(scheme, d))
      /\ g[6] = residual
  <2>1. g \in Seq(Entries)
    BY <1>1, <1>2, <1>3
  <2> QED
    BY <2>1, <1>1 DEF DecoderGraph, AttentionGraph
<1>6. /\ IsRow(scheme, d, l, g[1], DenseTable[1])
      /\ IsRow(scheme, d, l, g[2], DenseTable[2])
      /\ IsRow(scheme, d, l, g[3], DenseTable[3])
      /\ IsRow(scheme, d, l, g[4], DenseTable[4])
      /\ IsRow(scheme, d, l, g[5], DenseTable[5])
  BY <1>5 DEF DenseTable, IsRow, Row, Local, Entry, Group
<1>7. IsRow(scheme, d, l, g[6], DenseTable[6])
  BY <1>4, <1>5 DEF DenseTable
<1>8. \A i \in 1 .. 6 : IsRow(scheme, d, l, g[i], DenseTable[i])
  BY <1>6, <1>7
<1> QED
  BY <1>5, <1>8 DEF g, IsTable

\* A Sync is a sequence of entries.
LEMMA SyncType ==
  ASSUME NEW scheme, NEW d, NEW l \in Nat,
         NEW name \in TensorNames, NEW in \in TensorNames
  PROVE  Sync(name, l, in, StageGroup(scheme, d)) \in Seq(Entries)
<1>1. StageGroup(scheme, d) \in SUBSET Devices
  BY DEF StageGroup
<1>2. /\ Local("sync__set", l, in, name) \in Entries
      /\ Entry("sync__", l, name, name, StageGroup(scheme, d)) \in Entries
  BY <1>1, EntryType, LocalType DEF Operations
<1> QED
  BY <1>2 DEF Sync

\* The expert part of a layer is a sequence of entries.
LEMMA ExpertType ==
  ASSUME NEW scheme, NEW d, NEW l \in Nat
  PROVE  ExpertGraph(scheme, d, l) \in Seq(Entries)
<1> DEFINE in == "post_attn_ln_out"
           S(name) == Sync(name, l, in, StageGroup(scheme, d))
           a == << Local("gate_update", l, in, "gate_update_output"),
                   Entry("moe_scatter", l, "gate_update_output",
                     "moe_scatter_output", StageGroup(scheme, d)) >>
           b == << Local("moe_route", l, "moe_scatter_output", "expert_input"),
                   Local("expert_FFN", l, "expert_input", "expert_out") >>
           c ==
             << Entry("all_reduce", l, in, "e_tp_out", ExpertGroup(scheme,
               d)) >>
           e == << Local("moe_gather", l, "expert_out", "moe_gather_output") >>
           f ==
             << Entry("all_reduce", l, in, "gathered", TpGroup(scheme, d)) >>
           g == << Local("shared_expert_FFN", l, in, "result") >>
<1>1. /\ TpGroup(scheme, d) \in SUBSET Devices
      /\ ExpertGroup(scheme, d) \in SUBSET Devices
      /\ StageGroup(scheme, d) \in SUBSET Devices
  BY DEF TpGroup, ExpertGroup, StageGroup
<1>2. /\ S("sync_0") \in Seq(Entries)
           /\ S("sync_for_moe_scatter") \in Seq(Entries)
      /\ S("sync_2") \in Seq(Entries) /\ S("sync_3") \in Seq(Entries)
      /\ S("sync_for_moe_gather") \in Seq(Entries)
           /\ S("sync_5") \in Seq(Entries)
      /\ S("sync_6") \in Seq(Entries)
  BY SyncType DEF TensorNames
<1>3. /\ Local("gate_update", l, in, "gate_update_output") \in Entries
      /\ Local("moe_route", l, "moe_scatter_output", "expert_input")
           \in Entries
      /\ Local("expert_FFN", l, "expert_input", "expert_out") \in Entries
      /\ Local("moe_gather", l, "expert_out", "moe_gather_output") \in Entries
      /\ Local("shared_expert_FFN", l, in, "result") \in Entries
  BY LocalType, TypesOfNames
<1>6. /\ Entry("moe_scatter", l, "gate_update_output", "moe_scatter_output",
           StageGroup(scheme, d)) \in Entries
      /\ Entry("all_reduce", l, in, "e_tp_out", ExpertGroup(scheme, d))
           \in Entries
      /\ Entry("all_reduce", l, in, "gathered", TpGroup(scheme, d)) \in Entries
  BY <1>1, EntryType, TypesOfNames
<1>4. /\ a \in Seq(Entries) /\ b \in Seq(Entries) /\ c \in Seq(Entries)
      /\ e \in Seq(Entries) /\ f \in Seq(Entries) /\ g \in Seq(Entries)
  BY <1>3, <1>6
<1>5. ExpertGraph(scheme, d, l) =
        S("sync_0") \o a \o S("sync_for_moe_scatter") \o b \o S("sync_2")
          \o c \o S("sync_3") \o e \o S("sync_for_moe_gather") \o f
          \o S("sync_5") \o g \o S("sync_6")
  BY DEF ExpertGraph
<1> HIDE DEF S, a, b, c, e, f, g
<1> QED
  BY <1>2, <1>4, <1>5

\* The graph of an expert layer has the rows of ExpertTable.
LEMMA ExpertIs ==
  ASSUME NEW scheme, NEW d, NEW l \in Nat, scheme.moe[l]
  PROVE  IsTable(scheme, d, l, LayerGraph(scheme, d, l), ExpertTable, 26)
<1> DEFINE g == LayerGraph(scheme, d, l)
           in == "post_attn_ln_out"
           residual ==
             [Local("residual", l, "result", "hidden") EXCEPT !.output
               = <<l + 1, "hidden">>]
<1>1. g
        = AttentionGraph(scheme, d, l) \o ExpertGraph(scheme, d,
          l) \o << residual >>
  BY DEF LayerGraph
<1>2. AttentionGraph(scheme, d, l) \in Seq(Entries)
  BY AttentionType
<1>3. residual \in Entries
  BY ResidualType
<1>4. IsRow(scheme, d, l, residual, Row("residual", "result", "hidden",
        "none"))
  BY DEF Local, Entry, IsRow, Row, Group
<1> HIDE DEF g, residual
<1>5. g \in Seq(Entries)
  BY <1>1, <1>2, <1>3, ExpertType
<1>6. /\ Len(g) = 26
      /\ g[1] = Local("attention", l, "hidden", "o_proj")
      /\ g[2]
           = Entry("all_reduce", l, "o_proj", "attention_out",
                   TpGroup(scheme, d))
      /\ g[3] = Local("layer_norm", l, "attention_out", "post_attn_ln_out")
      /\ g[4] = Local("sync__set", l, in, "sync_0")
      /\ g[5] = Entry("sync__", l, "sync_0", "sync_0", StageGroup(scheme, d))
      /\ g[6] = Local("gate_update", l, in, "gate_update_output")
      /\ g[7]
           = Entry("moe_scatter", l, "gate_update_output",
                   "moe_scatter_output", StageGroup(scheme, d))
      /\ g[8] = Local("sync__set", l, in, "sync_for_moe_scatter")
      /\ g[9]
           = Entry("sync__", l, "sync_for_moe_scatter", "sync_for_moe_scatter",
             StageGroup(scheme, d))
      /\ g[10] = Local("moe_route", l, "moe_scatter_output", "expert_input")
      /\ g[11] = Local("expert_FFN", l, "expert_input", "expert_out")
      /\ g[12] = Local("sync__set", l, in, "sync_2")
      /\ g[13] = Entry("sync__", l, "sync_2", "sync_2", StageGroup(scheme, d))
      /\ g[14] = Entry("all_reduce", l, in, "e_tp_out", ExpertGroup(scheme, d))
      /\ g[15] = Local("sync__set", l, in, "sync_3")
      /\ g[16] = Entry("sync__", l, "sync_3", "sync_3", StageGroup(scheme, d))
      /\ g[17] = Local("moe_gather", l, "expert_out", "moe_gather_output")
      /\ g[18] = Local("sync__set", l, in, "sync_for_moe_gather")
      /\ g[19]
           = Entry("sync__", l, "sync_for_moe_gather", "sync_for_moe_gather",
             StageGroup(scheme, d))
      /\ g[20] = Entry("all_reduce", l, in, "gathered", TpGroup(scheme, d))
      /\ g[21] = Local("sync__set", l, in, "sync_5")
      /\ g[22] = Entry("sync__", l, "sync_5", "sync_5", StageGroup(scheme, d))
      /\ g[23] = Local("shared_expert_FFN", l, in, "result")
      /\ g[24] = Local("sync__set", l, in, "sync_6")
      /\ g[25] = Entry("sync__", l, "sync_6", "sync_6", StageGroup(scheme, d))
      /\ g[26] = residual
  BY <1>1, SMTT(20) DEF AttentionGraph, ExpertGraph, Sync
<1>7. /\ IsRow(scheme, d, l, g[1], ExpertTable[1])
      /\ IsRow(scheme, d, l, g[2], ExpertTable[2])
      /\ IsRow(scheme, d, l, g[3], ExpertTable[3])
      /\ IsRow(scheme, d, l, g[4], ExpertTable[4])
      /\ IsRow(scheme, d, l, g[5], ExpertTable[5])
      /\ IsRow(scheme, d, l, g[6], ExpertTable[6])
  BY <1>6 DEF ExpertTable, IsRow, Row, Local, Entry, Group
<1>8. /\ IsRow(scheme, d, l, g[7], ExpertTable[7])
      /\ IsRow(scheme, d, l, g[8], ExpertTable[8])
      /\ IsRow(scheme, d, l, g[9], ExpertTable[9])
      /\ IsRow(scheme, d, l, g[10], ExpertTable[10])
      /\ IsRow(scheme, d, l, g[11], ExpertTable[11])
      /\ IsRow(scheme, d, l, g[12], ExpertTable[12])
  BY <1>6 DEF ExpertTable, IsRow, Row, Local, Entry, Group
<1>9. /\ IsRow(scheme, d, l, g[13], ExpertTable[13])
      /\ IsRow(scheme, d, l, g[14], ExpertTable[14])
      /\ IsRow(scheme, d, l, g[15], ExpertTable[15])
      /\ IsRow(scheme, d, l, g[16], ExpertTable[16])
      /\ IsRow(scheme, d, l, g[17], ExpertTable[17])
      /\ IsRow(scheme, d, l, g[18], ExpertTable[18])
  BY <1>6 DEF ExpertTable, IsRow, Row, Local, Entry, Group
<1>10. /\ IsRow(scheme, d, l, g[19], ExpertTable[19])
      /\ IsRow(scheme, d, l, g[20], ExpertTable[20])
      /\ IsRow(scheme, d, l, g[21], ExpertTable[21])
      /\ IsRow(scheme, d, l, g[22], ExpertTable[22])
      /\ IsRow(scheme, d, l, g[23], ExpertTable[23])
      /\ IsRow(scheme, d, l, g[24], ExpertTable[24])
      /\ IsRow(scheme, d, l, g[25], ExpertTable[25])
  BY <1>6 DEF ExpertTable, IsRow, Row, Local, Entry, Group
<1>11. IsRow(scheme, d, l, g[26], ExpertTable[26])
  BY <1>4, <1>6 DEF ExpertTable
<1>12. \A i \in 1 .. 26 : IsRow(scheme, d, l, g[i], ExpertTable[i])
  <2> DEFINE R(i) == IsRow(scheme, d, l, g[i], ExpertTable[i])
  <2>1. R(1) /\ R(2) /\ R(3) /\ R(4) /\ R(5) /\ R(6) /\ R(7) /\ R(8) /\ R(9)
          /\ R(10) /\ R(11) /\ R(12) /\ R(13) /\ R(14) /\ R(15) /\ R(16)
               /\ R(17) /\ R(18) /\ R(19) /\ R(20) /\ R(21) /\ R(22) /\ R(23)
                    /\ R(24) /\ R(25) /\ R(26)
    BY <1>7, <1>8, <1>9, <1>10, <1>11
  <2> HIDE DEF R
  <2>2. \A i \in 1 .. 26 : R(i)
    BY <2>1
  <2> QED
    BY <2>2 DEF R
<1> QED
  BY <1>5, <1>6, <1>12 DEF g, IsTable

----------------------------------------------------------------------------
(***************************************************************************)
(* What the execution of a graph relies on.  A segment is a part of the    *)
(* graph that takes over the tensor hidden after layer a and leaves the    *)
(* one after layer n; two segments that meet make one.                     *)
(***************************************************************************)
\* Every tensor but the first is written before it is read.
Fed(g, first) ==
  \A k \in 1 .. Len(g) :
    g[k].input = first \/ \E j \in 1 .. k - 1 : g[j].output = g[k].input

\* A synced module reads what the entry before it wrote, or comes right after a
\* sync__: a device that sees its input ready is at that module or will be
\* next.
Gated(g, first) ==
  \A k \in 1 .. Len(g) : g[k].op \in SyncedModules =>
    /\ g[k].input # first
    /\ \/ \A j \in 1 .. Len(g) : g[j].output = g[k].input => j >= k - 1
       \/ k > 1 /\ g[k].op # "sync__" /\ g[k - 1].op = "sync__"

\* Between two synced modules that read the same tensor is a sync__: a peer
\* that is still at the first cannot be taken to be at the second.
Separated(g) ==
  \A k \in 1 .. Len(g) : \A i \in 1 .. k - 1 :
    g[k].op \in SyncedModules /\ g[i].op \in SyncedModules
      /\ g[i].input = g[k].input
      => \E b \in i + 1 .. k - 1 : g[b].op = "sync__"

\* A device is a member of the groups it waits for, and a sync__ spans the
\* whole stage.
GroupsHold(scheme, d, g) ==
  \A k \in 1 .. Len(g) :
    /\ g[k].op \in SyncedModules =>
         d \in g[k].group /\ g[k].group \subseteq StageGroup(scheme, d)
    /\ g[k].op = "sync__" => g[k].group = StageGroup(scheme, d)

\* After such an entry the clocks of a tensor group may differ.
Diverges(scheme, d, e) ==
  \/ e.op \in ExpertOps
  \/ e.op \in SyncedModules /\ ~(TpGroup(scheme, d) \subseteq e.group)

\* A later sync__ brings the clocks together again.
Reconverges(scheme, d, g) ==
  \A k \in 1 .. Len(g) :
    Diverges(scheme, d, g[k]) => \E b \in k + 1 .. Len(g) : g[b].op = "sync__"

\* Sequence s is the part of a graph from layer a to layer n.
Segment(scheme, d, s, a, n) ==
  /\ s \in Seq(Entries)
  /\ \A k \in 1 .. Len(s) :
       /\ s[k].op # "pipeline_stage"
       /\ s[k].layer \in a + 1 .. n
       /\ s[k].input[1] \in a + 1 .. n
       /\ \/ s[k].output[1] \in a + 1 .. n /\ s[k].output # <<a + 1, "hidden">>
          \/ s[k].output = <<n + 1, "hidden">>
  /\ a < n => \E k \in 1 .. Len(s) : s[k].output = <<n + 1, "hidden">>
  /\ Fed(s, <<a + 1, "hidden">>)
  /\ Gated(s, <<a + 1, "hidden">>)
  /\ Separated(s)
  /\ GroupsHold(scheme, d, s)
  /\ Reconverges(scheme, d, s)

\* The parts of an entry have their types.
LEMMA EntryParts ==
  ASSUME NEW s \in Seq(Entries), NEW k \in 1 .. Len(s)
  PROVE  /\ s[k] \in Entries
         /\ s[k].input = <<s[k].input[1], s[k].input[2]>>
         /\ s[k].output = <<s[k].output[1], s[k].output[2]>>
         /\ s[k].input[1] \in Nat
         /\ s[k].output[1] \in Nat
         /\ s[k].layer \in Nat
<1>1. s[k] \in Entries
  OBVIOUS
<1>2. /\ s[k].input \in Nat \X TensorNames
      /\ s[k].output \in Nat \X TensorNames
      /\ s[k].layer \in Nat
  BY <1>1 DEF Entries
<1>3. \A x \in Nat \X TensorNames : x = <<x[1], x[2]>> /\ x[1] \in Nat
  OBVIOUS
<1> QED
  BY <1>1, <1>2, <1>3

\* Two segments that meet make one.
LEMMA SegmentsJoin ==
  ASSUME NEW scheme, NEW d, NEW a \in Nat, NEW b \in Nat, NEW n \in Nat,
         a <= b, b <= n,
         NEW s, Segment(scheme, d, s, a, b),
         NEW u, Segment(scheme, d, u, b, n)
  PROVE  Segment(scheme, d, s \o u, a, n)
<1> DEFINE c == s \o u
           p == Len(s)
           q == Len(u)
<1>1. /\ s \in Seq(Entries) /\ u \in Seq(Entries)
      /\ p \in Nat /\ q \in Nat
  BY DEF Segment
<1>2. /\ c \in Seq(Entries)
      /\ Len(c) = p + q
      /\ \A i \in 1 .. p : c[i] = s[i]
      /\ \A i \in 1 .. q : c[p + i] = u[i]
      /\ \A i \in p + 1 .. p + q : i - p \in 1 .. q /\ c[i] = u[i - p]
  BY <1>1
<1>3. \A k \in 1 .. p + q :
        k \in 1 .. p \/ (k - p \in 1 .. q /\ k \in p + 1 .. p + q)
  BY <1>1
<1> HIDE DEF c, p, q
<1>4. \A k \in 1 .. p :
        /\ s[k].input = <<s[k].input[1], s[k].input[2]>>
             /\ s[k].input[1] \in a + 1 .. b
        /\ s[k].op # "pipeline_stage"
        /\ s[k].layer \in a + 1 .. b
        /\ \/ s[k].output[1] \in a + 1 .. b
                /\ s[k].output # <<a + 1, "hidden">>
           \/ s[k].output = <<b + 1, "hidden">>
        /\ s[k].output = <<s[k].output[1], s[k].output[2]>>
  <2> SUFFICES ASSUME NEW k \in 1 .. p
               PROVE  /\ s[k].input = <<s[k].input[1], s[k].input[2]>>
                           /\ s[k].input[1] \in a + 1 .. b
                      /\ s[k].op # "pipeline_stage"
                      /\ s[k].layer \in a + 1 .. b
                      /\ \/ s[k].output[1] \in a + 1 .. b
                              /\ s[k].output # <<a + 1, "hidden">>
                         \/ s[k].output = <<b + 1, "hidden">>
                      /\ s[k].output = <<s[k].output[1], s[k].output[2]>>
    OBVIOUS
  <2>1. k \in 1 .. Len(s)
    BY DEF p
  <2> QED
    BY <1>1, <2>1, EntryParts DEF Segment
<1>5. \A k \in 1 .. q :
        /\ u[k].input = <<u[k].input[1], u[k].input[2]>>
             /\ u[k].input[1] \in b + 1 .. n
        /\ u[k].op # "pipeline_stage"
        /\ u[k].layer \in b + 1 .. n
        /\ \/ u[k].output[1] \in b + 1 .. n
                /\ u[k].output # <<b + 1, "hidden">>
           \/ u[k].output = <<n + 1, "hidden">>
        /\ u[k].output = <<u[k].output[1], u[k].output[2]>>
  <2> SUFFICES ASSUME NEW k \in 1 .. q
               PROVE  /\ u[k].input = <<u[k].input[1], u[k].input[2]>>
                           /\ u[k].input[1] \in b + 1 .. n
                      /\ u[k].op # "pipeline_stage"
                      /\ u[k].layer \in b + 1 .. n
                      /\ \/ u[k].output[1] \in b + 1 .. n
                              /\ u[k].output # <<b + 1, "hidden">>
                         \/ u[k].output = <<n + 1, "hidden">>
                      /\ u[k].output = <<u[k].output[1], u[k].output[2]>>
    OBVIOUS
  <2>1. k \in 1 .. Len(u)
    BY DEF q
  <2> QED
    BY <1>1, <2>1, EntryParts DEF Segment
<1>6. a < b => \E k \in 1 .. p : s[k].output = <<b + 1, "hidden">>
  BY DEF Segment, p
<1>7. b < n => \E k \in 1 .. q : u[k].output = <<n + 1, "hidden">>
  BY DEF Segment, q
<1>8. ASSUME NEW k \in 1 .. p + q
      PROVE  /\ c[k].op # "pipeline_stage"
             /\ c[k].layer \in a + 1 .. n
             /\ c[k].input[1] \in a + 1 .. n
             /\ \/ c[k].output[1] \in a + 1 .. n
                     /\ c[k].output # <<a + 1, "hidden">>
                \/ c[k].output = <<n + 1, "hidden">>
  <2>1. CASE k \in 1 .. p
    <3>1. c[k] = s[k]
      BY <1>2, <2>1
    <3>2. /\ c[k].op # "pipeline_stage"
          /\ c[k].layer \in a + 1 .. n
          /\ c[k].input[1] \in a + 1 .. n
      <4>1. /\ s[k].op # "pipeline_stage"
            /\ s[k].layer \in a + 1 .. b
            /\ s[k].input[1] \in a + 1 .. b
        BY <1>4, <2>1
      <4>2. a + 1 .. b \subseteq a + 1 .. n
        BY <1>1
      <4> QED
        BY <3>1, <4>1, <4>2
    <3>3. \/ c[k].output[1] \in a + 1 .. b
               /\ c[k].output # <<a + 1, "hidden">>
          \/ c[k].output = <<b + 1, "hidden">>
      BY <1>4, <2>1, <3>1
    <3>4. CASE c[k].output = <<b + 1, "hidden">>
      <4>1. c[k].output[1] = b + 1
        BY <3>4
      <4>2. a # b
        BY <1>1, <1>4, <2>1
      <4>3. c[k].output # <<a + 1, "hidden">>
        BY <1>1, <3>4, <4>2
      <4>4. b < n => c[k].output[1] \in a + 1 .. n
        BY <1>1, <4>1
      <4> QED
        BY <1>1, <3>2, <3>4, <4>3, <4>4
    <3>5. CASE c[k].output[1] \in a + 1 .. b
                 /\ c[k].output # <<a + 1, "hidden">>
      BY <1>1, <3>2, <3>5
    <3> QED
      BY <3>3, <3>4, <3>5
  <2>2. CASE k - p \in 1 .. q /\ k \in p + 1 .. p + q
    <3>1. c[k] = u[k - p]
      BY <1>2, <2>2
    <3>2. /\ u[k - p].op # "pipeline_stage"
          /\ u[k - p].input[1] \in b + 1 .. n /\ u[k - p].layer \in b + 1 .. n
          /\ \/ u[k - p].output[1] \in b + 1 .. n
                  /\ u[k - p].output # <<b + 1, "hidden">>
             \/ u[k - p].output = <<n + 1, "hidden">>
      BY <1>5, <2>2
    <3>3. <<a + 1, "hidden">>[1] = a + 1
      OBVIOUS
    <3>4. u[k - p].output[1] \in b + 1 .. n
            /\ u[k - p].output # <<b + 1, "hidden">>
            => u[k - p].output # <<a + 1, "hidden">>
      <4>1. CASE a = b
        BY <4>1
      <4>2. CASE a < b
        BY <3>3, <4>2
      <4> QED
        BY <4>1, <4>2
    <3> QED
      BY <3>1, <3>2, <3>4
  <2> QED
    BY <1>3, <2>1, <2>2
<1>9. a < n => \E k \in 1 .. p + q : c[k].output = <<n + 1, "hidden">>
  <2>1. CASE b < n
    <3>1. PICK k \in 1 .. q : u[k].output = <<n + 1, "hidden">>
      BY <1>7, <2>1
    <3>2. p + k \in 1 .. p + q /\ c[p + k] = u[k]
      BY <1>1, <1>2
    <3> QED
      BY <3>1, <3>2
  <2>2. CASE b = n /\ a < n
    <3>1. PICK k \in 1 .. p : s[k].output = <<n + 1, "hidden">>
      BY <1>6, <2>2
    <3>2. k \in 1 .. p + q /\ c[k] = s[k]
      BY <1>1, <1>2
    <3> QED
      BY <3>1, <3>2
  <2> QED
    BY <2>1, <2>2
<1>10. Fed(c, <<a + 1, "hidden">>)
  <2> SUFFICES ASSUME NEW k \in 1 .. p + q, c[k].input # <<a + 1, "hidden">>
               PROVE  \E j \in 1 .. k - 1 : c[j].output = c[k].input
    BY <1>2 DEF Fed
  <2>1. CASE k \in 1 .. p
    <3>1. PICK j \in 1 .. k - 1 : s[j].output = s[k].input
      BY <1>2, <2>1 DEF Segment, Fed, p
    <3>2. j \in 1 .. p
      BY <1>1, <2>1
    <3> QED
      BY <1>2, <2>1, <3>1, <3>2
  <2>2. CASE k - p \in 1 .. q /\ k \in p + 1 .. p + q
    <3>1. c[k] = u[k - p]
      BY <1>2, <2>2
    <3>2. CASE u[k - p].input = <<b + 1, "hidden">>
      <4>1. a < b
        BY <3>1, <3>2
      <4>2. PICK j \in 1 .. p : s[j].output = <<b + 1, "hidden">>
        BY <1>6, <4>1
      <4>3. j \in 1 .. k - 1 /\ c[j] = s[j]
        BY <1>1, <1>2, <2>2
      <4> QED
        BY <3>1, <3>2, <4>2, <4>3
    <3>3. CASE u[k - p].input # <<b + 1, "hidden">>
      <4>1. PICK j \in 1 .. (k - p) - 1 : u[j].output = u[k - p].input
        BY <2>2, <3>3 DEF Segment, Fed, q
      <4>2. j \in 1 .. q /\ p + j \in 1 .. k - 1
        BY <1>1, <2>2
      <4>3. c[p + j] = u[j]
        BY <1>2, <4>2
      <4> QED
        BY <3>1, <4>1, <4>2, <4>3
    <3> QED
      BY <3>2, <3>3
  <2> QED
    BY <1>3, <2>1, <2>2
<1>11. Gated(c, <<a + 1, "hidden">>)
  <2> SUFFICES ASSUME NEW k \in 1 .. p + q, c[k].op \in SyncedModules
               PROVE  /\ c[k].input # <<a + 1, "hidden">>
                      /\ \/ \A j \in 1 .. p + q :
                              c[j].output = c[k].input => j >= k - 1
                         \/ k > 1 /\ c[k].op # "sync__"
                              /\ c[k - 1].op = "sync__"
    BY <1>2 DEF Gated
  <2>1. CASE k \in 1 .. p
    <3>1. c[k] = s[k]
      BY <1>2, <2>1
    <3>2. /\ s[k].input # <<a + 1, "hidden">>
          /\ \/ \A j \in 1 .. p : s[j].output = s[k].input => j >= k - 1
             \/ k > 1 /\ s[k].op # "sync__" /\ s[k - 1].op = "sync__"
      BY <2>1, <3>1 DEF Segment, Gated, p
    <3>3. CASE \A j \in 1 .. p : s[j].output = s[k].input => j >= k - 1
      <4>1. ASSUME NEW j \in 1 .. p + q, c[j].output = s[k].input
            PROVE  j >= k - 1
        <5>1. CASE j \in 1 .. p
          BY <1>2, <3>3, <4>1, <5>1
        <5>2. CASE j \in p + 1 .. p + q
          BY <1>1, <2>1, <5>2
        <5> QED
          BY <1>3, <5>1, <5>2
      <4> QED
        BY <3>1, <3>2, <4>1
    <3>4. CASE k > 1 /\ s[k].op # "sync__" /\ s[k - 1].op = "sync__"
      <4>1. c[k - 1] = s[k - 1]
        BY <1>1, <1>2, <2>1, <3>4
      <4> QED
        BY <3>1, <3>2, <3>4, <4>1
    <3> QED
      BY <3>2, <3>3, <3>4
  <2>2. CASE k - p \in 1 .. q /\ k \in p + 1 .. p + q
    <3>1. c[k] = u[k - p]
      BY <1>2, <2>2
    <3>2. /\ u[k - p].input # <<b + 1, "hidden">>
          /\ \/ \A j \in 1 .. q :
                  u[j].output = u[k - p].input => j >= (k - p) - 1
             \/ k - p > 1 /\ u[k - p].op # "sync__"
                  /\ u[(k - p) - 1].op = "sync__"
      BY <2>2, <3>1 DEF Segment, Gated, q
    <3>3. c[k].input # <<a + 1, "hidden">>
      BY <1>5, <2>2, <3>1, <3>2
    <3>4. CASE \A j \in 1 .. q :
                 u[j].output = u[k - p].input => j >= (k - p) - 1
      <4>1. ASSUME NEW j \in 1 .. p + q, c[j].output = u[k - p].input
            PROVE  j >= k - 1
        <5>1. CASE j \in 1 .. p
          <6>1. c[j] = s[j]
            BY <1>2, <5>1
          <6>2. u[k - p].input[1] \in b + 1 .. n
            BY <1>5, <2>2
          <6>3. s[j].output = <<b + 1, "hidden">>
                  \/ s[j].output[1] \in a + 1 .. b
            BY <1>4, <5>1
          <6> QED
            BY <3>2, <4>1, <6>1, <6>2, <6>3
        <5>2. CASE j - p \in 1 .. q /\ j \in p + 1 .. p + q
          <6>1. c[j] = u[j - p]
            BY <1>2, <5>2
          <6>2. j - p >= (k - p) - 1
            BY <3>4, <4>1, <5>2, <6>1
          <6> QED
            BY <1>1, <6>2
        <5> QED
          BY <1>3, <5>1, <5>2
      <4> QED
        BY <3>1, <3>3, <4>1
    <3>5. CASE k - p > 1 /\ u[k - p].op # "sync__"
                 /\ u[(k - p) - 1].op = "sync__"
      <4>1. (k - p) - 1 \in 1 .. q /\ p + ((k - p) - 1) = k - 1 /\ k > 1
        BY <1>1, <2>2, <3>5
      <4>2. c[k - 1] = u[(k - p) - 1]
        BY <1>2, <4>1
      <4> QED
        BY <3>1, <3>3, <3>5, <4>1, <4>2
    <3> QED
      BY <3>2, <3>4, <3>5
  <2> QED
    BY <1>3, <2>1, <2>2
<1>12. Separated(c)
  <2> SUFFICES ASSUME NEW k \in 1 .. p + q, NEW i \in 1 .. k - 1,
                      c[k].op \in SyncedModules, c[i].op \in SyncedModules,
                      c[i].input = c[k].input
               PROVE  \E h \in i + 1 .. k - 1 : c[h].op = "sync__"
    BY <1>2 DEF Separated
  <2>1. CASE k \in 1 .. p
    <3>1. i \in 1 .. p /\ c[k] = s[k] /\ c[i] = s[i]
      BY <1>1, <1>2, <2>1
    <3>2. PICK h \in i + 1 .. k - 1 : s[h].op = "sync__"
      BY <2>1, <3>1 DEF Segment, Separated, p
    <3>3. h \in 1 .. p
      BY <1>1, <2>1
    <3> QED
      BY <1>2, <3>2, <3>3
  <2>2. CASE i \in 1 .. p /\ k - p \in 1 .. q /\ k \in p + 1 .. p + q
    <3>1. c[i] = s[i] /\ c[k] = u[k - p]
      BY <1>2, <2>2
    <3>2. s[i].input[1] \in a + 1 .. b /\ u[k - p].input[1] \in b + 1 .. n
      BY <1>4, <1>5, <2>2
    <3>3. s[i].input[1] = u[k - p].input[1]
      BY <3>1
    <3>4. a + 1 .. b \subseteq Int /\ b + 1 .. n \subseteq Int
      OBVIOUS
    <3> QED
      BY <3>2, <3>3, <3>4
  <2>3. CASE k - p \in 1 .. q /\ k \in p + 1 .. p + q /\ i - p \in 1 .. q
               /\ i \in p + 1 .. p + q
    <3>1. c[i] = u[i - p] /\ c[k] = u[k - p] /\ i - p \in 1 .. (k - p) - 1
      BY <1>1, <1>2, <2>3
    <3>2. PICK h \in (i - p) + 1 .. (k - p) - 1 : u[h].op = "sync__"
      BY <2>3, <3>1 DEF Segment, Separated, q
    <3>3. h \in 1 .. q /\ p + h \in i + 1 .. k - 1
      BY <1>1, <2>3
    <3>4. c[p + h] = u[h]
      BY <1>2, <3>3
    <3> QED
      BY <3>2, <3>3, <3>4
  <2> QED
    BY <1>1, <1>3, <2>1, <2>2, <2>3
<1>13. GroupsHold(scheme, d, c)
  <2> SUFFICES ASSUME NEW k \in 1 .. p + q
               PROVE  /\ c[k].op \in SyncedModules =>
                           d \in c[k].group
                             /\ c[k].group \subseteq StageGroup(scheme, d)
                      /\ c[k].op = "sync__"
                           => c[k].group = StageGroup(scheme, d)
    BY <1>2 DEF GroupsHold
  <2>1. CASE k \in 1 .. p
    BY <1>2, <2>1 DEF Segment, GroupsHold, p
  <2>2. CASE k - p \in 1 .. q /\ k \in p + 1 .. p + q
    BY <1>2, <2>2 DEF Segment, GroupsHold, q
  <2> QED
    BY <1>3, <2>1, <2>2
<1>14. Reconverges(scheme, d, c)
  <2> SUFFICES ASSUME NEW k \in 1 .. p + q, Diverges(scheme, d, c[k])
               PROVE  \E h \in k + 1 .. p + q : c[h].op = "sync__"
    BY <1>2 DEF Reconverges
  <2>1. CASE k \in 1 .. p
    <3>1. PICK h \in k + 1 .. p : s[h].op = "sync__"
      BY <1>2, <2>1 DEF Segment, Reconverges, p
    <3>2. h \in 1 .. p /\ h \in k + 1 .. p + q
      BY <1>1, <2>1
    <3> QED
      BY <1>2, <3>1, <3>2
  <2>2. CASE k - p \in 1 .. q /\ k \in p + 1 .. p + q
    <3>1. PICK h \in (k - p) + 1 .. q : u[h].op = "sync__"
      BY <1>2, <2>2 DEF Segment, Reconverges, q
    <3>2. h \in 1 .. q /\ p + h \in k + 1 .. p + q
      BY <1>1, <2>2
    <3>3. c[p + h] = u[h]
      BY <1>2, <3>2
    <3> QED
      BY <3>1, <3>2, <3>3
  <2> QED
    BY <1>3, <2>1, <2>2
<1>15. \A k \in 1 .. Len(c) :
         /\ c[k].op # "pipeline_stage"
         /\ c[k].layer \in a + 1 .. n
         /\ c[k].input[1] \in a + 1 .. n
         /\ \/ c[k].output[1] \in a + 1 .. n
                 /\ c[k].output # <<a + 1, "hidden">>
            \/ c[k].output = <<n + 1, "hidden">>
  BY <1>2, <1>8
<1>16. a < n => \E k \in 1 .. Len(c) : c[k].output = <<n + 1, "hidden">>
  BY <1>2, <1>9
<1>17. Segment(scheme, d, c, a, n)
  BY <1>2, <1>10, <1>11, <1>12, <1>13, <1>14, <1>15, <1>16 DEF Segment
<1> QED
  BY <1>17 DEF c

\* A device is a member of each of its groups, and they lie in its stage.
LEMMA GroupsOfDevice ==
  ASSUME NEW scheme, NEW d \in Devices, NEW name \in GroupNames \ {"none"}
  PROVE  d \in Group(scheme, d, name)
           /\ Group(scheme, d, name) \subseteq StageGroup(scheme, d)
<1>1. d \in TpGroup(scheme, d)
        /\ TpGroup(scheme, d) \subseteq StageGroup(scheme, d)
  BY DEF TpGroup, StageGroup, Stage
<1>2. d \in StageGroup(scheme, d)
  BY DEF StageGroup
<1>3. d \in ExpertGroup(scheme, d)
        /\ ExpertGroup(scheme, d) \subseteq StageGroup(scheme, d)
  BY <1>2 DEF ExpertGroup
<1> QED
  BY <1>1, <1>2, <1>3 DEF Group, GroupNames

\* A layer that has the rows of a good table is a segment.
LEMMA TableSegment ==
  ASSUME NEW scheme, NEW d \in Devices, NEW l \in Nat \ {0},
         NEW u, NEW t, NEW n \in Nat \ {0},
         GoodTable(t, n), IsTable(scheme, d, l, u, t, n)
  PROVE  Segment(scheme, d, u, l - 1, l)
<1> DEFINE first == <<(l - 1) + 1, "hidden">>
<1>0. u \in Seq(Entries) /\ Len(u) = n
  BY DEF IsTable
<1>1. first = <<l, "hidden">> /\ (l - 1) + 1 .. l = {l}
  OBVIOUS
<1> HIDE DEF first
<1>2. \A i \in 1 .. n :
        /\ u[i].op = t[i].op
        /\ u[i].layer = l
        /\ u[i].input = <<l, t[i].in>>
        /\ t[i].out # "hidden" => u[i].output = <<l, t[i].out>>
        /\ t[i].out = "hidden" => u[i].output = <<l + 1, "hidden">>
        /\ u[i].group = Group(scheme, d, t[i].group)
  BY DEF IsRow, IsTable
<1>3. \A k \in 1 .. n : t[k].group \in GroupNames
  BY DEF GoodTable
<1>4. \A k \in 1 .. n : t[k].out = "hidden" <=> k = n
  BY DEF GoodTable
<1>5. \A k \in 1 .. n :
        /\ u[k].op # "pipeline_stage"
        /\ u[k].layer \in {l} /\ u[k].input[1] \in {l}
        /\ \/ u[k].output[1] \in {l} /\ u[k].output # first
           \/ u[k].output = <<l + 1, "hidden">>
  <2> SUFFICES ASSUME NEW k \in 1 .. n
               PROVE  /\ u[k].op # "pipeline_stage"
                      /\ u[k].layer \in {l} /\ u[k].input[1] \in {l}
                      /\ \/ u[k].output[1] \in {l} /\ u[k].output # first
                         \/ u[k].output = <<l + 1, "hidden">>
    OBVIOUS
  <2>1. u[k].op # "pipeline_stage"
    BY <1>2 DEF GoodTable
  <2> QED
    BY <1>1, <1>2, <2>1
<1>6. \E k \in 1 .. n : u[k].output = <<l + 1, "hidden">>
  BY <1>2, <1>4
<1>7. Fed(u, first)
  <2> SUFFICES ASSUME NEW k \in 1 .. n, u[k].input # first
               PROVE  \E j \in 1 .. k - 1 : u[j].output = u[k].input
    BY <1>0 DEF Fed
  <2>1. t[k].in # "hidden"
    BY <1>1, <1>2
  <2>2. PICK j \in 1 .. k - 1 : t[j].out = t[k].in
    BY <2>1 DEF GoodTable
  <2>3. j \in 1 .. n
    OBVIOUS
  <2> QED
    BY <1>2, <2>1, <2>2, <2>3
<1>8. Gated(u, first)
  <2> SUFFICES ASSUME NEW k \in 1 .. n, u[k].op \in SyncedModules
               PROVE  /\ u[k].input # first
                      /\ \/ \A j \in 1 .. n :
                              u[j].output = u[k].input => j >= k - 1
                         \/ k > 1 /\ u[k].op # "sync__"
                              /\ u[k - 1].op = "sync__"
    BY <1>0 DEF Gated
  <2>1. /\ t[k].in # "hidden"
        /\ \/ \A j \in 1 .. n : t[j].out = t[k].in => j >= k - 1
           \/ k > 1 /\ t[k].op # "sync__" /\ t[k-1].op = "sync__"
    BY <1>2 DEF GoodTable, SyncedRow
  <2>2. u[k].input # first
    BY <1>1, <1>2, <2>1
  <2>3. ASSUME NEW j \in 1 .. n, u[j].output = u[k].input
        PROVE  t[j].out = t[k].in
    BY <1>2, <2>1, <2>3
  <2>4. CASE \A j \in 1 .. n : t[j].out = t[k].in => j >= k - 1
    BY <2>2, <2>3, <2>4
  <2>5. CASE k > 1 /\ t[k].op # "sync__" /\ t[k-1].op = "sync__"
    <3>1. k - 1 \in 1 .. n
      BY <2>5
    <3> QED
      BY <1>2, <2>2, <2>5, <3>1
  <2> QED
    BY <2>1, <2>4, <2>5
<1>9. Separated(u)
  <2> SUFFICES ASSUME NEW k \in 1 .. n, NEW i \in 1 .. k - 1,
                      u[k].op \in SyncedModules, u[i].op \in SyncedModules,
                      u[i].input = u[k].input
               PROVE  \E h \in i + 1 .. k - 1 : u[h].op = "sync__"
    BY <1>0 DEF Separated
  <2>1. i \in 1 .. n
    OBVIOUS
  <2>2. t[i].in = t[k].in
    BY <1>2, <2>1
  <2>3. PICK h \in i + 1 .. k - 1 : t[h].op = "sync__"
    BY <1>2, <2>1, <2>2 DEF GoodTable, SyncedRow
  <2>4. h \in 1 .. n
    OBVIOUS
  <2> QED
    BY <1>2, <2>3, <2>4
<1>10. GroupsHold(scheme, d, u)
  <2> SUFFICES ASSUME NEW k \in 1 .. n
               PROVE  /\ u[k].op \in SyncedModules =>
                           d \in u[k].group
                             /\ u[k].group \subseteq StageGroup(scheme, d)
                      /\ u[k].op = "sync__"
                           => u[k].group = StageGroup(scheme, d)
    BY <1>0 DEF GroupsHold
  <2>1. u[k].op \in SyncedModules => t[k].group # "none"
    BY <1>2 DEF GoodTable, SyncedRow
  <2>2. u[k].op = "sync__" => t[k].group = "stage"
    BY <1>2 DEF GoodTable
  <2>3. Group(scheme, d, "stage") = StageGroup(scheme, d)
    BY DEF Group
  <2> QED
    BY <1>2, <1>3, <2>1, <2>2, <2>3, GroupsOfDevice
<1>11. Reconverges(scheme, d, u)
  <2> SUFFICES ASSUME NEW k \in 1 .. n, Diverges(scheme, d, u[k])
               PROVE  \E h \in k + 1 .. n : u[h].op = "sync__"
    BY <1>0 DEF Reconverges
  <2>1. TpGroup(scheme, d) \subseteq Group(scheme, d, "tp")
    BY DEF Group
  <2>2. TpGroup(scheme, d) \subseteq Group(scheme, d, "stage")
    BY DEF Group, TpGroup, StageGroup, Stage
  <2>3. u[k].op \in SyncedModules => t[k].group # "none"
    BY <1>2 DEF GoodTable, SyncedRow
  <2>4. t[k].op \in ExpertOps \/ t[k].group = "expert"
    BY <1>2, <1>3, <2>1, <2>2, <2>3 DEF Diverges, GroupNames
  <2>5. PICK h \in k + 1 .. n : t[h].op = "sync__"
    BY <2>4 DEF GoodTable
  <2>6. h \in 1 .. n
    OBVIOUS
  <2> QED
    BY <1>2, <2>5, <2>6
<1> QED
  BY <1>0, <1>1, <1>5, <1>6, <1>7, <1>8, <1>9, <1>10, <1>11 DEF Segment, first

\* So every layer is one.
LEMMA LayerSegment ==
  ASSUME NEW scheme, NEW d \in Devices, NEW l \in Nat \ {0}
  PROVE  Segment(scheme, d, LayerGraph(scheme, d, l), l - 1, l)
<1> DEFINE g == LayerGraph(scheme, d, l)
<1>1. CASE scheme.moe[l]
  <2>1. IsTable(scheme, d, l, g, ExpertTable, 26)
    BY <1>1, ExpertIs, Zenon
  <2> HIDE DEF g
  <2>2. Segment(scheme, d, g, l - 1, l)
    BY <2>1, ExpertGood, TableSegment
  <2> QED
    BY <2>2 DEF g
<1>2. CASE ~scheme.moe[l]
  <2>1. IsTable(scheme, d, l, g, DenseTable, 6)
    BY <1>2, DenseIs, Zenon
  <2> HIDE DEF g
  <2>2. Segment(scheme, d, g, l - 1, l)
    BY <2>1, DenseGood, TableSegment
  <2> QED
    BY <2>2 DEF g
<1> QED
  BY <1>1, <1>2

\* So is the empty sequence.
LEMMA EmptySegment ==
  ASSUME NEW scheme, NEW d, NEW a \in Nat
  PROVE  Segment(scheme, d, <<>>, a, a)
<1>1. << >> \in Seq(Entries) /\ Len(<< >>) = 0
  OBVIOUS
<1>2. 1 .. 0 = {}
  OBVIOUS
<1> QED
  BY <1>1, <1>2 DEF Segment, Fed, Gated, Separated, GroupsHold, Reconverges

----------------------------------------------------------------------------
(***************************************************************************)
(* The layers of a stage.  The recursive function StageLayers is the       *)
(* concatenation it looks like, and every prefix of it is a segment.       *)
(***************************************************************************)
\* The pieces of n cut into p alike, all but the rest, end within n.
LEMMA Pieces ==
  ASSUME NEW n \in Nat, NEW p \in Nat \ {0}, NEW s \in 0 .. p - 1
  PROVE  /\ n \div p \in Nat
         /\ s * (n \div p) \in Nat
         /\ s * (n \div p) + (n \div p) <= n
<1>1. \A t \in Nat, c \in Nat \ {0} : t \div c \in Nat /\ c * (t \div c) <= t
  OBVIOUS
<1>2. PICK q \in Nat : q = n \div p /\ p * q <= n
  BY <1>1
<1>3. PICK k \in Nat : k = p - 1 - s
  OBVIOUS
<1>4. p = s + 1 + k
  BY <1>3
<1>5. s * q \in Nat /\ k * q \in Nat
  OBVIOUS
<1>6. (s + 1 + k) * q = s * q + q + k * q
  OBVIOUS
<1>7. PICK sq \in Nat, kq \in Nat : sq = s * q /\ kq = k * q
  BY <1>5
<1>8. sq + q + kq <= n
  BY <1>2, <1>4, <1>6, <1>7
<1>9. sq + q <= n
  BY <1>7, <1>8
<1> QED
  BY <1>2, <1>7, <1>9

\* The first and the last layer of a stage are in order and within the model.
LEMMA StageBounds ==
  ASSUME NEW scheme \in Layout, NEW d \in Devices
  PROVE  /\ Stage(scheme, d) \in 0 .. scheme.pp - 1
         /\ StageStart(scheme, d) \in Nat
         /\ StageEnd(scheme, d) \in Nat
         /\ StageStart(scheme, d) <= StageEnd(scheme, d)
         /\ StageEnd(scheme, d) <= Len(scheme.moe)
<1>1. /\ scheme.pp \in Nat \ {0} /\ scheme.tp \in Nat \ {0}
      /\ Len(scheme.moe) \in Nat /\ d \in Nat
  BY LLMGraphAssumption DEF Layout, Devices
<1>2. PICK stage : stage = Stage(scheme, d)
  OBVIOUS
<1>3. stage \in 0 .. scheme.pp - 1
  <2>1. d \div scheme.tp \in Nat
    BY <1>1
  <2> QED
    BY <1>1, <1>2, <2>1 DEF Stage
<1>4. PICK n : n = Len(scheme.moe)
  OBVIOUS
<1>5. PICK p : p = scheme.pp
  OBVIOUS
<1>6. PICK per : per = n \div p
  OBVIOUS
<1>7. PICK start : start = stage * per
  OBVIOUS
<1>8. per \in Nat /\ start \in Nat /\ start + per <= n /\ n \in Nat
  BY <1>1, <1>3, <1>4, <1>5, <1>6, <1>7, Pieces
<1>9. /\ StageStart(scheme, d) = start
      /\ StageEnd(scheme, d) = start + per \/ StageEnd(scheme, d) = n
  BY <1>2, <1>4, <1>5, <1>6, <1>7 DEF StageStart, StageEnd, LastStage
<1> QED
  BY <1>2, <1>3, <1>4, <1>8, <1>9

\* StageLayers solves its recursive definition.  A function that solves it up
\* to n exists for every n by induction, and CHOOSE takes the one for the end.
LEMMA StageLayersIs ==
  ASSUME NEW scheme \in Layout, NEW d \in Devices
  PROVE  /\ StageLayers(scheme, d)[StageStart(scheme, d)] = << >>
         /\ \A n \in StageStart(scheme, d) + 1 .. StageEnd(scheme, d) :
              StageLayers(scheme, d)[n]
                = StageLayers(scheme, d)[n - 1] \o LayerGraph(scheme, d, n)
<1> DEFINE a == StageStart(scheme, d)
           e == StageEnd(scheme, d)
           F(f, l) ==
             IF l = a THEN << >> ELSE f[l - 1] \o LayerGraph(scheme, d, l)
           Solves(f, n) == f = [l \in a .. n |-> F(f, l)]
           P == {n \in Nat : \E f : Solves(f, n)}
<1>1. a \in Nat /\ e \in Nat /\ a <= e
  BY StageBounds
<1>2. StageLayers(scheme, d) = CHOOSE f : Solves(f, e)
  BY DEF StageLayers
<1> HIDE DEF a, e
<1>3. a \in P
  <2> DEFINE f == [l \in a .. a |-> << >>]
  <2>1. Solves(f, a)
    BY <1>1
  <2> QED
    BY <1>1, <2>1
<1>4. ASSUME NEW n \in a .. e - 1, n \in P
      PROVE  n + 1 \in P
  <2>1. PICK f : Solves(f, n)
    BY <1>4
  <2> DEFINE c == f[n] \o LayerGraph(scheme, d, n + 1)
             g == [l \in a .. n + 1 |-> IF l = n + 1 THEN c ELSE f[l]]
  <2>2. n \in Nat /\ n + 1 \in Nat /\ n \in a .. n /\ n + 1 # a
    BY <1>1
  <2>3. ASSUME NEW l \in a .. n + 1
        PROVE  g[l] = F(g, l)
    <3>1. CASE l = n + 1
      <4> HIDE DEF c
      <4>1. g[l] = c
        BY <3>1
      <4>2. g[n] = f[n] /\ l - 1 = n
        BY <1>1, <2>2, <3>1
      <4>3. F(g, l) = g[l - 1] \o LayerGraph(scheme, d, l)
        BY <2>2, <3>1
      <4>4. F(g, l) = c
        <5> HIDE DEF F, g
        <5> QED
          BY <3>1, <4>2, <4>3 DEF c
      <4> QED
        BY <4>1, <4>4
    <3>2. CASE l \in a .. n
      <4>1. g[l] = f[l]
        BY <1>1, <3>2
      <4>3. f[l] = F(f, l)
        <5> HIDE DEF F
        <5> QED
          BY <2>1, <3>2
      <4>2. l # a => g[l - 1] = f[l - 1]
        BY <1>1, <3>2
      <4> QED
        BY <4>1, <4>2, <4>3
    <3> QED
      BY <1>1, <2>2, <3>1, <3>2
  <2>4. Solves(g, n + 1)
    <3> HIDE DEF F
    <3>1. [l \in a .. n + 1 |-> g[l]] = [l \in a .. n + 1 |-> F(g, l)]
      BY <2>3
    <3> QED
      BY <3>1
  <2> QED
    BY <2>2, <2>4
<1>5. P \in SUBSET Nat
  OBVIOUS
<1>6. e \in P
  <2> HIDE DEF P
  <2>1. \A n \in a .. e - 1 : n \in P => n + 1 \in P
    BY <1>4
  <2>2. a .. e \subseteq P
    BY <1>1, <1>3, <1>5, <2>1, Induction
  <2> QED
    BY <1>1, <2>2
<1>7. Solves(StageLayers(scheme, d), e)
  <2>1. \E f : Solves(f, e)
    BY <1>6, Zenon
  <2> HIDE DEF Solves
  <2> QED
    BY <1>2, <2>1
<1>8. \A l \in a .. e :
        StageLayers(scheme, d)[l] = F(StageLayers(scheme, d), l)
  BY <1>7
<1>9. StageLayers(scheme, d)[a] = << >>
  BY <1>1, <1>8
<1>10. ASSUME NEW n \in a + 1 .. e
       PROVE  StageLayers(scheme, d)[n]
                = StageLayers(scheme, d)[n - 1] \o LayerGraph(scheme, d, n)
  <2>1. n \in a .. e /\ n # a
    BY <1>1
  <2> QED
    BY <1>8, <2>1
<1> QED
  BY <1>9, <1>10 DEF a, e

\* The layers of a stage up to layer n are a segment.
LEMMA StageSegments ==
  ASSUME NEW scheme \in Layout, NEW d \in Devices
  PROVE  \A n \in StageStart(scheme, d) .. StageEnd(scheme, d) :
           Segment(scheme, d, StageLayers(scheme, d)[n], StageStart(scheme, d),
             n)
<1> DEFINE a == StageStart(scheme, d)
           e == StageEnd(scheme, d)
           L == StageLayers(scheme, d)
           P == {n \in Nat : Segment(scheme, d, L[n], a, n)}
<1>1. a \in Nat /\ e \in Nat /\ a <= e
  BY StageBounds
<1>2. L[a] = << >>
        /\ \A n \in a + 1 .. e : L[n] = L[n - 1] \o LayerGraph(scheme, d, n)
  BY StageLayersIs
<1> HIDE DEF a, e, L
<1>3. a \in P
  BY <1>1, <1>2, EmptySegment
<1>4. ASSUME NEW n \in a .. e - 1, n \in P
      PROVE  n + 1 \in P
  <2>1. L[n + 1] = L[n] \o LayerGraph(scheme, d, n + 1)
    <3>1. n + 1 \in a + 1 .. e /\ (n + 1) - 1 = n
      BY <1>1
    <3> QED
      BY <1>2, <3>1
  <2>2. Segment(scheme, d, L[n], a, n)
    BY <1>4
  <2>3. Segment(scheme, d, LayerGraph(scheme, d, n + 1), n, n + 1)
    <3>1. n + 1 \in Nat \ {0} /\ (n + 1) - 1 = n
      BY <1>1
    <3> QED
      BY <3>1, LayerSegment
  <2>4. n \in Nat /\ n + 1 \in Nat /\ a <= n /\ n <= n + 1
    BY <1>1
  <2>5. Segment(scheme, d, L[n + 1], a, n + 1)
    BY <1>1, <2>1, <2>2, <2>3, <2>4, SegmentsJoin
  <2> QED
    BY <2>4, <2>5
<1>5. P \in SUBSET Nat
  OBVIOUS
<1>6. a .. e \subseteq P
  <2> HIDE DEF P
  <2>1. \A n \in a .. e - 1 : n \in P => n + 1 \in P
    BY <1>4
  <2> QED
    BY <1>1, <1>3, <1>5, <2>1, Induction
<1>7. ASSUME NEW n \in a .. e
      PROVE  Segment(scheme, d, L[n], a, n)
  BY <1>6
<1> QED
  BY <1>7 DEF a, e, L

\* The graph of a device is well formed: its modules find their inputs, the
\* synced ones are gated and separated, the groups contain the device, the
\* clocks come together again, gate_update is in a layer of the model, and the
\* hop to the next stage is the last entry.
WellFormed(scheme, d, g) ==
  /\ g \in Seq(Entries)
  /\ Len(g) >= 1
  /\ Fed(g, g[1].input)
  /\ Gated(g, g[1].input)
  /\ Separated(g)
  /\ GroupsHold(scheme, d, g)
  /\ Reconverges(scheme, d, g)
  /\ \A k \in 1 .. Len(g) :
       /\ g[k].op = "gate_update" => g[k].layer \in 1 .. Len(scheme.moe)
       /\ g[k].op = "pipeline_stage" => k = Len(g)

\* The graph that LLM::forward builds is well formed on every device of every
\* layout: the number of layers, of stages and of devices and the kinds of the
\* layers are arbitrary.
THEOREM GraphsAreWellFormed ==
  ASSUME NEW scheme \in Layout, NEW d \in Devices
  PROVE  WellFormed(scheme, d, Graph(scheme, d))
<1> DEFINE a == StageStart(scheme, d)
           e == StageEnd(scheme, d)
           s == StageLayers(scheme, d)[e]
           hop == IF LastStage(scheme, d) THEN "lm_head" ELSE "pipeline_stage"
           tail == Local(hop, e + 1, "hidden", "out")
           g == Graph(scheme, d)
           n == Len(s)
           first == <<a + 1, "hidden">>
<1>1. a \in Nat /\ e \in Nat /\ a <= e /\ e <= Len(scheme.moe)
        /\ Len(scheme.moe) \in Nat
  BY StageBounds DEF Layout
<1>2. Segment(scheme, d, s, a, e)
  BY <1>1, StageSegments
<1>3. tail \in Entries
  <2>1. hop \in Operations /\ "hidden" \in TensorNames /\ "out" \in TensorNames
    BY DEF Operations, TensorNames
  <2> QED
    BY <1>1, <2>1, LocalType
<1>4. /\ tail.op = hop /\ tail.input = <<e + 1, "hidden">>
           /\ tail.output = <<e + 1, "out">>
      /\ hop \notin SyncedModules /\ hop \notin ExpertOps
           /\ hop # "gate_update" /\ hop # "sync__"
  BY DEF Local, Entry, SyncedModules, ExpertOps
<1>5. g = s \o << tail >>
  BY DEF Graph
<1> HIDE DEF a, e, s, hop, tail, g
<1>6. s \in Seq(Entries) /\ n \in Nat
  BY <1>2 DEF Segment
<1>7. /\ g \in Seq(Entries) /\ Len(g) = n + 1
      /\ \A k \in 1 .. n : g[k] = s[k]
      /\ g[n + 1] = tail
  BY <1>3, <1>5, <1>6
<1> HIDE DEF n
<1>8. \A k \in 1 .. n + 1 : k \in 1 .. n \/ k = n + 1
  BY <1>6
<1>9. g[1].input = first
  <2>1. CASE n = 0
    <3>1. ~(a < e)
      BY <1>2, <2>1 DEF Segment, n
    <3>2. a = e
      BY <1>1, <3>1
    <3> QED
      BY <1>4, <1>7, <2>1, <3>2
  <2>2. CASE n > 0
    <3>1. 1 \in 1 .. n
      BY <1>6, <2>2
    <3>2. s[1].input = first
      BY <1>2, <3>1 DEF Segment, Fed, n
    <3> QED
      BY <1>7, <3>1, <3>2
  <2> QED
    BY <1>6, <2>1, <2>2
<1> HIDE DEF first
<1>10. Fed(g, first)
  <2> SUFFICES ASSUME NEW k \in 1 .. n + 1, g[k].input # first
               PROVE  \E j \in 1 .. k - 1 : g[j].output = g[k].input
    BY <1>7 DEF Fed
  <2>1. CASE k \in 1 .. n
    <3>1. PICK j \in 1 .. k - 1 : s[j].output = s[k].input
      BY <1>2, <1>7, <2>1 DEF Segment, Fed, n, first
    <3>2. j \in 1 .. n
      BY <1>6, <2>1
    <3> QED
      BY <1>7, <2>1, <3>1, <3>2
  <2>2. CASE k = n + 1
    <3>1. a < e
      BY <1>1, <1>4, <1>7, <2>2 DEF first
    <3>2. PICK j \in 1 .. n : s[j].output = <<e + 1, "hidden">>
      BY <1>2, <3>1 DEF Segment, n
    <3>3. j \in 1 .. k - 1
      BY <1>6, <2>2
    <3> QED
      BY <1>4, <1>7, <2>2, <3>2, <3>3
  <2> QED
    BY <1>8, <2>1, <2>2
<1>11. \A k \in 1 .. n + 1 :
         g[k].op \in SyncedModules \/ g[k].op = "sync__" => k \in 1 .. n
  BY <1>4, <1>7, <1>8
<1>12. Gated(g, first)
  <2> SUFFICES ASSUME NEW k \in 1 .. n, g[k].op \in SyncedModules
               PROVE  /\ g[k].input # first
                      /\ \/ \A j \in 1 .. n + 1 :
                              g[j].output = g[k].input => j >= k - 1
                         \/ k > 1 /\ g[k].op # "sync__"
                              /\ g[k - 1].op = "sync__"
    BY <1>7, <1>11 DEF Gated
  <2>1. g[k] = s[k]
    BY <1>7
  <2>2. /\ s[k].input # first
        /\ \/ \A j \in 1 .. n : s[j].output = s[k].input => j >= k - 1
           \/ k > 1 /\ s[k].op # "sync__" /\ s[k - 1].op = "sync__"
    BY <1>2, <2>1 DEF Segment, Gated, n, first
  <2>3. CASE \A j \in 1 .. n : s[j].output = s[k].input => j >= k - 1
    <3>1. ASSUME NEW j \in 1 .. n + 1, g[j].output = s[k].input
          PROVE  j >= k - 1
      <4>1. CASE j \in 1 .. n
        BY <1>7, <2>3, <3>1, <4>1
      <4>2. CASE j = n + 1
        BY <1>6, <4>2
      <4> QED
        BY <1>8, <4>1, <4>2
    <3> QED
      BY <2>1, <2>2, <3>1
  <2>4. CASE k > 1 /\ s[k].op # "sync__" /\ s[k - 1].op = "sync__"
    <3>1. k - 1 \in 1 .. n
      BY <1>6, <2>4
    <3> QED
      BY <1>7, <2>1, <2>2, <2>4, <3>1
  <2> QED
    BY <2>2, <2>3, <2>4
<1>13. Separated(g)
  <2> SUFFICES ASSUME NEW k \in 1 .. n, NEW i \in 1 .. k - 1,
                      g[k].op \in SyncedModules, g[i].op \in SyncedModules,
                      g[i].input = g[k].input
               PROVE  \E h \in i + 1 .. k - 1 : g[h].op = "sync__"
    BY <1>7, <1>11 DEF Separated
  <2>1. i \in 1 .. n
    BY <1>6
  <2>2. PICK h \in i + 1 .. k - 1 : s[h].op = "sync__"
    BY <1>2, <1>7, <2>1 DEF Segment, Separated, n
  <2>3. h \in 1 .. n
    BY <1>6, <2>1
  <2> QED
    BY <1>7, <2>2, <2>3
<1>14. GroupsHold(scheme, d, g)
  <2> SUFFICES ASSUME NEW k \in 1 .. n
               PROVE  /\ g[k].op \in SyncedModules =>
                           d \in g[k].group
                             /\ g[k].group \subseteq StageGroup(scheme, d)
                      /\ g[k].op = "sync__"
                           => g[k].group = StageGroup(scheme, d)
    BY <1>7, <1>11 DEF GroupsHold
  <2> QED
    BY <1>2, <1>7 DEF Segment, GroupsHold, n
<1>15. Reconverges(scheme, d, g)
  <2> SUFFICES ASSUME NEW k \in 1 .. n + 1, Diverges(scheme, d, g[k])
               PROVE  \E h \in k + 1 .. n + 1 : g[h].op = "sync__"
    BY <1>7 DEF Reconverges
  <2>1. k \in 1 .. n
    BY <1>4, <1>7, <1>8 DEF Diverges
  <2>2. PICK h \in k + 1 .. n : s[h].op = "sync__"
    BY <1>2, <1>7, <2>1 DEF Segment, Reconverges, n
  <2>3. h \in 1 .. n /\ h \in k + 1 .. n + 1
    BY <1>6, <2>1
  <2> QED
    BY <1>7, <2>2, <2>3
<1>16. ASSUME NEW k \in 1 .. n + 1
       PROVE  /\ g[k].op = "gate_update" => g[k].layer \in 1 .. Len(scheme.moe)
              /\ g[k].op = "pipeline_stage" => k = n + 1
  <2>1. CASE k \in 1 .. n
    <3>1. s[k].op # "pipeline_stage" /\ s[k].layer \in a + 1 .. e
      BY <1>2, <2>1 DEF Segment, n
    <3> QED
      BY <1>1, <1>7, <2>1, <3>1
  <2>2. CASE k = n + 1
    BY <1>4, <1>7, <2>2
  <2> QED
    BY <1>8, <2>1, <2>2
<1>17. WellFormed(scheme, d, g)
  BY <1>6, <1>7, <1>9, <1>10, <1>12, <1>13, <1>14, <1>15, <1>16 DEF WellFormed
<1> QED
  BY <1>17 DEF g

----------------------------------------------------------------------------
(***************************************************************************)
(* Devices of one stage run the same modules in the same order, and where  *)
(* one awaits the other they await the same group: what makes a sync__ of  *)
(* one device the sync__ of its peers.                                     *)
(***************************************************************************)
\* The group of a member is the group.
LEMMA GroupsOfPeers ==
  ASSUME NEW scheme, NEW d \in Devices, NEW name,
         NEW m \in Group(scheme, d, name)
  PROVE  Group(scheme, m, name) = Group(scheme, d, name)
<1>1. ASSUME m \in TpGroup(scheme, d)
      PROVE  TpGroup(scheme, m) = TpGroup(scheme, d)
  BY <1>1 DEF TpGroup
<1>2. ASSUME m \in StageGroup(scheme, d)
      PROVE  StageGroup(scheme, m) = StageGroup(scheme, d)
  BY <1>2 DEF StageGroup
<1>3. ASSUME m \in ExpertGroup(scheme, d)
      PROVE  ExpertGroup(scheme, m) = ExpertGroup(scheme, d)
  <2>1. StageGroup(scheme, m) = StageGroup(scheme, d)
    BY <1>2, <1>3 DEF ExpertGroup
  <2> QED
    BY <1>3, <2>1 DEF ExpertGroup
<1>4. CASE name = "tp"
  BY <1>1, <1>4 DEF Group
<1>5. CASE name = "stage"
  BY <1>2, <1>5 DEF Group
<1>6. CASE name = "expert"
  BY <1>3, <1>6 DEF Group
<1>7. CASE name \notin {"tp", "stage", "expert"}
  BY <1>7 DEF Group
<1> QED
  BY <1>4, <1>5, <1>6, <1>7

\* Sequences s and t have the same modules, and where s waits for device m the
\* groups are the same.
Alike(m, s, t) ==
  /\ Len(s) = Len(t)
  /\ \A k \in 1 .. Len(s) :
       /\ s[k].op = t[k].op
       /\ s[k].layer = t[k].layer
       /\ s[k].input = t[k].input
       /\ s[k].output = t[k].output
       /\ m \in s[k].group => t[k].group = s[k].group

\* Alike sequences joined with alike ones are alike.
LEMMA AlikeJoin ==
  ASSUME NEW m, NEW s \in Seq(Entries), NEW t \in Seq(Entries), Alike(m, s, t),
         NEW u \in Seq(Entries), NEW v \in Seq(Entries), Alike(m, u, v)
  PROVE  Alike(m, s \o u, t \o v)
<1> DEFINE p == Len(s)
           q == Len(u)
           c == s \o u
           e == t \o v
<1>1. Len(t) = p /\ Len(v) = q /\ p \in Nat /\ q \in Nat
  BY DEF Alike
<1>2. /\ Len(c) = p + q /\ Len(e) = p + q
      /\ \A i \in 1 .. p : c[i] = s[i] /\ e[i] = t[i]
      /\ \A i \in p + 1 .. p + q :
           i - p \in 1 .. q /\ c[i] = u[i - p] /\ e[i] = v[i - p]
  <2>1. /\ Len(c) = p + q
        /\ \A i \in 1 .. p : c[i] = s[i]
        /\ \A i \in p + 1 .. p + q : i - p \in 1 .. q /\ c[i] = u[i - p]
    OBVIOUS
  <2>2. /\ Len(t \o v) = Len(t) + Len(v)
        /\ \A i \in 1 .. Len(t) : (t \o v)[i] = t[i]
        /\ \A i \in Len(t) + 1 .. Len(t) + Len(v) :
             (t \o v)[i] = v[i - Len(t)]
    OBVIOUS
  <2> QED BY <1>1, <2>1, <2>2
<1>3. \A i \in 1 .. p + q : i \in 1 .. p \/ i \in p + 1 .. p + q
  BY <1>1
<1> HIDE DEF p, q, c, e
<1>4. ASSUME NEW k \in 1 .. p + q
      PROVE  /\ c[k].op = e[k].op
             /\ c[k].layer = e[k].layer
             /\ c[k].input = e[k].input
             /\ c[k].output = e[k].output
             /\ m \in c[k].group => e[k].group = c[k].group
  <2>1. CASE k \in 1 .. p
    BY <1>2, <2>1 DEF Alike, p
  <2>2. CASE k \in p + 1 .. p + q
    <3>1. k - p \in 1 .. q /\ c[k] = u[k - p] /\ e[k] = v[k - p]
      BY <1>2, <2>2
    <3> QED
      BY <3>1 DEF Alike, q
  <2> QED
    BY <1>3, <2>1, <2>2
<1>5. Alike(m, c, e)
  BY <1>2, <1>4 DEF Alike
<1> QED
  BY <1>5 DEF c, e

\* A layer is alike on any two devices.
LEMMA LayersAlike ==
  ASSUME NEW scheme, NEW d \in Devices, NEW m \in Devices, NEW l \in Nat
  PROVE  Alike(m, LayerGraph(scheme, d, l), LayerGraph(scheme, m, l))
<1>1. ASSUME NEW s, NEW u, NEW t, NEW n, IsTable(scheme, d, l, s, t, n),
             IsTable(scheme, m, l, u, t, n)
      PROVE  Alike(m, s, u)
  <2>1. Len(s) = n /\ Len(u) = n
    BY <1>1 DEF IsTable
  <2>2. ASSUME NEW k \in 1 .. n
        PROVE  /\ s[k].op = u[k].op
               /\ s[k].layer = u[k].layer
               /\ s[k].input = u[k].input
               /\ s[k].output = u[k].output
               /\ m \in s[k].group => u[k].group = s[k].group
    <3>1. IsRow(scheme, d, l, s[k], t[k]) /\ IsRow(scheme, m, l, u[k], t[k])
      BY <1>1 DEF IsTable
    <3>2. s[k].group = Group(scheme, d, t[k].group)
            /\ u[k].group = Group(scheme, m, t[k].group)
      BY <3>1 DEF IsRow
    <3>3. m \in s[k].group => u[k].group = s[k].group
      BY <3>2, GroupsOfPeers
    <3> QED
      BY <3>1, <3>3 DEF IsRow
  <2> QED
    BY <2>1, <2>2 DEF Alike
<1>2. CASE scheme.moe[l]
  BY <1>1, <1>2, ExpertIs
<1>3. CASE ~scheme.moe[l]
  BY <1>1, <1>3, DenseIs
<1> QED
  BY <1>2, <1>3

\* Devices of one stage run the same modules on the same tensors, and where one
\* waits for the other both wait for the same group: no device of a stage can
\* be at a sync__ that its peers do not have.
THEOREM GraphsOfAStageAreAlike ==
  ASSUME NEW scheme \in Layout, NEW d \in Devices, NEW m \in Devices,
         Stage(scheme, m) = Stage(scheme, d)
  PROVE  Alike(m, Graph(scheme, d), Graph(scheme, m))
<1> DEFINE a == StageStart(scheme, d)
           e == StageEnd(scheme, d)
           L == StageLayers(scheme, d)
           M == StageLayers(scheme, m)
           P == {n \in Nat : Alike(m, L[n], M[n])}
           tail ==
             Local(IF LastStage(scheme, d) THEN "lm_head"
                   ELSE "pipeline_stage", e + 1, "hidden", "out")
<1>1. a \in Nat /\ e \in Nat /\ a <= e
  BY StageBounds
<1>2. LastStage(scheme, m) = LastStage(scheme, d)
  BY DEF LastStage
<1>3. StageStart(scheme, m) = a
  BY DEF StageStart
<1>4. StageEnd(scheme, m) = e
  BY <1>2, <1>3 DEF StageEnd
<1>5. L[a] = << >>
        /\ \A n \in a + 1 .. e : L[n] = L[n - 1] \o LayerGraph(scheme, d, n)
  BY StageLayersIs
<1>6. M[a] = << >>
        /\ \A n \in a + 1 .. e : M[n] = M[n - 1] \o LayerGraph(scheme, m, n)
  BY <1>3, <1>4, StageLayersIs
<1>7. \A n \in a .. e : L[n] \in Seq(Entries) /\ M[n] \in Seq(Entries)
  BY <1>3, <1>4, StageSegments DEF Segment
<1>8. /\ Graph(scheme, d) = L[e] \o << tail >>
      /\ Graph(scheme, m) = M[e] \o << tail >>
  BY <1>2, <1>4 DEF Graph
<1>9. tail \in Entries
  <2>1. /\ {"lm_head", "pipeline_stage"} \subseteq Operations
        /\ "hidden" \in TensorNames /\ "out" \in TensorNames
    BY DEF Operations, TensorNames
  <2> QED
    BY <1>1, <2>1, LocalType
<1>10. tail.group = {}
  BY DEF Local, Entry
<1> HIDE DEF a, e, L, M, tail
<1>11. a \in P
  <2>1. Alike(m, << >>, << >>)
    BY DEF Alike
  <2> QED
    BY <1>1, <1>5, <1>6, <2>1
<1>12. ASSUME NEW n \in a .. e - 1, n \in P
       PROVE  n + 1 \in P
  <2>1. n + 1 \in a + 1 .. e /\ (n + 1) - 1 = n /\ n \in a .. e
          /\ n + 1 \in Nat \ {0}
    BY <1>1
  <2>2. /\ L[n + 1] = L[n] \o LayerGraph(scheme, d, n + 1)
        /\ M[n + 1] = M[n] \o LayerGraph(scheme, m, n + 1)
    BY <1>5, <1>6, <2>1
  <2>3. /\ LayerGraph(scheme, d, n + 1) \in Seq(Entries)
        /\ LayerGraph(scheme, m, n + 1) \in Seq(Entries)
    BY <2>1, LayerSegment DEF Segment
  <2>4. Alike(m, LayerGraph(scheme, d, n + 1), LayerGraph(scheme, m, n + 1))
    BY <2>1, LayersAlike
  <2>5. Alike(m, L[n], M[n]) /\ L[n] \in Seq(Entries) /\ M[n] \in Seq(Entries)
    BY <1>7, <1>12, <2>1
  <2>6. Alike(m, L[n + 1], M[n + 1])
    BY <2>2, <2>3, <2>4, <2>5, AlikeJoin
  <2> QED
    BY <2>1, <2>6
<1>13. P \in SUBSET Nat
  OBVIOUS
<1>14. Alike(m, L[e], M[e])
  <2> HIDE DEF P
  <2>1. \A n \in a .. e - 1 : n \in P => n + 1 \in P
    BY <1>12
  <2>2. a .. e \subseteq P
    BY <1>1, <1>11, <1>13, <2>1, Induction
  <2> QED
    BY <1>1, <2>2 DEF P
<1>15. Alike(m, << tail >>, << tail >>)
  BY DEF Alike
<1>16. << tail >> \in Seq(Entries) /\ L[e] \in Seq(Entries)
         /\ M[e] \in Seq(Entries)
  BY <1>1, <1>7, <1>9
<1> QED
  BY <1>8, <1>14, <1>15, <1>16, AlikeJoin

----------------------------------------------------------------------------
(***************************************************************************)
(* The execution of the graphs.                                            *)
(***************************************************************************)
\* The device has left module k of its graph.
Passed(d, k) == k < current_module[d]

\* The layout and the graphs are those the model was built with.
StaticOK ==
  /\ layout \in Layouts
  /\ module_graph = [d \in Devices |-> Graph(layout, d)]
  /\ load \in [{DpRank(layout, d) : d \in Devices} -> Loads]
  /\ expert_load \in [Devices -> ExpertLoads]

\* A device is somewhere in its graph or at its end.
ProgressOK ==
  /\ current_module \in [Devices -> Nat \ {0}]
  /\ \A d \in Devices : current_module[d] <= Len(module_graph[d]) + 1
  /\ turn \in 0 .. NumDevice
  /\ runs_left \in 0 .. Runs - 1
  /\ RunDone => \A d \in Devices : Finished(d)

\* The tokens are drawn for a layer of the model.
DrawOK == num_token_for \in 0 .. Len(layout.moe)

\* A tensor is ready when it is the input of the graph or the output of a
\* module the device has run, and then only.
ReadyIsMade ==
  /\ \A f \in ready : \E d \in Devices :
       \/ f = <<d, module_graph[d][1].input>>
       \/ \E k \in 1 .. current_module[d] - 1 :
            f = <<d, module_graph[d][k].output>>
  /\ \A d \in Devices :
       /\ <<d, module_graph[d][1].input>> \in ready
       /\ \A k \in 1 .. current_module[d] - 1 :
            <<d, module_graph[d][k].output>> \in ready

\* A device that has left a synchronised module was not ahead of its group: the
\* others have come to the module, or, when its input is an old one, stand at
\* the Sync before it.
Near(d) ==
  \A k \in 1 .. current_module[d] - 1 :
    module_graph[d][k].op \in SyncedModules =>
      \A m \in module_graph[d][k].group :
        \/ current_module[m] >= k
        \/ /\ current_module[m] = k - 1
           /\ module_graph[d][k].op # "sync__"
           /\ module_graph[d][k - 1].op = "sync__"

NearOK == \A d \in Devices : Near(d)

\* One more device has left the module, which is still before device m.
Awaited(m, k) ==
  /\ k \in current_module[m] .. Len(module_graph[m])
  /\ module_graph[m][k].op \in SyncedModules
  /\ \E p \in module_graph[m][k].group : Passed(p, k)

\* A flag is up when the clock of the device has been set for a module that the
\* device has not run yet.
FlagsOK ==
  /\ \A f \in timeboard_synced :
       \E m \in Devices : \E k \in 1 .. Len(module_graph[m]) :
         Awaited(m, k) /\ f = <<m, module_graph[m][k].input>>
  /\ \A m \in Devices : \A k \in 1 .. Len(module_graph[m]) :
       Awaited(m, k) => <<m, module_graph[m][k].input>> \in timeboard_synced

\* A clock: the time, and the part of it that depends on the batch.
Pairs == Nat \X Nat

\* The histories begin at zero and are as long as the devices have come.
HistoryOK ==
  /\ device_time \in [Devices -> Nat]
  /\ device_time_dep \in [Devices -> Nat]
  /\ entered \in [Devices -> Seq(Pairs)]
  /\ left \in [Devices -> Seq(Pairs)]
  /\ \A d \in Devices : /\ Len(entered[d]) = current_module[d]
                        /\ Len(left[d]) = current_module[d] - 1
                        /\ entered[d][1] = <<0, 0>>

\* A clock is the one the device came to its module with, unless it has been
\* set to the one the group left the module with.
ClocksOK ==
  \A d \in Devices :
    /\ ~Awaited(d, current_module[d]) =>
         Clock(d) = entered[d][current_module[d]]
    /\ \A k \in 1 .. Len(module_graph[d]) : Awaited(d, k) =>
         \A p \in module_graph[d][k].group :
           Passed(p, k) => Clock(d) = left[p][k]

\* All devices leave a synchronised module with the same clock, the one that
\* the last of them came with.
LatestOK ==
  \A d \in Devices : \A k \in 1 .. current_module[d] - 1 :
    module_graph[d][k].op \in SyncedModules =>
      /\ \A m \in module_graph[d][k].group :
           /\ Passed(m, k) => left[m][k] = left[d][k]
           /\ current_module[m] >= k => entered[m][k][1] <= left[d][k][1]
      /\ \E m \in module_graph[d][k].group :
           current_module[m] >= k /\ left[d][k] = entered[m][k]

\* The clock after a module of the given cost.
Plus(clock, cost) == <<clock[1] + cost[1], clock[2] + cost[2]>>

\* From one module to the next, the clock grows by what the module costs.
StepsOK ==
  \A d \in Devices : \A k \in 1 .. current_module[d] - 1 :
    /\ module_graph[d][k].op \notin SyncedModules => left[d][k] = entered[d][k]
    /\ entered[d][k + 1] = Plus(left[d][k], Cost(d, module_graph[d][k]))

\* The hop is the last module of its graph.
HopOK ==
  pipeline_hop_time =
    [d \in Devices |->
       LET last == Len(module_graph[d])
       IN IF /\ current_module[d] = last + 1
             /\ module_graph[d][last].op = "pipeline_stage"
          THEN Cost(d, module_graph[d][last])[1] ELSE 0]

\* Of the time t, the hops h and what p stages save on the charge c to the batch
\* are only a part.  The charge alone may exceed the time.
Covered(p, t, c, h) == (p - 1) * c + p * h <= p * t

\* The clock of every device covers what is charged to it.
DepOK ==
  \A d \in Devices :
    Covered(layout.pp, device_time[d], device_time_dep[d],
            pipeline_hop_time[d])

----------------------------------------------------------------------------
(***************************************************************************)
(* The graphs.                                                             *)
(***************************************************************************)

\* The graph of a device has the form that is proved above.
LEMMA GraphOf ==
  ASSUME StaticOK, NEW d \in Devices
  PROVE  /\ layout \in Layout
         /\ module_graph[d] = Graph(layout, d)
         /\ WellFormed(layout, d, module_graph[d])
         /\ module_graph[d] \in Seq(Entries)
         /\ Len(module_graph[d]) \in Nat \ {0}
<1>1. layout \in Layout
  BY ModuleGraphAssumption DEF StaticOK
<1>2. module_graph[d] = Graph(layout, d)
  BY DEF StaticOK
<1>3. WellFormed(layout, d, module_graph[d])
  BY <1>1, <1>2, GraphsAreWellFormed
<1>4. module_graph[d] \in Seq(Entries) /\ Len(module_graph[d]) >= 1
  BY <1>3 DEF WellFormed
<1> QED
  BY <1>1, <1>2, <1>3, <1>4

\* The devices that a module of device d waits for run the same modules as d,
\* and wait for the same devices.
LEMMA Peers ==
  ASSUME StaticOK, NEW d \in Devices, NEW k \in 1 .. Len(module_graph[d]),
         module_graph[d][k].op \in SyncedModules,
         NEW m \in module_graph[d][k].group
  PROVE  /\ m \in Devices
         /\ Len(module_graph[m]) = Len(module_graph[d])
         /\ \A j \in 1 .. Len(module_graph[d]) :
              /\ module_graph[m][j].op = module_graph[d][j].op
              /\ module_graph[m][j].layer = module_graph[d][j].layer
              /\ module_graph[m][j].input = module_graph[d][j].input
              /\ module_graph[m][j].output = module_graph[d][j].output
         /\ module_graph[m][k].group = module_graph[d][k].group
         /\ d \in module_graph[d][k].group
         /\ \A j \in 1 .. Len(module_graph[d]) :
              module_graph[d][j].op = "sync__" =>
                /\ m \in module_graph[d][j].group
                /\ d \in module_graph[d][j].group
                /\ module_graph[m][j].group = module_graph[d][j].group
<1>1. GroupsHold(layout, d, module_graph[d])
  BY GraphOf DEF WellFormed
<1>2. /\ d \in module_graph[d][k].group
      /\ m \in StageGroup(layout, d)
  BY <1>1 DEF GroupsHold
<1>3. m \in Devices /\ Stage(layout, m) = Stage(layout, d)
  BY <1>2 DEF StageGroup
<1>4. Alike(m, module_graph[d], module_graph[m])
  BY <1>3, GraphOf, GraphsOfAStageAreAlike
<1>5. \A j \in 1 .. Len(module_graph[d]) :
        module_graph[d][j].op = "sync__" =>
          module_graph[d][j].group = StageGroup(layout, d)
  BY <1>1 DEF GroupsHold
<1>6. d \in StageGroup(layout, d)
  BY DEF StageGroup
<1> QED
  BY <1>2, <1>3, <1>4, <1>5, <1>6 DEF Alike

\* Dividing twice is dividing by the product.
LEMMA DivDiv ==
  ASSUME NEW n \in Nat, NEW a \in Nat \ {0}, NEW b \in Nat \ {0}
  PROVE  n \div (a * b) = (n \div a) \div b
<1> DEFINE q == n \div a
           r == n % a
           s == q \div b
           t == q % b
           c == a * b
           u == a * t + r
<1>1. n = a * q + r /\ q \in Nat /\ r \in 0 .. a - 1
  OBVIOUS
<1>2. q = b * s + t /\ s \in Nat /\ t \in 0 .. b - 1
  BY <1>1
<1>3. c \in Nat /\ c > 0
  OBVIOUS
<1> HIDE DEF q, r, s, t
<1>4. n = c * s + u
  <2>1. a * q = a * (b * s) + a * t
    BY <1>1, <1>2
  <2>2. a * (b * s) = c * s
    BY <1>2
  <2> QED
    BY <1>1, <1>2, <2>1, <2>2
<1>5. u \in 0 .. c - 1
  <2>1. a * t <= a * (b - 1)
    BY <1>2
  <2>2. a * (b - 1) = c - a
    OBVIOUS
  <2>3. a * t \in Nat
    BY <1>2
  <2> QED
    BY <1>1, <1>3, <2>1, <2>2, <2>3
<1> HIDE DEF c, u
<1>6. n \div c = s
  <2>1. (c * s + u) \div c = s
    BY <1>2, <1>3, <1>5
  <2> QED
    BY <1>4, <2>1
<1> QED
  BY <1>6 DEF c, s, q

\* Tensor-parallel peers run the same modules and serve the same replica.
LEMMA TpPeers ==
  ASSUME StaticOK, NEW d \in Devices, NEW m \in TpGroup(layout, d)
  PROVE  /\ m \in Devices
         /\ TpGroup(layout, m) = TpGroup(layout, d)
         /\ DpRank(layout, m) = DpRank(layout, d)
         /\ Len(module_graph[m]) = Len(module_graph[d])
         /\ \A j \in 1 .. Len(module_graph[d]) :
              /\ module_graph[m][j].op = module_graph[d][j].op
              /\ m \in module_graph[d][j].group =>
                   module_graph[m][j].group = module_graph[d][j].group
<1> DEFINE tp == layout.tp
           pp == layout.pp
<1>1. m \in Devices /\ m \div tp = d \div tp
  BY DEF TpGroup
<1>2. Stage(layout, m) = Stage(layout, d)
  BY <1>1 DEF Stage
<1>3. Alike(m, module_graph[d], module_graph[m])
  BY <1>1, <1>2, GraphOf, GraphsOfAStageAreAlike
<1>4. TpGroup(layout, m) = TpGroup(layout, d)
  BY <1>1 DEF TpGroup
<1>5. DpRank(layout, m) = DpRank(layout, d)
  <2>1. tp \in Nat \ {0} /\ pp \in Nat \ {0} /\ d \in Nat /\ m \in Nat
    BY <1>1, GraphOf, LLMGraphAssumption DEF Layout, Devices
  <2>2. d \div (tp * pp) = (d \div tp) \div pp
    BY <2>1, DivDiv
  <2>3. m \div (tp * pp) = (m \div tp) \div pp
    BY <2>1, DivDiv
  <2> QED
    BY <1>1, <2>2, <2>3 DEF DpRank
<1> QED
  BY <1>1, <1>3, <1>4, <1>5 DEF Alike

----------------------------------------------------------------------------
(***************************************************************************)
(* The start, and where the devices are in their graphs.                   *)
(***************************************************************************)
\* The constants are numbers, and there is a device and a run.
LEMMA NumDeviceIsNat == /\ NumDevice \in Nat \ {0}
                        /\ Devices = 0 .. NumDevice - 1
                        /\ Runs \in Nat \ {0}
BY LLMGraphAssumption, ModuleGraphAssumption DEF Devices

\* The graphs are built at the start, for one of the layouts.
LEMMA StaticInit == Init => StaticOK
BY DEF Init, StaticOK, ExpertLoadsOf

\* No step changes the layout or the graphs, and a run begins with loads of the
\* right type.
LEMMA StaticStep == StaticOK /\ [Next]_vars => StaticOK'
<1> SUFFICES ASSUME StaticOK, [Next]_vars
             PROVE  StaticOK'
  OBVIOUS
<1>1. CASE Forward \/ Yield
  BY <1>1 DEF Forward, Yield, StaticOK
<1>2. CASE Restart
  BY <1>2 DEF Restart, StaticOK, ExpertLoadsOf
<1>3. CASE Terminating \/ UNCHANGED vars
  BY <1>3 DEF Terminating, vars, StaticOK
<1> QED
  BY <1>1, <1>2, <1>3 DEF Next

\* A step of a device: its module was within its graph and its input ready.
LEMMA ForwardOf ==
  ASSUME StaticOK, ProgressOK, Forward,
         NEW d, d = turn, NEW k, k = current_module[d],
         NEW e, e = module_graph[d][k]
  PROVE  /\ d \in Devices
         /\ k \in 1 .. Len(module_graph[d])
         /\ k \in Nat
         /\ e \in Entries
         /\ CheckReady(d, e)
         /\ current_module' = [current_module EXCEPT ![d] = k + 1]
         /\ ready' = ready \union {<<d, e.output>>}
         /\ timeboard_synced' = SyncedFlags(d, e)
         /\ num_token_for' = IF Aggregates(d, e) THEN e.layer
                                                 ELSE num_token_for
         /\ turn' = turn /\ runs_left' = runs_left
         /\ layout' = layout /\ module_graph' = module_graph
         /\ load' = load /\ expert_load' = expert_load
         /\ current_module'[d] = k + 1
         /\ \A m \in Devices \ {d} : current_module'[m] = current_module[m]
         /\ \A m \in Devices : current_module'[m] >= current_module[m]
<1>1. /\ d \in Devices /\ ~Finished(d) /\ e = Current(d)
      /\ current_module \in [Devices -> Nat \ {0}]
  BY DEF Forward, ProgressOK, Current
<1>2. k \in Nat \ {0} /\ k <= Len(module_graph[d])
        /\ Len(module_graph[d]) \in Nat
  BY <1>1, GraphOf DEF Finished
<1>3. e \in Entries
  <2>1. module_graph[d] \in Seq(Entries) /\ k \in 1 .. Len(module_graph[d])
    BY <1>1, <1>2, GraphOf
  <2> QED
    BY <2>1
<1>4. /\ CheckReady(d, e)
      /\ current_module' = [current_module EXCEPT ![d] = @ + 1]
      /\ ready' = ready \union {<<d, e.output>>}
      /\ timeboard_synced' = SyncedFlags(d, e)
      /\ num_token_for' = IF Aggregates(d, e) THEN e.layer ELSE num_token_for
      /\ turn' = turn /\ runs_left' = runs_left
      /\ layout' = layout /\ module_graph' = module_graph
      /\ load' = load /\ expert_load' = expert_load
  BY <1>1 DEF Forward, Output
<1>5. current_module' = [current_module EXCEPT ![d] = k + 1]
  BY <1>4
<1>6. /\ current_module'[d] = k + 1
      /\ \A m \in Devices \ {d} : current_module'[m] = current_module[m]
      /\ \A m \in Devices : current_module'[m] >= current_module[m]
  BY <1>1, <1>5
<1> QED
  BY <1>1, <1>2, <1>3, <1>4, <1>5, <1>6

\* Every device starts at its first module.
LEMMA ProgressInit == Init => ProgressOK
<1> SUFFICES ASSUME Init
             PROVE  ProgressOK
  OBVIOUS
<1>1. current_module = [d \in Devices |-> 1] /\ turn = 0
        /\ runs_left = Runs - 1
  BY DEF Init, AtTheStart
<1>2. \A d \in Devices : Len(module_graph[d]) \in Nat
  BY StaticInit, GraphOf
<1> QED
  BY <1>1, <1>2, NumDeviceIsNat DEF ProgressOK, RunDone

\* A turn takes a device at most one module on, and a run begins only when all
\* have ended.
LEMMA ProgressStep == StaticOK /\ ProgressOK /\ [Next]_vars => ProgressOK'
<1> SUFFICES ASSUME StaticOK, ProgressOK, [Next]_vars
             PROVE  ProgressOK'
  OBVIOUS
<1>0. \A d \in Devices : Len(module_graph[d]) \in Nat
  BY GraphOf
<1>1. CASE Forward
  <2> DEFINE d == turn
             k == current_module[d]
             e == module_graph[d][k]
  <2>1. /\ d \in Devices
        /\ k \in 1 .. Len(module_graph[d])
        /\ current_module' = [current_module EXCEPT ![d] = k + 1]
        /\ turn' = turn /\ runs_left' = runs_left
        /\ module_graph' = module_graph
    BY <1>1, ForwardOf
  <2>2. turn' # NumDevice
    BY <2>1, NumDeviceIsNat
  <2> QED
    BY <1>0, <2>1, <2>2 DEF ProgressOK, RunDone
<1>2. CASE Yield
  <2>1. turn \in 0 .. NumDevice - 1
    BY <1>2, NumDeviceIsNat DEF Yield
  <2>2. /\ turn' \in 0 .. NumDevice
        /\ turn' = NumDevice => \A d \in Devices : Finished(d)
    BY <1>2, <2>1, NumDeviceIsNat DEF Yield, NextTurn
  <2> QED
    BY <1>2, <2>2 DEF Yield, ProgressOK, RunDone, Finished
<1>3. CASE Restart
  <2>1. /\ current_module' = [d \in Devices |-> 1] /\ turn' = 0
        /\ runs_left' = runs_left - 1 /\ runs_left > 0
        /\ module_graph' = module_graph
    BY <1>3 DEF Restart, AtTheStart
  <2> QED
    BY <1>0, <2>1, NumDeviceIsNat DEF ProgressOK, RunDone
<1>4. CASE Terminating \/ UNCHANGED vars
  BY <1>4 DEF Terminating, vars, ProgressOK, RunDone, Finished
<1> QED
  BY <1>1, <1>2, <1>3, <1>4 DEF Next

\* No expert layer has been drawn for at the start.
LEMMA DrawInit == Init => DrawOK
<1> SUFFICES ASSUME Init
             PROVE  DrawOK
  OBVIOUS
<1>1. Len(layout.moe) \in Nat
  BY ModuleGraphAssumption DEF Init, Layout
<1> QED
  BY <1>1 DEF Init, DrawOK

\* gate_update draws for the layer it is in.
LEMMA DrawStep == StaticOK /\ ProgressOK /\ DrawOK /\ [Next]_vars => DrawOK'
<1> SUFFICES ASSUME StaticOK, ProgressOK, DrawOK, [Next]_vars
             PROVE  DrawOK'
  OBVIOUS
<1>1. CASE Forward
  <2> DEFINE d == turn
             k == current_module[d]
             e == module_graph[d][k]
  <2>1. /\ d \in Devices
        /\ k \in 1 .. Len(module_graph[d])
        /\ num_token_for' = IF Aggregates(d, e) THEN e.layer
                                                ELSE num_token_for
        /\ layout' = layout
    BY <1>1, ForwardOf
  <2>2. e.op = "gate_update" => e.layer \in 1 .. Len(layout.moe)
    BY <2>1, GraphOf DEF WellFormed
  <2>3. Len(layout.moe) \in Nat
    BY <2>1, GraphOf DEF Layout
  <2> QED
    BY <2>1, <2>2, <2>3 DEF Aggregates, DrawOK
<1>2. CASE Yield \/ Restart \/ Terminating \/ UNCHANGED vars
  BY <1>2 DEF Yield, Restart, Terminating, vars, DrawOK
<1> QED
  BY <1>1, <1>2 DEF Next

----------------------------------------------------------------------------
(***************************************************************************)
(* Who waits for whom: a tensor becomes ready when its module has run, and *)
(* a synchronised module waits for those of its group.                     *)
(***************************************************************************)
\* At the start the inputs of the graphs are ready.
LEMMA ReadyInit == Init => ReadyIsMade
<1> SUFFICES ASSUME Init
             PROVE  ReadyIsMade
  OBVIOUS
<1>1. /\ current_module = [d \in Devices |-> 1]
      /\ ready = {<<d, module_graph[d][1].input>> : d \in Devices}
  BY DEF Init, AtTheStart, InputsOf
<1> QED
  BY <1>1 DEF ReadyIsMade

\* Running a module makes its output ready; a new run clears the flags and
\* makes the inputs ready again.
LEMMA ReadyStep ==
  StaticOK /\ ProgressOK /\ ReadyIsMade /\ [Next]_vars => ReadyIsMade'
<1> SUFFICES ASSUME StaticOK, ProgressOK, ReadyIsMade, [Next]_vars
             PROVE  ReadyIsMade'
  OBVIOUS
<1>0. current_module \in [Devices -> Nat \ {0}]
  BY DEF ProgressOK
<1>1. CASE Forward
  <2> DEFINE d == turn
             k == current_module[d]
             e == module_graph[d][k]
  <2>1. /\ d \in Devices
        /\ k \in Nat \ {0}
        /\ current_module' = [current_module EXCEPT ![d] = k + 1]
        /\ ready' = ready \union {<<d, e.output>>}
        /\ module_graph' = module_graph
    BY <1>0, <1>1, ForwardOf
  <2>2. \A m \in Devices : 1 .. current_module[m] - 1
                             \subseteq 1 .. current_module'[m] - 1
    BY <1>0, <2>1
  <2>3. k \in 1 .. current_module'[d] - 1
    BY <1>0, <2>1
  <2>4. \A m \in Devices : \A j \in 1 .. current_module'[m] - 1 :
          j \in 1 .. current_module[m] - 1 \/ (m = d /\ j = k)
    BY <1>0, <2>1
  <2>5. ASSUME NEW f \in ready'
        PROVE  \E m \in Devices :
                 \/ f = <<m, module_graph[m][1].input>>
                 \/ \E j \in 1 .. current_module'[m] - 1 :
                      f = <<m, module_graph[m][j].output>>
    <3>1. CASE f \in ready
      BY <2>2, <3>1 DEF ReadyIsMade
    <3>2. CASE f = <<d, e.output>>
      BY <2>1, <2>3, <3>2
    <3> QED
      BY <2>1, <3>1, <3>2
  <2>6. ASSUME NEW m \in Devices
        PROVE  /\ <<m, module_graph[m][1].input>> \in ready'
               /\ \A j \in 1 .. current_module'[m] - 1 :
                    <<m, module_graph[m][j].output>> \in ready'
    BY <2>1, <2>4 DEF ReadyIsMade
  <2> QED
    BY <2>1, <2>5, <2>6 DEF ReadyIsMade
<1>2. CASE Yield \/ Terminating \/ UNCHANGED vars
  BY <1>2 DEF Yield, Terminating, vars, ReadyIsMade
<1>3. CASE Restart
  <2>1. /\ current_module' = [d \in Devices |-> 1]
        /\ ready' = {<<d, module_graph[d][1].input>> : d \in Devices}
        /\ module_graph' = module_graph
    BY <1>3 DEF Restart, AtTheStart, InputsOf
  <2> QED
    BY <2>1 DEF ReadyIsMade
<1> QED
  BY <1>1, <1>2, <1>3 DEF Next

\* When a device may run a synchronised module, the others of the group have
\* come to it, or stand at the Sync before it.
LEMMA Arrived ==
  ASSUME StaticOK, ProgressOK, ReadyIsMade, NearOK,
         NEW d \in Devices, NEW k \in 1 .. Len(module_graph[d]),
         k = current_module[d],
         module_graph[d][k].op \in SyncedModules,
         CheckReady(d, module_graph[d][k]),
         NEW m \in module_graph[d][k].group
  PROVE  \/ current_module[m] >= k
         \/ /\ current_module[m] = k - 1
            /\ k - 1 \in 1 .. Len(module_graph[d])
            /\ module_graph[d][k].op # "sync__"
            /\ module_graph[d][k - 1].op = "sync__"
<1> DEFINE g == module_graph[d]
           e == g[k]
<1>1. m \in Devices /\ Len(module_graph[m]) = Len(g)
  BY Peers
<1>2. \A j \in 1 .. Len(g) : /\ module_graph[m][j].input = g[j].input
                             /\ module_graph[m][j].output = g[j].output
  BY Peers
<1>3. /\ Len(g) \in Nat \ {0}
      /\ current_module[m] \in Nat \ {0}
      /\ current_module[m] <= Len(g) + 1
  BY <1>1, GraphOf DEF ProgressOK
<1>4. Gated(g, g[1].input)
  BY GraphOf DEF WellFormed
<1>5. <<m, e.input>> \in ready
  BY DEF CheckReady
<1>6. PICK j \in 1 .. current_module[m] - 1 :
        module_graph[m][j].output = e.input
  <2>1. e.input # g[1].input
    BY <1>4 DEF Gated
  <2>2. module_graph[m][1].input = g[1].input
    BY <1>2, <1>3
  <2> QED
    BY <1>5, <2>1, <2>2 DEF ReadyIsMade
<1>7. j \in 1 .. Len(g) /\ g[j].output = e.input /\ current_module[m] > j
  BY <1>2, <1>3, <1>6
<1>8. CASE j >= k - 1
  BY <1>3, <1>7, <1>8
<1>9. CASE ~(j >= k - 1)
  <2>1. k > 1 /\ e.op # "sync__" /\ g[k - 1].op = "sync__"
    BY <1>4, <1>7, <1>9 DEF Gated
  <2>2. k - 1 \in 1 .. Len(g) /\ k - 1 \in 1 .. current_module[d] - 1
    BY <1>3, <2>1
  <2>3. m \in g[k - 1].group
    BY <2>1, <2>2, Peers
  <2>4. current_module[m] >= k - 1
    BY <2>1, <2>2, <2>3 DEF NearOK, Near, SyncedModules
  <2> QED
    BY <1>3, <2>1, <2>2, <2>4
<1> QED
  BY <1>8, <1>9

\* At the start no device has left anything.
LEMMA NearInit == Init => NearOK
<1> SUFFICES ASSUME Init
             PROVE  NearOK
  OBVIOUS
<1>1. current_module = [d \in Devices |-> 1]
  BY DEF Init, AtTheStart
<1> QED
  BY <1>1 DEF NearOK, Near

\* A device that leaves a synchronised module has found its input ready on the
\* devices of the group, which are then at the module or right before it.
LEMMA NearStep ==
  StaticOK /\ ProgressOK /\ ReadyIsMade /\ NearOK /\ [Next]_vars => NearOK'
<1> SUFFICES ASSUME StaticOK, ProgressOK, ReadyIsMade, NearOK, [Next]_vars
             PROVE  NearOK'
  OBVIOUS
<1>0. current_module \in [Devices -> Nat \ {0}]
  BY DEF ProgressOK
<1>1. CASE Forward
  <2> DEFINE d == turn
             k == current_module[d]
             g == module_graph[d]
  <2>1. /\ d \in Devices
        /\ k \in 1 .. Len(g)
        /\ CheckReady(d, g[k])
        /\ module_graph' = module_graph
        /\ current_module'[d] = k + 1
        /\ \A m \in Devices \ {d} : current_module'[m] = current_module[m]
        /\ \A m \in Devices : current_module'[m] >= current_module[m]
    BY <1>1, ForwardOf
  <2>2. \A m \in Devices : current_module'[m] \in Nat
    BY <1>0, <2>1
  <2>3. ASSUME NEW p \in Devices, NEW j \in 1 .. current_module'[p] - 1,
               module_graph[p][j].op \in SyncedModules,
               NEW m \in module_graph[p][j].group
        PROVE  \/ current_module'[m] >= j
               \/ /\ current_module'[m] = j - 1
                  /\ module_graph[p][j].op # "sync__"
                  /\ module_graph[p][j - 1].op = "sync__"
    <3>1. j \in 1 .. current_module[p] - 1 \/ (p = d /\ j = k)
      BY <1>0, <2>1
    <3>2. m \in Devices
      <4>1. j \in 1 .. Len(module_graph[p])
        <5>1. CASE p = d /\ j = k
          BY <2>1, <5>1
        <5>2. CASE j \in 1 .. current_module[p] - 1
          <6>1. PICK c \in Nat : c = current_module[p]
            BY <1>0
          <6>2. PICK n \in Nat : n = Len(module_graph[p])
            BY GraphOf
          <6>3. c <= n + 1
            BY <6>1, <6>2 DEF ProgressOK
          <6> QED
            BY <5>2, <6>1, <6>2, <6>3
        <5> QED
          BY <3>1, <5>1, <5>2
      <4> QED
        BY <2>3, <4>1, Peers, SMTT(30)
    <3>3. \/ current_module[m] >= j
          \/ /\ current_module[m] = j - 1
             /\ module_graph[p][j].op # "sync__"
             /\ module_graph[p][j - 1].op = "sync__"
      <4>1. CASE j \in 1 .. current_module[p] - 1
        BY <2>3, <4>1 DEF NearOK, Near
      <4>2. CASE p = d /\ j = k
        BY <2>1, <2>3, <4>2, Arrived
      <4> QED
        BY <3>1, <4>1, <4>2
    <3>4. current_module'[m] >= current_module[m] /\ current_module'[m] \in Nat
      BY <2>1, <2>2, <3>2
    <3> QED
      BY <1>0, <3>2, <3>3, <3>4
  <2> QED
    BY <2>1, <2>3 DEF NearOK, Near
<1>2. CASE Yield \/ Terminating \/ UNCHANGED vars
  BY <1>2 DEF Yield, Terminating, vars, NearOK, Near
<1>3. CASE Restart
  <2>1. current_module' = [d \in Devices |-> 1]
    BY <1>3 DEF Restart, AtTheStart
  <2> QED
    BY <2>1 DEF NearOK, Near
<1> QED
  BY <1>1, <1>2, <1>3 DEF Next

----------------------------------------------------------------------------
(***************************************************************************)
(* The devices do not wait for one another in a circle: of those that are  *)
(* not done, one that has come least far finds its input ready.            *)
(***************************************************************************)
SomeDeviceCanRun ==
  \/ \A d \in Devices : Finished(d)
  \/ \E d \in Devices : ~Finished(d) /\ CheckReady(d, Current(d))

\* A device has made ready what a module at or before its own takes.
LEMMA InputIsReady ==
  ASSUME StaticOK, ProgressOK, ReadyIsMade, NEW d \in Devices,
         NEW k \in 1 .. Len(module_graph[d]), k <= current_module[d]
  PROVE  <<d, module_graph[d][k].input>> \in ready
<1> DEFINE g == module_graph[d]
<1>1. g[k].input = g[1].input \/ \E j \in 1 .. k - 1 : g[j].output = g[k].input
  BY GraphOf DEF WellFormed, Fed
<1>2. ASSUME NEW j \in 1 .. k - 1
      PROVE  <<d, g[j].output>> \in ready
  <2>1. j \in 1 .. current_module[d] - 1
    BY GraphOf DEF ProgressOK
  <2> QED
    BY <2>1 DEF ReadyIsMade
<1> QED
  BY <1>1, <1>2 DEF ReadyIsMade

\* Among the devices that are not done, one that has come least far can run its
\* module.
LEMMA LeastCanRun ==
  ASSUME StaticOK, ProgressOK, ReadyIsMade
  PROVE  SomeDeviceCanRun
<1> DEFINE U == {m \in Devices : ~Finished(m)}
           C == {current_module[m] : m \in U}
<1> SUFFICES ASSUME U # {}
             PROVE  \E d \in U : CheckReady(d, Current(d))
  BY DEF SomeDeviceCanRun
<1>1. C \in SUBSET Nat /\ C # {}
  BY DEF ProgressOK
<1>2. PICK n \in C : \A i \in C : ~(<<i, n>> \in OpToRel(<, Nat))
  BY <1>1, NatLessThanWellFounded, WFMin
<1>3. PICK d \in U : current_module[d] = n
  BY <1>2
<1>4. ASSUME NEW m \in U
      PROVE  current_module[m] >= n
  <2>1. current_module[m] \in C /\ current_module[m] \in Nat /\ n \in Nat
    BY <1>1, <1>2
  <2>2. ~(current_module[m] < n)
    BY <1>2, <2>1, Zenon DEF OpToRel
  <2> QED
    BY <2>1, <2>2
<1>5. n \in 1 .. Len(module_graph[d])
  BY <1>3, GraphOf DEF Finished, ProgressOK
<1>6. CASE Current(d).op \notin SyncedModules
  <2>1. <<d, Current(d).input>> \in ready
    BY <1>3, <1>5, InputIsReady DEF Current
  <2> QED
    BY <1>3, <1>6, <2>1 DEF CheckReady
<1>7. CASE Current(d).op \in SyncedModules
  <2>1. ASSUME NEW m \in Current(d).group
        PROVE  <<m, Current(d).input>> \in ready
    <3>1. /\ m \in Devices
          /\ Len(module_graph[m]) = Len(module_graph[d])
          /\ module_graph[m][n].input = Current(d).input
      BY <1>3, <1>5, <1>7, Peers DEF Current
    <3>2. n <= current_module[m]
      <4>1. CASE m \in U
        BY <1>1, <1>4, <3>1, <4>1 DEF ProgressOK
      <4>2. CASE m \notin U
        BY <1>5, <3>1, <4>2, GraphOf DEF ProgressOK, Finished
      <4> QED
        BY <4>1, <4>2
    <3>3. n \in 1 .. Len(module_graph[m])
      BY <1>5, <3>1
    <3> QED
      BY <3>1, <3>2, <3>3, InputIsReady
  <2> QED
    BY <1>3, <1>7, <2>1 DEF CheckReady
<1> QED
  BY <1>6, <1>7

----------------------------------------------------------------------------
(***************************************************************************)
(* The flags.                                                              *)
(***************************************************************************)

\* Of the modules with the same input, a device is awaited at its current one
\* only: a Sync lies between any two of them.
LEMMA OneAwaited ==
  ASSUME StaticOK, ProgressOK, NearOK,
         NEW d \in Devices, NEW k \in 1 .. Len(module_graph[d]),
         k = current_module[d],
         module_graph[d][k].op \in SyncedModules,
         NEW j \in 1 .. Len(module_graph[d]), Awaited(d, j),
         module_graph[d][j].input = module_graph[d][k].input
  PROVE  j = k
<1> DEFINE g == module_graph[d]
<1> SUFFICES ASSUME j # k
             PROVE  FALSE
  OBVIOUS
<1>1. Len(g) \in Nat /\ k \in Nat /\ j \in Nat /\ k <= j
  BY GraphOf DEF Awaited
<1>2. k \in 1 .. j - 1 /\ g[j].op \in SyncedModules
  BY <1>1 DEF Awaited
<1>3. Separated(g)
  BY GraphOf DEF WellFormed
<1>4. PICK b \in k + 1 .. j - 1 : g[b].op = "sync__"
  BY <1>2, <1>3 DEF Separated
<1>5. PICK p \in g[j].group : Passed(p, j)
  BY DEF Awaited
<1>6. b \in 1 .. Len(g) /\ b > k
  BY <1>1, <1>4
<1>7. /\ p \in Devices
      /\ module_graph[p][b].op = "sync__"
      /\ d \in module_graph[p][b].group
  BY <1>2, <1>4, <1>5, <1>6, Peers, SMTT(30)
<1>8. b \in 1 .. current_module[p] - 1
  BY <1>1, <1>4, <1>5, <1>7 DEF Passed, ProgressOK
<1>9. current_module[d] >= b
  BY <1>7, <1>8 DEF NearOK, Near, SyncedModules
<1> QED
  BY <1>1, <1>6, <1>9

\* A device that looks at its flag learns whether it is awaited.
LEMMA FlagTells ==
  ASSUME StaticOK, ProgressOK, NearOK, FlagsOK,
         NEW d \in Devices, NEW k \in 1 .. Len(module_graph[d]),
         k = current_module[d],
         module_graph[d][k].op \in SyncedModules
  PROVE  Syncs(d, module_graph[d][k]) <=> ~Awaited(d, k)
<1>1. ASSUME <<d, module_graph[d][k].input>> \in timeboard_synced
      PROVE  Awaited(d, k)
  <2>1. PICK j \in 1 .. Len(module_graph[d]) :
          /\ Awaited(d, j)
          /\ module_graph[d][j].input = module_graph[d][k].input
    BY <1>1 DEF FlagsOK
  <2> QED
    BY <2>1, OneAwaited
<1>2. ASSUME Awaited(d, k)
      PROVE  <<d, module_graph[d][k].input>> \in timeboard_synced
  BY <1>2 DEF FlagsOK
<1> QED
  BY <1>1, <1>2 DEF Syncs

\* Those of a group that have not left the module are awaited together.
LEMMA AwaitedTogether ==
  ASSUME StaticOK, ProgressOK, NEW d \in Devices,
         NEW k \in 1 .. Len(module_graph[d]), Awaited(d, k),
         NEW m \in module_graph[d][k].group, ~Passed(m, k)
  PROVE  Awaited(m, k)
<1> DEFINE e == module_graph[d][k]
<1>1. /\ m \in Devices /\ Len(module_graph[m]) = Len(module_graph[d])
      /\ module_graph[m][k].op = e.op /\ module_graph[m][k].group = e.group
      /\ e.op \in SyncedModules
  BY Peers DEF Awaited
<1>2. k \in current_module[m] .. Len(module_graph[m])
  BY <1>1, GraphOf DEF ProgressOK, Passed
<1>3. \E p \in e.group : Passed(p, k)
  BY DEF Awaited
<1> QED
  BY <1>1, <1>2, <1>3 DEF Awaited

\* Who is awaited where, before and after a step of device d.
LEMMA AwaitedStep ==
  ASSUME StaticOK, ProgressOK, Forward, NEW d, d = turn,
         NEW k, k = current_module[d], NEW e, e = module_graph[d][k],
         NEW m \in Devices, NEW j \in 1 .. Len(module_graph[m])
  PROVE  Awaited(m, j)' <=>
           IF m = d THEN j # k /\ Awaited(d, j)
           ELSE \/ Awaited(m, j)
                \/ /\ e.op \in SyncedModules /\ m \in e.group
                   /\ j = k /\ ~Passed(m, k)
<1>1. /\ d \in Devices /\ k \in 1 .. Len(module_graph[d]) /\ k \in Nat
      /\ module_graph' = module_graph
      /\ current_module'[d] = k + 1
      /\ \A q \in Devices \ {d} : current_module'[q] = current_module[q]
  BY ForwardOf
<1>2. /\ \A q \in Devices : current_module[q] \in Nat
      /\ Len(module_graph[m]) \in Nat /\ j \in Nat
  BY GraphOf DEF ProgressOK
<1> DEFINE synced == module_graph[m][j].op \in SyncedModules
           group == module_graph[m][j].group
<1>3. synced => group \subseteq Devices
  BY Peers
<1>4. Awaited(m, j) <=> /\ current_module[m] <= j /\ synced
                        /\ \E p \in group : j < current_module[p]
  BY <1>2 DEF Awaited, Passed
<1>5. Awaited(m, j)' <=> /\ current_module'[m] <= j /\ synced
                         /\ \E p \in group : j < current_module'[p]
  <2>1. current_module'[m] \in Nat
    BY <1>1, <1>2
  <2> QED
    BY <1>1, <1>2, <2>1 DEF Awaited, Passed
<1>6. synced => \A p \in group :
        j < current_module'[p] <=> j < current_module[p] \/ (p = d /\ j = k)
  BY <1>1, <1>2, <1>3
<1>7. CASE m = d
  <2>1. current_module'[m] <= j <=> current_module[m] <= j /\ j # k
    BY <1>1, <1>2, <1>7
  <2> QED
    BY <1>4, <1>5, <1>6, <1>7, <2>1
<1>8. CASE m # d
  <2>1. current_module'[m] = current_module[m]
    BY <1>1, <1>8
  <2>2. synced /\ d \in group /\ j = k <=>
          e.op \in SyncedModules /\ m \in e.group /\ j = k
    <3>1. ASSUME synced, d \in group, j = k
          PROVE  e.op \in SyncedModules /\ m \in e.group
      BY <3>1, Peers
    <3>2. ASSUME e.op \in SyncedModules, m \in e.group, j = k
          PROVE  synced /\ d \in group
      BY <1>1, <3>2, Peers
    <3> QED
      BY <3>1, <3>2
  <2>3. Passed(m, k) <=> k < current_module[m]
    BY DEF Passed
  <2> QED
    BY <1>1, <1>2, <1>4, <1>5, <1>6, <1>8, <2>1, <2>2, <2>3
<1> QED
  BY <1>7, <1>8

\* At the start of a run, and at its end, nobody is awaited.
BetweenRuns == current_module = AtTheStart \/ \A d \in Devices : Finished(d)

NoneAwaited ==
  \A m \in Devices : \A k \in 1 .. Len(module_graph[m]) : ~Awaited(m, k)

\* Between runs no device is awaited.
LEMMA NobodyAwaited == StaticOK /\ ProgressOK /\ BetweenRuns => NoneAwaited
<1> SUFFICES ASSUME StaticOK, ProgressOK, BetweenRuns,
                    NEW m \in Devices, NEW k \in 1 .. Len(module_graph[m]),
                    Awaited(m, k)
             PROVE  FALSE
  BY DEF NoneAwaited
<1>1. /\ module_graph[m][k].op \in SyncedModules
      /\ k \in current_module[m] .. Len(module_graph[m])
  BY DEF Awaited
<1>2. PICK p \in module_graph[m][k].group : k < current_module[p]
  BY DEF Awaited, Passed
<1>3. p \in Devices
  BY <1>1, <1>2, Peers
<1>4. Len(module_graph[m]) \in Nat /\ current_module[m] \in Nat
  BY GraphOf DEF ProgressOK
<1>5. CASE current_module = AtTheStart
  BY <1>2, <1>3, <1>5 DEF AtTheStart
<1>6. CASE \A d \in Devices : Finished(d)
  <2>1. current_module[m] > Len(module_graph[m])
    BY <1>6 DEF Finished
  <2> QED
    BY <1>1, <1>4, <2>1
<1> QED
  BY <1>5, <1>6 DEF BetweenRuns

\* At the start no flag is up.
LEMMA FlagsInit == Init => FlagsOK
<1> SUFFICES ASSUME Init
             PROVE  FlagsOK
  OBVIOUS
<1>1. StaticOK /\ ProgressOK
  BY StaticInit, ProgressInit
<1>2. timeboard_synced = {} /\ BetweenRuns
  BY DEF Init, BetweenRuns
<1> QED
  BY <1>1, <1>2, NobodyAwaited DEF FlagsOK, NoneAwaited

\* A restart takes over the flags, of which none is up.
LEMMA RestartAwaits ==
  StaticOK /\ ProgressOK /\ FlagsOK /\ StaticOK' /\ ProgressOK' /\ Restart
    => /\ timeboard_synced = {}
       /\ timeboard_synced' = {}
       /\ NoneAwaited'
<1> SUFFICES ASSUME StaticOK, ProgressOK, FlagsOK, StaticOK', ProgressOK',
                    Restart
             PROVE  /\ timeboard_synced = {}
                    /\ timeboard_synced' = {}
                    /\ NoneAwaited'
  OBVIOUS
<1>1. BetweenRuns
  BY DEF Restart, ProgressOK, BetweenRuns
<1>2. NoneAwaited
  BY <1>1, NobodyAwaited
<1>3. timeboard_synced = {}
  BY <1>2 DEF FlagsOK, NoneAwaited
<1>4. BetweenRuns'
  BY DEF Restart, BetweenRuns
<1>5. (StaticOK /\ ProgressOK /\ BetweenRuns => NoneAwaited)'
  BY NobodyAwaited, PTL
<1> QED
  BY <1>3, <1>4, <1>5 DEF Restart

\* The first of a group to leave raises the flags of the others, and each
\* lowers its own when it leaves.
LEMMA FlagsStep ==
  StaticOK /\ ProgressOK /\ NearOK /\ FlagsOK /\ [Next]_vars => FlagsOK'
<1> SUFFICES ASSUME StaticOK, ProgressOK, NearOK, FlagsOK, [Next]_vars
             PROVE  FlagsOK'
  OBVIOUS
<1>1. CASE Forward
  <2> DEFINE d == turn
             k == current_module[d]
             g == module_graph[d]
             e == g[k]
  <2>1. /\ d \in Devices
        /\ k \in 1 .. Len(g)
        /\ module_graph' = module_graph
        /\ timeboard_synced' = SyncedFlags(d, e)
    BY <1>1, ForwardOf
  <2>2. \A m \in Devices : \A j \in 1 .. Len(module_graph[m]) :
          Awaited(m, j)' <=>
            IF m = d THEN j # k /\ Awaited(d, j)
            ELSE \/ Awaited(m, j)
                 \/ /\ e.op \in SyncedModules /\ m \in e.group
                    /\ j = k /\ ~Passed(m, k)
    BY <1>1, AwaitedStep
  <2>3. e.op \notin SyncedModules => ~Awaited(d, k)
    BY DEF Awaited
  <2>4. e.op \in SyncedModules =>
          /\ Syncs(d, e) <=> ~Awaited(d, k)
          /\ \A j \in 1 .. Len(g) :
               Awaited(d, j) /\ g[j].input = e.input => j = k
          /\ \A m \in e.group : /\ m \in Devices
                                /\ k \in 1 .. Len(module_graph[m])
                                /\ module_graph[m][k].input = e.input
    BY <2>1, FlagTells, OneAwaited, Peers
  <2>5. Awaited(d, k)
          <=> \E p \in e.group : e.op \in SyncedModules /\ Passed(p, k)
    BY <2>1, GraphOf DEF Awaited
  <2>6. Awaited(d, k) => \A m \in e.group : Passed(m, k) \/ Awaited(m, k)
    BY <2>1, AwaitedTogether
  <2> HIDE DEF d, k, g, e
  <2>7. ASSUME NEW f \in timeboard_synced'
        PROVE  \E m \in Devices : \E j \in 1 .. Len(module_graph[m]) :
                 Awaited(m, j)' /\ f = <<m, module_graph[m][j].input>>
    <3>1. CASE f \in timeboard_synced
      <4>1. PICK m \in Devices : \E j \in 1 .. Len(module_graph[m]) :
              Awaited(m, j) /\ f = <<m, module_graph[m][j].input>>
        BY <3>1 DEF FlagsOK
      <4>2. PICK j \in 1 .. Len(module_graph[m]) :
              Awaited(m, j) /\ f = <<m, module_graph[m][j].input>>
        BY <4>1
      <4>3. ~(m = d /\ j = k)
        BY <2>1, <2>3, <2>4, <2>7, <3>1, <4>2 DEF SyncedFlags, g, e
      <4> QED
        BY <2>2, <4>2, <4>3
    <3>2. CASE f \notin timeboard_synced
      <4>1. PICK m \in e.group \ {d} :
              Syncs(d, e) /\ e.op \in SyncedModules /\ f = <<m, e.input>>
        BY <2>1, <2>7, <3>2 DEF SyncedFlags
      <4>2. ~Passed(m, k)
        BY <2>4, <2>5, <4>1
      <4> QED
        BY <2>2, <2>4, <4>1, <4>2
    <3> QED
      BY <3>1, <3>2
  <2>8. ASSUME NEW m \in Devices, NEW j \in 1 .. Len(module_graph[m]),
               Awaited(m, j)'
        PROVE  <<m, module_graph[m][j].input>> \in timeboard_synced'
    <3>1. CASE Awaited(m, j)
      <4>1. <<m, module_graph[m][j].input>> \in timeboard_synced
        BY <3>1 DEF FlagsOK
      <4>2. m = d => j # k
        BY <2>2, <2>8
      <4> QED
        BY <2>1, <2>4, <3>1, <4>1, <4>2 DEF SyncedFlags, g
    <3>2. CASE ~Awaited(m, j)
      <4>1. /\ e.op \in SyncedModules /\ m \in e.group \ {d}
            /\ j = k /\ ~Passed(m, k)
        BY <2>2, <2>8, <3>2
      <4>2. Syncs(d, e)
        BY <2>4, <2>6, <3>2, <4>1
      <4> QED
        BY <2>1, <2>4, <4>1, <4>2 DEF SyncedFlags
    <3> QED
      BY <3>1, <3>2
  <2> QED
    BY <2>1, <2>7, <2>8 DEF FlagsOK
<1>2. CASE Yield \/ Terminating \/ UNCHANGED vars
  BY <1>2 DEF Yield, Terminating, vars, FlagsOK, Awaited, Passed
<1>3. CASE Restart
  <2>1. StaticOK' /\ ProgressOK'
    BY StaticStep, ProgressStep
  <2>2. timeboard_synced' = {} /\ NoneAwaited'
    BY <1>3, <2>1, RestartAwaits
  <2> QED
    BY <2>2 DEF FlagsOK, NoneAwaited
<1> QED
  BY <1>1, <1>2, <1>3 DEF Next

----------------------------------------------------------------------------
(***************************************************************************)
(* The clocks.                                                             *)
(***************************************************************************)

\* Among some devices, one has the largest value.
LEMMA LargestExists ==
  ASSUME NEW S \in SUBSET Devices, S # {}, NEW f \in [Devices -> Nat]
  PROVE  \E m \in S : \A q \in S : f[q] <= f[m]
<1> DEFINE P == {n \in Nat : S \cap (0 .. n) # {} =>
                   \E m \in S \cap (0 .. n) :
                     \A q \in S \cap (0 .. n) : f[q] <= f[m]}
<1>1. 0 \in P
  <2> SUFFICES ASSUME S \cap (0 .. 0) # {}
               PROVE  \E m \in S \cap (0 .. 0) :
                        \A q \in S \cap (0 .. 0) : f[q] <= f[m]
    OBVIOUS
  <2>1. 0 \in S /\ S \cap (0 .. 0) = {0}
    OBVIOUS
  <2>2. f[0] \in Nat
    BY <2>1
  <2> QED
    BY <2>1, <2>2
<1>2. ASSUME NEW n \in 0 .. (NumDevice - 1) - 1, n \in P
      PROVE  n + 1 \in P
  <2>1. n \in Nat /\ 0 .. n + 1 = (0 .. n) \union {n + 1}
    BY NumDeviceIsNat
  <2> SUFFICES ASSUME S \cap (0 .. n + 1) # {}
               PROVE  \E m \in S \cap (0 .. n + 1) :
                        \A q \in S \cap (0 .. n + 1) : f[q] <= f[m]
    BY <2>1
  <2>2. CASE S \cap (0 .. n) = {}
    <3>1. S \cap (0 .. n + 1) = {n + 1}
      BY <2>1, <2>2
    <3>2. f[n + 1] \in Nat
      BY <3>1
    <3> QED
      BY <3>1, <3>2
  <2>3. CASE S \cap (0 .. n) # {}
    <3>1. PICK m \in S \cap (0 .. n) : \A q \in S \cap (0 .. n) : f[q] <= f[m]
      BY <1>2, <2>3
    <3>2. CASE n + 1 \in S /\ f[m] <= f[n + 1]
      <4>1. f[n + 1] \in Nat /\ \A q \in S : f[q] \in Nat
        BY <3>2
      <4>2. \A q \in S \cap (0 .. n + 1) : f[q] <= f[n + 1]
        BY <2>1, <3>1, <3>2, <4>1
      <4> QED
        BY <2>1, <3>2, <4>2
    <3>3. CASE n + 1 \notin S \/ ~(f[m] <= f[n + 1])
      <4>1. \A q \in S : f[q] \in Nat
        OBVIOUS
      <4>2. \A q \in S \cap (0 .. n + 1) : f[q] <= f[m]
        BY <2>1, <3>1, <3>3, <4>1
      <4> QED
        BY <2>1, <3>1, <4>2
    <3> QED
      BY <3>2, <3>3
  <2> QED
    BY <2>2, <2>3
<1>3. 0 .. NumDevice - 1 \subseteq P
  <2>1. \A n \in 0 .. (NumDevice - 1) - 1 : n \in P => n + 1 \in P
    BY <1>2
  <2>2. P \in SUBSET Nat /\ NumDevice - 1 \in Nat
    BY NumDeviceIsNat
  <2> HIDE DEF P
  <2> QED
    BY <1>1, <2>1, <2>2, Induction
<1>4. S \cap (0 .. NumDevice - 1) = S
  BY NumDeviceIsNat
<1>5. NumDevice - 1 \in P
  <2>1. NumDevice - 1 \in 0 .. NumDevice - 1
    BY NumDeviceIsNat
  <2> QED
    BY <1>3, <2>1
<1> QED
  BY <1>4, <1>5

\* The clock that a synchronisation broadcasts is one of the group's, and no
\* other of them is later.
LEMMA LatestIs ==
  ASSUME HistoryOK, NEW S \in SUBSET Devices, S # {}
  PROVE  \E m \in S : /\ Latest(S) = Clock(m)
                      /\ \A q \in S : device_time[q] <= device_time[m]
<1> DEFINE L == {m \in S : \A q \in S : device_time[q] <= device_time[m]}
           id == [d \in Devices |-> d]
<1>1. L # {} /\ L \in SUBSET Devices
  BY LargestExists DEF HistoryOK
<1>2. id \in [Devices -> Nat]
  BY NumDeviceIsNat
<1>3. \E m \in L : \A q \in L : q <= m
  <2>1. \E m \in L : \A q \in L : id[q] <= id[m]
    BY <1>1, <1>2, LargestExists
  <2> QED
    BY <1>1, <2>1
<1> DEFINE last == CHOOSE m \in L : \A q \in L : q <= m
<1>4. last \in L
  BY <1>3
<1>5. Latest(S) = Clock(last)
  BY DEF Latest
<1> HIDE DEF last
<1> QED
  BY <1>4, <1>5

\* What is covered adds up.
LEMMA CoveredSum ==
  ASSUME NEW p \in Nat \ {0},
         NEW t \in Nat, NEW c \in Nat, NEW h \in Nat, Covered(p, t, c, h),
         NEW u \in Nat, NEW b \in Nat, NEW g \in Nat, Covered(p, u, b, g)
  PROVE  Covered(p, t + u, c + b, h + g)
<1>1. PICK q : q = p - 1
  OBVIOUS
<1>2. /\ p \in Nat /\ q \in Nat
      /\ q * c + p * h <= p * t /\ q * b + p * g <= p * u
  BY <1>1 DEF Covered
<1>3. /\ q * (c + b) = q * c + q * b
      /\ p * (h + g) = p * h + p * g
      /\ p * (t + u) = p * t + p * u
  BY <1>2
<1>4. /\ q * c \in Nat /\ q * b \in Nat /\ p * h \in Nat /\ p * g \in Nat
      /\ p * t \in Nat /\ p * u \in Nat
  BY <1>2
<1>5. q * (c + b) + p * (h + g) <= p * (t + u)
  BY <1>2, <1>3, <1>4
<1> QED
  BY <1>1, <1>5 DEF Covered

\* A charge that is a part of the time is covered.
LEMMA PartIsCovered ==
  ASSUME NEW p \in Nat \ {0}, NEW t \in Nat, NEW c \in Nat, c <= t
  PROVE  Covered(p, t, c, 0)
<1>1. PICK q : q = p - 1
  OBVIOUS
<1>2. q \in Nat /\ p \in Nat /\ p = q + 1
  BY <1>1
<1>3. q * c <= q * t /\ q * c \in Nat /\ q * t \in Nat
  BY <1>2
<1>4. p * t = q * t + t /\ p * 0 = 0
  BY <1>2
<1>5. q * c + p * 0 <= p * t
  BY <1>3, <1>4
<1> QED
  BY <1>1, <1>5 DEF Covered

\* What is charged for a cold expert is covered exactly.
LEMMA ColdIsCovered ==
  ASSUME NEW p \in Nat \ {0}, NEW t \in Nat
  PROVE  /\ t * (p - 1) \in Nat /\ t * p \in Nat
         /\ Covered(p, t * (p - 1), t * p, 0)
<1>1. PICK q : q = p - 1
  OBVIOUS
<1>2. q \in Nat /\ p \in Nat
  BY <1>1
<1>3. t * q \in Nat /\ t * p \in Nat
  BY <1>2
<1>4. q * (t * p) + p * 0 = p * (t * q)
  BY <1>2
<1>5. q * (t * p) + p * 0 <= p * (t * q)
  <2>1. p * (t * q) \in Nat
    BY <1>2
  <2> QED
    BY <1>4, <2>1
<1> QED
  BY <1>1, <1>3, <1>5 DEF Covered

\* A layout has at least one stage.
LEMMA StagesAre ==
  ASSUME StaticOK
  PROVE  layout.pp \in Nat \ {0}
BY ModuleGraphAssumption, NumDeviceIsNat DEF StaticOK, Layout

\* What a module's work costs covers what of it is charged to the batch.
LEMMA WorkType ==
  ASSUME NEW op, NEW n \in Nat
  PROVE  /\ Time(n) \in Nat
         /\ Work(op, n) \in Pairs
         /\ Work(op, n)[2] <= Work(op, n)[1]
<1>1. Time(n) \in Nat /\ n <= Time(n)
  BY DEF Time
<1>2. PICK c \in {0, n, Time(n)} : Work(op, n) = <<Time(n), c>>
  BY DEF Work
<1> QED
  BY <1>1, <1>2 DEF Pairs

\* So do the experts of a device, the cold ones exactly.
LEMMA ExpertWorkType ==
  ASSUME StaticOK, NEW l \in ExpertLoads
  PROVE  /\ ExpertWork(l) \in Pairs
         /\ Covered(layout.pp, ExpertWork(l)[1], ExpertWork(l)[2], 0)
<1>1. PICK p \in Nat \ {0} : p = layout.pp
  BY StagesAre
<1>2. PICK hot : hot = Work("expert_FFN", l.hot)
  OBVIOUS
<1>3. PICK t : t = Time(l.cold)
  OBVIOUS
<1>4. l.hot \in Nat /\ l.cold \in Nat
  BY ModuleGraphAssumption
<1>5. t \in Nat /\ hot \in Pairs /\ hot[2] <= hot[1]
  BY <1>2, <1>3, <1>4, WorkType
<1>6. hot[1] \in Nat /\ hot[2] \in Nat
  BY <1>5 DEF Pairs
<1>7. PICK a : a = t * (p - 1)
  OBVIOUS
<1>8. PICK c : c = t * p
  OBVIOUS
<1>9. a \in Nat /\ c \in Nat /\ Covered(p, a, c, 0)
  BY <1>5, <1>7, <1>8, ColdIsCovered
<1>10. Covered(p, hot[1], hot[2], 0)
  BY <1>5, <1>6, PartIsCovered
<1>11. Covered(p, hot[1] + a, hot[2] + c, 0 + 0)
  BY <1>6, <1>9, <1>10, CoveredSum
<1>12. ExpertWork(l) = <<hot[1] + a, hot[2] + c>>
  BY <1>1, <1>2, <1>3, <1>7, <1>8 DEF ExpertWork, ColdWork
<1>13. hot[1] + a \in Nat /\ hot[2] + c \in Nat
  BY <1>6, <1>9
<1> QED
  BY <1>1, <1>11, <1>12, <1>13 DEF Pairs

\* What a module costs: a time that covers what of it is charged to the batch; a
\* hop costs time only, and a Sync nothing.
LEMMA CostType ==
  ASSUME StaticOK, NEW d \in Devices, NEW e
  PROVE  /\ Cost(d, e) \in Pairs
         /\ Cost(d, e) = <<Cost(d, e)[1], Cost(d, e)[2]>>
         /\ Covered(layout.pp, Cost(d, e)[1], Cost(d, e)[2],
                    IF e.op = "pipeline_stage" THEN Cost(d, e)[1] ELSE 0)
         /\ e.op = "sync__" => Cost(d, e) = <<0, 0>>
<1>1. /\ load[DpRank(layout, d)] \in Nat
      /\ expert_load[d] \in ExpertLoads
      /\ expert_load[d].hot + expert_load[d].cold \in Nat
  <2>1. expert_load[d] \in ExpertLoads
    BY DEF StaticOK
  <2>2. expert_load[d] \in [hot : Nat, cold : Nat]
    BY <2>1, ModuleGraphAssumption
  <2>3. load[DpRank(layout, d)] \in Nat
    BY ModuleGraphAssumption DEF StaticOK
  <2> QED
    BY <2>1, <2>2, <2>3
<1>2. layout.pp \in Nat \ {0}
  BY StagesAre
<1>3. ASSUME NEW c \in Pairs, c[2] <= c[1]
      PROVE  c = <<c[1], c[2]>> /\ Covered(layout.pp, c[1], c[2], 0)
  <2>1. c[1] \in Nat /\ c[2] \in Nat /\ c = <<c[1], c[2]>>
    BY DEF Pairs
  <2> QED
    BY <1>2, <1>3, <2>1, PartIsCovered
<1>4. CASE e.op = "expert_FFN"
  <2>1. Cost(d, e) = ExpertWork(expert_load[d])
    BY <1>4 DEF Cost
  <2>2. /\ Cost(d, e) \in Pairs
        /\ Covered(layout.pp, Cost(d, e)[1], Cost(d, e)[2], 0)
    BY <1>1, <2>1, ExpertWorkType
  <2>3. Cost(d, e) = <<Cost(d, e)[1], Cost(d, e)[2]>>
    BY <2>2 DEF Pairs
  <2> QED
    BY <1>4, <2>2, <2>3
<1>5. CASE e.op \in {"moe_scatter", "moe_gather"}
  <2>1. Cost(d, e)
          = Work(e.op, expert_load[d].hot + expert_load[d].cold)
    BY <1>5 DEF Cost
  <2>2. Cost(d, e) \in Pairs /\ Cost(d, e)[2] <= Cost(d, e)[1]
    BY <1>1, <2>1, WorkType
  <2> QED
    BY <1>3, <1>5, <2>2
<1>6. CASE e.op \in {"sync__set", "sync__", "moe_route"}
  <2>1. Cost(d, e) = <<0, 0>>
    BY <1>6 DEF Cost
  <2>2. Cost(d, e) \in Pairs /\ Cost(d, e)[2] <= Cost(d, e)[1]
    BY <2>1 DEF Pairs
  <2> QED
    BY <1>3, <1>6, <2>1, <2>2
<1>7. CASE e.op = "pipeline_stage"
  <2>1. PICK t : t = Time(load[DpRank(layout, d)])
    OBVIOUS
  <2>2. Cost(d, e) = <<t, 0>>
    BY <1>7, <2>1 DEF Cost
  <2>3. t \in Nat
    BY <1>1, <2>1, WorkType
  <2>4. Covered(layout.pp, t, 0, t)
    <3>1. PICK p \in Nat \ {0} : p = layout.pp
      BY <1>2
    <3>2. (p - 1) * 0 = 0 /\ p * t \in Nat
      BY <2>3
    <3>3. (p - 1) * 0 + p * t <= p * t
      BY <3>2
    <3> QED
      BY <3>1, <3>3 DEF Covered
  <2> QED
    BY <1>7, <2>2, <2>3, <2>4 DEF Pairs
<1>8. CASE e.op \notin {"expert_FFN", "moe_scatter", "moe_gather", "sync__set",
                        "sync__", "moe_route", "pipeline_stage"}
  <2>1. Cost(d, e) = Work(e.op, load[DpRank(layout, d)])
    BY <1>8 DEF Cost
  <2>2. Cost(d, e) \in Pairs /\ Cost(d, e)[2] <= Cost(d, e)[1]
    BY <1>1, <2>1, WorkType
  <2> QED
    BY <1>3, <1>8, <2>2
<1> QED
  BY <1>4, <1>5, <1>6, <1>7, <1>8

\* A clock plus a cost is a clock.
LEMMA PlusType ==
  ASSUME NEW x \in Pairs, NEW y \in Pairs
  PROVE  /\ Plus(x, y) \in Pairs
         /\ Plus(x, y)[1] = x[1] + y[1] /\ Plus(x, y)[2] = x[2] + y[2]
         /\ Plus(x, <<0, 0>>) = x
BY DEF Plus, Pairs

\* The clocks after a step of device d: those its synchronisation leaves, and
\* its own grows by the module's cost.  The histories keep what they hold.
LEMMA ForwardClocks ==
  ASSUME StaticOK, ProgressOK, HistoryOK, Forward, NEW d, d = turn,
         NEW k, k = current_module[d], NEW e, e = module_graph[d][k],
         NEW clock, clock = Synced(d, e)
  PROVE  /\ clock \in [Devices -> Pairs]
         /\ device_time' \in [Devices -> Nat]
         /\ device_time_dep' \in [Devices -> Nat]
         /\ Clock(d)' = Plus(clock[d], Cost(d, e))
         /\ \A m \in Devices : m # d => Clock(m)' = clock[m]
         /\ entered' = [entered EXCEPT ![d] = Append(@, Clock(d)')]
         /\ left' = [left EXCEPT ![d] = Append(@, clock[d])]
<1>1. d \in Devices /\ k \in 1 .. Len(module_graph[d])
  BY ForwardOf
<1>2. \A m \in Devices : Clock(m) \in Pairs
  BY DEF HistoryOK, Clock, Pairs
<1>3. Syncs(d, e) => Latest(e.group) \in Pairs
  <2> SUFFICES ASSUME Syncs(d, e)
               PROVE  Latest(e.group) \in Pairs
    OBVIOUS
  <2>1. e.op \in SyncedModules
    BY DEF Syncs
  <2>2. e.group \subseteq Devices /\ d \in e.group
    BY <1>1, <2>1, GraphOf DEF WellFormed, GroupsHold, StageGroup
  <2> QED
    BY <1>2, <2>2, LatestIs
<1>4. clock \in [Devices -> Pairs]
  BY <1>2, <1>3 DEF Synced
<1> DEFINE cost == Cost(d, e)
           after == <<clock[d][1] + cost[1], clock[d][2] + cost[2]>>
<1>5. /\ device_time' =
           [m \in Devices |-> IF m = d THEN after[1] ELSE clock[m][1]]
      /\ device_time_dep' =
           [m \in Devices |-> IF m = d THEN after[2] ELSE clock[m][2]]
      /\ left' = [left EXCEPT ![d] = Append(@, clock[d])]
      /\ entered' = [entered EXCEPT ![d] = Append(@, after)]
  BY DEF Forward, Current
<1>6. cost \in Pairs
  BY <1>1, CostType
<1>7. after \in Pairs /\ after = Plus(clock[d], cost)
  BY <1>1, <1>4, <1>6 DEF Pairs, Plus
<1>8. \A m \in Devices : clock[m] = <<clock[m][1], clock[m][2]>>
                         /\ clock[m][1] \in Nat /\ clock[m][2] \in Nat
  BY <1>4 DEF Pairs
<1> HIDE DEF cost, after
<1>9. /\ device_time' \in [Devices -> Nat]
           /\ device_time_dep' \in [Devices -> Nat]
  BY <1>5, <1>7, <1>8 DEF Pairs
<1>10. Clock(d)' = after
  <2>1. after = <<after[1], after[2]>>
    BY <1>7 DEF Pairs
  <2> QED
    BY <1>1, <1>5, <2>1 DEF Clock
<1>11. \A m \in Devices : m # d => Clock(m)' = clock[m]
  BY <1>5, <1>8 DEF Clock
<1> QED
  BY <1>4, <1>5, <1>7, <1>9, <1>10, <1>11 DEF cost

\* Device d has added to its histories the clock it left module k with and the
\* one it has come to the next with.
Lengthened(d, k, clock) ==
  /\ \A m \in Devices : \A j \in 1 .. current_module[m] :
       entered'[m][j] = entered[m][j]
  /\ \A m \in Devices : \A j \in 1 .. current_module[m] - 1 :
       left'[m][j] = left[m][j]
  /\ entered'[d][k + 1] = Clock(d)'
  /\ left'[d][k] = clock[d]

\* A sequence with a value at its end.
LEMMA OneLonger ==
  ASSUME NEW T, NEW s \in Seq(T), NEW x \in T, NEW n \in Nat, Len(s) = n
  PROVE  /\ Append(s, x) \in Seq(T)
         /\ Len(Append(s, x)) = n + 1
         /\ \A j \in 1 .. n : Append(s, x)[j] = s[j]
         /\ Append(s, x)[n + 1] = x
OBVIOUS

\* Running a module adds one clock to each history of the device.
LEMMA Histories ==
  ASSUME StaticOK, ProgressOK, HistoryOK, Forward, NEW d, d = turn,
         NEW k, k = current_module[d], NEW e, e = module_graph[d][k],
         NEW clock, clock = Synced(d, e)
  PROVE  /\ entered' \in [Devices -> Seq(Pairs)]
         /\ left' \in [Devices -> Seq(Pairs)]
         /\ \A m \in Devices : /\ Len(entered'[m]) = current_module'[m]
                               /\ Len(left'[m]) = current_module'[m] - 1
                               /\ entered'[m][1] = <<0, 0>>
         /\ Lengthened(d, k, clock)
<1>1. /\ d \in Devices /\ k \in Nat
      /\ current_module'[d] = k + 1
      /\ \A m \in Devices \ {d} : current_module'[m] = current_module[m]
  BY ForwardOf
<1>2. /\ entered' = [entered EXCEPT ![d] = Append(@, Clock(d)')]
      /\ left' = [left EXCEPT ![d] = Append(@, clock[d])]
      /\ clock \in [Devices -> Pairs]
      /\ device_time' \in [Devices -> Nat]
      /\ device_time_dep' \in [Devices -> Nat]
  BY ForwardClocks
<1>3. Clock(d)' \in Pairs /\ clock[d] \in Pairs
  BY <1>1, <1>2 DEF Clock, Pairs
<1>4. /\ entered[d] \in Seq(Pairs) /\ left[d] \in Seq(Pairs)
      /\ Len(entered[d]) = k /\ Len(left[d]) = k - 1
  BY <1>1 DEF HistoryOK
<1> DEFINE c == Clock(d)'
<1>5. /\ entered'[d] = Append(entered[d], c)
           /\ left'[d] = Append(left[d], clock[d])
      /\ \A m \in Devices \ {d} :
           entered'[m] = entered[m] /\ left'[m] = left[m]
  BY <1>1, <1>2 DEF HistoryOK
<1> HIDE DEF c
<1>6. /\ Append(entered[d], c) \in Seq(Pairs)
      /\ Append(left[d], clock[d]) \in Seq(Pairs)
      /\ Len(Append(entered[d], c)) = k + 1
      /\ Len(Append(left[d], clock[d])) = k
      /\ \A j \in 1 .. k : Append(entered[d], c)[j] = entered[d][j]
      /\ \A j \in 1 .. k - 1 : Append(left[d], clock[d])[j] = left[d][j]
      /\ Append(entered[d], c)[k + 1] = c
      /\ Append(left[d], clock[d])[k] = clock[d]
  <2>1. c \in Pairs
    BY <1>3 DEF c
  <2> QED
    BY <1>1, <1>3, <1>4, <2>1, OneLonger
<1>7. entered' \in [Devices -> Seq(Pairs)] /\ left' \in [Devices -> Seq(Pairs)]
  <2>1. entered' = [entered EXCEPT ![d] = Append(entered[d], c)]
    BY <1>2 DEF c
  <2>2. left' = [left EXCEPT ![d] = Append(left[d], clock[d])]
    BY <1>2
  <2> QED
    BY <1>6, <2>1, <2>2 DEF HistoryOK
<1>8. \A m \in Devices : /\ Len(entered'[m]) = current_module'[m]
                         /\ Len(left'[m]) = current_module'[m] - 1
  <2>1. Len(entered'[d]) = k + 1 /\ Len(left'[d]) = k
    BY <1>5, <1>6
  <2>2. ASSUME NEW m \in Devices \ {d}
        PROVE  /\ Len(entered'[m]) = current_module'[m]
               /\ Len(left'[m]) = current_module'[m] - 1
    <3>1. /\ entered'[m] = entered[m] /\ left'[m] = left[m]
          /\ current_module'[m] = current_module[m]
      BY <1>1, <1>5
    <3>2. /\ Len(entered[m]) = current_module[m]
          /\ Len(left[m]) = current_module[m] - 1
      BY DEF HistoryOK
    <3> QED
      BY <3>1, <3>2
  <2> QED
    BY <1>1, <2>1, <2>2
<1>9. \A m \in Devices : \A j \in 1 .. current_module[m] :
        entered'[m][j] = entered[m][j]
  <2>1. \A j \in 1 .. k : entered'[d][j] = entered[d][j]
    BY <1>5, <1>6
  <2>2. \A m \in Devices \ {d} : entered'[m] = entered[m]
    BY <1>5
  <2> QED
    BY <2>1, <2>2
<1>10. \A m \in Devices : \A j \in 1 .. current_module[m] - 1 :
         left'[m][j] = left[m][j]
  <2>1. \A j \in 1 .. k - 1 : left'[d][j] = left[d][j]
    BY <1>5, <1>6
  <2>2. \A m \in Devices \ {d} : left'[m] = left[m]
    BY <1>5
  <2> QED
    BY <2>1, <2>2
<1>11. \A m \in Devices : entered'[m][1] = <<0, 0>>
  <2>1. \A m \in Devices : 1 \in 1 .. current_module[m]
    BY DEF ProgressOK
  <2> QED
    BY <1>9, <2>1 DEF HistoryOK
<1> QED
  BY <1>5, <1>6, <1>7, <1>8, <1>9, <1>10, <1>11 DEF c, Lengthened

\* The history of a device at the start.
LEMMA StartOfHistory ==
  ASSUME NEW E, NEW L, E = [d \in Devices |-> <<<<0, 0>>>>],
         L = [d \in Devices |-> <<>>]
  PROVE  /\ E \in [Devices -> Seq(Pairs)] /\ L \in [Devices -> Seq(Pairs)]
         /\ \A d \in Devices : /\ Len(E[d]) = 1 /\ E[d][1] = <<0, 0>>
                               /\ Len(L[d]) = 0
<1>1. <<0, 0>> \in Pairs
  BY DEF Pairs
<1>2. <<<<0, 0>>>> \in Seq(Pairs) /\ <<>> \in Seq(Pairs)
  BY <1>1
<1> QED
  BY <1>2

\* At the start a device has come to its first module at time zero.
LEMMA HistoryInit == Init => HistoryOK
<1> SUFFICES ASSUME Init
             PROVE  HistoryOK
  OBVIOUS
<1>1. /\ entered = [d \in Devices |-> <<<<0, 0>>>>]
      /\ left = [d \in Devices |-> <<>>]
      /\ device_time = [d \in Devices |-> 0]
      /\ device_time_dep = [d \in Devices |-> 0]
      /\ current_module = [d \in Devices |-> 1]
  BY DEF Init, Zero, AtTheStart
<1>2. /\ entered \in [Devices -> Seq(Pairs)]
      /\ left \in [Devices -> Seq(Pairs)]
      /\ \A d \in Devices : /\ Len(entered[d]) = 1 /\ Len(left[d]) = 0
                            /\ entered[d][1] = <<0, 0>>
  BY <1>1, StartOfHistory
<1> QED
  BY <1>1, <1>2 DEF HistoryOK

\* Running a module adds one pair to each history.
LEMMA HistoryStep ==
  StaticOK /\ ProgressOK /\ HistoryOK /\ [Next]_vars => HistoryOK'
<1> SUFFICES ASSUME StaticOK, ProgressOK, HistoryOK, [Next]_vars
             PROVE  HistoryOK'
  OBVIOUS
<1>1. CASE Forward
  <2>1. PICK d : d = turn
    OBVIOUS
  <2>2. PICK k : k = current_module[d]
    OBVIOUS
  <2>3. PICK e : e = module_graph[d][k]
    OBVIOUS
  <2>4. PICK clock : clock = Synced(d, e)
    OBVIOUS
  <2>5. device_time' \in [Devices -> Nat]
          /\ device_time_dep' \in [Devices -> Nat]
    BY <1>1, <2>1, <2>2, <2>3, <2>4, ForwardClocks
  <2>6. /\ entered' \in [Devices -> Seq(Pairs)]
        /\ left' \in [Devices -> Seq(Pairs)]
        /\ \A m \in Devices : /\ Len(entered'[m]) = current_module'[m]
                              /\ Len(left'[m]) = current_module'[m] - 1
                              /\ entered'[m][1] = <<0, 0>>
    BY <1>1, <2>1, <2>2, <2>3, <2>4, Histories
  <2> QED
    BY <2>5, <2>6 DEF HistoryOK
<1>2. CASE Yield \/ Terminating \/ UNCHANGED vars
  BY <1>2 DEF Yield, Terminating, vars, HistoryOK
<1>3. CASE Restart
  <2>1. /\ entered' = [d \in Devices |-> <<<<0, 0>>>>]
        /\ left' = [d \in Devices |-> <<>>]
        /\ device_time' = [d \in Devices |-> 0]
        /\ device_time_dep' = [d \in Devices |-> 0]
        /\ current_module' = [d \in Devices |-> 1]
    BY <1>3 DEF Restart, Zero, AtTheStart
  <2>2. /\ entered' \in [Devices -> Seq(Pairs)]
        /\ left' \in [Devices -> Seq(Pairs)]
        /\ \A d \in Devices : /\ Len(entered'[d]) = 1 /\ Len(left'[d]) = 0
                              /\ entered'[d][1] = <<0, 0>>
    BY <2>1, StartOfHistory
  <2> QED
    BY <2>1, <2>2 DEF HistoryOK
<1> QED
  BY <1>1, <1>2, <1>3 DEF Next

\* The invariants the clocks rest on.
OrderOK == StaticOK /\ ProgressOK /\ ReadyIsMade /\ NearOK /\ FlagsOK

TimesOK == HistoryOK /\ ClocksOK /\ LatestOK /\ StepsOK

\* Where a device finds the others when it synchronises: they have come to the
\* module and no further, with the clock they came with, or stand at the Sync
\* before it, which has given all of them the same clock.
LEMMA Gathered ==
  ASSUME OrderOK, TimesOK,
         NEW d \in Devices, NEW k \in 1 .. Len(module_graph[d]),
         k = current_module[d],
         CheckReady(d, module_graph[d][k]), Syncs(d, module_graph[d][k]),
         NEW q \in module_graph[d][k].group
  PROVE  /\ q \in Devices
         /\ ~Passed(q, k)
         /\ \/ /\ current_module[q] = k
               /\ Clock(q) = entered[q][k]
            \/ /\ current_module[q] = k - 1
               /\ k - 1 \in 1 .. Len(module_graph[d])
               /\ module_graph[d][k - 1].op = "sync__"
               /\ Awaited(q, k - 1)
         /\ k > 1 /\ module_graph[d][k - 1].op = "sync__"
              => Clock(q) = left[d][k - 1]
<1> DEFINE g == module_graph[d]
           e == g[k]
<1> USE DEF OrderOK, TimesOK
<1>1. e.op \in SyncedModules /\ ~Awaited(d, k)
  BY FlagTells DEF Syncs
<1>2. /\ q \in Devices
      /\ Len(module_graph[q]) = Len(g)
      /\ \A j \in 1 .. Len(g) : module_graph[q][j].op = g[j].op
      /\ module_graph[q][k].group = e.group
      /\ \A j \in 1 .. Len(g) : g[j].op = "sync__" =>
           /\ q \in g[j].group
           /\ d \in g[j].group
           /\ module_graph[q][j].group = g[j].group
  BY <1>1, Peers
<1>3. Len(g) \in Nat /\ k \in Nat \ {0} /\ current_module[q] \in Nat \ {0}
  BY <1>2, GraphOf DEF ProgressOK
<1>4. \A p \in e.group : ~Passed(p, k)
  BY <1>1, <1>3 DEF Awaited
<1>5. \/ current_module[q] = k
      \/ /\ current_module[q] = k - 1
         /\ k - 1 \in 1 .. Len(g)
         /\ g[k - 1].op = "sync__"
  <2>1. \/ current_module[q] >= k
        \/ /\ current_module[q] = k - 1
           /\ k - 1 \in 1 .. Len(g)
           /\ g[k - 1].op = "sync__"
    BY <1>1, Arrived
  <2> QED
    BY <1>3, <1>4, <2>1 DEF Passed
<1>6. ASSUME current_module[q] = k
      PROVE  Clock(q) = entered[q][k]
  <2>1. ~Awaited(q, k)
    BY <1>2, <1>4 DEF Awaited
  <2> QED
    BY <1>2, <1>6, <2>1 DEF ClocksOK
<1>7. ASSUME current_module[q] = k - 1, g[k - 1].op = "sync__",
             k - 1 \in 1 .. Len(g)
      PROVE  Awaited(q, k - 1) /\ Clock(q) = left[d][k - 1]
  <2>1. Passed(d, k - 1) /\ k - 1 \in current_module[q] .. Len(g)
    BY <1>3, <1>7 DEF Passed
  <2>2. Awaited(q, k - 1)
    BY <1>2, <1>7, <2>1 DEF Awaited, SyncedModules
  <2>3. Clock(q) = left[d][k - 1]
    BY <1>2, <1>7, <2>1, <2>2 DEF ClocksOK
  <2> QED
    BY <2>2, <2>3
<1>8. ASSUME current_module[q] = k, k > 1, g[k - 1].op = "sync__"
      PROVE  Clock(q) = left[d][k - 1]
  <2>1. /\ k - 1 \in 1 .. Len(g)
        /\ k - 1 \in 1 .. current_module[d] - 1
        /\ k - 1 \in 1 .. current_module[q] - 1
        /\ (k - 1) + 1 = k
    BY <1>3, <1>8
  <2>2. entered[q][k] = Plus(left[q][k - 1], Cost(q, module_graph[q][k - 1]))
    <3>1. entered[q][(k - 1) + 1]
            = Plus(left[q][k - 1], Cost(q, module_graph[q][k - 1]))
      BY <1>2, <2>1 DEF StepsOK
    <3> QED
      BY <2>1, <3>1
  <2>3. Cost(q, module_graph[q][k - 1]) = <<0, 0>>
    <3>1. module_graph[q][k - 1].op = "sync__"
      BY <1>2, <1>8, <2>1
    <3> QED
      BY <1>2, <3>1, CostType
  <2>4. left[q][k - 1] \in Pairs
    <3>1. left[q] \in Seq(Pairs) /\ Len(left[q]) = current_module[q] - 1
      BY <1>2 DEF HistoryOK
    <3> QED
      BY <2>1, <3>1
  <2>5. left[q][k - 1] = left[d][k - 1]
    BY <1>2, <1>8, <2>1 DEF LatestOK, Passed, SyncedModules
  <2> QED
    BY <1>6, <1>8, <2>2, <2>3, <2>4, <2>5, PlusType
<1> QED
  BY <1>2, <1>3, <1>4, <1>5, <1>6, <1>7, <1>8

\* A device at a Sync that is awaited one module later takes over the clock of
\* the Sync, which costs nothing.
LEMMA AheadOfIt ==
  ASSUME OrderOK, TimesOK, Forward, NEW d, d = turn,
         NEW k, k = current_module[d], NEW e, e = module_graph[d][k],
         NEW p \in Devices, NEW j \in 1 .. current_module[p] - 1,
         module_graph[p][j].op \in SyncedModules,
         d \in module_graph[p][j].group, k < j
  PROVE  /\ j = k + 1
         /\ Clock(d)' = Clock(d)
         /\ Clock(d) = left[p][j]
<1> USE DEF OrderOK, TimesOK
<1>1. /\ d \in Devices /\ k \in 1 .. Len(module_graph[d])
  BY ForwardOf
<1>2. j \in 1 .. Len(module_graph[p]) /\ j \in Nat /\ k \in Nat
  <2>1. /\ Len(module_graph[p]) \in Nat
        /\ current_module[p] \in Nat
        /\ current_module[p] <= Len(module_graph[p]) + 1
    BY GraphOf DEF ProgressOK
  <2> QED
    BY <1>1, <2>1
<1>3. k = j - 1 /\ module_graph[p][j - 1].op = "sync__"
  BY <1>2 DEF NearOK, Near
<1>4. j = k + 1 /\ k \in 1 .. Len(module_graph[p])
  BY <1>1, <1>2, <1>3
<1>5. /\ Len(module_graph[d]) = Len(module_graph[p])
      /\ e.op = "sync__"
      /\ module_graph[d][j].op \in SyncedModules
      /\ p \in module_graph[d][j].group
      /\ p \in e.group
  BY <1>1, <1>2, <1>3, <1>4, Peers
<1>6. Passed(p, k) /\ Passed(p, j)
  BY <1>2, <1>4 DEF Passed, ProgressOK
<1>7. Awaited(d, k) /\ Awaited(d, j)
  BY <1>1, <1>2, <1>4, <1>5, <1>6 DEF Awaited, SyncedModules
<1>8. ~Syncs(d, e)
  BY <1>1, <1>5, <1>7, FlagTells DEF SyncedModules
<1>9. Clock(d) = left[p][j]
  BY <1>1, <1>2, <1>5, <1>6, <1>7 DEF ClocksOK
<1>10. Clock(d)' = Clock(d)
  <2> DEFINE clock == Synced(d, e)
  <2>1. clock[d] = Clock(d)
    BY <1>1, <1>8 DEF Synced
  <2>2. Clock(d)' = Plus(clock[d], Cost(d, e))
    BY ForwardClocks
  <2>3. Cost(d, e) = <<0, 0>>
    BY <1>1, <1>5, CostType
  <2>4. Clock(d) \in Pairs
    BY <1>1 DEF HistoryOK, Clock, Pairs
  <2> QED
    BY <2>1, <2>2, <2>3, <2>4, PlusType
<1> QED
  BY <1>4, <1>9, <1>10

\* At the start every clock is zero.
LEMMA ClocksInit == Init => ClocksOK
<1> SUFFICES ASSUME Init, NEW d \in Devices
             PROVE  /\ Clock(d) = entered[d][current_module[d]]
                    /\ \A k \in 1 .. Len(module_graph[d]) : ~Awaited(d, k)
  BY DEF ClocksOK
<1>1. NoneAwaited
  BY StaticInit, ProgressInit, NobodyAwaited DEF Init, BetweenRuns
<1>2. /\ device_time[d] = 0 /\ device_time_dep[d] = 0
      /\ current_module[d] = 1 /\ entered[d][1] = <<0, 0>>
  BY DEF Init, Zero, AtTheStart
<1> QED
  BY <1>1, <1>2 DEF NoneAwaited, Clock

\* A device that runs a module leaves the clocks in order: its own has grown,
\* and those of the group it leaves first have been set.
LEMMA ClocksForward ==
  ASSUME OrderOK, TimesOK, Forward
  PROVE  ClocksOK'
<1> USE DEF OrderOK, TimesOK
<1>p. PICK d : d = turn
  OBVIOUS
<1>q. PICK k : k = current_module[d]
  OBVIOUS
<1>r. PICK g : g = module_graph[d]
  OBVIOUS
<1>s. PICK e : e = module_graph[d][k]
  OBVIOUS
<1>t. PICK clock : clock = Synced(d, e)
  OBVIOUS
<1>0. d = turn /\ k = current_module[d] /\ g = module_graph[d] /\ e = g[k]
  BY <1>p, <1>q, <1>r, <1>s
<1>1. /\ d \in Devices /\ k \in 1 .. Len(g) /\ k \in Nat
      /\ CheckReady(d, e)
      /\ module_graph' = module_graph
      /\ current_module'[d] = k + 1
      /\ \A m \in Devices \ {d} : current_module'[m] = current_module[m]
  BY <1>0, ForwardOf
<1>2. \A m \in Devices : m # d => Clock(m)' = clock[m]
  BY <1>0, <1>t, ForwardClocks
<1>3. /\ \A m \in Devices : \A j \in 1 .. current_module[m] :
           entered'[m][j] = entered[m][j]
      /\ \A m \in Devices : \A j \in 1 .. current_module[m] - 1 :
           left'[m][j] = left[m][j]
      /\ entered'[d][k + 1] = Clock(d)'
      /\ left'[d][k] = clock[d]
  <2>1. Lengthened(d, k, clock)
    BY <1>0, <1>t, Histories
  <2> QED
    BY <2>1 DEF Lengthened
<1>4. \A m \in Devices : \A j \in 1 .. Len(module_graph[m]) :
        Awaited(m, j)' <=>
          IF m = d THEN j # k /\ Awaited(d, j)
          ELSE \/ Awaited(m, j)
               \/ /\ e.op \in SyncedModules /\ m \in e.group
                  /\ j = k /\ ~Passed(m, k)
  BY <1>0, AwaitedStep
<1>5. \A m \in Devices : /\ current_module[m] \in Nat \ {0}
                         /\ Len(module_graph[m]) \in Nat
  BY GraphOf DEF ProgressOK
<1>6. \A m \in Devices : clock[m] = IF Syncs(d, e) /\ m \in e.group
                                    THEN Latest(e.group) ELSE Clock(m)
  BY <1>t DEF Synced
<1>7. ASSUME Syncs(d, e), NEW q \in e.group
      PROVE  /\ q \in Devices
             /\ ~Passed(q, k)
             /\ \/ current_module[q] = k
                \/ /\ current_module[q] = k - 1
                   /\ k - 1 \in 1 .. Len(g)
                   /\ g[k - 1].op = "sync__"
                   /\ Awaited(q, k - 1)
             /\ k > 1 /\ g[k - 1].op = "sync__" => Clock(q) = left[d][k - 1]
  BY <1>0, <1>1, <1>7, Gathered
<1>8. e.op \in SyncedModules => (Syncs(d, e) <=> ~Awaited(d, k))
  BY <1>0, <1>1, FlagTells
<1>9. ASSUME NEW m \in Devices, ~Awaited(m, current_module[m])'
      PROVE  Clock(m)' = entered'[m][current_module'[m]]
  <2>1. CASE m = d
    BY <1>1, <1>3, <2>1
  <2>2. CASE m # d
    <3>1. current_module'[m] = current_module[m]
      BY <1>1, <2>2
    <3> DEFINE j == current_module[m]
    <3>2. ~Awaited(m, j)
      <4>1. CASE j \in 1 .. Len(module_graph[m])
        BY <1>4, <1>9, <2>2, <3>1, <4>1
      <4>2. CASE j \notin 1 .. Len(module_graph[m])
        BY <1>5, <4>2 DEF Awaited
      <4> QED
        BY <4>1, <4>2
    <3>3. Clock(m) = entered[m][j]
      BY <3>2 DEF ClocksOK
    <3>4. entered'[m][j] = entered[m][j]
      BY <1>3, <1>5
    <3>5. ~(Syncs(d, e) /\ m \in e.group)
      <4> SUFFICES ASSUME Syncs(d, e), m \in e.group
                   PROVE  FALSE
        OBVIOUS
      <4>1. current_module[m] = k /\ ~Passed(m, k)
        BY <1>7, <3>2
      <4>2. e.op \in SyncedModules
        BY DEF Syncs
      <4>3. k \in 1 .. Len(module_graph[m])
        BY <1>0, <1>1, <4>2, Peers
      <4> QED
        BY <1>4, <1>9, <2>2, <3>1, <4>1, <4>2, <4>3
    <3> QED
      BY <1>2, <1>6, <2>2, <3>1, <3>3, <3>4, <3>5
  <2> QED
    BY <2>1, <2>2
<1>10. ASSUME NEW m \in Devices, NEW j \in 1 .. Len(module_graph[m]),
              Awaited(m, j)',
              NEW p \in module_graph[m][j].group, Passed(p, j)'
       PROVE  Clock(m)' = left'[p][j]
  <2>1. module_graph[m][j].op \in SyncedModules
    BY <1>1, <1>10 DEF Awaited
  <2>2. /\ p \in Devices
        /\ j \in 1 .. Len(module_graph[p])
        /\ module_graph[p][j].op \in SyncedModules
        /\ module_graph[p][j].group = module_graph[m][j].group
        /\ m \in module_graph[p][j].group
        /\ m \in module_graph[m][j].group
    BY <2>1, Peers
  <2>3. j < current_module'[p]
    BY <1>10 DEF Passed
  <2>4. \/ /\ Passed(p, j) /\ j \in 1 .. current_module[p] - 1
           /\ left'[p][j] = left[p][j]
        \/ p = d /\ j = k
    <3>1. j < current_module[p] \/ (p = d /\ j = k)
      BY <1>0, <1>1, <1>5, <2>2, <2>3
    <3>2. ASSUME j < current_module[p]
          PROVE  j \in 1 .. current_module[p] - 1
      BY <1>5, <2>2, <3>2
    <3> QED
      BY <1>3, <2>2, <3>1, <3>2 DEF Passed
  <2>5. CASE m = d
    <3>1. j # k /\ Awaited(d, j)
      BY <1>4, <1>10, <2>5
    <3>2. /\ j \in 1 .. current_module[p] - 1
          /\ left'[p][j] = left[p][j]
      BY <2>4, <3>1
    <3>3. k < j
      BY <1>0, <1>1, <1>5, <3>1 DEF Awaited
    <3>4. Clock(d)' = Clock(d) /\ Clock(d) = left[p][j]
      BY <1>0, <2>2, <2>5, <3>2, <3>3, AheadOfIt
    <3> QED
      BY <2>5, <3>2, <3>4
  <2>6. CASE m # d /\ Syncs(d, e) /\ m \in e.group
    <3>1. Clock(m)' = clock[d] /\ clock[d] = Latest(e.group)
      <4>1. d \in e.group
        BY <1>0, <1>1, <2>6, Peers DEF Syncs
      <4> QED
        BY <1>1, <1>2, <1>6, <2>6, <4>1
    <3>2. CASE j = k
      <4>1. p \in e.group
        BY <1>0, <1>1, <2>6, <3>2, Peers DEF Syncs
      <4>2. p = d
        BY <1>7, <2>4, <2>6, <4>1, <3>2
      <4> QED
        BY <1>3, <3>1, <3>2, <4>2
    <3>3. CASE j # k
      <4>1. Awaited(m, j)
        BY <1>4, <1>10, <2>6, <3>3
      <4>2. /\ Passed(p, j) /\ j \in 1 .. current_module[p] - 1
            /\ left'[p][j] = left[p][j]
        BY <2>4, <3>3
      <4>3. j \in Nat /\ current_module[m] \in Nat /\ j >= current_module[m]
        BY <1>5, <4>1 DEF Awaited
      <4>4. \/ current_module[m] >= j
            \/ /\ current_module[m] = j - 1
               /\ module_graph[p][j - 1].op = "sync__"
        BY <2>2, <4>2 DEF NearOK, Near
      <4>5. current_module[m] = k - 1 /\ j = k - 1
        <5> SUFFICES ASSUME current_module[m] = k
                     PROVE  FALSE
          BY <1>1, <1>7, <2>6, <3>3, <4>3, <4>4
        <5>1. j = k + 1 /\ module_graph[p][k].op = "sync__"
          BY <1>1, <3>3, <4>3, <4>4
        <5>2. k \in 1 .. Len(module_graph[p])
          BY <1>1, <1>5, <2>2, <5>1
        <5>3. p \in e.group
          <6>1. module_graph[m][k].group = e.group
            BY <1>0, <1>1, <2>6, Peers DEF Syncs
          <6>2. module_graph[m][k].group = module_graph[p][k].group
                /\ p \in module_graph[p][k].group
            BY <2>2, <5>1, <5>2, Peers
          <6> QED
            BY <6>1, <6>2
        <5>4. ~Passed(p, k)
          BY <1>7, <2>6, <5>3
        <5> QED
          BY <1>1, <1>5, <2>2, <4>2, <5>1, <5>4 DEF Passed
      <4>6. k - 1 \in 1 .. Len(g) /\ g[k - 1].op = "sync__" /\ k > 1
        BY <1>1, <1>7, <2>6, <4>5
      <4>7. /\ module_graph[m][k - 1].group = g[k - 1].group
            /\ p \in g[k - 1].group
        <5>1. module_graph[m][k - 1].group = g[k - 1].group
          BY <1>0, <1>1, <2>6, <4>6, Peers, SMTT(30) DEF Syncs
        <5> QED
          BY <4>5, <5>1
      <4>8. left[p][k - 1] = left[d][k - 1]
        <5>1. k - 1 \in 1 .. current_module[d] - 1
          BY <1>0, <1>1, <4>6
        <5> QED
          BY <1>0, <1>1, <4>2, <4>5, <4>6, <4>7, <5>1
             DEF LatestOK, SyncedModules
      <4>9. PICK q \in e.group : Latest(e.group) = Clock(q)
        <5>1. e.group \subseteq Devices
          BY <1>7, <2>6
        <5> QED
          BY <2>6, <5>1, LatestIs
      <4>10. Clock(q) = left[d][k - 1]
        BY <1>7, <2>6, <4>6, <4>9
      <4> QED
        BY <3>1, <4>2, <4>5, <4>8, <4>9, <4>10
    <3> QED
      BY <3>2, <3>3
  <2>7. CASE m # d /\ ~(Syncs(d, e) /\ m \in e.group)
    <3>1. Clock(m)' = Clock(m)
      BY <1>2, <1>6, <2>7
    <3>2. Awaited(m, j)
      <4> SUFFICES ASSUME ~Awaited(m, j)
                   PROVE  FALSE
        OBVIOUS
      <4>1. /\ e.op \in SyncedModules /\ m \in e.group
            /\ j = k /\ ~Passed(m, k)
        BY <1>4, <1>10, <2>7
      <4>2. Awaited(d, k)
        BY <1>8, <2>7, <4>1
      <4> QED
        BY <1>0, <1>1, <4>1, <4>2, AwaitedTogether
    <3>3. CASE Passed(p, j) /\ left'[p][j] = left[p][j]
      BY <3>1, <3>2, <3>3 DEF ClocksOK
    <3>4. CASE p = d /\ j = k
      <4>1. /\ e.op \in SyncedModules /\ m \in e.group
            /\ module_graph[m][k].group = e.group
        BY <1>0, <2>2, <3>4
      <4>2. Awaited(d, k)
        BY <1>8, <2>7, <4>1
      <4>3. PICK x \in e.group : Passed(x, k)
        BY <1>0, <4>2 DEF Awaited
      <4>4. Clock(d) = left[x][k]
        BY <1>0, <1>1, <4>2, <4>3 DEF ClocksOK
      <4>5. Clock(m) = left[x][k]
        BY <3>2, <3>4, <4>1, <4>3 DEF ClocksOK
      <4>6. clock[d] = Clock(d)
        BY <1>1, <1>6, <1>8, <4>1, <4>2
      <4> QED
        BY <1>3, <3>1, <3>4, <4>4, <4>5, <4>6
    <3> QED
      BY <2>4, <3>3, <3>4
  <2> QED
    BY <2>5, <2>6, <2>7
<1> QED
  BY <1>1, <1>9, <1>10 DEF ClocksOK

\* Every step leaves the clocks in order.
LEMMA ClocksStep == OrderOK /\ TimesOK /\ [Next]_vars => ClocksOK'
<1> SUFFICES ASSUME OrderOK, TimesOK, [Next]_vars
             PROVE  ClocksOK'
  OBVIOUS
<1>1. CASE Forward
  BY <1>1, ClocksForward
<1>2. CASE Yield \/ Terminating \/ UNCHANGED vars
  <2>1. ClocksOK
    BY DEF TimesOK
  <2> QED
    <3>1. /\ module_graph' = module_graph
          /\ current_module' = current_module
          /\ device_time' = device_time
          /\ device_time_dep' = device_time_dep
          /\ entered' = entered /\ left' = left
      BY <1>2 DEF Yield, Terminating, vars
    <3>2. \A m, j : /\ Awaited(m, j)' <=> Awaited(m, j)
                    /\ Passed(m, j)' <=> Passed(m, j)
                    /\ Clock(m)' = Clock(m)
      BY <3>1 DEF Awaited, Passed, Clock
    <3> QED
      BY <2>1, <3>1, <3>2 DEF ClocksOK
<1>3. CASE Restart
  <2>1. StaticOK' /\ ProgressOK'
    BY StaticStep, ProgressStep DEF OrderOK
  <2>2. NoneAwaited'
    BY <1>3, <2>1, RestartAwaits DEF OrderOK
  <2>3. ASSUME NEW d \in Devices
        PROVE  Clock(d)' = entered'[d][current_module'[d]]
    <3>1. /\ device_time'[d] = 0 /\ device_time_dep'[d] = 0
          /\ current_module'[d] = 1 /\ entered'[d][1] = <<0, 0>>
      BY <1>3 DEF Restart, Zero, AtTheStart
    <3> QED
      BY <3>1 DEF Clock
  <2> QED
    BY <2>2, <2>3 DEF ClocksOK, NoneAwaited
<1> QED
  BY <1>1, <1>2, <1>3 DEF Next

\* At the start nothing has been left.
LEMMA LatestInit == Init => LatestOK
<1> SUFFICES ASSUME Init
             PROVE  LatestOK
  OBVIOUS
<1>1. current_module = [d \in Devices |-> 1]
  BY DEF Init, AtTheStart
<1> QED
  BY <1>1 DEF LatestOK

\* The clock a device leaves a synchronised module with was the latest, both
\* for the device that sets the clocks and for those that find them set.
LEMMA LeavesWithLatest ==
  ASSUME OrderOK, TimesOK, Forward, NEW d, d = turn,
         NEW k, k = current_module[d], NEW e, e = module_graph[d][k],
         NEW clock, clock = Synced(d, e), e.op \in SyncedModules
  PROVE  /\ \A m \in e.group :
              /\ Passed(m, k) => left[m][k] = clock[d]
              /\ current_module[m] >= k => entered[m][k][1] <= clock[d][1]
         /\ \E m \in e.group :
              current_module[m] >= k /\ clock[d] = entered[m][k]
<1> USE DEF OrderOK, TimesOK
<1>1. /\ d \in Devices /\ k \in 1 .. Len(module_graph[d]) /\ k \in Nat
      /\ CheckReady(d, e)
  BY ForwardOf
<1>2. /\ e.group \subseteq Devices
      /\ d \in e.group
  BY <1>1, GraphOf DEF WellFormed, GroupsHold, StageGroup
<1>3. \A m \in e.group : /\ current_module[m] \in Nat
                         /\ module_graph[m][k].op \in SyncedModules
                         /\ module_graph[m][k].group = e.group
  BY <1>1, <1>2, Peers DEF ProgressOK
<1>4. Syncs(d, e) <=> ~Awaited(d, k)
  BY <1>1, FlagTells
<1>5. CASE Syncs(d, e)
  <2>1. \A q \in e.group :
          /\ ~Passed(q, k)
          /\ \/ /\ current_module[q] = k
                /\ Clock(q) = entered[q][k]
             \/ /\ current_module[q] = k - 1
                /\ k - 1 \in 1 .. Len(module_graph[d])
                /\ module_graph[d][k - 1].op = "sync__"
          /\ k > 1 /\ module_graph[d][k - 1].op = "sync__"
               => Clock(q) = left[d][k - 1]
    BY <1>1, <1>5, Gathered
  <2>2. clock[d] = Latest(e.group)
    BY <1>1, <1>2, <1>5 DEF Synced
  <2>3. PICK x \in e.group : /\ clock[d] = Clock(x)
                             /\ \A q \in e.group :
                                  device_time[q] <= device_time[x]
    BY <1>2, <2>2, LatestIs
  <2>4. ASSUME NEW m \in e.group, current_module[m] >= k
        PROVE  entered[m][k][1] <= clock[d][1]
    <3>1. entered[m][k] = Clock(m)
      BY <1>1, <1>3, <2>1, <2>4
    <3> QED
      BY <2>3, <3>1 DEF Clock
  <2>5. \E m \in e.group : current_module[m] >= k /\ clock[d] = entered[m][k]
    <3>1. CASE current_module[x] = k
      BY <1>1, <2>1, <2>3, <3>1
    <3>2. CASE current_module[x] # k
      <4>1. k > 1 /\ module_graph[d][k - 1].op = "sync__"
        BY <1>1, <2>1, <3>2
      <4>2. Clock(x) = Clock(d)
        BY <1>2, <2>1, <4>1
      <4>3. current_module[d] = k /\ Clock(d) = entered[d][k]
        BY <1>1, <1>2, <2>1
      <4> QED
        BY <1>1, <1>2, <2>3, <4>2, <4>3
    <3> QED
      BY <3>1, <3>2
  <2> QED
    BY <2>1, <2>4, <2>5
<1>6. CASE ~Syncs(d, e)
  <2>1. Awaited(d, k)
    BY <1>4, <1>6
  <2>2. clock[d] = Clock(d)
    BY <1>1, <1>6 DEF Synced
  <2>3. \A m \in e.group : Passed(m, k) => left[m][k] = clock[d]
    BY <1>1, <2>1, <2>2 DEF ClocksOK
  <2>4. PICK p \in e.group : Passed(p, k)
    BY <2>1 DEF Awaited
  <2>5. k \in 1 .. current_module[p] - 1
    BY <1>1, <1>3, <2>4 DEF Passed
  <2>6. /\ \A m \in e.group :
             current_module[m] >= k => entered[m][k][1] <= left[p][k][1]
        /\ \E m \in e.group :
             current_module[m] >= k /\ left[p][k] = entered[m][k]
    BY <1>2, <1>3, <2>4, <2>5 DEF LatestOK
  <2> QED
    BY <2>3, <2>4, <2>6
<1> QED
  BY <1>5, <1>6

\* The first to leave sets the largest clock of the group, and those that
\* follow take it over.
LEMMA LatestForward ==
  ASSUME OrderOK, TimesOK, Forward
  PROVE  LatestOK'
<1> USE DEF OrderOK, TimesOK
<1>1. PICK d : d = turn
  OBVIOUS
<1>2. PICK k : k = current_module[d]
  OBVIOUS
<1>3. PICK e : e = module_graph[d][k]
  OBVIOUS
<1>4. PICK clock : clock = Synced(d, e)
  OBVIOUS
<1>5. /\ d \in Devices /\ k \in 1 .. Len(module_graph[d]) /\ k \in Nat
      /\ module_graph' = module_graph
      /\ current_module'[d] = k + 1
      /\ \A m \in Devices \ {d} : current_module'[m] = current_module[m]
  BY <1>1, <1>2, <1>3, ForwardOf
<1>6. /\ \A m \in Devices : \A j \in 1 .. current_module[m] :
           entered'[m][j] = entered[m][j]
      /\ \A m \in Devices : \A j \in 1 .. current_module[m] - 1 :
           left'[m][j] = left[m][j]
      /\ entered'[d][k + 1] = Clock(d)'
      /\ left'[d][k] = clock[d]
  <2>1. Lengthened(d, k, clock)
    BY <1>1, <1>2, <1>3, <1>4, Histories
  <2> QED
    BY <2>1 DEF Lengthened
<1>7. \A m \in Devices : /\ current_module[m] \in Nat \ {0}
                         /\ current_module'[m] \in Nat \ {0}
                         /\ current_module[m] <= Len(module_graph[m]) + 1
                         /\ Len(module_graph[m]) \in Nat
  BY <1>5, GraphOf DEF ProgressOK
<1> DEFINE Good(p, j) ==
      /\ \A m \in module_graph[p][j].group :
           /\ Passed(m, j)' => left'[m][j] = left'[p][j]
           /\ current_module'[m] >= j => entered'[m][j][1] <= left'[p][j][1]
      /\ \E m \in module_graph[p][j].group :
           current_module'[m] >= j /\ left'[p][j] = entered'[m][j]
<1>8. ASSUME e.op \in SyncedModules
      PROVE  Good(d, k)
  <2>1. /\ \A m \in e.group :
             /\ Passed(m, k) => left[m][k] = clock[d]
             /\ current_module[m] >= k => entered[m][k][1] <= clock[d][1]
        /\ \E m \in e.group :
             current_module[m] >= k /\ clock[d] = entered[m][k]
    BY <1>1, <1>2, <1>3, <1>4, <1>8, LeavesWithLatest
  <2>2. e.group \subseteq Devices
    BY <1>3, <1>5, <1>8, Peers
  <2>3. ASSUME NEW m \in e.group
        PROVE  /\ Passed(m, k)' => left'[m][k] = left'[d][k]
               /\ current_module'[m] >= k
                    => entered'[m][k][1] <= left'[d][k][1]
    <3>1. CASE m = d
      <4>1. entered'[d][k] = entered[d][k]
        BY <1>2, <1>5, <1>6, <1>7
      <4> QED
        BY <1>2, <1>5, <1>6, <2>1, <2>3, <3>1, <4>1
    <3>2. CASE m # d
      <4>1. current_module'[m] = current_module[m] /\ m \in Devices
        BY <1>5, <2>2, <3>2
      <4>2. Passed(m, k)' <=> Passed(m, k)
        BY <4>1 DEF Passed
      <4>3. Passed(m, k) => k \in 1 .. current_module[m] - 1
        BY <1>5, <1>7, <4>1 DEF Passed
      <4>4. current_module[m] >= k => k \in 1 .. current_module[m]
        BY <1>5, <1>7, <4>1
      <4> QED
        BY <1>6, <2>1, <4>1, <4>2, <4>3, <4>4
    <3> QED
      BY <3>1, <3>2
  <2>4. PICK x \in e.group : current_module[x] >= k /\ clock[d] = entered[x][k]
    BY <2>1
  <2>5. entered'[x][k] = entered[x][k] /\ current_module'[x] >= k
    <3>1. x \in Devices
      BY <2>2
    <3>2. k \in 1 .. current_module[x]
      BY <1>5, <1>7, <2>4, <3>1
    <3>3. current_module'[x] >= k
      BY <1>5, <2>4, <3>1
    <3> QED
      BY <1>6, <3>1, <3>2, <3>3
  <2>6. \E m \in e.group :
          current_module'[m] >= k /\ left'[d][k] = entered'[m][k]
    BY <1>6, <2>4, <2>5
  <2> QED
    BY <1>3, <2>3, <2>6
<1>9. ASSUME NEW p \in Devices, NEW j \in 1 .. current_module[p] - 1,
             module_graph[p][j].op \in SyncedModules
      PROVE  Good(p, j)
  <2>1. j \in 1 .. Len(module_graph[p]) /\ j \in Nat
    BY <1>7, <1>9
  <2>2. /\ module_graph[p][j].group \subseteq Devices
        /\ p \in module_graph[p][j].group
    BY <1>9, <2>1, GraphOf DEF WellFormed, GroupsHold, StageGroup
  <2>3. left'[p][j] = left[p][j]
    BY <1>6, <1>9
  <2>4. ASSUME NEW m \in module_graph[p][j].group, Passed(m, j)'
        PROVE  left'[m][j] = left'[p][j]
    <3>1. CASE Passed(m, j)
      <4>1. j \in 1 .. current_module[m] - 1
        BY <1>7, <2>1, <2>2, <2>4, <3>1 DEF Passed
      <4> QED
        BY <1>6, <1>9, <2>2, <2>3, <3>1, <4>1 DEF LatestOK
    <3>2. CASE ~Passed(m, j)
      <4>1. m = d /\ j = k
        BY <1>2, <1>5, <1>7, <2>1, <2>2, <2>4, <3>2 DEF Passed
      <4>2. e.op \in SyncedModules /\ p \in e.group
        BY <1>3, <1>9, <2>1, <4>1, Peers
      <4>3. Passed(p, k)
        BY <1>5, <1>7, <1>9, <4>1 DEF Passed
      <4>4. left[p][k] = clock[d]
        BY <1>1, <1>2, <1>3, <1>4, <4>2, <4>3, LeavesWithLatest
      <4> QED
        BY <1>6, <2>3, <4>1, <4>4
    <3> QED
      BY <3>1, <3>2
  <2>5. ASSUME NEW m \in module_graph[p][j].group, current_module'[m] >= j
        PROVE  entered'[m][j][1] <= left'[p][j][1]
    <3>1. CASE current_module[m] >= j
      <4>1. j \in 1 .. current_module[m]
        BY <1>7, <2>1, <2>2, <3>1
      <4> QED
        BY <1>6, <1>9, <2>2, <2>3, <3>1, <4>1 DEF LatestOK
    <3>2. CASE ~(current_module[m] >= j)
      <4>1. m = d /\ j = k + 1
        BY <1>2, <1>5, <1>7, <2>1, <2>2, <2>5, <3>2
      <4>2. Clock(d)' = Clock(d) /\ Clock(d) = left[p][j]
        BY <1>1, <1>2, <1>3, <1>5, <1>9, <4>1, AheadOfIt
      <4>3. left[p][j] \in Pairs
        BY <1>9 DEF HistoryOK
      <4> QED
        BY <1>6, <2>3, <4>1, <4>2, <4>3 DEF Pairs
    <3> QED
      BY <3>1, <3>2
  <2>6. PICK x \in module_graph[p][j].group :
          current_module[x] >= j /\ left[p][j] = entered[x][j]
    BY <1>9 DEF LatestOK
  <2>7. entered'[x][j] = entered[x][j] /\ current_module'[x] >= j
    <3>1. j \in 1 .. current_module[x] /\ x \in Devices
      BY <1>7, <2>1, <2>2, <2>6
    <3>2. current_module'[x] >= j
      BY <1>2, <1>5, <1>7, <2>1, <2>6, <3>1, SMTT(30)
    <3> QED
      BY <1>6, <3>1, <3>2
  <2>8. \E m \in module_graph[p][j].group :
           current_module'[m] >= j /\ left'[p][j] = entered'[m][j]
    BY <2>3, <2>6, <2>7
  <2> QED
    BY <2>4, <2>5, <2>8
<1>10. ASSUME NEW p \in Devices, NEW j \in 1 .. current_module'[p] - 1,
              module_graph[p][j].op \in SyncedModules
       PROVE  Good(p, j)
  <2>1. j \in 1 .. current_module[p] - 1 \/ (p = d /\ j = k)
    BY <1>2, <1>5, <1>7
  <2> HIDE DEF Good
  <2> QED
    BY <1>3, <1>8, <1>9, <1>10, <2>1
<1> QED
  BY <1>5, <1>10 DEF LatestOK

\* Every step keeps it so.
LEMMA LatestStep == OrderOK /\ TimesOK /\ [Next]_vars => LatestOK'
<1> SUFFICES ASSUME OrderOK, TimesOK, [Next]_vars
             PROVE  LatestOK'
  OBVIOUS
<1>1. CASE Forward
  BY <1>1, LatestForward
<1>2. CASE Yield \/ Terminating \/ UNCHANGED vars
  <2>1. LatestOK
    BY DEF TimesOK
  <2> QED
    BY <1>2, <2>1 DEF Yield, Terminating, vars, LatestOK, Passed
<1>3. CASE Restart
  <2>1. current_module' = [d \in Devices |-> 1]
    BY <1>3 DEF Restart, AtTheStart
  <2> QED
    BY <2>1 DEF LatestOK
<1> QED
  BY <1>1, <1>2, <1>3 DEF Next

\* At the start nothing has been run.
LEMMA StepsInit == Init => StepsOK
<1> SUFFICES ASSUME Init
             PROVE  StepsOK
  OBVIOUS
<1>1. current_module = [d \in Devices |-> 1]
  BY DEF Init, AtTheStart
<1> QED
  BY <1>1 DEF StepsOK

\* What a module costs does not change within a run.
LEMMA SameCost ==
  ASSUME layout' = layout, load' = load, expert_load' = expert_load,
         NEW d, NEW e
  PROVE  Cost(d, e)' = Cost(d, e)
BY DEF Cost, ExpertWork, ColdWork

\* Running a module adds its cost to the clock.
LEMMA StepsForward ==
  ASSUME OrderOK, TimesOK, Forward
  PROVE  StepsOK'
<1> USE DEF OrderOK, TimesOK
<1>1. PICK d : d = turn
  OBVIOUS
<1>2. PICK k : k = current_module[d]
  OBVIOUS
<1>3. PICK e : e = module_graph[d][k]
  OBVIOUS
<1>4. PICK clock : clock = Synced(d, e)
  OBVIOUS
<1>5. /\ d \in Devices /\ k \in 1 .. Len(module_graph[d]) /\ k \in Nat
      /\ layout' = layout /\ load' = load /\ expert_load' = expert_load
      /\ module_graph' = module_graph
      /\ current_module'[d] = k + 1
      /\ \A m \in Devices \ {d} : current_module'[m] = current_module[m]
  BY <1>1, <1>2, <1>3, ForwardOf
<1>6. /\ \A m \in Devices : \A j \in 1 .. current_module[m] :
           entered'[m][j] = entered[m][j]
      /\ \A m \in Devices : \A j \in 1 .. current_module[m] - 1 :
           left'[m][j] = left[m][j]
      /\ entered'[d][k + 1] = Clock(d)'
      /\ left'[d][k] = clock[d]
  <2>1. Lengthened(d, k, clock)
    BY <1>1, <1>2, <1>3, <1>4, Histories
  <2> QED
    BY <2>1 DEF Lengthened
<1>7. Clock(d)' = Plus(clock[d], Cost(d, e))
  BY <1>1, <1>2, <1>3, <1>4, ForwardClocks
<1>8. \A m \in Devices : current_module[m] \in Nat \ {0}
  BY DEF ProgressOK
<1>9. ASSUME e.op \notin SyncedModules
      PROVE  left'[d][k] = entered'[d][k]
  <2>1. clock[d] = Clock(d)
    BY <1>4, <1>5, <1>9 DEF Synced, Syncs
  <2>2. ~Awaited(d, k)
    BY <1>3, <1>9 DEF Awaited
  <2>3. Clock(d) = entered[d][k]
    BY <1>2, <1>5, <2>2 DEF ClocksOK
  <2>4. entered'[d][k] = entered[d][k]
    BY <1>2, <1>5, <1>6, <1>8
  <2> QED
    BY <1>6, <2>1, <2>3, <2>4
<1>10. ASSUME NEW p \in Devices, NEW j \in 1 .. current_module'[p] - 1
       PROVE  /\ module_graph[p][j].op \notin SyncedModules =>
                   left'[p][j] = entered'[p][j]
              /\ entered'[p][j + 1] =
                   Plus(left'[p][j], Cost(p, module_graph[p][j]))
  <2>1. j \in 1 .. current_module[p] - 1 \/ (p = d /\ j = k)
    BY <1>2, <1>5, <1>8
  <2>2. CASE p = d /\ j = k
    BY <1>3, <1>6, <1>7, <1>9, <2>2
  <2>3. CASE j \in 1 .. current_module[p] - 1
    <3>1. j \in 1 .. current_module[p] /\ j + 1 \in 1 .. current_module[p]
      BY <1>8, <2>3
    <3>2. /\ left'[p][j] = left[p][j]
          /\ entered'[p][j] = entered[p][j]
          /\ entered'[p][j + 1] = entered[p][j + 1]
      BY <1>6, <2>3, <3>1
    <3> QED
      BY <2>3, <3>2 DEF StepsOK
  <2> QED
    BY <2>1, <2>2, <2>3
<1>11. \A p, f : Cost(p, f)' = Cost(p, f)
  BY <1>5, SameCost
<1> QED
  BY <1>5, <1>10, <1>11 DEF StepsOK

\* Every step keeps the sums.
LEMMA StepsStep == OrderOK /\ TimesOK /\ [Next]_vars => StepsOK'
<1> SUFFICES ASSUME OrderOK, TimesOK, [Next]_vars
             PROVE  StepsOK'
  OBVIOUS
<1>1. CASE Forward
  BY <1>1, StepsForward
<1>2. CASE Yield \/ Terminating \/ UNCHANGED vars
  <2>1. /\ layout' = layout /\ load' = load /\ expert_load' = expert_load
        /\ module_graph' = module_graph /\ current_module' = current_module
        /\ entered' = entered /\ left' = left
    BY <1>2 DEF Yield, Terminating, vars
  <2>2. \A p, e : Cost(p, e)' = Cost(p, e)
    BY <2>1, SameCost
  <2> QED
    BY <2>1, <2>2 DEF StepsOK, TimesOK
<1>3. CASE Restart
  <2>1. current_module' = [d \in Devices |-> 1]
    BY <1>3 DEF Restart, AtTheStart
  <2> QED
    BY <2>1 DEF StepsOK
<1> QED
  BY <1>1, <1>2, <1>3 DEF Next

----------------------------------------------------------------------------
(***************************************************************************)
(* The devices of a tensor-parallel group.                                 *)
(***************************************************************************)

\* Since the devices of a tensor-parallel group last had the same clock, or
\* since the start, device d has only run modules that cost them all the same.
Even(d, k) ==
  \E b \in 0 .. k - 1 :
    /\ \/ b = 0
       \/ /\ module_graph[d][b].op \in SyncedModules \ ExpertOps
          /\ TpGroup(layout, d) \subseteq module_graph[d][b].group
    /\ \A j \in b + 1 .. k - 1 : ~Diverges(layout, d, module_graph[d][j])

EvenOK ==
  \A d \in Devices : \A m \in TpGroup(layout, d) :
    \A k \in 1 .. current_module[d] :
      k <= current_module[m] /\ Even(d, k) => entered[d][k] = entered[m][k]

\* What does not diverge costs the same on the devices of a tensor group.
LEMMA PeersCostTheSame ==
  ASSUME StaticOK, NEW d \in Devices, NEW m \in TpGroup(layout, d),
         NEW e, NEW f, e.op = f.op, e.op \notin ExpertOps
  PROVE  Cost(d, e) = Cost(m, f)
<1>1. DpRank(layout, m) = DpRank(layout, d)
  BY TpPeers
<1> QED
  BY <1>1 DEF Cost, ExpertOps

\* From one module to the next the peers stay even, unless it diverges.
LEMMA EvenNext ==
  ASSUME StaticOK, ProgressOK, LatestOK, StepsOK,
         NEW d \in Devices, NEW m \in TpGroup(layout, d),
         NEW k \in 1 .. current_module[d] - 1, k <= current_module[m] - 1,
         Even(d, k + 1),
         Even(d, k) => entered[d][k] = entered[m][k]
  PROVE  entered[d][k + 1] = entered[m][k + 1]
<1> DEFINE e == module_graph[d][k]
           f == module_graph[m][k]
<1>1. /\ Len(module_graph[d]) \in Nat
      /\ current_module[d] \in Nat
      /\ current_module[d] <= Len(module_graph[d]) + 1
  BY GraphOf DEF ProgressOK
<1>2. k \in 1 .. Len(module_graph[d])
  BY <1>1
<1>3. m \in Devices /\ f.op = e.op
  BY <1>2, TpPeers
<1>4. k \in 1 .. current_module[m] - 1 /\ Passed(m, k)
  BY <1>3 DEF ProgressOK, Passed
<1>5. PICK b \in 0 .. k :
        /\ \/ b = 0
           \/ /\ module_graph[d][b].op \in SyncedModules \ ExpertOps
              /\ TpGroup(layout, d) \subseteq module_graph[d][b].group
        /\ \A j \in b + 1 .. k : ~Diverges(layout, d, module_graph[d][j])
  BY <1>2 DEF Even
<1>6. ASSUME e.op \in SyncedModules, TpGroup(layout, d) \subseteq e.group
      PROVE  left[d][k] = left[m][k]
  <2>1. m \in e.group
    BY <1>6
  <2> QED
    BY <1>4, <1>6, <2>1 DEF LatestOK
<1>7. e.op \notin ExpertOps /\ left[d][k] = left[m][k]
  <2>1. CASE b = k
    BY <1>2, <1>5, <1>6, <2>1
  <2>2. CASE b # k
    <3>1. ~Diverges(layout, d, e)
      BY <1>2, <1>5, <2>2
    <3>2. Even(d, k)
      BY <1>2, <1>5, <2>2 DEF Even
    <3>3. CASE e.op \in SyncedModules
      BY <1>6, <3>1, <3>3 DEF Diverges
    <3>4. CASE e.op \notin SyncedModules
      BY <1>3, <1>4, <3>1, <3>2, <3>4 DEF Diverges, StepsOK
    <3> QED
      BY <3>1, <3>3, <3>4 DEF Diverges
  <2> QED
    BY <2>1, <2>2
<1>8. Cost(d, e) = Cost(m, f)
  BY <1>3, <1>7, PeersCostTheSame
<1> QED
  BY <1>3, <1>4, <1>7, <1>8 DEF StepsOK

\* So two peers come to a module even, unless something before it diverged and
\* no sync__ followed.
LEMMA EvenHolds ==
  ASSUME StaticOK, ProgressOK, HistoryOK, LatestOK, StepsOK
  PROVE  EvenOK
<1> SUFFICES ASSUME NEW d \in Devices, NEW m \in TpGroup(layout, d)
             PROVE  \A k \in 1 .. current_module[d] :
                      k <= current_module[m] /\ Even(d, k)
                        => entered[d][k] = entered[m][k]
  BY DEF EvenOK
<1> DEFINE P == {k \in Nat : k <= current_module[m] /\ Even(d, k)
                               => entered[d][k] = entered[m][k]}
<1>1. /\ m \in Devices
      /\ current_module[d] \in Nat /\ current_module[m] \in Nat
  BY TpPeers DEF ProgressOK
<1>2. 1 \in P
  <2>1. entered[d][1] = <<0, 0>> /\ entered[m][1] = <<0, 0>>
    BY <1>1 DEF HistoryOK
  <2> QED
    BY <2>1
<1>3. ASSUME NEW k \in 1 .. current_module[d] - 1, k \in P
      PROVE  k + 1 \in P
  <2> SUFFICES ASSUME k + 1 <= current_module[m], Even(d, k + 1)
               PROVE  entered[d][k + 1] = entered[m][k + 1]
    BY <1>1
  <2>1. k <= current_module[m] - 1
    BY <1>1
  <2> QED
    BY <1>1, <1>3, <2>1, EvenNext
<1>4. \A k \in 1 .. current_module[d] - 1 : k \in P => k + 1 \in P
  BY <1>3
<1>5. P \in SUBSET Nat
  OBVIOUS
<1>6. 1 .. current_module[d] \subseteq P
  <2> HIDE DEF P
  <2> QED
    BY <1>1, <1>2, <1>4, <1>5, Induction
<1> QED
  BY <1>6

\* At the end of the graph, the last Sync has made up for what its experts
\* cost a device.
LEMMA EvenAtTheEnd ==
  ASSUME StaticOK, NEW d \in Devices
  PROVE  Even(d, Len(module_graph[d]) + 1)
<1> DEFINE g == module_graph[d]
           n == Len(g)
           B == {i \in 1 .. n : g[i].op = "sync__"}
           C == {n - i : i \in B}
<1>1. n \in Nat /\ WellFormed(layout, d, g)
  BY GraphOf
<1>2. \A j \in 1 .. n : Diverges(layout, d, g[j]) => \E i \in B : i > j
  <2> SUFFICES ASSUME NEW j \in 1 .. n, Diverges(layout, d, g[j])
               PROVE  \E i \in B : i > j
    OBVIOUS
  <2>1. PICK i \in j + 1 .. n : g[i].op = "sync__"
    BY <1>1 DEF WellFormed, Reconverges
  <2> QED
    BY <1>1, <2>1
<1>3. CASE B = {}
  <2>1. \A j \in 0 + 1 .. (n + 1) - 1 : ~Diverges(layout, d, g[j])
    BY <1>1, <1>2, <1>3
  <2>2. 0 \in 0 .. (n + 1) - 1
    BY <1>1
  <2> QED
    BY <2>1, <2>2 DEF Even
<1>4. CASE B # {}
  <2>1. C # {} /\ C \in SUBSET Nat
    <3>1. \A i \in B : n - i \in Nat
      BY <1>1
    <3> QED
      BY <1>4, <3>1
  <2>2. PICK c \in C : \A x \in C : ~(<<x, c>> \in OpToRel(<, Nat))
    <3> HIDE DEF C
    <3> QED
      BY <2>1, NatLessThanWellFounded, WFMin
  <2>3. PICK b \in B : c = n - b
    OBVIOUS
  <2>4. \A i \in B : ~(i > b)
    <3> SUFFICES ASSUME NEW i \in B, i > b
                 PROVE  FALSE
      OBVIOUS
    <3>1. n - i \in C /\ n - i \in Nat /\ n - b \in Nat /\ n - i < n - b
      BY <1>1
    <3>2. <<n - i, n - b>> \in OpToRel(<, Nat)
      BY <3>1, Zenon DEF OpToRel
    <3> QED
      BY <2>2, <2>3, <3>1, <3>2
  <2>5. \A j \in b + 1 .. (n + 1) - 1 : ~Diverges(layout, d, g[j])
    BY <1>1, <1>2, <2>4
  <2>6. /\ g[b].op \in SyncedModules \ ExpertOps
        /\ TpGroup(layout, d) \subseteq g[b].group
    <3>1. g[b].group = StageGroup(layout, d)
      BY <1>1 DEF WellFormed, GroupsHold
    <3>2. TpGroup(layout, d) \subseteq StageGroup(layout, d)
      BY DEF TpGroup, StageGroup, Stage
    <3> QED
      BY <3>1, <3>2 DEF SyncedModules, ExpertOps
  <2>7. b \in 0 .. (n + 1) - 1
    BY <1>1
  <2> QED
    BY <2>5, <2>6, <2>7 DEF Even
<1> QED
  BY <1>3, <1>4

----------------------------------------------------------------------------
(***************************************************************************)
(* The hops between the stages, and the part of a clock that grows with    *)
(* the batch.                                                              *)
(***************************************************************************)

\* What the hop of device d has taken, when it has come to module k.
HopUpTo(d, k) ==
  IF /\ k = Len(module_graph[d]) + 1
     /\ module_graph[d][Len(module_graph[d])].op = "pipeline_stage"
  THEN Cost(d, module_graph[d][Len(module_graph[d])])[1] ELSE 0

\* The hop time of a device.
LEMMA HopIs ==
  HopOK <=> pipeline_hop_time =
              [d \in Devices |-> HopUpTo(d, current_module[d])]
BY DEF HopOK, HopUpTo

\* The hop time of a device after a step.
LEMMA HopIsNext ==
  HopOK' <=> pipeline_hop_time' =
               [d \in Devices |-> HopUpTo(d, current_module[d])']
BY DEF HopOK, HopUpTo

\* There is no hop time before the end of the graph.
LEMMA NoHopYet ==
  ASSUME StaticOK, NEW d \in Devices, NEW k \in 1 .. Len(module_graph[d])
  PROVE  HopUpTo(d, k) = 0
BY GraphOf DEF HopUpTo

\* The hop time is a number.
LEMMA HopType ==
  ASSUME StaticOK, NEW d \in Devices, NEW k
  PROVE  HopUpTo(d, k) \in Nat
BY CostType DEF HopUpTo, Pairs

\* The hop time is zero at the start.
LEMMA HopInit == Init => HopOK
<1> SUFFICES ASSUME Init
             PROVE  HopOK
  OBVIOUS
<1>1. /\ pipeline_hop_time = [d \in Devices |-> 0]
      /\ current_module = [d \in Devices |-> 1]
  BY DEF Init, Zero, AtTheStart
<1>2. \A d \in Devices : HopUpTo(d, 1) = 0
  BY StaticInit, GraphOf, NoHopYet
<1>3. pipeline_hop_time = [d \in Devices |-> HopUpTo(d, current_module[d])]
  BY <1>1, <1>2
<1> QED
  BY <1>3, HopIs

\* Only the last module of a stage changes it.
LEMMA HopStep == StaticOK /\ ProgressOK /\ HopOK /\ [Next]_vars => HopOK'
<1> SUFFICES ASSUME StaticOK, ProgressOK, HopOK, [Next]_vars
             PROVE  HopOK'
  OBVIOUS
<1>1. pipeline_hop_time = [m \in Devices |-> HopUpTo(m, current_module[m])]
  BY HopIs
<1>2. CASE Forward
  <2>1. PICK d : d = turn
    OBVIOUS
  <2>2. PICK k : k = current_module[d]
    OBVIOUS
  <2>3. PICK e : e = module_graph[d][k]
    OBVIOUS
  <2>4. /\ d \in Devices /\ k \in 1 .. Len(module_graph[d])
        /\ layout' = layout /\ load' = load /\ expert_load' = expert_load
        /\ module_graph' = module_graph
        /\ current_module' = [current_module EXCEPT ![d] = k + 1]
    BY <1>2, <2>1, <2>2, <2>3, ForwardOf
  <2>5. pipeline_hop_time' =
          IF e.op = "pipeline_stage"
          THEN [pipeline_hop_time EXCEPT ![d] = @ + Cost(d, e)[1]]
          ELSE pipeline_hop_time
    BY <1>2, <2>1, <2>2, <2>3 DEF Forward, Current
  <2>6. \A m, f : Cost(m, f)' = Cost(m, f)
    BY <2>4, SameCost
  <2>7. \A m, j : HopUpTo(m, j)' = HopUpTo(m, j)
    BY <2>4, <2>6 DEF HopUpTo
  <2>8. Len(module_graph[d]) \in Nat
    BY <2>4, GraphOf
  <2>9. pipeline_hop_time[d] = 0
    BY <1>1, <2>2, <2>4, NoHopYet
  <2>10. HopUpTo(d, k + 1) =
           IF e.op = "pipeline_stage" THEN Cost(d, e)[1] ELSE 0
    <3>1. e.op = "pipeline_stage" => k = Len(module_graph[d])
      BY <2>3, <2>4, GraphOf DEF WellFormed
    <3> QED
      BY <2>3, <2>4, <2>8, <3>1 DEF HopUpTo
  <2>11. Cost(d, e)[1] \in Nat
    BY <2>4, CostType DEF Pairs
  <2>12. pipeline_hop_time' = [pipeline_hop_time EXCEPT ![d]
           = HopUpTo(d, k + 1)]
    <3> DEFINE c == Cost(d, e)[1]
    <3>1. CASE e.op = "pipeline_stage"
      <4>1. pipeline_hop_time[d] + c = c
        BY <2>9, <2>11
      <4>2. pipeline_hop_time'
              = [pipeline_hop_time EXCEPT ![d] = pipeline_hop_time[d] + c]
        BY <2>5, <3>1
      <4> QED
        BY <2>10, <3>1, <4>1, <4>2
    <3>2. CASE e.op # "pipeline_stage"
      <4>1. HopUpTo(d, k + 1) = pipeline_hop_time[d]
        BY <2>9, <2>10, <3>2
      <4>2. pipeline_hop_time'
              = [pipeline_hop_time EXCEPT ![d] = pipeline_hop_time[d]]
        BY <1>1, <2>5, <3>2
      <4> QED
        BY <4>1, <4>2
    <3> QED
      BY <3>1, <3>2
  <2>13. pipeline_hop_time'
           = [m \in Devices |-> HopUpTo(m, current_module'[m])]
    BY <1>1, <2>4, <2>12 DEF ProgressOK
  <2>14. \A m \in Devices :
           HopUpTo(m, current_module[m])' = HopUpTo(m, current_module'[m])
    BY <2>4, <2>6 DEF HopUpTo
  <2> QED
    BY <2>13, <2>14, HopIsNext
<1>3. CASE Yield \/ Terminating \/ UNCHANGED vars
  <2>1. /\ layout' = layout /\ load' = load /\ expert_load' = expert_load
        /\ module_graph' = module_graph /\ current_module' = current_module
        /\ pipeline_hop_time' = pipeline_hop_time
    BY <1>3 DEF Yield, Terminating, vars
  <2>2. \A m, f : Cost(m, f)' = Cost(m, f)
    BY <2>1, SameCost
  <2>3. \A m \in Devices :
          HopUpTo(m, current_module[m])' = HopUpTo(m, current_module[m])
    BY <2>1, <2>2 DEF HopUpTo
  <2> QED
    BY <1>1, <2>1, <2>3, HopIsNext
<1>4. CASE Restart
  <2>1. /\ pipeline_hop_time' = [d \in Devices |-> 0]
        /\ current_module' = [d \in Devices |-> 1]
        /\ module_graph' = module_graph
    BY <1>4 DEF Restart, Zero, AtTheStart
  <2>2. \A m \in Devices : HopUpTo(m, current_module[m])' = 0
    BY <2>1, GraphOf DEF HopUpTo
  <2> QED
    BY <2>1, <2>2, HopIsNext
<1> QED
  BY <1>2, <1>3, <1>4 DEF Next

\* The clocks are zero at the start.
LEMMA DepInit == Init => DepOK
<1> SUFFICES ASSUME Init
             PROVE  DepOK
  OBVIOUS
<1>1. \A d \in Devices : /\ device_time[d] = 0 /\ device_time_dep[d] = 0
                         /\ pipeline_hop_time[d] = 0
  BY DEF Init, Zero
<1>2. layout.pp \in Nat \ {0}
  BY StaticInit, StagesAre
<1>3. Covered(layout.pp, 0, 0, 0)
  BY <1>2, PartIsCovered
<1> QED
  BY <1>1, <1>3 DEF DepOK

\* A device that takes over a clock has not hopped yet, nor has the one it
\* takes it from.
LEMMA DepForward ==
  ASSUME OrderOK, TimesOK, HopOK, DepOK, Forward
  PROVE  DepOK'
<1> USE DEF OrderOK, TimesOK
<1>1. PICK d : d = turn
  OBVIOUS
<1>2. PICK k : k = current_module[d]
  OBVIOUS
<1>3. PICK e : e = module_graph[d][k]
  OBVIOUS
<1>4. PICK clock : clock = Synced(d, e)
  OBVIOUS
<1>5. /\ d \in Devices /\ k \in 1 .. Len(module_graph[d])
      /\ CheckReady(d, e)
  BY <1>1, <1>2, <1>3, ForwardOf
<1>6. /\ clock \in [Devices -> Pairs]
      /\ Clock(d)' = Plus(clock[d], Cost(d, e))
      /\ \A m \in Devices : m # d => Clock(m)' = clock[m]
  BY <1>1, <1>2, <1>3, <1>4, ForwardClocks
<1>7. \A m \in Devices : pipeline_hop_time[m] = HopUpTo(m, current_module[m])
  BY HopIs
<1>8. \A m \in Devices : /\ pipeline_hop_time[m] \in Nat
                         /\ device_time[m] \in Nat
                              /\ device_time_dep[m] \in Nat
  BY <1>7, HopType DEF HistoryOK
<1>9. pipeline_hop_time' =
        IF e.op = "pipeline_stage"
        THEN [pipeline_hop_time EXCEPT ![d] = @ + Cost(d, e)[1]]
        ELSE pipeline_hop_time
  BY <1>1, <1>2, <1>3 DEF Forward, Current
<1>10. pipeline_hop_time \in [Devices -> Nat]
  BY <1>7, <1>8 DEF HopOK
<1> DEFINE pp == layout.pp
<1>11. ASSUME NEW m \in Devices
       PROVE  Covered(pp, clock[m][1], clock[m][2], pipeline_hop_time[m])
  <2>1. CASE Syncs(d, e) /\ m \in e.group
    <3>1. \A q \in e.group :
            /\ q \in Devices
            /\ current_module[q] \in {k - 1, k}
      BY <1>2, <1>3, <1>5, <2>1, Gathered
    <3>2. ASSUME NEW q \in e.group
          PROVE  pipeline_hop_time[q] = 0
      <4>1. /\ q \in Devices /\ Len(module_graph[q]) = Len(module_graph[d])
        <5>1. module_graph[d][k].op \in SyncedModules
          BY <1>3, <2>1 DEF Syncs
        <5> QED
          BY <1>3, <1>5, <5>1, Peers
      <4>2. current_module[q] \in 1 .. Len(module_graph[q])
        BY <1>5, <3>1, <4>1, GraphOf DEF ProgressOK
      <4> QED
        BY <1>7, <4>1, <4>2, NoHopYet
    <3>3. PICK q \in e.group : Latest(e.group) = Clock(q)
      <4>1. e.group \subseteq Devices /\ e.group # {}
        BY <2>1, <3>1
      <4> QED
        BY <4>1, LatestIs
    <3>4. clock[m] = Clock(q)
      BY <1>4, <2>1, <3>3 DEF Synced
    <3>5. Covered(pp, device_time[q], device_time_dep[q],
                  pipeline_hop_time[q])
      BY <3>1 DEF DepOK
    <3>6. pipeline_hop_time[m] = 0 /\ pipeline_hop_time[q] = 0
      BY <2>1, <3>2
    <3>7. clock[m][1] = device_time[q] /\ clock[m][2] = device_time_dep[q]
      BY <3>4 DEF Clock
    <3> QED
      BY <3>5, <3>6, <3>7
  <2>2. CASE ~(Syncs(d, e) /\ m \in e.group)
    <3>1. clock[m] = Clock(m)
      BY <1>4, <2>2 DEF Synced
    <3> QED
      BY <3>1 DEF Clock, DepOK
  <2> QED
    BY <2>1, <2>2
<1>12. ASSUME NEW m \in Devices
       PROVE  Covered(pp, device_time'[m], device_time_dep'[m],
                      pipeline_hop_time'[m])
  <2>1. CASE m # d
    <3>1. device_time'[m] = clock[m][1] /\ device_time_dep'[m] = clock[m][2]
      BY <1>6, <2>1 DEF Clock, Pairs
    <3>2. pipeline_hop_time'[m] = pipeline_hop_time[m]
      BY <1>9, <1>10, <2>1
    <3> QED
      BY <1>11, <3>1, <3>2
  <2>2. CASE m = d
    <3> DEFINE c == Cost(d, e)
    <3>1. /\ c[1] \in Nat /\ c[2] \in Nat
          /\ Covered(pp, c[1], c[2],
                     IF e.op = "pipeline_stage" THEN c[1] ELSE 0)
      BY <1>5, CostType DEF Pairs
    <3>2. /\ device_time'[d] = clock[d][1] + c[1]
          /\ device_time_dep'[d] = clock[d][2] + c[2]
      BY <1>6 DEF Clock, Plus
    <3>3. pipeline_hop_time'[d] =
            IF e.op = "pipeline_stage" THEN pipeline_hop_time[d] + c[1]
                                       ELSE pipeline_hop_time[d]
      BY <1>5, <1>9, <1>10
    <3>4. /\ clock[d][1] \in Nat /\ clock[d][2] \in Nat
          /\ pipeline_hop_time[d] \in Nat
          /\ Covered(pp, clock[d][1], clock[d][2], pipeline_hop_time[d])
      BY <1>5, <1>6, <1>8, <1>11 DEF Pairs
    <3>5. pp \in Nat \ {0}
      BY StagesAre
    <3>6. PICK h \in Nat : h = IF e.op = "pipeline_stage" THEN c[1] ELSE 0
      BY <3>1
    <3>7. pipeline_hop_time'[d] = pipeline_hop_time[d] + h
      BY <3>3, <3>4, <3>6
    <3> HIDE DEF c, pp
    <3>8. Covered(pp, clock[d][1] + c[1], clock[d][2] + c[2],
                  pipeline_hop_time[d] + h)
      BY <3>1, <3>4, <3>5, <3>6, CoveredSum
    <3> QED
      BY <2>2, <3>2, <3>7, <3>8
  <2> QED
    BY <2>1, <2>2
<1>13. layout' = layout
  BY DEF Forward
<1> QED
  BY <1>12, <1>13 DEF DepOK

\* What a step adds to the charge and to the hops, its time covers; a clock that
\* is set takes both parts of one device.
LEMMA DepStep ==
  OrderOK /\ TimesOK /\ HopOK /\ DepOK /\ [Next]_vars => DepOK'
<1> SUFFICES ASSUME OrderOK, TimesOK, HopOK, DepOK, [Next]_vars
             PROVE  DepOK'
  OBVIOUS
<1>1. CASE Forward
  BY <1>1, DepForward
<1>2. CASE Yield \/ Terminating \/ UNCHANGED vars
  BY <1>2 DEF Yield, Terminating, vars, DepOK
<1>3. CASE Restart
  <2>1. \A d \in Devices : /\ device_time'[d] = 0 /\ device_time_dep'[d] = 0
                           /\ pipeline_hop_time'[d] = 0
    BY <1>3 DEF Restart, Zero
  <2>2. layout' = layout
    BY <1>3 DEF Restart
  <2>3. Covered(layout.pp, 0, 0, 0)
    <3>1. layout.pp \in Nat \ {0}
      BY StagesAre DEF OrderOK
    <3> QED
      BY <3>1, PartIsCovered
  <2> QED
    BY <2>1, <2>2, <2>3 DEF DepOK
<1> QED
  BY <1>1, <1>2, <1>3 DEF Next

----------------------------------------------------------------------------
(***************************************************************************)
(* The inductive invariant and what follows from it.                       *)
(***************************************************************************)
GraphInv == OrderOK /\ TimesOK /\ HopOK /\ DepOK /\ DrawOK

\* The inductive invariant holds at the start.
LEMMA GraphInvInit == Init => GraphInv
BY StaticInit, ProgressInit, ReadyInit, NearInit, FlagsInit, HistoryInit,
   ClocksInit, LatestInit, StepsInit, HopInit, DepInit, DrawInit
   DEF GraphInv, OrderOK, TimesOK

\* Every step keeps it.
LEMMA GraphInvStep == GraphInv /\ [Next]_vars => GraphInv'
BY StaticStep, ProgressStep, ReadyStep, NearStep, FlagsStep, HistoryStep,
   ClocksStep, LatestStep, StepsStep, HopStep, DepStep, DrawStep
   DEF GraphInv, OrderOK, TimesOK

\* The inductive invariant holds in every reachable state.
THEOREM GraphInvariant == Spec => []GraphInv
<1>1. Init => GraphInv
  BY GraphInvInit
<1>2. GraphInv /\ [Next]_vars => GraphInv'
  BY GraphInvStep
<1> QED
  BY <1>1, <1>2, PTL DEF Spec

\* The inductive invariant gives the types.
LEMMA GraphTypes ==
  ASSUME GraphInv
  PROVE  TypeOK
<1> USE DEF GraphInv, OrderOK, TimesOK
<1>1. pipeline_hop_time \in [Devices -> Nat]
  BY HopIs, HopType
<1>2. \A t \in ready : t[1] \in Devices
  BY DEF ReadyIsMade
<1>3. \A t \in timeboard_synced : t[1] \in Devices
  BY DEF FlagsOK
<1> QED
  BY <1>1, <1>2, <1>3 DEF TypeOK, ProgressOK, HistoryOK, DrawOK

\* The variables that Cluster::run and the modules work on have the types the
\* code gives them, and a run only ends when every device is at the end of its
\* graph.
THEOREM GraphTypesAreCorrect == Spec => []TypeOK
<1>1. GraphInv => TypeOK
  BY GraphTypes
<1> QED
  BY <1>1, GraphInvariant, PTL

\* Sync::forward is a barrier: no device passes one that another device of its
\* stage has not come to, whatever the layout.
THEOREM SyncsAreBarriers == Spec => []BarrierHolds
<1>1. ASSUME GraphInv
      PROVE  BarrierHolds
  BY <1>1 DEF GraphInv, OrderOK, NearOK, Near, BarrierHolds, SyncedModules
<1> QED
  BY <1>1, GraphInvariant, PTL

\* The rounds of Cluster::run cannot get stuck: as long as the run is not over,
\* some device finds the input of its module ready on all devices it waits for.
THEOREM NoCircularWait == Spec => []SomeDeviceCanRun
<1>1. ASSUME GraphInv
      PROVE  SomeDeviceCanRun
  BY <1>1, LeastCanRun DEF GraphInv, OrderOK
<1> QED
  BY <1>1, GraphInvariant, PTL

\* When a run is over every flag that check_ready raised has been taken down.
THEOREM RunsLowerTheFlags == Spec => []FlagsLowered
<1>1. ASSUME GraphInv, RunDone
      PROVE  timeboard_synced = {}
  <2> USE <1>1 DEF GraphInv, OrderOK
  <2>1. BetweenRuns
    BY DEF ProgressOK, BetweenRuns
  <2>2. NoneAwaited
    BY <2>1, NobodyAwaited
  <2> QED
    BY <2>2 DEF FlagsOK, NoneAwaited
<1>2. GraphInv => FlagsLowered
  BY <1>1 DEF FlagsLowered
<1> QED
  BY <1>2, GraphInvariant, PTL

\* sync_devices gives every device of the group the clock of the one that came
\* last, whichever of them runs first in a round.
THEOREM SyncTakesTheLatestClock == Spec => []SyncTakesTheLatest
<1>1. ASSUME GraphInv, RunDone,
             NEW d \in Devices, NEW k \in DOMAIN left[d],
             module_graph[d][k].op \in SyncedModules
      PROVE  /\ left[d][k] \in {entered[m][k] : m \in module_graph[d][k].group}
             /\ \A m \in module_graph[d][k].group :
                  entered[m][k][1] <= left[d][k][1]
  <2> USE <1>1 DEF GraphInv, OrderOK, TimesOK
  <2>1. k \in 1 .. current_module[d] - 1
    BY DEF HistoryOK
  <2>2. /\ Len(module_graph[d]) \in Nat
        /\ current_module[d] \in Nat
        /\ current_module[d] <= Len(module_graph[d]) + 1
    BY GraphOf DEF ProgressOK
  <2>3. k \in 1 .. Len(module_graph[d])
    BY <2>1, <2>2
  <2>4. ASSUME NEW m \in module_graph[d][k].group
        PROVE  current_module[m] >= k
    <3>1. m \in Devices /\ Len(module_graph[m]) = Len(module_graph[d])
      BY <2>3, Peers
    <3>2. current_module[m] > Len(module_graph[m]) /\ current_module[m] \in Nat
      BY <3>1 DEF ProgressOK, Finished
    <3> QED
      BY <2>2, <2>3, <3>1, <3>2
  <2> QED
    BY <2>1, <2>4 DEF LatestOK
<1>2. GraphInv => SyncTakesTheLatest
  BY <1>1 DEF SyncTakesTheLatest
<1> QED
  BY <1>2, GraphInvariant, PTL

\* What a device ends a run with is the clock it left its last module with.
LEMMA ClockAtTheEnd ==
  ASSUME GraphInv, RunDone, NEW d \in Devices
  PROVE  /\ current_module[d] = Len(module_graph[d]) + 1
         /\ Clock(d) = entered[d][Len(module_graph[d]) + 1]
<1> USE DEF GraphInv, OrderOK, TimesOK
<1>1. /\ Len(module_graph[d]) \in Nat
      /\ current_module[d] \in Nat
      /\ current_module[d] <= Len(module_graph[d]) + 1
      /\ current_module[d] > Len(module_graph[d])
  BY GraphOf DEF ProgressOK, Finished
<1>2. current_module[d] = Len(module_graph[d]) + 1
  BY <1>1
<1>3. ~Awaited(d, current_module[d])
  BY <1>1 DEF Awaited
<1> QED
  BY <1>2, <1>3 DEF ClocksOK

\* After the last module of a run, two devices of a tensor group have the same
\* clock: no sync__ is missing behind anything that diverged.
LEMMA PeersAgree ==
  ASSUME GraphInv, RunDone, NEW d \in Devices, NEW m \in TpGroup(layout, d)
  PROVE  Clock(d) = Clock(m) /\ pipeline_hop_time[d] = pipeline_hop_time[m]
<1> USE DEF GraphInv, OrderOK, TimesOK
<1> DEFINE n == Len(module_graph[d])
<1>1. /\ m \in Devices /\ Len(module_graph[m]) = n
      /\ \A j \in 1 .. n : module_graph[m][j].op = module_graph[d][j].op
  BY TpPeers
<1>2. /\ current_module[d] = n + 1 /\ Clock(d) = entered[d][n + 1]
      /\ current_module[m] = n + 1 /\ Clock(m) = entered[m][n + 1]
  BY <1>1, ClockAtTheEnd
<1>3. n \in Nat \ {0}
  BY GraphOf
<1>4. entered[d][n + 1] = entered[m][n + 1]
  <2>1. EvenOK
    BY EvenHolds
  <2>2. Even(d, n + 1)
    BY EvenAtTheEnd
  <2>3. n + 1 \in 1 .. current_module[d] /\ n + 1 <= current_module[m]
    BY <1>2, <1>3
  <2> QED
    BY <2>1, <2>2, <2>3 DEF EvenOK
<1>5. pipeline_hop_time[d] = pipeline_hop_time[m]
  <2>1. /\ pipeline_hop_time[d] = HopUpTo(d, n + 1)
        /\ pipeline_hop_time[m] = HopUpTo(m, n + 1)
    BY <1>1, <1>2, HopIs
  <2>2. module_graph[m][n].op = module_graph[d][n].op
    BY <1>1, <1>3
  <2>3. module_graph[d][n].op = "pipeline_stage" =>
          Cost(d, module_graph[d][n]) = Cost(m, module_graph[m][n])
    BY <2>2, PeersCostTheSame DEF ExpertOps
  <2> QED
    BY <1>1, <2>1, <2>2, <2>3 DEF HopUpTo
<1> QED
  BY <1>2, <1>4, <1>5

\* The devices of a tensor-parallel group end a run with the same clock, though
\* their experts had different loads: reportedIterationTime may take any of
\* them for the stage.
THEOREM TensorPeersAgree == Spec => []TpPeersAgree
<1>1. GraphInv => TpPeersAgree
  BY PeersAgree DEF TpPeersAgree
<1> QED
  BY <1>1, GraphInvariant, PTL

----------------------------------------------------------------------------
(***************************************************************************)
(* The time that reportedIterationTime puts together from the stages.      *)
(***************************************************************************)

\* The sum of the times of the devices' own is one.
LEMMA OwnSumIs ==
  ASSUME NEW S \in SUBSET Devices, IsFiniteSet(S)
  PROVE  \E it : /\ Adds(it, [d \in Devices |-> OwnTime(d)], S)
                 /\ MapThenSumSet(OwnTime, S) = it[S]
<1> DEFINE f == [d \in Devices |-> OwnTime(d)]
           Own(it) == it = [s \in SUBSET S |->
                              IF s = {} THEN 0
                              ELSE OwnTime(Choice(s)) + it[s \ {Choice(s)}]]
<1>1. ASSUME NEW it
      PROVE  Own(it) <=> Adds(it, f, S)
  <2>1. ASSUME NEW s \in SUBSET S, s # {}
        PROVE  f[Choice(s)] = OwnTime(Choice(s))
    BY <2>1, SmallerSet
  <2> HIDE DEF f
  <2> QED
    BY <2>1 DEF Adds, SumAt
<1>2. \E it : Own(it)
  BY <1>1, SumExists
<1>3. Own(CHOOSE it : Own(it))
  BY <1>2
<1>4. MapThenSumSet(OwnTime, S) = (CHOOSE it : Own(it))[S]
  BY DEF MapThenSumSet, MapThenFoldSet, Choice
<1> QED
  BY <1>1, <1>3, <1>4

\* What a device did of its own, f, may be negative; its time is not, nor what
\* is left of it when the charge g is divided among p microbatches.
Shares(p, f, g, h) ==
  \A x \in Devices : 0 <= f[x] + g[x] + h[x] /\ 0 <= p * f[x] + g[x]

\* Three sums over the same devices are together no less than what one of the
\* devices contributes to them, and a microbatch's part of them is not negative.
LEMMA SumsOfReplica ==
  ASSUME NEW S \in SUBSET Devices, IsFiniteSet(S), NEW p \in Nat,
         NEW f \in [Devices -> Int], NEW g \in [Devices -> Nat],
         NEW h \in [Devices -> Nat], Shares(p, f, g, h),
         NEW F, Adds(F, f, S), NEW G, Adds(G, g, S), NEW H, Adds(H, h, S)
  PROVE  /\ F[S] \in Int /\ G[S] \in Nat /\ H[S] \in Nat
         /\ 0 <= F[S] + G[S] + H[S]
         /\ 0 <= p * F[S] + G[S]
         /\ \A x \in S : f[x] + g[x] + h[x] <= F[S] + G[S] + H[S]
<1> DEFINE Good(s) == /\ F[s] \in Int /\ G[s] \in Nat /\ H[s] \in Nat
                      /\ 0 <= F[s] + G[s] + H[s]
                      /\ 0 <= p * F[s] + G[s]
                      /\ \A x \in s : f[x] + g[x] + h[x] <= F[s] + G[s] + H[s]
           P == {n \in Nat : \A s \in SUBSET S : Cardinality(s) = n => Good(s)}
           c == Cardinality(S)
<1>0. c \in Nat
  BY FS_CardinalityType
<1>2. 0 \in P
  <2>1. ASSUME NEW s \in SUBSET S, Cardinality(s) = 0
        PROVE  Good(s)
    <3>1. s = {}
      BY <2>1, FS_Subset, FS_EmptySet
    <3>2. F[s] = 0 /\ G[s] = 0 /\ H[s] = 0
      BY <3>1 DEF Adds, SumAt
    <3>3. p * F[s] = 0
      BY <3>2
    <3> QED
      BY <3>1, <3>2, <3>3
  <2> QED
    BY <2>1
<1>3. ASSUME NEW n \in 0 .. c - 1, n \in P
      PROVE  n + 1 \in P
  <2>1. ASSUME NEW s \in SUBSET S, Cardinality(s) = n + 1
        PROVE  Good(s)
    <3> DEFINE x == Choice(s)
               t == s \ {x}
    <3>1. s # {}
      BY <2>1, FS_EmptySet
    <3>2. x \in s /\ x \in Devices /\ t \in SUBSET S /\ Cardinality(t) = n
      <4>1. n \in Nat /\ Cardinality(s) = n + 1
        BY <2>1
      <4>2. x \in s /\ Cardinality(t) = Cardinality(s) - 1
        BY <3>1, SmallerSet
      <4> HIDE DEF x
      <4> QED
        BY <4>1, <4>2
    <3>3. Good(t)
      BY <1>3, <3>2
    <3>4. F[s] = f[x] + F[t] /\ G[s] = g[x] + G[t] /\ H[s] = h[x] + H[t]
      BY <3>1 DEF Adds, SumAt
    <3>5. /\ f[x] \in Int /\ g[x] \in Nat /\ h[x] \in Nat
          /\ 0 <= f[x] + g[x] + h[x] /\ 0 <= p * f[x] + g[x]
      BY <3>2 DEF Shares
    <3>6. ASSUME NEW y \in s
          PROVE  f[y] + g[y] + h[y] <= F[s] + G[s] + H[s]
      <4>1. f[y] \in Int /\ g[y] \in Nat /\ h[y] \in Nat
        OBVIOUS
      <4>2. y = x \/ y \in t
        OBVIOUS
      <4> HIDE DEF x, t
      <4> QED
        BY <3>3, <3>4, <3>5, <4>1, <4>2
    <3> HIDE DEF x, t
    <3>7. /\ F[s] \in Int /\ G[s] \in Nat /\ H[s] \in Nat
          /\ 0 <= F[s] + G[s] + H[s]
      BY <3>3, <3>4, <3>5
    <3>8. 0 <= p * F[s] + G[s]
      <4>1. p * F[s] = p * f[x] + p * F[t]
        BY <3>3, <3>4, <3>5
      <4>2. /\ p * f[x] \in Int /\ p * F[t] \in Int /\ G[t] \in Nat
            /\ 0 <= p * F[t] + G[t]
        BY <3>3, <3>5
      <4> QED
        BY <3>4, <3>5, <4>1, <4>2
    <3> QED
      BY <3>6, <3>7, <3>8
  <2> QED
    BY <2>1
<1>4. 0 .. c \subseteq P
  <2>1. \A n \in 0 .. c - 1 : n \in P => n + 1 \in P
    BY <1>3
  <2> HIDE DEF P
  <2> QED
    BY <1>0, <1>2, <2>1, Induction DEF P
<1>5. Good(S)
  BY <1>0, <1>4
<1> QED
  BY <1>5

\* The devices that stand for the stages of a whole replica exist.
LEMMA Representatives ==
  ASSUME layout \in Layout, NEW r \in Replicas
  PROVE  Reps(r) \in SUBSET Devices /\ IsFiniteSet(Reps(r))
<1>1. PICK tp \in 1 .. NumDevice : tp = layout.tp
  BY DEF Layout
<1>2. PICK pp \in 1 .. NumDevice : pp = layout.pp
  BY DEF Layout
<1>3. PICK w : w = tp * pp
  OBVIOUS
<1>4. NumDevice \in Nat \ {0} /\ w \in Nat \ {0}
  BY <1>3, NumDeviceIsNat
<1>5. PICK q : q = NumDevice \div w
  OBVIOUS
<1>6. q \in Nat /\ q * w <= NumDevice /\ r \in Nat /\ r + 1 <= q
  BY <1>1, <1>2, <1>3, <1>4, <1>5 DEF Replicas
<1>7. r * w + w <= NumDevice
  <2>1. (r + 1) * w <= q * w
    BY <1>4, <1>6
  <2>2. (r + 1) * w = r * w + w /\ r * w \in Nat /\ q * w \in Nat
    BY <1>4, <1>6
  <2> QED
    BY <1>4, <1>6, <2>1, <2>2
<1>8. ASSUME NEW s \in 0 .. pp - 1
      PROVE  r * w + s * tp \in 0 .. NumDevice - 1
  <2>1. s * tp \in Nat /\ (s + 1) * tp <= pp * tp /\ (s + 1) * tp = s * tp + tp
    BY <1>1, <1>2
  <2>2. pp * tp = w /\ r * w \in Nat
    BY <1>3, <1>4, <1>6
  <2> QED
    BY <1>4, <1>7, <2>1, <2>2
<1>9. Reps(r) \in SUBSET Devices
  BY <1>1, <1>2, <1>3, <1>8, NumDeviceIsNat DEF Reps, Representative
<1>10. IsFiniteSet(Devices)
  BY NumDeviceIsNat, FS_Interval
<1> QED
  BY <1>9, <1>10, FS_Subset

\* When the machine is a whole number of replicas, every device has a peer that
\* stands for it.
LEMMA StandsFor ==
  ASSUME layout \in Layout, NEW d \in Devices,
         NumDevice % (layout.tp * layout.pp) = 0
  PROVE  \E r \in Replicas : Reps(r) \cap TpGroup(layout, d) # {}
<1>1. PICK tp \in 1 .. NumDevice : tp = layout.tp
  BY DEF Layout
<1>2. PICK pp \in 1 .. NumDevice : pp = layout.pp
  BY DEF Layout
<1>3. PICK w : w = tp * pp
  OBVIOUS
<1>4. /\ NumDevice \in Nat \ {0} /\ w \in Nat \ {0} /\ NumDevice % w = 0
      /\ d \in 0 .. NumDevice - 1
  BY <1>1, <1>2, <1>3, NumDeviceIsNat
<1>5. PICK q : q = d \div tp
  OBVIOUS
<1>6. q \in Nat /\ q * tp <= d
  BY <1>4, <1>5
<1>7. PICK r : r = q \div pp
  OBVIOUS
<1>8. PICK s : s = q % pp
  OBVIOUS
<1>9. r \in Nat /\ s \in 0 .. pp - 1 /\ q = r * pp + s
  <2>1. pp \in Nat \ {0}
    BY <1>2, <1>4
  <2>2. r \in Nat /\ s \in 0 .. pp - 1
    BY <1>6, <1>7, <1>8, <2>1
  <2>3. q = pp * (q \div pp) + (q % pp)
    BY <1>6, <2>1
  <2> QED
    BY <1>7, <1>8, <2>1, <2>2, <2>3
<1>10. Representative(r, s) = q * tp
  <2>1. Representative(r, s) = r * (tp * pp) + s * tp
    BY <1>1, <1>2 DEF Representative
  <2>2. q * tp = (r * pp) * tp + s * tp
    BY <1>9
  <2>3. (r * pp) * tp = r * (tp * pp)
    BY <1>9
  <2> QED
    BY <2>1, <2>2, <2>3
<1>11. q * tp \in TpGroup(layout, d)
  <2>1. q * tp \in 0 .. NumDevice - 1
    BY <1>4, <1>6
  <2>2. (q * tp) \div tp = q
    BY <1>1, <1>6
  <2> QED
    BY <1>1, <1>5, <2>1, <2>2, NumDeviceIsNat DEF TpGroup
<1>12. r \in Replicas
  <2>1. PICK n : n = NumDevice \div w
    OBVIOUS
  <2>2. n \in Nat /\ n * w = NumDevice
    BY <1>4, <2>1
  <2>3. r * w <= d
    <3>1. r * w = (r * pp) * tp
      BY <1>3, <1>9
    <3>2. r * pp <= q /\ r * pp \in Nat
      BY <1>9
    <3>3. (r * pp) * tp <= q * tp
      BY <1>6, <3>2
    <3> QED
      BY <1>4, <1>6, <1>9, <3>1, <3>3
  <2>4. r < n
    <3>1. SUFFICES ASSUME n <= r
                   PROVE  FALSE
      BY <1>9, <2>2
    <3>2. n * w <= r * w
      BY <1>4, <1>9, <2>2, <3>1
    <3>3. r * w \in Nat
      BY <1>4, <1>9
    <3> QED
      BY <1>4, <2>2, <2>3, <3>2, <3>3
  <2> QED
    BY <1>1, <1>2, <1>3, <1>9, <2>1, <2>2, <2>4 DEF Replicas
<1>13. Representative(r, s) \in Reps(r)
  BY <1>2, <1>9 DEF Reps
<1> QED
  BY <1>10, <1>11, <1>12, <1>13

\* A microbatch's part of a replica's time is not negative and no longer than the
\* whole.
LEMMA Pipelined ==
  ASSUME NEW p \in Nat \ {0}, NEW f \in Int, NEW g \in Nat, 0 <= p * f + g
  PROVE  g \div p \in Nat /\ 0 <= f + (g \div p) /\ g \div p <= g
<1>1. PICK q : q = g \div p
  OBVIOUS
<1>2. q \in Nat /\ q * p <= g /\ g < (q + 1) * p
  BY <1>1
<1>3. q * 1 <= q * p
  BY <1>2
<1>4. 0 <= f + q
  <2>1. SUFFICES ASSUME f + q < 0
                 PROVE  FALSE
    BY <1>2
  <2>2. f + (q + 1) <= 0
    BY <1>2, <2>1
  <2>3. p * (f + (q + 1)) <= 0
    BY <1>2, <2>2
  <2>4. p * (f + (q + 1)) = p * f + (q + 1) * p
    BY <1>2
  <2>5. p * f \in Int /\ (q + 1) * p \in Int
    BY <1>2
  <2> QED
    BY <1>2, <2>3, <2>4, <2>5
<1> QED
  BY <1>1, <1>2, <1>3, <1>4

\* Pipelining does not make a replica slower, and no device that stands for a
\* stage of it took longer than the replica.
LEMMA ReplicaTimes ==
  ASSUME GraphInv, NEW r \in Replicas
  PROVE  /\ ReplicaTime(r, TRUE) \in Nat /\ ReplicaTime(r, FALSE) \in Nat
         /\ ReplicaTime(r, TRUE) <= ReplicaTime(r, FALSE)
         /\ \A x \in Reps(r) : device_time[x] <= ReplicaTime(r, FALSE)
<1> USE DEF GraphInv, OrderOK, TimesOK
<1>1. /\ layout \in Layout
      /\ device_time \in [Devices -> Nat]
      /\ device_time_dep \in [Devices -> Nat]
      /\ pipeline_hop_time \in [Devices -> Nat]
  BY GraphTypes, ModuleGraphAssumption DEF TypeOK, StaticOK
<1> DEFINE S == Reps(r)
           own == [d \in Devices |-> OwnTime(d)]
<1>2. S \in SUBSET Devices /\ IsFiniteSet(S)
  BY <1>1, Representatives
<1>3. own \in [Devices -> Int]
  BY <1>1 DEF OwnTime
<1>4. PICK F : Adds(F, own, S) /\ MapThenSumSet(OwnTime, S) = F[S]
  BY <1>2, OwnSumIs
<1>5. PICK G : /\ Adds(G, device_time_dep, S)
               /\ MapThenSumSet(LAMBDA d : device_time_dep[d], S) = G[S]
  <2>1. \E it : Adds(it, device_time_dep, S)
    BY <1>2, SumExists
  <2> QED
    BY <2>1 DEF MapThenSumSet, MapThenFoldSet, Adds, SumAt, Choice
<1>6. PICK H : /\ Adds(H, pipeline_hop_time, S)
               /\ MapThenSumSet(LAMBDA d : pipeline_hop_time[d], S) = H[S]
  <2>1. \E it : Adds(it, pipeline_hop_time, S)
    BY <1>2, SumExists
  <2> QED
    BY <2>1 DEF MapThenSumSet, MapThenFoldSet, Adds, SumAt, Choice
<1>9. layout.pp \in Nat \ {0}
  BY <1>1, NumDeviceIsNat DEF Layout
<1>10. Shares(layout.pp, own, device_time_dep, pipeline_hop_time)
  <2>1. ASSUME NEW x \in Devices
        PROVE  /\ 0 <= own[x] + device_time_dep[x] + pipeline_hop_time[x]
               /\ 0 <= layout.pp * own[x] + device_time_dep[x]
    <3>1. PICK t \in Nat : t = device_time[x]
      BY <1>1
    <3>2. PICK c \in Nat : c = device_time_dep[x]
      BY <1>1
    <3>3. PICK h \in Nat : h = pipeline_hop_time[x]
      BY <1>1
    <3>4. PICK p \in Nat \ {0} : p = layout.pp
      BY <1>9
    <3>5. own[x] = t - h - c
      BY <3>1, <3>2, <3>3 DEF OwnTime
    <3>6. (p - 1) * c + p * h <= p * t
      BY <3>1, <3>2, <3>3, <3>4 DEF DepOK, Covered
    <3>7. /\ p * (t - h - c) = p * t - p * h - p * c
          /\ (p - 1) * c = p * c - c
          /\ p * t \in Nat /\ p * h \in Nat /\ p * c \in Nat
      OBVIOUS
    <3>8. 0 <= p * (t - h - c) + c
      BY <3>6, <3>7
    <3>9. 0 <= (t - h - c) + c + h
      OBVIOUS
    <3> QED
      BY <3>2, <3>3, <3>4, <3>5, <3>8, <3>9
  <2> HIDE DEF own
  <2> QED
    BY <2>1 DEF Shares
<1>7. /\ F[S] \in Int /\ G[S] \in Nat /\ H[S] \in Nat
      /\ 0 <= F[S] + G[S] + H[S]
      /\ 0 <= layout.pp * F[S] + G[S]
      /\ \A x \in S : own[x] + device_time_dep[x] + pipeline_hop_time[x]
                        <= F[S] + G[S] + H[S]
  <2> HIDE DEF own, S
  <2> QED
    BY <1>1, <1>2, <1>3, <1>4, <1>5, <1>6, <1>9, <1>10, SumsOfReplica
<1>8. /\ ReplicaTime(r, TRUE) = F[S] + (G[S] \div layout.pp) + H[S]
      /\ ReplicaTime(r, FALSE) = F[S] + G[S] + H[S]
  BY <1>4, <1>5, <1>6 DEF ReplicaTime
<1>11. ASSUME NEW x \in S
       PROVE  device_time[x] <= ReplicaTime(r, FALSE)
  <2>1. /\ x \in Devices /\ device_time[x] \in Nat
        /\ device_time_dep[x] \in Nat /\ pipeline_hop_time[x] \in Nat
    BY <1>1, <1>2
  <2>2. own[x] = device_time[x] - pipeline_hop_time[x] - device_time_dep[x]
    BY <2>1 DEF OwnTime
  <2>3. own[x] + device_time_dep[x] + pipeline_hop_time[x] = device_time[x]
    BY <2>1, <2>2
  <2> HIDE DEF own, S
  <2> QED
    BY <1>7, <1>8, <2>3
<1>12. /\ G[S] \div layout.pp \in Nat /\ G[S] \div layout.pp <= G[S]
       /\ 0 <= F[S] + (G[S] \div layout.pp)
  BY <1>7, <1>9, Pipelined
<1> HIDE DEF own, S
<1>13. /\ ReplicaTime(r, TRUE) \in Nat /\ ReplicaTime(r, FALSE) \in Nat
       /\ ReplicaTime(r, TRUE) <= ReplicaTime(r, FALSE)
  <2>1. PICK a : a = F[S]
    OBVIOUS
  <2>2. PICK b : b = G[S]
    OBVIOUS
  <2>3. PICK c : c = G[S] \div layout.pp
    OBVIOUS
  <2>4. PICK e : e = H[S]
    OBVIOUS
  <2>5. /\ a \in Int /\ b \in Nat /\ c \in Nat /\ e \in Nat /\ c <= b
        /\ 0 <= a + c
    BY <1>7, <1>12, <2>1, <2>2, <2>3, <2>4
  <2>6. a + c + e \in Nat /\ a + b + e \in Nat /\ a + c + e <= a + b + e
    BY <2>5
  <2> QED
    BY <1>8, <2>1, <2>2, <2>3, <2>4, <2>6
<1> QED
  BY <1>11, <1>13 DEF S

\* A set of numbers with a largest one has a maximum.
LEMMA MaxIs ==
  ASSUME NEW A, NEW m \in A, A \subseteq Nat, \A x \in A : x <= m
  PROVE  Max(A) \in A /\ \A x \in A : x <= Max(A)
<1>1. \A y \in A : m >= y
  OBVIOUS
<1> QED
  BY <1>1 DEF Max

\* The times of the replicas have.
LEMMA MaxOfReplicas ==
  ASSUME layout \in Layout, NEW f \in [Replicas -> Nat]
  PROVE  LET A == {0} \union {f[r] : r \in Replicas}
         IN Max(A) \in A /\ \A x \in A : x <= Max(A)
<1> DEFINE A == {0} \union {f[r] : r \in Replicas}
<1>1. Replicas \subseteq Devices
  <2>1. PICK w : w = layout.tp * layout.pp
    OBVIOUS
  <2>2. w \in Nat \ {0} /\ NumDevice \in Nat \ {0}
    BY <2>1, NumDeviceIsNat DEF Layout
  <2>3. PICK q : q = NumDevice \div w
    OBVIOUS
  <2>4. q \in Nat /\ q * w <= NumDevice
    BY <2>2, <2>3
  <2>5. q * 1 <= q * w
    BY <2>2, <2>4
  <2>6. q <= NumDevice
    BY <2>2, <2>4, <2>5
  <2> QED
    BY <2>1, <2>3, <2>4, <2>6, NumDeviceIsNat DEF Replicas
<1>2. \E m \in A : \A x \in A : x <= m
  <2>1. CASE Replicas = {}
    BY <2>1
  <2>2. CASE Replicas # {}
    <3> DEFINE g == [d \in Devices |-> IF d \in Replicas THEN f[d] ELSE 0]
    <3>1. g \in [Devices -> Nat]
      OBVIOUS
    <3>2. \E m \in Replicas : \A q \in Replicas : g[q] <= g[m]
      <4> HIDE DEF g
      <4> QED
        BY <1>1, <2>2, <3>1, LargestExists
    <3>3. \A q \in Replicas : g[q] = f[q]
      BY <1>1
    <3> HIDE DEF g
    <3>4. PICK m \in Replicas : \A q \in Replicas : f[q] <= f[m]
      BY <3>2, <3>3
    <3>5. f[m] \in A /\ f[m] \in Nat
      OBVIOUS
    <3>6. \A x \in A : x <= f[m]
      BY <3>4, <3>5
    <3> QED
      BY <3>5, <3>6
  <2> QED
    BY <2>1, <2>2
<1>3. A \subseteq Nat
  OBVIOUS
<1>4. Max(A) \in A /\ \A x \in A : x <= Max(A)
  <2> HIDE DEF A
  <2> QED
    BY <1>2, <1>3, MaxIs
<1> QED
  BY <1>4

\* The reported time is the one of some replica, and of none a longer one.
LEMMA Reported ==
  ASSUME GraphInv, layout.pp # 1, NEW pipelined \in BOOLEAN
  PROVE  /\ \A r \in Replicas :
              ReplicaTime(r, pipelined) <= ReportedIterationTime(pipelined)
         /\ \/ ReportedIterationTime(pipelined) = 0
            \/ \E r \in Replicas :
                 ReportedIterationTime(pipelined) = ReplicaTime(r, pipelined)
         /\ ReportedIterationTime(pipelined) \in Nat
<1> DEFINE f == [r \in Replicas |-> ReplicaTime(r, pipelined)]
           A == {0} \union {f[r] : r \in Replicas}
<1>1. f \in [Replicas -> Nat]
  BY ReplicaTimes
<1>2. layout \in Layout
  BY ModuleGraphAssumption DEF GraphInv, OrderOK, StaticOK
<1>3. A = {0} \union {ReplicaTime(r, pipelined) : r \in Replicas}
  OBVIOUS
<1>4. ReportedIterationTime(pipelined) = Max(A)
  BY <1>3 DEF ReportedIterationTime
<1>5. Max(A) \in A /\ \A x \in A : x <= Max(A)
  <2> HIDE DEF f
  <2> QED
    BY <1>1, <1>2, MaxOfReplicas
<1>6. /\ \A x \in A : x <= ReportedIterationTime(pipelined)
      /\ ReportedIterationTime(pipelined) \in A
  BY <1>4, <1>5
<1>7. A \subseteq Nat
  BY <1>1
<1> QED
  BY <1>6, <1>7

\* The largest clock of the machine is that of a device.
LEMMA MaxDeviceTimeIs ==
  ASSUME device_time \in [Devices -> Nat]
  PROVE  \E d \in Devices : MaxDeviceTime = device_time[d]
<1>1. Devices \in SUBSET Devices /\ Devices # {}
  BY NumDeviceIsNat
<1>2. PICK d \in Devices : \A q \in Devices : device_time[q] <= device_time[d]
  BY <1>1, LargestExists
<1> DEFINE A == {device_time[q] : q \in Devices}
<1>3. device_time[d] \in A /\ A \subseteq Nat
        /\ \A x \in A : x <= device_time[d]
  BY <1>2
<1>4. Max(A) \in A
  <2> HIDE DEF A
  <2> QED
    BY <1>3, MaxIs
<1> QED
  BY <1>4 DEF MaxDeviceTime

\* Every layout divides the machine into whole replicas.
WholeReplicas == \A x \in Layouts : NumDevice % (x.tp * x.pp) = 0

\* The reconstruction of an iteration's time from the stages of a pipeline is
\* sound, for every layout that divides the machine, whatever decides the time
\* of a module and however many cold experts are charged more than their time:
\* the share of a stage in the pipelined time is not negative, dividing the
\* charge among the microbatches does not make the iteration slower, and without
\* the division the iteration takes no less than any of its devices did.
THEOREM ReportIsSound ==
  ASSUME WholeReplicas
  PROVE  Spec => []ReconstructionIsSound
<1>1. ASSUME GraphInv
      PROVE  ReconstructionIsSound
  <2> USE <1>1
  <2>1. /\ layout \in Layout /\ layout \in Layouts
        /\ device_time \in [Devices -> Nat]
    BY GraphTypes, ModuleGraphAssumption
       DEF TypeOK, GraphInv, OrderOK, StaticOK
  <2>2. PICK d \in Devices : MaxDeviceTime = device_time[d]
    BY <2>1, MaxDeviceTimeIs
  <2>3. device_time[d] \in Nat
    BY <2>1
  <2> SUFFICES ASSUME RunDone
               PROVE  ReconstructionIsSound
    BY DEF ReconstructionIsSound
  <2>4. ASSUME NEW x \in Devices
        PROVE  (layout.pp - 1) * device_time_dep[x]
                 <= layout.pp * (device_time[x] - pipeline_hop_time[x])
    <3>1. /\ device_time[x] \in Nat /\ device_time_dep[x] \in Nat
          /\ pipeline_hop_time[x] \in Nat
      BY GraphTypes DEF TypeOK
    <3>2. PICK t \in Nat : t = device_time[x]
      BY <3>1
    <3>3. PICK c \in Nat : c = device_time_dep[x]
      BY <3>1
    <3>4. PICK h \in Nat : h = pipeline_hop_time[x]
      BY <3>1
    <3>5. PICK p \in Nat \ {0} : p = layout.pp
      BY StagesAre DEF GraphInv, OrderOK
    <3>6. (p - 1) * c + p * h <= p * t
      BY <3>2, <3>3, <3>4, <3>5 DEF GraphInv, DepOK, Covered
    <3>7. p * (t - h) = p * t - p * h /\ (p - 1) * c \in Nat
          /\ p * t \in Nat /\ p * h \in Nat
      OBVIOUS
    <3>8. (p - 1) * c <= p * (t - h)
      BY <3>6, <3>7
    <3> QED
      BY <3>2, <3>3, <3>4, <3>5, <3>8
  <2>5. PICK fast : fast = ReportedIterationTime(TRUE)
    OBVIOUS
  <2>6. PICK slow : slow = ReportedIterationTime(FALSE)
    OBVIOUS
  <2>7. PICK t : t = device_time[d]
    OBVIOUS
  <2>8. fast <= slow /\ t <= slow
    <3>1. CASE layout.pp = 1
      <4>1. fast = t /\ slow = t
        BY <2>2, <2>5, <2>6, <2>7, <3>1 DEF ReportedIterationTime
      <4> QED
        BY <2>3, <2>7, <4>1
    <3>2. CASE layout.pp # 1
      <4>1. slow \in Nat /\ \A r \in Replicas : ReplicaTime(r, FALSE) <= slow
        BY <2>6, <3>2, Reported
      <4>2. fast = 0 \/ \E r \in Replicas : fast = ReplicaTime(r, TRUE)
        BY <2>5, <3>2, Reported
      <4>3. ASSUME NEW r \in Replicas, fast = ReplicaTime(r, TRUE)
            PROVE  fast <= slow
        <5>1. PICK c : c = ReplicaTime(r, FALSE)
          OBVIOUS
        <5>2. fast \in Nat /\ c \in Nat /\ fast <= c
          BY <4>3, <5>1, ReplicaTimes
        <5>3. c <= slow
          BY <4>1, <5>1
        <5> QED
          BY <4>1, <5>2, <5>3
      <4>4. fast <= slow
        <5>1. fast = 0 => fast <= slow
          BY <4>1
        <5> QED
          BY <4>2, <4>3, <5>1, Zenon
      <4>5. PICK r \in Replicas : Reps(r) \cap TpGroup(layout, d) # {}
        <5>1. NumDevice % (layout.tp * layout.pp) = 0
          BY <2>1 DEF WholeReplicas
        <5> QED
          BY <2>1, <5>1, StandsFor
      <4>6. PICK m \in TpGroup(layout, d) : m \in Reps(r)
        BY <4>5
      <4>7. PICK c : c = ReplicaTime(r, FALSE)
        OBVIOUS
      <4>8. t <= c
        <5>1. device_time[m] = device_time[d]
          BY PeersAgree DEF Clock
        <5> QED
          BY <2>7, <4>6, <4>7, <5>1, ReplicaTimes
      <4>9. c \in Nat /\ c <= slow /\ t \in Nat
        BY <2>3, <2>7, <4>1, <4>7, ReplicaTimes
      <4> QED
        BY <4>1, <4>4, <4>8, <4>9
    <3> QED
      BY <3>1, <3>2
  <2> QED
    BY <2>2, <2>4, <2>5, <2>6, <2>7, <2>8 DEF ReconstructionIsSound
<1> QED
  BY <1>1, GraphInvariant, PTL

=============================================================================
