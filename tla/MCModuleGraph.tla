--------------------------- MODULE MCModuleGraph ---------------------------
(***************************************************************************)
(* The layouts of four devices TLC runs the graphs with.                   *)
(***************************************************************************)
EXTENDS ModuleGraph

\* Tensor, expert-tensor and data parallelism in every combination, on one
\* stage or two, with dense and expert layers.
GraphLayouts ==
  { [tp |-> 1, pp |-> 1, e_tp |-> 2, moe |-> <<TRUE>>],
    [tp |-> 2, pp |-> 1, e_tp |-> 4, moe |-> <<FALSE, TRUE>>],
    [tp |-> 2, pp |-> 2, e_tp |-> 2, moe |-> <<FALSE, TRUE>>],
    [tp |-> 1, pp |-> 2, e_tp |-> 1, moe |-> <<TRUE, TRUE>>] }

\* No expert of a device has tokens, only hot ones, or cold ones too, whose time
\* outweighs that of everything else the device does.
GraphExpertLoads == {[hot |-> 0, cold |-> 0], [hot |-> 2, cold |-> 0],
                     [hot |-> 2, cold |-> 40]}

\* Feed-forward networks and heads bound by reading weights from flash.
GraphDependence ==
  [m \in TimedModules |->
     CASE m \in {"layer_norm", "residual"} -> "whole"
       [] m \in {"attention", "all_reduce", "moe_scatter", "moe_gather"} ->
            "part"
       [] OTHER -> "none"]

PipelineLayouts == { [tp |-> 2, pp |-> 2, e_tp |-> 1, moe |-> <<TRUE, TRUE>>] }
=============================================================================
