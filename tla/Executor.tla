------------------------------- MODULE Executor -------------------------------
(***************************************************************************)
(* How a device executes one mixture-of-experts layer, step after step     *)
(* (src/hardware/executor.cpp, and the forward methods of                  *)
(* src/module/linear.cpp, activation.cpp and route.cpp): an operation is   *)
(* evaluated on each processor of a list, and the cheapest one is the      *)
(* device's.  Evaluating has side effects on the tensors: a flag on an     *)
(* expert's weight that charges a page of flash once, and a tag that       *)
(* follows an expert's activations through its feed-forward network.       *)
(*                                                                         *)
(* Beside the fields Layers names, a machine has the processor list procs, *)
(* the high and the low processor, and the switches hetero_subbatch and    *)
(* use_low_unit_moe_only.  Experts with three projections are modelled;    *)
(* the switch parallel_execution is off.                                   *)
(*                                                                         *)
(* A definition whose comment starts with "Slip" is not part of the model. *)
(***************************************************************************)
EXTENDS Layers

CONSTANTS
  Machines,           \* the machines to run
  N,                  \* local experts of the device
  Batches             \* the <<prompts, decoding sequences>> of a step

Experts == 1..N

ASSUME ExecutorAssumption ==
  /\ N \in Nat \ {0}
  /\ Batches \subseteq Batch \X Batch
  /\ \A m \in Machines : /\ IsMachine(m)
                         /\ m.procs \in Seq(Processors)
                         /\ m.procs # <<>>
                         /\ m.high \in Processors
                         /\ m.low \in Processors

VARIABLES
  machine,            \* fixed when the system is built
  batch,              \* the step's <<prompts, decoding sequences>>
  tokens, micro,      \* of each expert: in the batch, in its first microbatch
  armed,              \* experts whose gate_proj has the page flag set
  cold,               \* the tag cold_at_micro of each expert's tensors
  expert, op,         \* the operation to execute; expert 0 is the attention
  tried,              \* processors it was evaluated on
  best,               \* optimal_status
  exposed             \* history: experts whose chosen gate paid for a page

vars == <<machine, batch, tokens, micro, armed, cold, expert, op, tried, best,
          exposed>>

Sums == batch[1]
Gens == batch[2]
Tensors == {"in", "gate", "act", "up", "down"}
Ops == {"begin", "sum", "gen", "route", "gate", "act", "up", "down", "fail"}
----------------------------------------------------------------------------
(***************************************************************************)
(* The processors an operation is evaluated on.                            *)
(***************************************************************************)

\* Latent attention takes the high one of several.
AttentionProcs(m) ==
  IF m.attention = "gqa" \/ Len(m.procs) = 1 THEN m.procs ELSE <<m.high>>

\* Route marks the experts' inputs for the low processor, or for the best one;
\* linear layers and activations follow the mark and hand it on.
ExpertProcs(m) ==
  IF m.hetero_subbatch \/ m.use_low_unit_moe_only THEN <<m.low>> ELSE m.procs

Procs == IF expert = 0 THEN AttentionProcs(machine) ELSE ExpertProcs(machine)

\* The tensor a projection reads.  FeedForward3Way hands the result of the
\* activation to nobody: down_proj reads that of up_proj.
Input == [gate |-> "in", act |-> "gate", up |-> "in", down |-> "up"]
IsExpertOp == op \in DOMAIN Input

Projection(m, rows, k, n) ==
  [m |-> rows, k |-> k, n |-> n, heads |-> 1, duplicated |-> FALSE]

\* An operation's status on processor p, when the page flag is `expose'.
Status(p, expose) ==
  LET m == machine
      rows == tokens[expert]
      tag == cold[expert][Input[op]]
      wide == Projection(m, rows, m.hidden_dim, m.intermediate_dim)
      narrow == Projection(m, rows, m.intermediate_dim, m.hidden_dim)
  IN CASE op = "sum" -> AttentionSum(m, p, Sums)
       [] op = "gen" -> AttentionGen(m, p, Gens)
       [] op = "gate" -> LinearCore(m.c, p, wide, m.precision, expose, tag)
       [] op = "act" ->
            ActivationCore(m.c, p, rows, m.intermediate_dim, m.precision, tag)
       [] op = "up" -> LinearCore(m.c, p, wide, m.precision, FALSE, tag)
       [] op = "down" -> LinearCore(m.c, p, narrow, m.precision, FALSE, tag)
----------------------------------------------------------------------------
(***************************************************************************)
(* The steps.                                                              *)
(***************************************************************************)
Init ==
  /\ machine \in Machines
  /\ batch = << <<>>, <<>> >>
  /\ tokens = [e \in Experts |-> 0]
  /\ micro = [e \in Experts |-> 0]
  /\ armed = {}
  /\ cold = [e \in Experts |-> [t \in Tensors |-> FALSE]]
  /\ expert = 0
  /\ op = "begin"
  /\ tried = <<>>
  /\ best = EmptyStatus
  /\ exposed = {}

\* update_expert: of n tokens the first ones, up to the cutoff, are the first
\* microbatch; each chooses different experts.
Cutoff(n) == (n + machine.c.pp - 1) \div machine.c.pp

Drawn(n) ==
  { d \in [Experts -> 0..n] \X [Experts -> 0..Cutoff(n)] :
      \A e \in Experts : d[1][e] - d[2][e] \in 0..(n - Cutoff(n)) }

Begin ==
  /\ op = "begin"
  /\ \E b \in Batches :
       /\ batch' = b
       /\ \E d \in Drawn(Tokens(b[1]) + Tokens(b[2])) :
            /\ tokens' = d[1]
            /\ micro' = d[2]
  /\ op' = "sum"
  /\ UNCHANGED <<machine, armed, cold, expert, tried, best, exposed>>

\* Slip: the first local expert is armed whether it has tokens or not.
Activated_First == {1}

\* Slip: the position in expert_token_list, which counts from zero, is taken
\* for the expert.
Activated_Local ==
  {e - 1 : e \in {x \in Experts : tokens[x] > 0
                                  /\ \A f \in 1..(x - 1) : tokens[f] = 0}}

\* The first local expert that has tokens.
Activated ==
  {e \in Experts : tokens[e] > 0 /\ \A f \in 1..(e - 1) : tokens[f] = 0}

\* Cold in the first microbatch.
ColdInput(e) == machine.c.pp > 1 /\ tokens[e] > 0 /\ micro[e] = 0

\* Route::forward
RouteForward ==
  /\ op = "route"
  /\ armed' = armed \cup (IF machine.c.expose_first_expert THEN Activated
                          ELSE {})
  /\ cold' = [e \in Experts |-> [cold[e] EXCEPT !["in"] = ColdInput(e)]]
  /\ expert' = 1
  /\ op' = "gate"
  /\ exposed' = {}
  /\ UNCHANGED <<machine, batch, tokens, micro, tried, best>>

\* Slip: the flag is reset where it is charged.
Disarmed_WhenCharged ==
  IF op = "gate" /\ machine.c.use_hbf /\ tokens[expert] > 0
  THEN armed \ {expert} ELSE armed

\* linearCore resets the flag of its weight before anything else.
Disarmed == IF op = "gate" THEN armed \ {expert} ELSE armed

\* Slip: the activation does not hand its tag on, nor a product.
Carried_Not == cold

\* An operation on an input that is not empty hands the tag on.
Carried ==
  IF IsExpertOp /\ tokens[expert] > 0
  THEN [cold EXCEPT ![expert][op] = cold[expert][Input[op]]] ELSE cold

\* Slip: the dearer processor wins.
Better_Reversed(status) == best.total = 0 \/ best.total < status.total

\* Zero stands for no status yet.
Better(status) == best.total = 0 \/ best.total > status.total

\* Executor::execution, one processor of the list.
Evaluate ==
  /\ op \in {"sum", "gen"} \/ IsExpertOp
  /\ Len(tried) < Len(Procs)
  /\ LET p == Procs[Len(tried) + 1]
         expose == op = "gate" /\ expert \in armed
         status == Status(p, expose)
     IN /\ status # Failure
        /\ tried' = Append(tried, p)
        /\ best' = IF Better(status) THEN status ELSE best
        /\ exposed' = IF op = "gate" /\ Better(status)
                      THEN IF expose /\ tokens[expert] > 0
                           THEN exposed \cup {expert} ELSE exposed \ {expert}
                      ELSE exposed
  /\ armed' = Disarmed
  /\ cold' = Carried
  /\ UNCHANGED <<machine, batch, tokens, micro, expert, op>>

\* A kernel stops the program.
Fail ==
  /\ op \in {"sum", "gen"}
  /\ Len(tried) < Len(Procs)
  /\ Status(Procs[Len(tried) + 1], FALSE) = Failure
  /\ op' = "fail"
  /\ UNCHANGED <<machine, batch, tokens, micro, armed, cold, expert, tried,
                 best, exposed>>

\* The order of FeedForward3Way::forward.
NextOp == [sum |-> "gen", gen |-> "route", gate |-> "act", act |-> "up",
           up |-> "down"]

\* Device::setExecStatus; the next operation.
Conclude ==
  /\ op \in {"sum", "gen"} \/ IsExpertOp
  /\ Len(tried) = Len(Procs)
  /\ tried' = <<>>
  /\ best' = EmptyStatus
  /\ IF op # "down"
     THEN op' = NextOp[op] /\ expert' = expert
     ELSE IF expert < N
     THEN op' = "gate" /\ expert' = expert + 1
     ELSE op' = "begin" /\ expert' = 0
  /\ UNCHANGED <<machine, batch, tokens, micro, armed, cold, exposed>>

Stopped == op = "fail" /\ UNCHANGED vars

Next == Begin \/ RouteForward \/ Evaluate \/ Fail \/ Conclude \/ Stopped

Spec == Init /\ [][Next]_vars
----------------------------------------------------------------------------
(***************************************************************************)
(* Properties.                                                             *)
(***************************************************************************)

\* Every variable has its type.
TypeOK ==
  /\ machine \in Machines
  /\ tokens \in [Experts -> Nat]
  /\ micro \in [Experts -> Nat]
  /\ armed \subseteq Experts
  /\ cold \in [Experts -> [Tensors -> BOOLEAN]]
  /\ expert \in 0..N
  /\ op \in Ops
  /\ expert = 0 <=> ~IsExpertOp
  /\ tried \in Seq(Processors)
  /\ exposed \subseteq Experts

\* No page flag survives its layer, and while the experts run only an expert
\* that is still to be executed has one: a flag is used up on every path of
\* linearCore, also where flash is not charged (tensor.h's contract).
NoFlagLeaks ==
  /\ expert = 0 => armed = {}
  /\ \A e \in armed :
       e > expert \/ (e = expert /\ op = "gate" /\ tried = <<>>)

\* When a layer is over, the page was charged to the first activated expert,
\* once, and to nobody when the switch is off or no expert was activated.
FirstExpertPaysOnce ==
  (op = "down" /\ expert = N) =>
     exposed = IF machine.c.expose_first_expert THEN Activated ELSE {}

\* The reconstruction of a pipeline step takes total - dep * (pp - 1) / pp of
\* an operation.  It takes nothing of any operation of an expert that has no
\* token in the first microbatch, and not less than its share of the others:
\* the tag reaches all three projections and the activation, and a tag of an
\* earlier step reaches none.  What the division of integers in Cold leaves is
\* less than a tick for each stage but one, nothing with two stages.
TagsAreExact ==
  (IsExpertOp /\ Len(tried) = Len(Procs) /\ tokens[expert] > 0) =>
     LET pp == machine.c.pp
     IN IF pp > 1 /\ micro[expert] = 0
        THEN pp * best.total - (pp - 1) * best.dep \in 0..(pp - 2)
        ELSE best.dep <= best.total

\* The status the device gets is the least of the statuses of the processors
\* in the list, evaluated on equal terms.
PicksTheCheapest ==
  (op # "fail" /\ tried # <<>> /\ Len(tried) = Len(Procs)) =>
     best.total = Min({Status(Procs[i], expert \in exposed).total :
                         i \in DOMAIN Procs})
=============================================================================
