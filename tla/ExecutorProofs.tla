---------------------------- MODULE ExecutorProofs ----------------------------
(***************************************************************************)
(* The page flag and the tags of the experts, and the processor that wins, *)
(* proved for every set of machines, number of experts and set of batches. *)
(* The first results do not depend on what an operation costs; the last    *)
(* two rest on what CostProofs shows of the kernels.                       *)
(***************************************************************************)
EXTENDS Executor, CostProofs

\* The experts whose gate has been evaluated in this layer.
Passed ==
  {e \in Experts : \/ e < expert
                   \/ e = expert /\ ~(op = "gate" /\ tried = <<>>)}

\* Whom the page is due from.
Due == IF machine.c.expose_first_expert THEN Activated ELSE {}

\* NoFlagLeaks is inductive once an operation is known to start untried.
FlagsInv ==
  /\ NoFlagLeaks
  /\ op \in {"begin", "route"} => tried = <<>>

\* While the experts run, the flag that is due has been charged or still waits.
DueInv ==
  /\ tried = <<>> => best = EmptyStatus
  /\ expert > 0 => armed = Due \ Passed /\ exposed = Due \cap Passed

\* One processor executes the experts.
OneProcessor == \A m \in Machines : Len(ExpertProcs(m)) = 1
----------------------------------------------------------------------------
\* Processor lists are sequences of processors, and not empty.
LEMMA ProcsType ==
  ASSUME TypeOK
  PROVE  Procs \in Seq(Processors) /\ Procs # <<>>
<1>1. /\ machine.procs \in Seq(Processors) /\ machine.procs # <<>>
      /\ machine.high \in Processors /\ machine.low \in Processors
  BY ExecutorAssumption DEF TypeOK
<1>2. AttentionProcs(machine) \in Seq(Processors)
        /\ AttentionProcs(machine) # <<>>
  BY <1>1 DEF AttentionProcs
<1>3. ExpertProcs(machine) \in Seq(Processors) /\ ExpertProcs(machine) # <<>>
  BY <1>1 DEF ExpertProcs
<1> QED
  BY <1>2, <1>3 DEF Procs

\* The operations of an expert.
LEMMA ExpertOps == DOMAIN Input = {"gate", "act", "up", "down"}
  BY DEF Input

\* Initially everything has its type.
LEMMA InitTypeOK == Init => TypeOK
<1> SUFFICES ASSUME Init PROVE TypeOK
  OBVIOUS
<1>1. cold \in [Experts -> [Tensors -> BOOLEAN]]
  BY DEF Init
<1>2. tokens \in [Experts -> Nat] /\ micro \in [Experts -> Nat]
  BY DEF Init
<1>3. expert = 0 <=> ~IsExpertOp
  BY ExpertOps DEF Init, IsExpertOp
<1> QED
  BY <1>1, <1>2, <1>3, ExecutorAssumption DEF Init, TypeOK, Ops, Experts

\* What is drawn are numbers of tokens.
LEMMA DrawnType ==
  ASSUME NEW n, NEW d \in Drawn(n)
  PROVE  d[1] \in [Experts -> Nat] /\ d[2] \in [Experts -> Nat]
<1>1. PICK f \in [Experts -> 0..n], g \in [Experts -> 0..Cutoff(n)] :
        d = <<f, g>>
  BY DEF Drawn
<1>2. \A k : (0..k) \subseteq Nat
  OBVIOUS
<1>3. f \in [Experts -> Nat] /\ g \in [Experts -> Nat]
  BY <1>1, <1>2
<1> QED
  BY <1>1, <1>3

\* Each step keeps the types.
LEMMA NextTypeOK == TypeOK /\ [Next]_vars => TypeOK'
<1> SUFFICES ASSUME TypeOK, [Next]_vars PROVE TypeOK'
  OBVIOUS
<1> USE ExecutorAssumption
<1>1. CASE Begin
  <2>1. tokens' \in [Experts -> Nat] /\ micro' \in [Experts -> Nat]
    BY <1>1, DrawnType DEF Begin
  <2>2. expert' = 0 /\ (~IsExpertOp)'
    BY <1>1, ExpertOps DEF Begin, TypeOK, IsExpertOp, Input
  <2> QED
    BY <1>1, <2>1, <2>2 DEF Begin, TypeOK, Ops
<1>2. CASE RouteForward
  <2>1. armed' \subseteq Experts
    BY <1>2 DEF RouteForward, TypeOK, Activated
  <2>2. cold' \in [Experts -> [Tensors -> BOOLEAN]]
    <3>1. ASSUME NEW e \in Experts PROVE ColdInput(e) \in BOOLEAN
      BY DEF ColdInput
    <3>2. ASSUME NEW e \in Experts
          PROVE  [cold[e] EXCEPT !["in"] = ColdInput(e)]
                   \in [Tensors -> BOOLEAN]
      <4>1. cold[e] \in [Tensors -> BOOLEAN]
        BY DEF TypeOK
      <4> QED
        BY <3>1, <4>1
    <3> QED
      BY <1>2, <3>2 DEF RouteForward
  <2>3. expert' \in 1..N /\ IsExpertOp'
    BY <1>2, ExpertOps DEF RouteForward, IsExpertOp, Input
  <2> QED
    BY <1>2, <2>1, <2>2, <2>3 DEF RouteForward, TypeOK, Ops, Experts
<1>3. CASE Evaluate
  <2>1. tried' \in Seq(Processors)
    <3>1. Len(tried) + 1 \in 1..Len(Procs)
      BY <1>3, ProcsType DEF Evaluate, TypeOK
    <3>2. Procs[Len(tried) + 1] \in Processors
      BY <3>1, ProcsType
    <3> QED
      BY <1>3, <3>2 DEF Evaluate, TypeOK
  <2>2. armed' \subseteq Experts
    BY <1>3 DEF Evaluate, Disarmed, TypeOK
  <2>3. cold' \in [Experts -> [Tensors -> BOOLEAN]]
    <3>1. CASE IsExpertOp /\ tokens[expert] > 0
      <4>1. expert \in Experts
        BY <3>1 DEF TypeOK, Experts
      <4>2. op \in Tensors /\ Input[op] \in Tensors
        BY <3>1, ExpertOps DEF IsExpertOp, Input, Tensors
      <4>3. cold[expert][Input[op]] \in BOOLEAN
        BY <4>1, <4>2 DEF TypeOK
      <4>4. cold' = [cold EXCEPT ![expert][op] = cold[expert][Input[op]]]
        BY <1>3, <3>1 DEF Evaluate, Carried
      <4> QED
        BY <4>1, <4>2, <4>3, <4>4 DEF TypeOK
    <3>2. CASE ~(IsExpertOp /\ tokens[expert] > 0)
      BY <1>3, <3>2 DEF Evaluate, Carried, TypeOK
    <3> QED
      BY <3>1, <3>2
  <2>4. exposed' \subseteq Experts
    <3>1. op = "gate" => expert \in Experts
      BY ExpertOps DEF TypeOK, IsExpertOp, Experts
    <3> QED
      BY <1>3, <3>1 DEF Evaluate, TypeOK
  <2>5. IsExpertOp' <=> IsExpertOp
    BY <1>3 DEF Evaluate, IsExpertOp, Input
  <2> QED
    BY <1>3, <2>1, <2>2, <2>3, <2>4, <2>5 DEF Evaluate, TypeOK
<1>4. CASE Fail
  BY <1>4, ExpertOps DEF Fail, TypeOK, IsExpertOp, Ops, Input
<1>5. CASE Conclude
  <2>1. op' \in Ops /\ expert' \in 0..N /\ (expert' = 0 <=> (~IsExpertOp)')
    <3>1. CASE op = "sum" \/ op = "gen"
      BY <1>5, <3>1, ExpertOps
      DEF Conclude, TypeOK, IsExpertOp, Ops, NextOp, Input
    <3>2. CASE op = "gate" \/ op = "act" \/ op = "up"
      BY <1>5, <3>2, ExpertOps
      DEF Conclude, TypeOK, IsExpertOp, Ops, NextOp, Input
    <3>3. CASE op = "down"
      BY <1>5, <3>3, ExpertOps
      DEF Conclude, TypeOK, IsExpertOp, Ops, Input
    <3> QED
      BY <1>5, <3>1, <3>2, <3>3, ExpertOps DEF Conclude, IsExpertOp
  <2> QED
    BY <1>5, <2>1 DEF Conclude, TypeOK
<1>6. CASE Stopped
  BY <1>6 DEF Stopped, vars, TypeOK, IsExpertOp, Input
<1>7. CASE UNCHANGED vars
  BY <1>7 DEF vars, TypeOK, IsExpertOp, Input
<1> QED
  BY <1>1, <1>2, <1>3, <1>4, <1>5, <1>6, <1>7 DEF Next

\* Every variable has its type, for all machines and batches.
THEOREM TypeCorrect == Spec => []TypeOK
<1> QED
  BY InitTypeOK, NextTypeOK, PTL DEF Spec
----------------------------------------------------------------------------
(***************************************************************************)
(* No page flag outlives its layer.                                        *)
(***************************************************************************)

\* Initially no flag is set.
LEMMA InitFlags == Init => FlagsInv
  BY DEF Init, FlagsInv, NoFlagLeaks

\* A step that changes neither flags nor the operation changes nothing here.
LEMMA FlagsUnchanged ==
  ASSUME FlagsInv, UNCHANGED <<armed, expert, op, tried>>
  PROVE  FlagsInv'
  BY DEF FlagsInv, NoFlagLeaks

\* Each step keeps the flags within their layer.
LEMMA NextFlags == TypeOK /\ FlagsInv /\ [Next]_vars => FlagsInv'
<1> SUFFICES ASSUME TypeOK, FlagsInv, [Next]_vars PROVE FlagsInv'
  OBVIOUS
<1> USE ExecutorAssumption
<1>1. CASE Begin
  BY <1>1 DEF Begin, FlagsInv, NoFlagLeaks
<1>2. CASE RouteForward
  <2>1. expert = 0 /\ armed = {} /\ tried = <<>>
    BY <1>2, ExpertOps
    DEF RouteForward, TypeOK, IsExpertOp, FlagsInv, NoFlagLeaks
  <2>2. armed' \subseteq Experts
    BY <1>2, <2>1 DEF RouteForward, Activated
  <2>3. \A e \in Experts : e > 1 \/ e = 1
    BY DEF Experts
  <2> QED
    BY <1>2, <2>1, <2>2, <2>3 DEF RouteForward, FlagsInv, NoFlagLeaks
<1>3. CASE Evaluate
  <2>1. op \notin {"begin", "route"}
    BY <1>3, ExpertOps DEF Evaluate, IsExpertOp
  <2>2. expert' = expert /\ op' = op /\ armed' = Disarmed
    BY <1>3 DEF Evaluate
  <2>3. CASE op = "gate"
    BY <2>1, <2>2, <2>3 DEF FlagsInv, NoFlagLeaks, Disarmed
  <2>4. CASE op # "gate"
    BY <2>1, <2>2, <2>4 DEF FlagsInv, NoFlagLeaks, Disarmed
  <2> QED
    BY <2>3, <2>4
<1>4. CASE Fail
  <2>1. expert = 0 /\ armed = {}
    BY <1>4, ExpertOps DEF Fail, TypeOK, IsExpertOp, FlagsInv, NoFlagLeaks
  <2> QED
    BY <1>4, <2>1 DEF Fail, FlagsInv, NoFlagLeaks
<1>5. CASE Conclude
  <2>1. tried # <<>>
    BY <1>5, ProcsType DEF Conclude
  <2>2. \A e \in armed : e > expert
    BY <2>1 DEF FlagsInv, NoFlagLeaks
  <2>3. armed' = armed /\ tried' = <<>>
    BY <1>5 DEF Conclude
  <2>4. armed \subseteq 1..N /\ expert \in 0..N
    BY DEF TypeOK, Experts
  <2>5. CASE op # "down"
    BY <1>5, <2>2, <2>3, <2>5 DEF Conclude, FlagsInv, NoFlagLeaks
  <2>6. CASE op = "down" /\ expert < N
    <3>1. op' = "gate" /\ expert' = expert + 1
      BY <1>5, <2>6 DEF Conclude
    <3>2. \A e \in armed : e > expert + 1 \/ e = expert + 1
      BY <2>2, <2>4
    <3>3. expert + 1 # 0
      BY <2>4
    <3> QED
      BY <2>3, <3>1, <3>2, <3>3 DEF FlagsInv, NoFlagLeaks
  <2>7. CASE op = "down" /\ ~(expert < N)
    <3>1. armed = {}
      BY <2>2, <2>4, <2>7
    <3> QED
      BY <2>3, <3>1 DEF FlagsInv, NoFlagLeaks
  <2> QED
    BY <2>5, <2>6, <2>7
<1>6. CASE Stopped
  BY <1>6, FlagsUnchanged DEF Stopped, vars
<1>7. CASE UNCHANGED vars
  BY <1>7, FlagsUnchanged DEF vars
<1> QED
  BY <1>1, <1>2, <1>3, <1>4, <1>5, <1>6, <1>7 DEF Next

\* No page flag survives its layer, and while the experts run only experts to
\* come have one, for all machines, also where several processors compete.
THEOREM FlagsStayInTheLayer == Spec => []NoFlagLeaks
<1>1. FlagsInv => NoFlagLeaks
  BY DEF FlagsInv
<1> QED
  BY InitTypeOK, NextTypeOK, InitFlags, NextFlags, <1>1, PTL DEF Spec
----------------------------------------------------------------------------
(***************************************************************************)
(* Where one processor executes the experts, the first activated one pays. *)
(***************************************************************************)

\* Initially nothing is due.
LEMMA InitDue == Init => DueInv
  BY DEF Init, DueInv

\* Who has passed and from whom the page is due depends on these alone.
LEMMA DueUnchanged ==
  ASSUME DueInv, UNCHANGED <<machine, tokens, armed, expert, op, tried, best,
                             exposed>>
  PROVE  DueInv'
  BY DEF DueInv, Due, Activated, Passed

\* Each step charges the flag that is due, or leaves it.
LEMMA NextDue ==
  ASSUME OneProcessor, TypeOK, FlagsInv, DueInv, [Next]_vars
  PROVE  DueInv'
<1> USE ExecutorAssumption
<1>1. CASE Begin
  <2>1. expert = 0
    BY <1>1, ExpertOps DEF Begin, TypeOK, IsExpertOp
  <2> QED
    BY <1>1, <2>1 DEF Begin, DueInv
<1>2. CASE RouteForward
  <2>1. expert = 0 /\ armed = {} /\ tried = <<>>
    BY <1>2, ExpertOps
    DEF RouteForward, TypeOK, IsExpertOp, FlagsInv, NoFlagLeaks
  <2>2. Due' = Due /\ armed' = Due /\ exposed' = {}
    BY <1>2, <2>1 DEF RouteForward, Due, Activated
  <2>3. Passed' = {}
    BY <1>2, <2>1 DEF RouteForward, Passed, Experts
  <2>4. tried' = <<>> => best' = EmptyStatus
    BY <1>2 DEF RouteForward, DueInv
  <2> QED
    BY <2>2, <2>3, <2>4 DEF DueInv
<1>3. CASE Evaluate
  <2>1. tried' # <<>>
    BY <1>3 DEF Evaluate, TypeOK
  <2>2. expert' = expert /\ op' = op /\ Due' = Due
    BY <1>3 DEF Evaluate, Due, Activated
  <2>3. CASE expert = 0
    BY <2>1, <2>2, <2>3 DEF DueInv
  <2>4. CASE expert > 0
    <3>1. machine \in Machines /\ Procs = ExpertProcs(machine)
      BY <2>4 DEF TypeOK, Procs
    <3>2. Len(Procs) = 1
      BY <3>1 DEF OneProcessor
    <3>3. tried = <<>>
      BY <1>3, <3>2 DEF Evaluate, TypeOK
    <3>4. armed = Due \ Passed /\ exposed = Due \cap Passed
      BY <2>4 DEF DueInv
    <3>5. expert \in Experts
      BY <2>4 DEF TypeOK, Experts
    <3>6. CASE op = "gate"
      <4>1. expert \notin Passed
        BY <3>3, <3>5, <3>6 DEF Passed, Experts
      <4>2. Passed' = Passed \cup {expert}
        BY <2>1, <2>2, <3>3, <3>5, <3>6 DEF Passed
      <4>3. armed' = armed \ {expert}
        BY <1>3, <3>6 DEF Evaluate, Disarmed
      <4>4. best.total = 0
        BY <3>3 DEF DueInv, EmptyStatus
      <4>5. exposed' = IF expert \in armed /\ tokens[expert] > 0
                       THEN exposed \cup {expert} ELSE exposed \ {expert}
        BY <1>3, <3>6, <4>4 DEF Evaluate, Better
      <4>6. expert \in Due => tokens[expert] > 0
        BY DEF Due, Activated
      <4> QED
        BY <2>1, <2>2, <3>4, <4>1, <4>2, <4>3, <4>5, <4>6 DEF DueInv
    <3>7. CASE op # "gate"
      <4>1. Passed' = Passed
        BY <2>2, <3>7 DEF Passed
      <4>2. armed' = armed /\ exposed' = exposed
        BY <1>3, <3>7 DEF Evaluate, Disarmed
      <4> QED
        BY <2>1, <2>2, <3>4, <4>1, <4>2 DEF DueInv
    <3> QED
      BY <3>6, <3>7
  <2> QED
    BY <2>3, <2>4 DEF TypeOK
<1>4. CASE Fail
  <2>1. expert = 0
    BY <1>4, ExpertOps DEF Fail, TypeOK, IsExpertOp
  <2> QED
    BY <1>4, <2>1 DEF Fail, DueInv
<1>5. CASE Conclude
  <2>1. tried # <<>> /\ best' = EmptyStatus
    BY <1>5, ProcsType DEF Conclude
  <2>2. Due' = Due /\ armed' = armed /\ exposed' = exposed
    BY <1>5 DEF Conclude, Due, Activated
  <2>3. expert' > 0 => expert > 0 /\ Passed' = Passed
    <3>1. CASE op # "down"
      <4>1. expert' = expert /\ op' = NextOp[op]
        BY <1>5, <3>1 DEF Conclude
      <4>2. op' # "gate"
        BY <1>5, <3>1, <4>1, ExpertOps DEF Conclude, IsExpertOp, NextOp
      <4> QED
        BY <2>1, <4>1, <4>2 DEF Passed
    <3>2. CASE op = "down" /\ expert < N
      <4>1. op' = "gate" /\ expert' = expert + 1 /\ tried' = <<>>
        BY <1>5, <3>2 DEF Conclude
      <4>2. expert \in 1..N
        BY <3>2, ExpertOps DEF TypeOK, IsExpertOp
      <4>3. Passed' = {e \in Experts : e < expert + 1}
        BY <4>1 DEF Passed
      <4>4. Passed = {e \in Experts : e < expert \/ e = expert}
        BY <3>2 DEF Passed
      <4> QED
        BY <4>2, <4>3, <4>4 DEF Experts
    <3>3. CASE op = "down" /\ ~(expert < N)
      BY <1>5, <3>3 DEF Conclude
    <3> QED
      BY <3>1, <3>2, <3>3
  <2> QED
    BY <2>1, <2>2, <2>3 DEF DueInv
<1>6. CASE Stopped
  BY <1>6, DueUnchanged DEF Stopped, vars
<1>7. CASE UNCHANGED vars
  BY <1>7, DueUnchanged DEF vars
<1> QED
  BY <1>1, <1>2, <1>3, <1>4, <1>5, <1>6, <1>7 DEF Next

\* After the last expert all have passed.
LEMMA DueIsPaid == TypeOK /\ DueInv => FirstExpertPaysOnce
<1> SUFFICES ASSUME TypeOK, DueInv, op = "down", expert = N
             PROVE  exposed = Due
  BY DEF FirstExpertPaysOnce, Due
<1>1. Passed = Experts
  BY ExecutorAssumption DEF Passed, Experts
<1>2. N > 0 /\ Due \subseteq Experts
  BY ExecutorAssumption DEF Due, Activated
<1> QED
  BY <1>1, <1>2 DEF DueInv

\* Where one processor executes the experts, a layer charges the page to its
\* first activated expert, once, for every number of experts and every draw.
THEOREM FirstExpertPays ==
  ASSUME OneProcessor
  PROVE  Spec => []FirstExpertPaysOnce
<1> DEFINE Inv == TypeOK /\ FlagsInv /\ DueInv
<1>1. Init => Inv
  BY InitTypeOK, InitFlags, InitDue
<1>2. Inv /\ [Next]_vars => Inv'
  BY OneProcessor, NextTypeOK, NextFlags, NextDue
<1>3. Inv => FirstExpertPaysOnce
  BY DueIsPaid
<1> QED
  BY <1>1, <1>2, <1>3, PTL DEF Spec
----------------------------------------------------------------------------
(***************************************************************************)
(* The tag of a cold expert.  The tensors of an expert without tokens keep *)
(* whatever an earlier step left in them, so what is invariant is only     *)
(* said of the tensors that the current step has written.                  *)
(***************************************************************************)
TagsInv ==
  expert > 0 =>
    /\ \A e \in Experts : cold[e]["in"] = ColdInput(e)
    /\ tokens[expert] > 0 =>
         /\ op = "act" \/ (op = "gate" /\ tried # <<>>)
              => cold[expert]["gate"] = ColdInput(expert)
         /\ op = "down" \/ (op = "up" /\ tried # <<>>)
              => cold[expert]["up"] = ColdInput(expert)

\* An operation on an expert's tokens reads a tag that Route has set in this
\* step, through as many operations as there are in between.
NoStaleTag ==
  IsExpertOp /\ tokens[expert] > 0 =>
    cold[expert][Input[op]] = ColdInput(expert)

\* Initially no expert is executed.
LEMMA InitTags == Init => TagsInv
  BY DEF Init, TagsInv

\* Each step keeps the tags, or hands them on.
LEMMA NextTags == TypeOK /\ FlagsInv /\ TagsInv /\ [Next]_vars => TagsInv'
<1> SUFFICES ASSUME TypeOK, FlagsInv, TagsInv, [Next]_vars PROVE TagsInv'
  OBVIOUS
<1> USE ExecutorAssumption
<1>1. CASE Begin
  <2>1. expert' = 0
    BY <1>1, ExpertOps DEF Begin, TypeOK, IsExpertOp
  <2> QED
    BY <2>1 DEF TagsInv
<1>2. CASE RouteForward
  <2>1. tried' = <<>> /\ op' = "gate"
    BY <1>2 DEF RouteForward, FlagsInv
  <2>2. ASSUME NEW e \in Experts
        PROVE  cold'[e]["in"] = ColdInput(e) /\ ColdInput(e)' = ColdInput(e)
    <3>1. cold[e] \in [Tensors -> BOOLEAN]
      BY DEF TypeOK
    <3>2. cold'[e] = [cold[e] EXCEPT !["in"] = ColdInput(e)]
      BY <1>2 DEF RouteForward
    <3>3. ColdInput(e)' = ColdInput(e)
      BY <1>2 DEF RouteForward, ColdInput
    <3> QED
      BY <3>1, <3>2, <3>3 DEF Tensors
  <2> QED
    BY <2>1, <2>2 DEF TagsInv
<1>3. CASE Evaluate
  <2>1. /\ expert' = expert /\ op' = op /\ tokens' = tokens
        /\ cold' = Carried /\ tried' # <<>>
    BY <1>3 DEF Evaluate, TypeOK
  <2>2. \A e \in Experts : ColdInput(e)' = ColdInput(e)
    BY <1>3 DEF Evaluate, ColdInput
  <2>3. CASE ~(IsExpertOp /\ tokens[expert] > 0)
    <3>1. cold' = cold
      BY <2>1, <2>3 DEF Carried
    <3>2. expert > 0 => IsExpertOp /\ expert \in Experts
      BY DEF TypeOK, Experts
    <3> QED
      BY <2>1, <2>2, <2>3, <3>1, <3>2 DEF TagsInv
  <2>4. CASE IsExpertOp /\ tokens[expert] > 0
    <3>1. /\ expert \in Experts /\ expert > 0
          /\ op \in {"gate", "act", "up", "down"}
      BY <2>4, ExpertOps DEF TypeOK, IsExpertOp, Experts
    <3>2. cold[expert] \in [Tensors -> BOOLEAN]
      BY <3>1 DEF TypeOK
    <3>3. cold' = [cold EXCEPT ![expert] =
                     [cold[expert] EXCEPT ![op] = cold[expert][Input[op]]]]
      BY <2>1, <2>4 DEF Carried
    <3>4. cold \in [Experts -> [Tensors -> BOOLEAN]]
      BY DEF TypeOK
    <3>5. cold'[expert] = [cold[expert] EXCEPT ![op] = cold[expert][Input[op]]]
      BY <3>1, <3>3, <3>4
    <3>6. \A e \in Experts \ {expert} : cold'[e] = cold[e]
      BY <3>3, <3>4
    <3>7. cold'[expert]["in"] = cold[expert]["in"]
      BY <3>1, <3>2, <3>5 DEF Tensors
    <3>8. \A e \in Experts : cold'[e]["in"] = ColdInput(e)
      BY <3>1, <3>6, <3>7 DEF TagsInv
    <3>9. op = "gate" => cold'[expert]["gate"] = cold[expert]["in"]
      BY <3>2, <3>5 DEF Tensors, Input
    <3>10. op = "up" => cold'[expert]["up"] = cold[expert]["in"]
      BY <3>2, <3>5 DEF Tensors, Input
    <3>11. op = "act" => cold'[expert]["gate"] = cold[expert]["gate"]
      BY <3>2, <3>5 DEF Tensors
    <3>12. op = "down" => cold'[expert]["up"] = cold[expert]["up"]
      BY <3>2, <3>5 DEF Tensors
    <3>13. /\ cold[expert]["in"] = ColdInput(expert)
           /\ op = "act" => cold[expert]["gate"] = ColdInput(expert)
           /\ op = "down" => cold[expert]["up"] = ColdInput(expert)
      BY <2>4, <3>1 DEF TagsInv
    <3> QED
      BY <2>1, <2>2, <3>1, <3>8, <3>9, <3>10, <3>11, <3>12, <3>13 DEF TagsInv
  <2> QED
    BY <2>3, <2>4
<1>4. CASE Fail
  <2>1. expert' = 0
    BY <1>4, ExpertOps DEF Fail, TypeOK, IsExpertOp
  <2> QED
    BY <2>1 DEF TagsInv
<1>5. CASE Conclude
  <2>1. tried # <<>> /\ tried' = <<>> /\ cold' = cold /\ tokens' = tokens
    BY <1>5, ProcsType DEF Conclude
  <2>2. \A e \in Experts : ColdInput(e)' = ColdInput(e)
    BY <1>5 DEF Conclude, ColdInput
  <2>3. CASE op = "down"
    <3>1. expert' = 0 \/ (op' = "gate" /\ expert > 0)
      BY <1>5, <2>3, ExpertOps DEF Conclude, TypeOK, IsExpertOp
    <3> QED
      BY <2>1, <2>2, <3>1 DEF TagsInv
  <2>4. CASE op # "down"
    <3>1. expert' = expert /\ op' = NextOp[op]
      BY <1>5, <2>4 DEF Conclude
    <3>2. expert > 0 => op \in {"gate", "act", "up"} /\ expert \in Experts
      BY <2>4, ExpertOps DEF TypeOK, IsExpertOp, Experts
    <3>3. /\ op = "gate" => op' = "act"
          /\ op = "act" => op' = "up"
          /\ op = "up" => op' = "down"
      BY <3>1 DEF NextOp
    <3> QED
      BY <2>1, <2>2, <3>1, <3>2, <3>3 DEF TagsInv
  <2> QED
    BY <2>3, <2>4
<1>6. CASE Stopped
  BY <1>6 DEF Stopped, vars, TagsInv, ColdInput
<1>7. CASE UNCHANGED vars
  BY <1>7 DEF vars, TagsInv, ColdInput
<1> QED
  BY <1>1, <1>2, <1>3, <1>4, <1>5, <1>6, <1>7 DEF Next

\* The three projections and the activation of an expert that has tokens read
\* the tag of this step, whatever earlier steps have left in the tensors.
THEOREM TagsAreOfThisStep == Spec => []NoStaleTag
<1> DEFINE Inv == TypeOK /\ FlagsInv /\ TagsInv
<1>1. Init => Inv
  BY InitTypeOK, InitFlags, InitTags
<1>2. Inv /\ [Next]_vars => Inv'
  BY NextTypeOK, NextFlags, NextTags
<1>3. Inv => NoStaleTag
  <2> SUFFICES ASSUME Inv, IsExpertOp, tokens[expert] > 0
               PROVE  cold[expert][Input[op]] = ColdInput(expert)
    BY DEF NoStaleTag
  <2>1. /\ expert \in Experts /\ expert > 0
        /\ op \in {"gate", "act", "up", "down"}
    BY ExpertOps DEF TypeOK, IsExpertOp, Experts
  <2> QED
    BY <2>1 DEF TagsInv, Input
<1> QED
  BY <1>1, <1>2, <1>3, PTL DEF Spec
----------------------------------------------------------------------------
(***************************************************************************)
(* Which processor wins, and what the tags make of the winner's time.      *)
(***************************************************************************)

\* No product of ints overflows in the prefill of a batch.
IntsSuffice == \A m \in Machines : \A b \in Batches : FitsInt(m, b[1])

\* The processors that compete for a gate are asked on equal terms: there is
\* one, or the page costs none of them anything.
EqualTerms ==
  \A m \in Machines :
    \/ Len(ExpertProcs(m)) = 1
    \/ ~m.c.expose_first_expert
    \/ ~m.c.use_hbf
    \/ m.c.ramulator

\* There is nothing to execute.
Idle ==
  CASE op = "sum" -> ~Live(Sums)
    [] op = "gen" -> ~Live(Gens)
    [] OTHER -> tokens[expert] = 0

\* A batch is one of a step, or none yet.
BatchInv ==
  /\ batch \in Batch \X Batch
  /\ FitsInt(machine, Sums)

\* A time, which is zero only of an operation on nothing.
Timed(status) == status.total \in Nat /\ (status.total = 0 <=> Idle)

\* The winner so far: nobody yet, or the cheapest of those that were asked.
BestInv ==
  /\ tried = <<>> => best = EmptyStatus
  /\ op # "fail" /\ tried # <<>> =>
       LET cost(i) == Status(Procs[i], expert \in exposed).total
       IN /\ Timed(best)
          /\ \E i \in 1..Len(tried) : best.total = cost(i)
          /\ \A i \in 1..Len(tried) : cost(i) \in Nat /\ best.total <= cost(i)

\* Whichever processor won, its time is tagged as this expert's.
LabelInv ==
  /\ tried = <<>> => best = EmptyStatus
  /\ IsExpertOp /\ tried # <<>> =>
       Tagged(machine.c, cold[expert][Input[op]], tokens[expert], best)
----------------------------------------------------------------------------
\* What an operation is asked of a kernel.
LEMMA StatusOf ==
  ASSUME NEW p, NEW x
  PROVE  /\ op = "sum" => Status(p, x) = AttentionSum(machine, p, Sums)
         /\ op = "gen" => Status(p, x) = AttentionGen(machine, p, Gens)
         /\ op = "gate" =>
              Status(p, x) =
                LinearCore(machine.c, p,
                           Shape(tokens[expert], machine.hidden_dim,
                                 machine.intermediate_dim),
                           machine.precision, x, cold[expert]["in"])
         /\ op = "act" =>
              Status(p, x) =
                ActivationCore(machine.c, p, tokens[expert],
                               machine.intermediate_dim, machine.precision,
                               cold[expert]["gate"])
         /\ op = "up" =>
              Status(p, x) =
                LinearCore(machine.c, p,
                           Shape(tokens[expert], machine.hidden_dim,
                                 machine.intermediate_dim),
                           machine.precision, FALSE, cold[expert]["in"])
         /\ op = "down" =>
              Status(p, x) =
                LinearCore(machine.c, p,
                           Shape(tokens[expert], machine.intermediate_dim,
                                 machine.hidden_dim),
                           machine.precision, FALSE, cold[expert]["up"])
<1>1. op = "sum" => Status(p, x) = AttentionSum(machine, p, Sums)
  BY DEF Status
<1>2. op = "gen" => Status(p, x) = AttentionGen(machine, p, Gens)
  BY DEF Status
<1>3. op = "gate" =>
        Status(p, x) =
          LinearCore(machine.c, p,
                     Shape(tokens[expert], machine.hidden_dim,
                           machine.intermediate_dim),
                     machine.precision, x, cold[expert]["in"])
  BY DEF Status, Projection, Shape, Input
<1>4. op = "act" =>
        Status(p, x) =
          ActivationCore(machine.c, p, tokens[expert],
                         machine.intermediate_dim, machine.precision,
                         cold[expert]["gate"])
  BY DEF Status, Input
<1>5. op = "up" =>
        Status(p, x) =
          LinearCore(machine.c, p,
                     Shape(tokens[expert], machine.hidden_dim,
                           machine.intermediate_dim),
                     machine.precision, FALSE, cold[expert]["in"])
  BY DEF Status, Projection, Shape, Input
<1>6. op = "down" =>
        Status(p, x) =
          LinearCore(machine.c, p,
                     Shape(tokens[expert], machine.intermediate_dim,
                           machine.hidden_dim),
                     machine.precision, FALSE, cold[expert]["up"])
  BY DEF Status, Projection, Shape, Input
<1> QED
  BY <1>1, <1>2, <1>3, <1>4, <1>5, <1>6

\* What the expert's operations are given.
LEMMA ExpertInputs ==
  ASSUME TypeOK, IsExpertOp
  PROVE  /\ op \in {"gate", "act", "up", "down"}
         /\ expert \in Experts /\ expert > 0
         /\ tokens[expert] \in Nat
         /\ IsMachine(machine)
         /\ \A t \in Tensors : cold[expert][t] \in BOOLEAN
         /\ Input[op] \in Tensors
<1>1. op \in {"gate", "act", "up", "down"}
  BY ExpertOps DEF IsExpertOp
<1>2. expert \in Experts /\ expert > 0
  BY DEF TypeOK, Experts
<1>3. IsMachine(machine)
  BY ExecutorAssumption DEF TypeOK
<1>4. tokens[expert] \in Nat
  BY <1>2 DEF TypeOK
<1>5. \A t \in Tensors : cold[expert][t] \in BOOLEAN
  BY <1>2 DEF TypeOK
<1>6. Input[op] \in Tensors
  BY <1>1 DEF Input, Tensors
<1> QED
  BY <1>1, <1>2, <1>3, <1>4, <1>5, <1>6

\* Whatever it costs on a processor, an expert's operation is tagged as the
\* tensor it reads says.
LEMMA ExpertStatus ==
  ASSUME TypeOK, IsExpertOp, NEW p \in Processors, NEW x \in BOOLEAN
  PROVE  Tagged(machine.c, cold[expert][Input[op]], tokens[expert],
                Status(p, x))
<1> DEFINE c == machine.c
           rows == tokens[expert]
           h == machine.hidden_dim
           i == machine.intermediate_dim
           q == machine.precision
<1>1. /\ Working(c) /\ rows \in Nat
      /\ h \in Nat \ {0} /\ i \in Nat \ {0} /\ q \in Nat \ {0}
  BY ExpertInputs, MachineFields
<1>2. /\ cold[expert]["in"] \in BOOLEAN /\ cold[expert]["gate"] \in BOOLEAN
      /\ cold[expert]["up"] \in BOOLEAN
  BY ExpertInputs DEF Tensors
<1>3. CASE op = "gate"
  <2>1. Input[op] = "in"
    BY <1>3 DEF Input
  <2>2. Status(p, x) = LinearCore(c, p, Shape(rows, h, i), q, x,
                                  cold[expert]["in"])
    BY <1>3, StatusOf
  <2> HIDE DEF c, rows, h, i, q
  <2>3. Tagged(c, cold[expert]["in"], rows,
               LinearCore(c, p, Shape(rows, h, i), q, x, cold[expert]["in"]))
    BY <1>1, <1>2, LinearIs
  <2> QED
    BY <2>1, <2>2, <2>3 DEF c, rows
<1>4. CASE op = "act"
  <2>1. Input[op] = "gate"
    BY <1>4 DEF Input
  <2>2. Status(p, x) = ActivationCore(c, p, rows, i, q, cold[expert]["gate"])
    BY <1>4, StatusOf
  <2> HIDE DEF c, rows, h, i, q
  <2>3. Tagged(c, cold[expert]["gate"], rows,
               ActivationCore(c, p, rows, i, q, cold[expert]["gate"]))
    BY <1>1, <1>2, ActivationIs
  <2> QED
    BY <2>1, <2>2, <2>3 DEF c, rows
<1>5. CASE op = "up"
  <2>1. Input[op] = "in"
    BY <1>5 DEF Input
  <2>2. Status(p, x) = LinearCore(c, p, Shape(rows, h, i), q, FALSE,
                                  cold[expert]["in"])
    BY <1>5, StatusOf
  <2> DEFINE off == FALSE
  <2>3. off \in BOOLEAN
    OBVIOUS
  <2> HIDE DEF c, rows, h, i, q, off
  <2>4. Tagged(c, cold[expert]["in"], rows,
               LinearCore(c, p, Shape(rows, h, i), q, off,
                          cold[expert]["in"]))
    BY <1>1, <1>2, <2>3, LinearIs
  <2> QED
    BY <2>1, <2>2, <2>4 DEF c, rows, off
<1>6. CASE op = "down"
  <2>1. Input[op] = "up"
    BY <1>6 DEF Input
  <2>2. Status(p, x) = LinearCore(c, p, Shape(rows, i, h), q, FALSE,
                                  cold[expert]["up"])
    BY <1>6, StatusOf
  <2> DEFINE off == FALSE
  <2>3. off \in BOOLEAN
    OBVIOUS
  <2> HIDE DEF c, rows, h, i, q, off
  <2>4. Tagged(c, cold[expert]["up"], rows,
               LinearCore(c, p, Shape(rows, i, h), q, off,
                          cold[expert]["up"]))
    BY <1>1, <1>2, <2>3, LinearIs
  <2> QED
    BY <2>1, <2>2, <2>4 DEF c, rows, off
<1> QED
  BY <1>3, <1>4, <1>5, <1>6, ExpertInputs

\* An operation that does not stop the program takes time just if it has work.
LEMMA StatusIsTimed ==
  ASSUME TypeOK, BatchInv, op \in {"sum", "gen"} \/ IsExpertOp,
         NEW p \in Processors, NEW x \in BOOLEAN, Status(p, x) # Failure
  PROVE  Timed(Status(p, x))
<1>1. /\ IsMachine(machine) /\ Sums \in Batch /\ Gens \in Batch
      /\ FitsInt(machine, Sums)
  BY ExecutorAssumption DEF TypeOK, BatchInv, Sums, Gens
<1>2. CASE op = "sum"
  <2>1. Costs(Status(p, x), Sums)
    BY <1>1, <1>2, StatusOf, PrefillTakesTime DEF Good
  <2> QED
    BY <1>2, <2>1 DEF Timed, Idle, Costs, Statuses
<1>3. CASE op = "gen"
  <2>1. Costs(Status(p, x), Gens)
    BY <1>1, <1>3, StatusOf, DecodeTakesTime DEF Good
  <2> QED
    BY <1>3, <2>1 DEF Timed, Idle, Costs, Statuses
<1>4. CASE IsExpertOp
  <2>1. op \notin {"sum", "gen"}
    BY <1>4, ExpertInputs
  <2>2. Idle <=> tokens[expert] = 0
    BY <2>1 DEF Idle
  <2> QED
    BY <1>4, <2>2, ExpertStatus DEF Timed, Tagged
<1> QED
  BY <1>2, <1>3, <1>4

\* The page flag is looked at by the gate alone, and by that only where the
\* page costs something.
LEMMA FlagIsFree ==
  ASSUME NEW p, NEW x \in BOOLEAN, NEW y \in BOOLEAN,
         op \in {"sum", "gen"} \/ IsExpertOp,
         \/ op # "gate"
         \/ ~machine.c.expose_first_expert
         \/ ~machine.c.use_hbf
         \/ machine.c.ramulator
         \/ tokens[expert] = 0
  PROVE  Status(p, x) = Status(p, y)
<1>1. CASE op # "gate"
  BY <1>1, StatusOf, ExpertOps DEF IsExpertOp
<1>2. CASE op = "gate"
  <2> DEFINE c == machine.c
             s == Shape(tokens[expert], machine.hidden_dim,
                        machine.intermediate_dim)
             q == machine.precision
             d == cold[expert]["in"]
  <2>1. ~c.expose_first_expert \/ ~c.use_hbf \/ c.ramulator \/ s.m = 0
    BY <1>2 DEF Shape
  <2>2. /\ Status(p, x) = LinearCore(c, p, s, q, x, d)
        /\ Status(p, y) = LinearCore(c, p, s, q, y, d)
    BY <1>2, StatusOf
  <2> HIDE DEF c, s, q, d
  <2>3. LinearCore(c, p, s, q, x, d) = LinearCore(c, p, s, q, FALSE, d)
    BY <2>1, ExposeIs
  <2>4. LinearCore(c, p, s, q, y, d) = LinearCore(c, p, s, q, FALSE, d)
    BY <2>1, ExposeIs
  <2> QED
    BY <2>2, <2>3, <2>4
<1> QED
  BY <1>1, <1>2

\* Evaluating an operation leaves alone what it reads.
LEMMA StatusStays ==
  ASSUME TypeOK, Evaluate, NEW p, NEW x
  PROVE  Status(p, x)' = Status(p, x)
<1>1. /\ machine' = machine /\ batch' = batch /\ tokens' = tokens
      /\ expert' = expert /\ op' = op /\ cold' = Carried
  BY DEF Evaluate
<1>2. CASE ~IsExpertOp
  <2>1. cold' = cold
    BY <1>1, <1>2 DEF Carried
  <2> QED
    BY <1>1, <2>1 DEF Status, Sums, Gens
<1>3. CASE IsExpertOp
  <2>1. expert \in Experts /\ Input[op] # op
    BY <1>3, ExpertInputs DEF Input
  <2>2. cold'[expert][Input[op]] = cold[expert][Input[op]]
    BY <1>1, <2>1 DEF Carried, TypeOK
  <2> QED
    BY <1>1, <2>2 DEF Status, Sums, Gens
<1> QED
  BY <1>2, <1>3
----------------------------------------------------------------------------
\* Initially the batch is empty.
LEMMA InitBatch == Init => BatchInv
<1> SUFFICES ASSUME Init PROVE BatchInv
  OBVIOUS
<1>1. batch = << <<>>, <<>> >> /\ Sums = <<>>
  BY DEF Init, Sums
<1>2. <<>> \in Batch
  BY DEF Batch
<1>3. FitsInt(machine, Sums)
  BY <1>1 DEF FitsInt
<1> QED
  BY <1>1, <1>2, <1>3 DEF BatchInv

\* A step keeps the batch or takes one of Batches.
LEMMA NextBatch ==
  ASSUME IntsSuffice, TypeOK, BatchInv, [Next]_vars
  PROVE  BatchInv'
<1>1. CASE Begin
  <2>1. batch' \in Batches /\ machine' = machine /\ machine \in Machines
    BY <1>1 DEF Begin, TypeOK
  <2>2. FitsInt(machine, batch'[1])
    BY <2>1 DEF IntsSuffice
  <2> QED
    BY <2>1, <2>2, ExecutorAssumption DEF BatchInv, Sums
<1>2. CASE UNCHANGED <<machine, batch>>
  BY <1>2 DEF BatchInv, Sums
<1>3. CASE RouteForward \/ Evaluate \/ Fail \/ Conclude \/ Stopped
  <2>1. UNCHANGED <<machine, batch>>
    BY <1>3 DEF RouteForward, Evaluate, Fail, Conclude, Stopped, vars
  <2> QED
    BY <1>2, <2>1
<1>4. CASE UNCHANGED vars
  BY <1>2, <1>4 DEF vars
<1> QED
  BY <1>1, <1>3, <1>4 DEF Next

\* The processor that is asked next.
LEMMA Asked ==
  ASSUME TypeOK, Evaluate
  PROVE  /\ Len(tried) \in Nat /\ Len(tried) + 1 \in 1..Len(Procs)
         /\ Procs[Len(tried) + 1] \in Processors
         /\ Len(tried') = Len(tried) + 1 /\ tried' # <<>>
         /\ Procs' = Procs
         /\ tried = <<>> => Len(tried) = 0
<1>1. /\ Len(tried) \in Nat /\ Len(tried) + 1 \in 1..Len(Procs)
      /\ tried = <<>> => Len(tried) = 0
  BY ProcsType DEF Evaluate, TypeOK
<1>2. Procs[Len(tried) + 1] \in Processors
  BY <1>1, ProcsType
<1>3. tried' = Append(tried, Procs[Len(tried) + 1]) /\ tried \in Seq(Processors)
  BY DEF Evaluate, TypeOK
<1>4. Len(tried') = Len(tried) + 1 /\ tried' # <<>>
  BY <1>2, <1>3
<1>5. Procs' = Procs
  BY DEF Evaluate, Procs
<1> QED
  BY <1>1, <1>2, <1>4, <1>5

\* Initially nobody has won.
LEMMA InitBest == Init => BestInv
  BY DEF Init, BestInv

\* Who has won so far depends on these alone.
LEMMA BestUnchanged ==
  ASSUME BestInv, UNCHANGED <<machine, batch, tokens, cold, expert, op, tried,
                              best, exposed>>
  PROVE  BestInv'
<1>1. \A p, x : Status(p, x)' = Status(p, x)
  BY DEF Status, Sums, Gens
<1>2. Procs' = Procs /\ (Idle' <=> Idle)
  BY DEF Procs, Idle, Sums, Gens
<1> QED
  BY <1>1, <1>2 DEF BestInv, Timed

\* The cheapest stays the cheapest when one more processor is asked.
LEMMA EvaluateBest ==
  ASSUME EqualTerms, TypeOK, BatchInv, BestInv, Evaluate
  PROVE  BestInv'
<1> DEFINE k == Len(tried) + 1
           expose == op = "gate" /\ expert \in armed
           s == Status(Procs[k], expose)
           chosen == expert \in exposed
           later == (expert \in exposed)'
           free == \/ op # "gate"
                   \/ ~machine.c.expose_first_expert
                   \/ ~machine.c.use_hbf
                   \/ machine.c.ramulator
                   \/ tokens[expert] = 0
<1>1. /\ op \in {"sum", "gen"} \/ IsExpertOp
      /\ op # "fail" /\ op' = op /\ s # Failure
      /\ best' = IF Better(s) THEN s ELSE best
  BY ExpertOps DEF Evaluate, IsExpertOp
<1>2. Timed(s)
  BY <1>1, Asked, StatusIsTimed
<1>3. \A p, x : Status(p, x)' = Status(p, x)
  BY StatusStays
<1>4. Idle' <=> Idle
  BY DEF Evaluate, Idle, Sums, Gens
<1>5. /\ Procs' = Procs /\ tried' # <<>> /\ Len(tried') = k /\ k \in Nat
      /\ Len(tried) = k - 1 /\ k >= 1
  BY Asked
<1>6. ASSUME free
      PROVE  /\ Timed(best')
             /\ \E i \in 1..k : best'.total = Status(Procs[i], later).total
             /\ \A i \in 1..k : /\ Status(Procs[i], later).total \in Nat
                                /\ best'.total <= Status(Procs[i], later).total
  <2> DEFINE cost(i) == Status(Procs[i], later).total
  <2>1. \A i : Status(Procs[i], chosen) = Status(Procs[i], later)
    <3>1. chosen \in BOOLEAN /\ later \in BOOLEAN
      OBVIOUS
    <3> HIDE DEF chosen, later
    <3> QED
      BY <1>1, <1>6, <3>1, FlagIsFree
  <2>2. s.total = cost(k)
    <3>1. expose \in BOOLEAN /\ later \in BOOLEAN
      OBVIOUS
    <3> HIDE DEF expose, later
    <3>2. Status(Procs[k], expose) = Status(Procs[k], later)
      BY <1>1, <1>6, <3>1, FlagIsFree
    <3> QED
      BY <3>2
  <2>3. s.total \in Nat
    BY <1>2 DEF Timed
  <2>4. CASE tried = <<>>
    <3>1. best' = s /\ k = 1
      BY <1>1, <2>4, Asked DEF BestInv, EmptyStatus, Better
    <3> QED
      BY <1>2, <2>2, <2>3, <3>1
  <2>5. CASE tried # <<>>
    <3>1. /\ Timed(best)
          /\ \E i \in 1..(k - 1) : best.total = cost(i)
          /\ \A i \in 1..(k - 1) : cost(i) \in Nat /\ best.total <= cost(i)
      BY <1>1, <1>5, <2>1, <2>5 DEF BestInv
    <3> HIDE DEF cost, k, s
    <3>2. best.total \in Nat
      BY <3>1 DEF Timed
    <3>3. CASE Better(s)
      <4>1. best' = s
        BY <1>1, <3>3
      <4>2. s.total <= best.total
        BY <1>2, <2>3, <3>1, <3>2, <3>3 DEF Better, Timed
      <4>3. \A i \in 1..k : i = k \/ i \in 1..(k - 1)
        BY <1>5
      <4>4. \A i \in 1..k : cost(i) \in Nat /\ s.total <= cost(i)
        BY <2>2, <2>3, <3>1, <3>2, <4>2, <4>3
      <4>5. k \in 1..k
        BY <1>5
      <4> QED
        BY <1>2, <2>2, <4>1, <4>4, <4>5 DEF cost
    <3>4. CASE ~Better(s)
      <4>1. best' = best
        BY <1>1, <3>4
      <4>2. best.total <= s.total
        BY <2>3, <3>2, <3>4 DEF Better
      <4>3. \A i \in 1..k : i = k \/ i \in 1..(k - 1)
        BY <1>5
      <4>4. \A i \in 1..k : cost(i) \in Nat /\ best.total <= cost(i)
        BY <2>2, <2>3, <3>1, <4>2, <4>3
      <4>5. \A i \in 1..(k - 1) : i \in 1..k
        BY <1>5
      <4> QED
        BY <3>1, <4>1, <4>4, <4>5 DEF cost
    <3> QED
      BY <3>3, <3>4
  <2> QED
    BY <2>4, <2>5
<1>7. ASSUME ~free
      PROVE  /\ Timed(best')
             /\ \E i \in 1..k : best'.total = Status(Procs[i], later).total
             /\ \A i \in 1..k : /\ Status(Procs[i], later).total \in Nat
                                /\ best'.total <= Status(Procs[i], later).total
  <2>1. op = "gate" /\ IsExpertOp
    BY <1>1, <1>7
  <2>2. /\ machine \in Machines /\ expert > 0 /\ expert \in Experts
        /\ tokens[expert] \in Nat
    BY <2>1, ExpertInputs DEF TypeOK
  <2>3. Len(Procs) = 1
    BY <1>7, <2>2 DEF EqualTerms, Procs
  <2>4. k = 1 /\ tried = <<>>
    BY <2>3 DEF Evaluate, TypeOK
  <2>5. Better(s) /\ best' = s
    BY <1>1, <2>4 DEF BestInv, EmptyStatus, Better
  <2>6. tokens[expert] > 0
    BY <1>7, <2>2
  <2>7. exposed' = IF expose THEN exposed \cup {expert} ELSE exposed \ {expert}
    BY <2>1, <2>5, <2>6 DEF Evaluate
  <2>8. expert' = expert
    BY DEF Evaluate
  <2>9. later = expose
    BY <2>7, <2>8
  <2>10. s.total \in Nat
    BY <1>2 DEF Timed
  <2> QED
    BY <1>2, <2>4, <2>5, <2>9, <2>10
<1>8. Timed(best') <=> Timed(best)'
  BY <1>4 DEF Timed
<1> HIDE DEF k, s, free
<1>9. /\ Timed(best)'
      /\ \E i \in 1..k : best'.total = Status(Procs[i], later).total
      /\ \A i \in 1..k : /\ Status(Procs[i], later).total \in Nat
                         /\ best'.total <= Status(Procs[i], later).total
  BY <1>6, <1>7, <1>8
<1> QED
  BY <1>1, <1>3, <1>5, <1>9 DEF BestInv

\* Each step keeps the cheapest of those that were asked.
LEMMA NextBest ==
  ASSUME EqualTerms, TypeOK, FlagsInv, BatchInv, BestInv, [Next]_vars
  PROVE  BestInv'
<1>1. CASE Begin
  <2>1. tried = <<>> /\ tried' = tried /\ best' = best
    BY <1>1 DEF Begin, FlagsInv
  <2> QED
    BY <2>1 DEF BestInv
<1>2. CASE RouteForward
  <2>1. tried = <<>> /\ tried' = tried /\ best' = best
    BY <1>2 DEF RouteForward, FlagsInv
  <2> QED
    BY <2>1 DEF BestInv
<1>3. CASE Evaluate
  BY <1>3, EvaluateBest
<1>4. CASE Fail
  BY <1>4 DEF Fail, BestInv
<1>5. CASE Conclude
  BY <1>5 DEF Conclude, BestInv
<1>6. CASE Stopped
  BY <1>6, BestUnchanged DEF Stopped, vars
<1>7. CASE UNCHANGED vars
  BY <1>7, BestUnchanged DEF vars
<1> QED
  BY <1>1, <1>2, <1>3, <1>4, <1>5, <1>6, <1>7 DEF Next

\* The cheapest of those that were asked is the least, once all were.
LEMMA BestIsLeast == TypeOK /\ BestInv => PicksTheCheapest
<1> SUFFICES ASSUME TypeOK, BestInv, op # "fail", tried # <<>>,
                    Len(tried) = Len(Procs)
             PROVE  best.total = Min({Status(Procs[i], expert \in exposed).total :
                                        i \in DOMAIN Procs})
  BY DEF PicksTheCheapest
<1> DEFINE cost(i) == Status(Procs[i], expert \in exposed).total
           costs == {cost(i) : i \in DOMAIN Procs}
<1>1. DOMAIN Procs = 1..Len(tried)
  BY ProcsType
<1>2. /\ best.total \in Nat
      /\ \E i \in 1..Len(tried) : best.total = cost(i)
      /\ \A i \in 1..Len(tried) : cost(i) \in Nat /\ best.total <= cost(i)
  BY DEF BestInv, Timed
<1> HIDE DEF cost
<1>3. /\ best.total \in costs
      /\ \A x \in costs : x \in Nat /\ best.total <= x
  BY <1>1, <1>2
<1> HIDE DEF costs
<1>4. Min(costs) \in costs /\ \A y \in costs : Min(costs) <= y
  BY <1>3 DEF Min
<1>5. best.total = Min(costs)
  BY <1>2, <1>3, <1>4
<1> QED
  BY <1>5 DEF costs, cost

\* The processor that wins is the cheapest of the list, for every list and
\* whatever the layers cost, if no product of ints overflows and a page flag
\* does not favour one processor over another.
THEOREM TheCheapestWins ==
  ASSUME IntsSuffice, EqualTerms
  PROVE  Spec => []PicksTheCheapest
<1> DEFINE Inv == TypeOK /\ FlagsInv /\ BatchInv /\ BestInv
<1>1. Init => Inv
  BY InitTypeOK, InitFlags, InitBatch, InitBest
<1>2. Inv /\ [Next]_vars => Inv'
  BY IntsSuffice, EqualTerms, NextTypeOK, NextFlags, NextBatch, NextBest
<1>3. Inv => PicksTheCheapest
  BY BestIsLeast
<1> QED
  BY <1>1, <1>2, <1>3, PTL DEF Spec
----------------------------------------------------------------------------
\* Initially nothing is tagged.
LEMMA InitLabel == Init => LabelInv
  BY ExpertOps DEF Init, LabelInv, IsExpertOp

\* What is tagged depends on these alone.
LEMMA LabelUnchanged ==
  ASSUME LabelInv, UNCHANGED <<machine, tokens, cold, expert, op, tried, best>>
  PROVE  LabelInv'
  BY DEF LabelInv, IsExpertOp, Input

\* Each step keeps the winner's time tagged.
LEMMA NextLabel ==
  ASSUME TypeOK, FlagsInv, LabelInv, [Next]_vars
  PROVE  LabelInv'
<1>1. CASE Begin
  BY <1>1 DEF Begin, FlagsInv, LabelInv
<1>2. CASE RouteForward
  BY <1>2 DEF RouteForward, FlagsInv, LabelInv
<1>3. CASE Evaluate
  <2>1. tried' # <<>> /\ op' = op /\ (IsExpertOp' <=> IsExpertOp)
    BY <1>3, Asked DEF Evaluate, IsExpertOp, Input
  <2>2. CASE ~IsExpertOp
    BY <2>1, <2>2 DEF LabelInv
  <2>3. CASE IsExpertOp
    <3> DEFINE c == machine.c
               d == cold[expert][Input[op]]
               rows == tokens[expert]
               x == op = "gate" /\ expert \in armed
               s == Status(Procs[Len(tried) + 1], x)
    <3>1. x \in BOOLEAN
      OBVIOUS
    <3>2. Tagged(c, d, rows, s)
      <4> HIDE DEF x
      <4> QED
        BY <1>3, <2>3, <3>1, Asked, ExpertStatus
    <3>3. best' = IF Better(s) THEN s ELSE best
      BY <1>3 DEF Evaluate
    <3>4. tried = <<>> => Better(s)
      BY DEF LabelInv, EmptyStatus, Better
    <3>5. Tagged(c, d, rows, best')
      <4>1. tried # <<>> => Tagged(c, d, rows, best)
        BY <2>3 DEF LabelInv
      <4> HIDE DEF c, d, rows, s
      <4> QED
        BY <3>2, <3>3, <3>4, <4>1
    <3>6. cold'[expert][Input[op]] = d
      <4>1. expert \in Experts /\ Input[op] # op
        BY <2>3, ExpertInputs DEF Input
      <4>2. cold' = Carried
        BY <1>3 DEF Evaluate
      <4> QED
        BY <4>1, <4>2 DEF Carried, TypeOK
    <3>7. machine' = machine /\ tokens' = tokens /\ expert' = expert
      BY <1>3 DEF Evaluate
    <3>8. Input[op'] = Input[op]
      BY <2>1
    <3> QED
      BY <2>1, <3>5, <3>6, <3>7, <3>8 DEF LabelInv, Input
  <2> QED
    BY <2>2, <2>3
<1>4. CASE Fail
  BY <1>4, ExpertOps DEF Fail, LabelInv, IsExpertOp, Input
<1>5. CASE Conclude
  BY <1>5 DEF Conclude, LabelInv
<1>6. CASE Stopped
  BY <1>6, LabelUnchanged DEF Stopped, vars
<1>7. CASE UNCHANGED vars
  BY <1>7, LabelUnchanged DEF vars
<1> QED
  BY <1>1, <1>2, <1>3, <1>4, <1>5, <1>6, <1>7 DEF Next

\* A time that is tagged with this step's tag is exact.
LEMMA LabelIsExact ==
  ASSUME TypeOK, TagsInv, LabelInv
  PROVE  TagsAreExact
<1> SUFFICES ASSUME IsExpertOp, Len(tried) = Len(Procs), tokens[expert] > 0
             PROVE  LET pp == machine.c.pp
                    IN IF pp > 1 /\ micro[expert] = 0
                       THEN pp * best.total - (pp - 1) * best.dep
                              \in 0..(pp - 2)
                       ELSE best.dep <= best.total
  BY DEF TagsAreExact
<1>1. tried # <<>>
  BY ProcsType
<1>2. cold[expert][Input[op]] = ColdInput(expert)
  BY ExpertInputs DEF TagsInv, Input
<1>3. Tagged(machine.c, ColdInput(expert), tokens[expert], best)
  BY <1>1, <1>2 DEF LabelInv
<1>4. tokens[expert] # 0
  BY ExpertInputs
<1>5. CASE machine.c.pp > 1 /\ micro[expert] = 0
  <2>1. ColdInput(expert)
    BY <1>5 DEF ColdInput
  <2>2. Left(machine.c, best.total, best.dep) \in 0..(machine.c.pp - 2)
    BY <1>3, <1>4, <1>5, <2>1 DEF Tagged
  <2> QED
    BY <1>5, <2>2 DEF Left
<1>6. CASE ~(machine.c.pp > 1 /\ micro[expert] = 0)
  <2>1. ~(machine.c.pp > 1 /\ ColdInput(expert))
    BY <1>6 DEF ColdInput
  <2>2. best.dep <= best.total
    BY <1>3, <2>1 DEF Tagged
  <2> QED
    BY <1>6, <2>2
<1> QED
  BY <1>5, <1>6

\* The reconstruction of a pipeline step takes nothing of a cold expert's
\* operation and its share of the others', on whichever processor they run,
\* for every number of stages.
THEOREM TagsStayExact == Spec => []TagsAreExact
<1> DEFINE Inv == TypeOK /\ FlagsInv /\ TagsInv /\ LabelInv
<1>1. Init => Inv
  BY InitTypeOK, InitFlags, InitTags, InitLabel
<1>2. Inv /\ [Next]_vars => Inv'
  BY NextTypeOK, NextFlags, NextTags, NextLabel
<1>3. Inv => TagsAreExact
  BY LabelIsExact
<1> QED
  BY <1>1, <1>2, <1>3, PTL DEF Spec
===============================================================================
