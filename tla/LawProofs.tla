------------------------------ MODULE LawProofs ------------------------------
(***************************************************************************)
(* Proofs of the laws in CostLaws, for every machine and batches of any    *)
(* length.                                                                 *)
(***************************************************************************)
EXTENDS CostLaws, CostProofs

----------------------------------------------------------------------------
(***************************************************************************)
(* What a step leads through.                                              *)
(***************************************************************************)

\* A sequence that decodes processes one token.
Decodes == [cur : Nat, tok : {1}]

\* The arguments of the laws are a machine and a batch that decodes.
LawsTypeOK ==
  /\ machine \in Machines
  /\ batch \in Seq(Decodes)

LEMMA LawsTypeInit == Init => LawsTypeOK
BY DEF Init, LawsTypeOK

\* A batch of a step is a batch of a step later.
LEMMA OneMoreToken ==
  ASSUME NEW b \in Seq(Decodes)
  PROVE  [i \in DOMAIN b |-> [b[i] EXCEPT !.cur = @ + 1]] \in Seq(Decodes)
<1>1. DOMAIN b = 1 .. Len(b) /\ Len(b) \in Nat
  BY Indices
<1>2. ASSUME NEW i \in DOMAIN b
      PROVE  [b[i] EXCEPT !.cur = @ + 1] \in Decodes
  <2>1. b[i] \in Decodes
    BY <1>1, ElementOfSeq
  <2> QED BY <2>1 DEF Decodes
<1> QED BY <1>1, <1>2

LEMMA LawsTypeStep ==
  ASSUME LawsTypeOK, [Next]_vars
  PROVE  LawsTypeOK'
<1>1. CASE Join
  <2>1. PICK n \in Starts : batch' = Append(batch, [cur |-> n, tok |-> 1])
    BY <1>1 DEF Join
  <2>2. [cur |-> n, tok |-> 1] \in Decodes
    BY CostLawsAssumption DEF Decodes
  <2>3. batch' \in Seq(Decodes)
    BY <2>1, <2>2, AppendProperties DEF LawsTypeOK
  <2> QED BY <1>1, <2>3 DEF Join, LawsTypeOK
<1>2. CASE Step
  <2>1. batch' \in Seq(Decodes)
    BY <1>2, OneMoreToken DEF Step, LawsTypeOK
  <2> QED BY <1>2, <2>1 DEF Step, LawsTypeOK
<1>3. CASE UNCHANGED vars
  BY <1>3 DEF vars, LawsTypeOK
<1> QED BY <1>1, <1>2, <1>3 DEF Next

LEMMA LawsType == Spec => []LawsTypeOK
<1>1. LawsTypeOK /\ [Next]_vars => LawsTypeOK'
  BY LawsTypeStep
<1> QED BY <1>1, LawsTypeInit, PTL DEF Spec

LEMMA EachDecodes ==
  ASSUME NEW b \in Seq(Decodes)
  PROVE  \A i \in DOMAIN b : b[i] \in Decodes
<1>1. DOMAIN b = 1 .. Len(b)
  BY Indices
<1> QED BY <1>1, ElementOfSeq

\* What the laws use of it.
LEMMA Arguments ==
  ASSUME LawsTypeOK
  PROVE  /\ IsMachine(machine) /\ Fields \subseteq DOMAIN machine
         /\ machine.c \in SystemConfig
         /\ batch \in Batch
         /\ \A i \in DOMAIN batch : batch[i] \in Decodes
<1>1. machine \in Machines /\ batch \in Seq(Decodes)
  BY DEF LawsTypeOK
<1>2. IsMachine(machine) /\ Fields \subseteq DOMAIN machine
  BY <1>1, CostLawsAssumption
<1>3. machine.c \in SystemConfig
  BY <1>2 DEF IsMachine
<1>4. batch \in Batch
  <2>1. Decodes \subseteq [cur : Nat, tok : Nat]
    BY DEF Decodes
  <2> QED BY <1>1, <2>1, SeqMonotonic DEF Batch
<1>5. \A i \in DOMAIN batch : batch[i] \in Decodes
  BY <1>1, EachDecodes
<1> QED BY <1>2, <1>3, <1>4, <1>5
----------------------------------------------------------------------------
(***************************************************************************)
(* A local layer.                                                          *)
(***************************************************************************)

\* When all sequences fill the window, the layer reads of them what it read a
\* token earlier.
LEMMA SameReach ==
  ASSUME NEW l, l.window \in Nat \ {0}, NEW b \in Seq(Decodes),
         \A i \in DOMAIN b : Context(b[i]) >= l.window
  PROVE  Reached(l, [i \in DOMAIN b |-> [b[i] EXCEPT !.cur = @ + 1]])
           = Reached(l, b)
<1> DEFINE d == [i \in DOMAIN b |-> [b[i] EXCEPT !.cur = @ + 1]]
<1>1. \A i \in DOMAIN b : b[i] \in Decodes
  BY EachDecodes
<1>2. ASSUME NEW i \in DOMAIN b
      PROVE  [d[i] EXCEPT !.cur = Reach(l, d[i]) - d[i].tok]
               = [b[i] EXCEPT !.cur = Reach(l, b[i]) - b[i].tok]
  <2>1. PICK n \in Nat : b[i] = [cur |-> n, tok |-> 1]
    BY <1>1 DEF Decodes
  <2>2. d[i] = [cur |-> n + 1, tok |-> 1]
    BY <2>1
  <2>3. n + 1 >= l.window /\ Context(d[i]) = n + 2 /\ Context(b[i]) = n + 1
    BY <2>1, <2>2 DEF Context
  <2>4. Reach(l, d[i]) = l.window /\ Reach(l, b[i]) = l.window
    BY <2>3 DEF Reach, Least
  <2> QED BY <2>1, <2>2, <2>4
<1> QED BY <1>2 DEF Reached

\* A local layer costs the GPU no more, from step to step, once all sequences
\* fill the window.
THEOREM LocalLayersAreCapped == Spec => WindowCaps
<1> DEFINE Capped ==
      machine.attention = "gqa" /\ machine.max_seq_len > 0
      /\ Len(batch') = Len(batch)
      /\ (\A i \in DOMAIN batch : Context(batch[i]) >= machine.max_seq_len) =>
           AttentionGen(machine, "GPU", batch')
             = AttentionGen(machine, "GPU", batch)
<1>1. LawsTypeOK /\ [Next]_vars => [Capped]_vars
  <2> SUFFICES ASSUME LawsTypeOK, Step,
                      machine.attention = "gqa", machine.max_seq_len > 0,
                      \A i \in DOMAIN batch :
                        Context(batch[i]) >= machine.max_seq_len
               PROVE  AttentionGen(machine, "GPU", batch')
                        = AttentionGen(machine, "GPU", batch)
    <3>1. LawsTypeOK /\ Join => Len(batch') = Len(batch) + 1
      BY AppendProperties DEF LawsTypeOK, Join
    <3>2. LawsTypeOK => Len(batch) \in Nat
      BY Indices DEF LawsTypeOK
    <3> QED BY <3>1, <3>2 DEF Next
  <2> DEFINE l == SelfAttentionGen(machine)
  <2>1. IsMachine(machine) /\ machine.max_seq_len \in Nat
    BY Arguments DEF IsMachine
  <2>2. l.window = machine.max_seq_len
    BY DEF SelfAttentionGen, Heads, LayerInfo
  <2>3. /\ batch' = [i \in DOMAIN batch |-> [batch[i] EXCEPT !.cur = @ + 1]]
        /\ machine' = machine
    BY DEF Step
  <2> HIDE DEF l
  <2>4. Reached(l, batch') = Reached(l, batch)
    <3>1. batch \in Seq(Decodes) /\ l.window \in Nat \ {0}
      BY <2>1, <2>2 DEF LawsTypeOK
    <3>2. Reached(l, [i \in DOMAIN batch |-> [batch[i] EXCEPT !.cur = @ + 1]])
            = Reached(l, batch)
      BY <2>2, <3>1, SameReach
    <3> QED BY <2>3, <3>2
  <2>5. AttentionGenExecutionGPU(machine.c, l, batch')
          = AttentionGenExecutionGPU(machine.c, l, batch)
    BY <2>4 DEF AttentionGenExecutionGPU
  <2> QED BY <2>5 DEF AttentionGen, l
<1>2. Spec => [][Capped]_vars
  BY <1>1, LawsType, PTL DEF Spec
<1> QED BY <1>2 DEF WindowCaps
----------------------------------------------------------------------------
(***************************************************************************)
(* A product on a batch and on a part of it.                               *)
(***************************************************************************)

\* What a row of a product adds to its computation.
RowTicks(c, p, precision, k, n) ==
  (IF p # "GPU" /\ precision = 1 THEN 1 ELSE 2) * (k * n * c.flop_ticks[p])

\* Computation grows with the rows; a utilisation adds so many rows to any
\* number of them.
RowsCompute(c, p, precision, k, n, rows) ==
  /\ RowTicks(c, p, precision, k, n) \in Nat /\ c.mfu_m_half \in Nat
  /\ ComputeTime(c, p, precision, 2 * rows * k * n * 1, rows)
       = RowTicks(c, p, precision, k, n) * (rows + c.mfu_m_half)

LEMMA ComputeOfRows ==
  ASSUME NEW c \in SystemConfig, NEW p \in Processors, NEW precision,
         NEW k \in Nat \ {0}, NEW n \in Nat \ {0}, NEW rows \in Nat \ {0}
  PROVE  RowsCompute(c, p, precision, k, n, rows)
<1> DEFINE tick == c.flop_ticks[p]
           one == k * n * tick
           q == RowTicks(c, p, precision, k, n)
           near == p # "GPU" /\ precision = 1
           peak == 2 * rows * k * n * 1 * tick
           t == IF near THEN peak \div 2 ELSE peak
           h == c.mfu_m_half
<1>1. tick \in Nat /\ h \in Nat
  BY DEF SystemConfig
<1>2. k * n \in Nat /\ one \in Nat
  BY <1>1, Product
<1>3. q = IF near THEN one ELSE 2 * one
  BY <1>2 DEF RowTicks
<1>4. q \in Nat /\ rows * one \in Nat
  BY <1>2, <1>3, Product
<1>5. peak = 2 * (rows * one)
  <2>1. 2 * rows * k * n * 1 = 2 * (rows * (k * n))
    BY SMT
  <2> DEFINE x == k * n
  <2>2. x \in Nat
    BY <1>2
  <2> HIDE DEF x, tick
  <2>3. 2 * (rows * x) * tick = 2 * (rows * (x * tick))
    BY <1>1, <2>2, SMT
  <2> QED BY <2>1, <2>3 DEF x
<1> HIDE DEF one, tick
<1>6. t = rows * q
  <2>1. (2 * (rows * one)) \div 2 = rows * one
    BY <1>4
  <2>2. 2 * (rows * one) = rows * (2 * one)
    BY <1>2
  <2> HIDE DEF peak, q
  <2> QED BY <1>3, <1>5, <2>1, <2>2
<1>7. ComputeTime(c, p, precision, 2 * rows * k * n * 1, rows)
        = EffectiveMFU(c, t, rows)
  BY DEF ComputeTime, tick
<1> HIDE DEF t, q, h
<1>8. EffectiveMFU(c, t, rows) = q * (rows + h)
  <2>1. CASE h = 0
    BY <1>1, <1>4, <1>6, <2>1 DEF EffectiveMFU, h
  <2>2. CASE h > 0
    <3>1. EffectiveMFU(c, t, rows) = (t * (rows + h)) \div rows
      BY <1>1, <2>2 DEF EffectiveMFU, h
    <3>2. t * (rows + h) = rows * (q * (rows + h))
      BY <1>1, <1>4, <1>6, SMT
    <3>3. q * (rows + h) \in Nat
      BY <1>1, <1>4, Product
    <3>4. \A x \in Nat : (rows * x) \div rows = x
      BY SMT
    <3> QED BY <3>1, <3>2, <3>3, <3>4
  <2> QED BY <1>1, <2>1, <2>2
<1> QED BY <1>1, <1>4, <1>7, <1>8 DEF RowsCompute, q, h

\* What the weights of a product take, and what a row of its activations.
WeightTicks(c, p, precision, k, n) ==
  IF c.use_hbf
  THEN FlashTime(c, k * n * precision, c.sram,
                 IF c.weight_stream_ops > 0 THEN c.weight_stream_ops ELSE 1)
  ELSE k * n * precision * Bandwidth(c, p)

ActTicks(c, p, precision, k, n) ==
  (k + n) * precision
    * (IF ~c.use_hbf THEN Bandwidth(c, p)
       ELSE IF c.num_hbm_stacks > 0 THEN c.hbm_read ELSE c.sram_read)

\* The two run beside each other with flash, one after the other without.
RowsMove(c, p, precision, k, n, rows) ==
  LET s == Shape(rows, k, n)
      w == WeightTicks(c, p, precision, k, n)
      a == ActTicks(c, p, precision, k, n)
  IN /\ w \in Nat /\ a \in Nat
     /\ LinearMemory(c, p, s, precision, FALSE)
          = IF c.use_hbf THEN Longer(w, rows * a) ELSE w + rows * a
     /\ c.use_hbf => ActTime(c, Act(s) * precision) = rows * a
     /\ ~c.use_hbf => Act(s) * precision * Bandwidth(c, p) = rows * a

LEMMA MemoryOfRows ==
  ASSUME NEW c \in SystemConfig, NEW p \in Processors,
         NEW precision \in Nat \ {0}, NEW k \in Nat \ {0},
         NEW n \in Nat \ {0}, NEW rows \in Nat \ {0}
  PROVE  RowsMove(c, p, precision, k, n, rows)
<1> DEFINE s == Shape(rows, k, n)
           w == WeightTicks(c, p, precision, k, n)
           a == ActTicks(c, p, precision, k, n)
           rate == IF c.num_hbm_stacks > 0 THEN c.hbm_read ELSE c.sram_read
           calls == IF c.weight_stream_ops > 0 THEN c.weight_stream_ops ELSE 1
<1>1. /\ rate \in Nat /\ Bandwidth(c, p) \in Nat /\ calls \in Nat \ {0}
      /\ c.sram \in Nat /\ c.use_hbf \in BOOLEAN /\ c.page_read \in Nat
  BY DEF SystemConfig, Bandwidth
<1>2. s.m = rows /\ s.k = k /\ s.n = n /\ s.heads = 1 /\ s.duplicated = FALSE
  BY DEF Shape
<1> HIDE DEF s
<1>3. Weight(s) = k * n /\ Act(s) = rows * (k + n)
  BY <1>2, SMT DEF Weight, Act
<1>4. /\ k * n \in Nat /\ k * n * precision \in Nat
      /\ (k + n) * precision \in Nat
  BY Product
<1>5. /\ k * n * precision * Bandwidth(c, p) \in Nat
      /\ FlashTime(c, k * n * precision, c.sram, calls) \in Nat
  <2> DEFINE x == k * n * precision
  <2>1. x \in Nat
    BY <1>4
  <2> HIDE DEF x, calls
  <2>2. x * Bandwidth(c, p) \in Nat /\ FlashTime(c, x, c.sram, calls) \in Nat
    BY <1>1, <2>1, TrafficIs
  <2> QED BY <2>2 DEF x
<1>6. \A r \in Nat : /\ (k + n) * precision * r \in Nat
                     /\ rows * (k + n) * precision * r
                          = rows * ((k + n) * precision * r)
  BY <1>4, Product, SMT
<1>7. w \in Nat /\ a \in Nat
  BY <1>1, <1>5, <1>6 DEF WeightTicks, ActTicks
<1>8. CASE c.use_hbf
  <2>1. a = (k + n) * precision * rate
    BY <1>8 DEF ActTicks
  <2>2. ActTime(c, Act(s) * precision) = rows * a
    BY <1>1, <1>3, <1>6, <2>1 DEF ActTime
  <2>3. LinearMemory(c, p, s, precision, FALSE)
          = Longer(FlashTime(c, k * n * precision, c.sram, calls) + 0,
                   ActTime(c, Act(s) * precision))
    BY <1>3, <1>8 DEF LinearMemory
  <2>4. w = FlashTime(c, k * n * precision, c.sram, calls)
    BY <1>8 DEF WeightTicks
  <2> HIDE DEF w, a
  <2>5. FlashTime(c, k * n * precision, c.sram, calls) + 0 = w
    BY <1>7, <2>4
  <2>6. LinearMemory(c, p, s, precision, FALSE) = Longer(w, rows * a)
    BY <2>2, <2>3, <2>5
  <2> QED BY <1>7, <1>8, <2>2, <2>6 DEF RowsMove, s, w, a
<1>9. CASE ~c.use_hbf
  <2>1. /\ a = (k + n) * precision * Bandwidth(c, p)
        /\ w = k * n * precision * Bandwidth(c, p)
    BY <1>9 DEF ActTicks, WeightTicks
  <2>2. Act(s) * precision * Bandwidth(c, p) = rows * a
    BY <1>1, <1>3, <1>6, <2>1
  <2>3. LinearMemory(c, p, s, precision, FALSE)
          = (k * n + Act(s)) * precision * Bandwidth(c, p)
    BY <1>3, <1>9 DEF LinearMemory
  <2>4. Act(s) \in Nat
    BY <1>3, Product
  <2>5. \A x, y, u, v \in Nat : (x + y) * u * v = x * u * v + y * u * v
    BY SMT
  <2>6. (k * n + Act(s)) * precision * Bandwidth(c, p)
          = k * n * precision * Bandwidth(c, p)
            + Act(s) * precision * Bandwidth(c, p)
    BY <1>1, <1>4, <2>4, <2>5
  <2> HIDE DEF w, a
  <2> QED BY <1>7, <1>9, <2>1, <2>2, <2>3, <2>6 DEF RowsMove, s, w, a
<1> QED BY <1>1, <1>8, <1>9

\* The fields of a product's status.
RowsCost(c, p, precision, k, n, rows) ==
  LET w == WeightTicks(c, p, precision, k, n)
      a == rows * ActTicks(c, p, precision, k, n)
      compute == RowTicks(c, p, precision, k, n) * (rows + c.mfu_m_half)
      memory == IF c.use_hbf THEN Longer(w, a) ELSE w + a
      status == LinearCore(c, p, Shape(rows, k, n), precision, FALSE, FALSE)
  IN /\ status.compute = compute
     /\ status.total = Longer(compute, memory)
     /\ status.dep = IF compute > memory THEN compute
                     ELSE IF ~c.use_hbf THEN a
                     ELSE IF a >= memory THEN memory ELSE 0

LEMMA ProductOfRows ==
  ASSUME NEW c \in SystemConfig, ~c.ramulator, NEW p \in Processors,
         NEW precision \in Nat \ {0}, NEW k \in Nat \ {0},
         NEW n \in Nat \ {0}, NEW rows \in Nat \ {0}
  PROVE  RowsCost(c, p, precision, k, n, rows)
<1> DEFINE s == Shape(rows, k, n)
           w == WeightTicks(c, p, precision, k, n)
           a == rows * ActTicks(c, p, precision, k, n)
           compute == RowTicks(c, p, precision, k, n) * (rows + c.mfu_m_half)
           memory == IF c.use_hbf THEN Longer(w, a) ELSE w + a
           dep == LinearDep(c, s, precision, compute, memory)
           status == LinearCore(c, p, s, precision, FALSE, FALSE)
<1>1. s.m = rows /\ s.k = k /\ s.n = n /\ s.heads = 1
  BY DEF Shape
<1>2. /\ w \in Nat /\ ActTicks(c, p, precision, k, n) \in Nat
      /\ LinearMemory(c, p, s, precision, FALSE) = memory
      /\ c.use_hbf => ActTime(c, Act(s) * precision) = a
      /\ ~c.use_hbf => Act(s) * precision * Bandwidth(c, p) = a
  <2>1. RowsMove(c, p, precision, k, n, rows)
    BY MemoryOfRows
  <2> QED BY <2>1 DEF RowsMove
<1>3. ComputeTime(c, p, precision, 2 * s.m * s.k * s.n * s.heads, s.m)
        = compute
  <2>1. RowsCompute(c, p, precision, k, n, rows)
    BY ComputeOfRows
  <2>2. ComputeTime(c, p, precision, 2 * rows * k * n * 1, rows) = compute
    BY <2>1 DEF RowsCompute
  <2> HIDE DEF s
  <2> QED BY <1>1, <2>2
<1>4. /\ Weight(s) \in Nat \ {0} /\ Act(s) \in Nat
      /\ Bandwidth(c, p) \in Nat
  BY ShapeIs DEF SystemConfig, Bandwidth
<1>5. c.use_hbf \in BOOLEAN
  BY DEF SystemConfig
<1>6. ~c.use_hbf => memory = (Weight(s) + Act(s)) * precision * Bandwidth(c, p)
  BY <1>2 DEF LinearMemory
<1> HIDE DEF s, w, a, compute, memory
<1>7. ~c.use_hbf => (memory * Act(s)) \div (Weight(s) + Act(s)) = a
  <2> SUFFICES ASSUME ~c.use_hbf
               PROVE  (memory * Act(s)) \div (Weight(s) + Act(s)) = a
    OBVIOUS
  <2> DEFINE x == Weight(s) + Act(s)
             y == precision * Bandwidth(c, p)
  <2>1. x \in Nat \ {0} /\ y \in Nat /\ Act(s) \in Nat
    BY <1>4, Product
  <2>2. memory = x * y
    BY <1>4, <1>6, SMT
  <2>3. a = Act(s) * y
    BY <1>2, <1>4, SMT
  <2> HIDE DEF x, y
  <2>4. memory * Act(s) = x * (Act(s) * y)
    BY <2>1, <2>2, SMT
  <2>5. \A z \in Nat : (x * z) \div x = z
    BY <2>1, SMT
  <2>6. Act(s) * y \in Nat
    BY <2>1, Product
  <2> QED BY <2>3, <2>4, <2>5, <2>6 DEF x
<1>8. dep = IF compute > memory THEN compute
            ELSE IF ~c.use_hbf THEN a
            ELSE IF a >= memory THEN memory ELSE 0
  BY <1>2, <1>5, <1>7 DEF LinearDep
<1>9. /\ status.compute = compute /\ status.total = Longer(compute, memory)
      /\ status.dep = dep
  BY <1>1, <1>2, <1>3 DEF LinearCore, EmptyStatus, Cold
<1> HIDE DEF dep, status
<1>10. /\ status.compute = compute /\ status.total = Longer(compute, memory)
       /\ status.dep = IF compute > memory THEN compute
                       ELSE IF ~c.use_hbf THEN a
                       ELSE IF a >= memory THEN memory ELSE 0
  BY <1>8, <1>9
<1> QED BY <1>10 DEF RowsCost, status, s, w, a, compute, memory

\* What a product moves, and the part of it that grows with the rows.
Moved(flash, w, b) == IF flash THEN Longer(w, b) ELSE w + b

Growing(flash, e, b, mem) ==
  IF e > mem THEN e ELSE IF ~flash THEN b ELSE IF b >= mem THEN mem ELSE 0

\* Work of x ticks and moves of z ticks for each of pp shares, y and w ticks
\* for all of them together: taking pp - 1 times what grows from pp times the
\* whole leaves no more than pp shares.
Shares(pp, x, y, z, w, flash) ==
  LET M == Moved(flash, w, pp * z)
      m == Moved(flash, w, z)
      D == Growing(flash, pp * x + y, pp * z, M)
      d == Growing(flash, x + y, z, m)
      twice == pp * Longer(pp * x + y, M) - (pp - 1) * D
  IN /\ twice <= pp * Longer(x + y, m)
     /\ (x + y < Longer(x + y, m) /\ pp * x + y < Longer(pp * x + y, M)
         /\ (d > 0 <=> D > 0))
          => twice = pp * Longer(x + y, m)

\* The same in numbers: of a product whose rows are shared by pp batches, x is
\* the computation of one batch's rows, y that of the rows utilisation adds, z
\* the traffic of one batch's activations and w that of the weights.
LEMMA SharedRows ==
  ASSUME NEW pp \in Nat \ {0}, NEW x \in Nat, NEW y \in Nat, NEW z \in Nat,
         NEW w \in Nat, NEW flash \in BOOLEAN
  PROVE  Shares(pp, x, y, z, w, flash)
<1> DEFINE M == Moved(flash, w, pp * z)
           m == Moved(flash, w, z)
           D == Growing(flash, pp * x + y, pp * z, M)
           d == Growing(flash, x + y, z, m)
<1>a. /\ M = (IF flash THEN Longer(w, pp * z) ELSE w + pp * z)
      /\ m = (IF flash THEN Longer(w, z) ELSE w + z)
  BY DEF Moved
<1>b. /\ D = (IF pp * x + y > M THEN pp * x + y
              ELSE IF ~flash THEN pp * z
              ELSE IF pp * z >= M THEN M ELSE 0)
      /\ d = (IF x + y > m THEN x + y
              ELSE IF ~flash THEN z
              ELSE IF z >= m THEN m ELSE 0)
  BY DEF Growing
<1> SUFFICES LET twice == pp * Longer(pp * x + y, M) - (pp - 1) * D
             IN /\ twice <= pp * Longer(x + y, m)
                /\ (x + y < Longer(x + y, m) /\ pp * x + y < Longer(pp * x + y, M)
                    /\ (d > 0 <=> D > 0))
                     => twice = pp * Longer(x + y, m)
  BY DEF Shares
<1> HIDE DEF M, m, D, d
<1> DEFINE T == Longer(pp * x + y, M)
           t == Longer(x + y, m)
           u == pp * z
           v == pp * x
<1>1. u \in Nat /\ v \in Nat /\ z <= u /\ x <= v
  BY Product
<1>2. /\ \A i, j \in Int : pp * (i + j) = pp * i + pp * j
      /\ \A i \in Int : pp * i - (pp - 1) * i = i
      /\ \A i, j \in Int : i <= j => pp * i <= pp * j
      /\ \A i \in Nat : i <= pp * i
      /\ \A i \in Int : pp * i \in Int
      /\ (pp - 1) * 0 = 0
  BY SMT
<1>3. /\ M = (IF flash THEN Longer(w, u) ELSE w + u)
      /\ D = (IF v + y > M THEN v + y ELSE IF ~flash THEN u
              ELSE IF u >= M THEN M ELSE 0)
      /\ T = Longer(v + y, M)
  BY <1>a, <1>b
<1> HIDE DEF u, v
<1>4. M \in Nat /\ m \in Nat /\ T \in Nat /\ t \in Nat /\ D \in Nat
  BY <1>1, <1>a, <1>3 DEF Longer
<1>5. x + y <= t /\ m <= t /\ (t = x + y \/ t = m)
  BY <1>4 DEF Longer
<1> HIDE DEF T, t
<1>6. pp * (x + y) <= pp * t /\ pp * m <= pp * t
  BY <1>2, <1>4, <1>5
<1>7. pp * (x + y) = v + pp * y /\ y <= pp * y /\ pp * y \in Int
  BY <1>2 DEF v
<1> DEFINE twice == pp * T - (pp - 1) * D
<1>8. CASE v + y > M
  <2>1. T = v + y /\ D = v + y
    BY <1>1, <1>3, <1>4, <1>8 DEF Longer
  <2>2. twice = v + y
    <3> DEFINE e == v + y
    <3>1. e \in Int
      BY <1>1
    <3> HIDE DEF e
    <3>2. pp * e - (pp - 1) * e = e
      BY <1>2, <3>1
    <3> QED BY <2>1, <3>2 DEF e
  <2> HIDE DEF twice
  <2>3. twice <= pp * t
    BY <1>1, <1>2, <1>4, <1>6, <1>7, <2>2
  <2>4. ~(v + y < T)
    BY <1>1, <2>1
  <2> QED BY <2>3, <2>4 DEF twice, T, t, v
<1>9. CASE v + y <= M
  <2>1. T = M
    BY <1>1, <1>3, <1>4, <1>9 DEF Longer
  <2>2. CASE ~flash
    <3>1. M = w + u /\ D = u /\ m = w + z
      BY <1>1, <1>a, <1>b, <1>3, <1>4, <1>9, <2>2
    <3>2. pp * M = pp * w + pp * u /\ pp * m = pp * w + u
      BY <1>1, <1>2, <3>1 DEF u
    <3>3. twice = pp * m
      <4>1. pp * u - (pp - 1) * u = u /\ pp * w \in Int /\ pp * u \in Int
            /\ (pp - 1) * u \in Int
        BY <1>1, <1>2
      <4> QED BY <1>1, <2>1, <3>1, <3>2, <4>1
    <3> HIDE DEF twice
    <3>4. twice <= pp * t
      BY <1>6, <3>3
    <3>5. x + y < t => t = m
      BY <1>5
    <3> QED BY <3>3, <3>4, <3>5 DEF twice, T, t, v
  <2>3. CASE flash /\ u >= M
    <3>1. M = u /\ D = u /\ w <= u
      BY <1>1, <1>3, <1>4, <1>9, <2>3 DEF Longer
    <3>2. twice = u
      BY <1>1, <1>2, <2>1, <3>1
    <3> HIDE DEF twice
    <3>3. z <= m
      BY <1>a, <2>3, <1>4 DEF Longer
    <3>4. u <= pp * t
      <4>1. pp * z <= pp * m
        BY <1>2, <1>4, <3>3
      <4>2. pp * m \in Int /\ pp * t \in Int
        BY <1>2, <1>4
      <4> QED BY <1>1, <1>6, <4>1, <4>2 DEF u
    <3>5. ASSUME x + y < t, v + y < T, d > 0
          PROVE  twice = pp * t
      <4>1. t = m /\ ~(x + y > m)
        BY <1>4, <1>5, <3>5
      <4>2. z >= m
        BY <1>b, <2>3, <3>5, <4>1
      <4>3. z = m
        BY <1>4, <3>3, <4>2
      <4> QED BY <3>2, <4>1, <4>3 DEF u
    <3>6. v + y < T => D > 0
      BY <1>1, <2>1, <3>1
    <3> QED BY <3>2, <3>4, <3>5, <3>6 DEF twice, T, t, v
  <2>4. CASE flash /\ ~(u >= M)
    <3>1. M = w /\ D = 0
      BY <1>1, <1>3, <1>4, <1>9, <2>4 DEF Longer
    <3>2. twice = pp * w
      BY <1>2, <2>1, <3>1
    <3> HIDE DEF twice
    <3>3. m = w
      BY <1>1, <1>a, <1>3, <1>4, <2>4, <3>1 DEF Longer
    <3>4. twice <= pp * t
      BY <1>6, <3>2, <3>3
    <3>5. x + y < t => t = m
      BY <1>5
    <3> QED BY <3>2, <3>3, <3>4, <3>5 DEF twice, T, t, v
  <2> QED BY <2>2, <2>3, <2>4
<1>10. v + y > M \/ v + y <= M
  BY <1>1, <1>4
<1> QED BY <1>8, <1>9, <1>10 DEF T, t, v

\* A machine with a pipeline of another depth.
LEMMA OtherPipeline ==
  ASSUME NEW c \in SystemConfig, NEW pp \in Nat \ {0}
  PROVE  LET x == [c EXCEPT !.pp = pp]
         IN /\ x \in SystemConfig
            /\ x.ramulator = c.ramulator
            /\ x.use_hbf \in BOOLEAN
<1> DEFINE x == [c EXCEPT !.pp = pp]
<1>1. x \in SystemConfig
  BY DEF SystemConfig
<1>2. x.ramulator = c.ramulator
  BY DEF SystemConfig
<1>3. x.use_hbf \in BOOLEAN
  <2> HIDE DEF x
  <2> QED BY <1>1 DEF SystemConfig
<1> QED
  BY <1>1, <1>2, <1>3

\* What the iteration loop subtracts turns the cost of a product on the whole
\* batch into its cost on a microbatch, for any number of microbatches.
THEOREM MicrobatchIsReconstructed ==
  ASSUME \A m \in Machines : ~m.c.ramulator
  PROVE  Spec => []ReconstructsTheMicrobatch
<1>1. LawsTypeOK => ReconstructsTheMicrobatch
  <2> SUFFICES ASSUME LawsTypeOK,
                      NEW p \in Processors, NEW pp \in 2 .. MaxBatch,
                      Len(batch) > 0, Len(batch) % pp = 0
               PROVE  LET c == [machine.c EXCEPT !.pp = pp]
                          rows == Len(batch)
                          cost(r) ==
                            LinearCore(c, p, Shape(r, machine.hidden_dim,
                                                   machine.intermediate_dim),
                                       machine.precision, FALSE, FALSE)
                          all == cost(rows)
                          part == cost(rows \div pp)
                          twice == pp * all.total - (pp - 1) * all.dep
                      IN /\ twice <= pp * part.total
                         /\ part.compute < part.total
                            /\ all.compute < all.total
                            /\ (part.dep > 0 <=> all.dep > 0)
                              => twice = pp * part.total
    BY DEF ReconstructsTheMicrobatch, Shape
  <2> DEFINE c == [machine.c EXCEPT !.pp = pp]
             k == machine.hidden_dim
             n == machine.intermediate_dim
             b == machine.precision
             r == Len(batch) \div pp
             all == LinearCore(c, p, Shape(Len(batch), k, n), b, FALSE, FALSE)
             part == LinearCore(c, p, Shape(r, k, n), b, FALSE, FALSE)
             w == WeightTicks(c, p, b, k, n)
             a == ActTicks(c, p, b, k, n)
             q == RowTicks(c, p, b, k, n)
             h == c.mfu_m_half
  <2>1. /\ IsMachine(machine) /\ machine.c \in SystemConfig
        /\ ~machine.c.ramulator
    BY Arguments DEF LawsTypeOK
  <2>2. /\ k \in Nat \ {0} /\ n \in Nat \ {0} /\ b \in Nat \ {0}
    BY <2>1 DEF IsMachine
  <2>3. pp \in Nat \ {0} /\ Len(batch) \in Nat \ {0}
    BY CostLawsAssumption, Indices DEF LawsTypeOK
  <2>4. c \in SystemConfig /\ ~c.ramulator /\ c.use_hbf \in BOOLEAN
    BY <2>1, <2>3, OtherPipeline DEF c
  <2>5. r \in Nat \ {0} /\ Len(batch) = pp * r
    BY <2>3, SMT
  <2>6. /\ RowsCost(c, p, b, k, n, Len(batch)) /\ RowsCost(c, p, b, k, n, r)
        /\ RowsCompute(c, p, b, k, n, r) /\ RowsMove(c, p, b, k, n, r)
    <3> HIDE DEF c, k, n, b, r
    <3> QED BY <2>2, <2>3, <2>4, <2>5, ProductOfRows, ComputeOfRows,
               MemoryOfRows
  <2>7. w \in Nat /\ a \in Nat /\ q \in Nat /\ h \in Nat
    BY <2>6 DEF RowsCompute, RowsMove
  <2> HIDE DEF c, k, n, b, r, w, a, q, h
  <2> DEFINE x == q * r
             y == q * h
             z == r * a
             M == Moved(c.use_hbf, w, pp * z)
             m == Moved(c.use_hbf, w, z)
             D == Growing(c.use_hbf, pp * x + y, pp * z, M)
             d == Growing(c.use_hbf, x + y, z, m)
  <2>8. x \in Nat /\ y \in Nat /\ z \in Nat
    BY <2>5, <2>7, Product
  <2>9. /\ q * (Len(batch) + h) = pp * x + y /\ q * (r + h) = x + y
        /\ Len(batch) * a = pp * z
    BY <2>3, <2>5, <2>7, SMT
  <2> HIDE DEF x, y, z
  <2>10. /\ all.compute = pp * x + y /\ all.total = Longer(pp * x + y, M)
         /\ all.dep = D
    BY <2>6, <2>9 DEF RowsCost, w, a, q, h, Moved, Growing
  <2>11. /\ part.compute = x + y /\ part.total = Longer(x + y, m)
         /\ part.dep = d
    BY <2>6, <2>9 DEF RowsCost, w, a, q, h, z, Moved, Growing
  <2> HIDE DEF M, m, D, d, all, part
  <2>12. LET twice == pp * Longer(pp * x + y, M) - (pp - 1) * D
         IN /\ twice <= pp * Longer(x + y, m)
            /\ (x + y < Longer(x + y, m) /\ pp * x + y < Longer(pp * x + y, M)
                /\ (d > 0 <=> D > 0))
                 => twice = pp * Longer(x + y, m)
    <3>1. Shares(pp, x, y, z, w, c.use_hbf)
      BY <2>3, <2>4, <2>7, <2>8, SharedRows
    <3> QED BY <3>1 DEF Shares, M, m, D, d
  <2>13. LET twice == pp * all.total - (pp - 1) * all.dep
         IN /\ twice <= pp * part.total
            /\ part.compute < part.total /\ all.compute < all.total
               /\ (part.dep > 0 <=> all.dep > 0) => twice = pp * part.total
    BY <2>10, <2>11, <2>12
  <2> QED BY <2>13 DEF all, part, c, k, n, b, r
<1> QED BY <1>1, LawsType, PTL
----------------------------------------------------------------------------
(***************************************************************************)
(* What the phases of a kernel add up to.                                  *)
(***************************************************************************)

\* The times, the computation a write can hide behind, and the flops.
Longs(s) == [i \in DOMAIN s |-> Longer(s[i].compute, s[i].memory)]
Hides(s) == [i \in DOMAIN s |-> IF s[i].hides THEN s[i].compute ELSE 0]
Counts(s) == [i \in DOMAIN s |-> s[i].flops]

LEMMA RunAdds ==
  ASSUME NEW s
  PROVE  /\ Run(s).total = SumFunction(Longs(s))
         /\ Run(s).compute = SumFunction(Hides(s))
         /\ Run(s).flops = SumFunction(Counts(s))
  BY DEF Run, SumOver, Longs, Hides, Counts, EmptyStatus

\* The last value of a sum.
LEMMA SumLast ==
  ASSUME NEW n \in Nat, NEW f, \A i \in 1 .. n + 1 : f[i] \in Int
  PROVE  SumIn(f, 1 .. n + 1) = f[n + 1] + SumIn(f, 1 .. n)
<1> DEFINE S == 1 .. n + 1
<1>1. n + 1 \in S /\ S \ {n + 1} = 1 .. n
  OBVIOUS
<1>2. IsFiniteSet(S)
  BY FS_Interval
<1> HIDE DEF S
<1>3. \A i \in S : f[i] \in Int
  BY DEF S
<1>4. SumIn(f, S) = f[n + 1] + SumIn(f, S \ {n + 1})
  BY <1>1, <1>2, <1>3, SumOfAny
<1> QED BY <1>1, <1>4 DEF S

\* The values of a function on an interval are added from left to right.
LEMMA SumJoined ==
  ASSUME NEW p \in Nat, NEW q \in Nat, NEW u \in [1 .. p -> Int],
         NEW w \in [1 .. q -> Int], NEW v \in [1 .. p + q -> Int],
         \A i \in 1 .. p : v[i] = u[i],
         \A i \in 1 .. q : v[p + i] = w[i]
  PROVE  SumFunction(v) = SumFunction(u) + SumFunction(w)
<1> DEFINE P == {k \in 0 .. q : SumIn(v, 1 .. p + k)
                                  = SumIn(u, 1 .. p) + SumIn(w, 1 .. k)}
<1>1. \A n \in Nat : IsFiniteSet(1 .. n)
  BY FS_Interval
<1>2. 0 \in P
  <2>1. SumIn(v, 1 .. p) = SumIn(u, 1 .. p)
    BY <1>1, SumOfSame
  <2>2. 1 .. p + 0 = 1 .. p /\ 1 .. 0 = {}
    OBVIOUS
  <2>3. SumIn(u, 1 .. p) \in Int
    BY <1>1, SumType
  <2> QED BY <2>1, <2>2, <2>3, SumOfNone
<1>3. ASSUME NEW k \in 0 .. q - 1, k \in P
      PROVE  k + 1 \in P
  <2>1. /\ k \in Nat /\ k + 1 \in 1 .. q /\ p + k \in Nat
        /\ 1 .. p + k + 1 \subseteq 1 .. p + q
        /\ 1 .. k + 1 \subseteq 1 .. q
        /\ p + k + 1 = p + (k + 1)
    OBVIOUS
  <2>2. SumIn(v, 1 .. p + k + 1) = v[p + k + 1] + SumIn(v, 1 .. p + k)
    <3>1. \A i \in 1 .. p + k + 1 : v[i] \in Int
      BY <2>1
    <3> DEFINE n == p + k
    <3>2. n \in Nat /\ \A i \in 1 .. n + 1 : v[i] \in Int
      BY <2>1, <3>1
    <3> HIDE DEF n
    <3>3. SumIn(v, 1 .. n + 1) = v[n + 1] + SumIn(v, 1 .. n)
      BY <3>2, SumLast
    <3> QED BY <3>3 DEF n
  <2>3. SumIn(w, 1 .. k + 1) = w[k + 1] + SumIn(w, 1 .. k)
    <3>1. \A i \in 1 .. k + 1 : w[i] \in Int
      BY <2>1
    <3> QED BY <2>1, <3>1, SumLast
  <2>4. SumIn(u, 1 .. p) \in Int /\ SumIn(w, 1 .. k) \in Int
        /\ w[k + 1] \in Int /\ v[p + k + 1] = w[k + 1]
    <3>1. \A i \in 1 .. k : w[i] \in Int
      BY <2>1
    <3> QED BY <1>1, <2>1, <3>1, SumType
  <2>5. SumIn(v, 1 .. p + k) = SumIn(u, 1 .. p) + SumIn(w, 1 .. k)
    BY <1>3
  <2> QED BY <2>1, <2>2, <2>3, <2>4, <2>5
<1>4. q \in P
  <2>1. P \in SUBSET Nat
    OBVIOUS
  <2>2. \A n \in 0 .. q - 1 : n \in P => n + 1 \in P
    BY <1>3
  <2> HIDE DEF P
  <2>3. 0 .. q \subseteq P
    BY <1>2, <2>1, <2>2, Induction
  <2> QED BY <2>3
<1>5. /\ SumFunction(v) = SumIn(v, 1 .. p + q)
      /\ SumFunction(u) = SumIn(u, 1 .. p)
      /\ SumFunction(w) = SumIn(w, 1 .. q)
  BY <1>1, SumFunctionIs
<1> QED BY <1>4, <1>5

\* One phase.
LEMMA RunOne ==
  ASSUME NEW f \in Phases
  PROVE  /\ Run(<<f>>).total = Longer(f.compute, f.memory)
         /\ Run(<<f>>).compute = IF f.hides THEN f.compute ELSE 0
         /\ Run(<<f>>).flops = f.flops
<1>1. ASSUME NEW v, DOMAIN v = {1}, v[1] \in Int
      PROVE  SumFunction(v) = v[1]
  <2>1. IsFiniteSet({1})
    BY FS_Singleton
  <2>2. SumIn(v, {1}) = v[1] + SumIn(v, {1} \ {1})
    BY <1>1, <2>1, SumOfAny
  <2>3. {1} \ {1} = {}
    OBVIOUS
  <2> QED BY <1>1, <2>1, <2>2, <2>3, SumOfNone, SumFunctionIs
<1>2. DOMAIN <<f>> = {1} /\ <<f>>[1] = f
  OBVIOUS
<1>3. /\ DOMAIN Longs(<<f>>) = {1} /\ DOMAIN Hides(<<f>>) = {1}
      /\ DOMAIN Counts(<<f>>) = {1}
      /\ Longs(<<f>>)[1] = Longer(f.compute, f.memory)
      /\ Hides(<<f>>)[1] = (IF f.hides THEN f.compute ELSE 0)
      /\ Counts(<<f>>)[1] = f.flops
  BY <1>2 DEF Longs, Hides, Counts
<1>4. /\ Longer(f.compute, f.memory) \in Int
      /\ (IF f.hides THEN f.compute ELSE 0) \in Int
      /\ f.flops \in Int
  BY DEF Phases, Longer
<1> QED BY <1>1, <1>3, <1>4, RunAdds

\* The fields of a phase.
LEMMA PhaseFields ==
  ASSUME NEW s \in Seq(Phases), NEW i \in DOMAIN s
  PROVE  /\ s[i].compute \in Nat /\ s[i].memory \in Nat
         /\ s[i].hides \in BOOLEAN /\ s[i].flops \in Nat
         /\ Longer(s[i].compute, s[i].memory) \in Nat
         /\ (IF s[i].hides THEN s[i].compute ELSE 0) \in Nat
<1>1. s[i] \in Phases
  BY ElementOfSeq, LenProperties
<1> QED BY <1>1 DEF Phases, Longer

\* Phases after phases.
LEMMA RunJoined ==
  ASSUME NEW s \in Seq(Phases), NEW t \in Seq(Phases)
  PROVE  /\ s \o t \in Seq(Phases)
         /\ Run(s \o t).total = Run(s).total + Run(t).total
         /\ Run(s \o t).compute = Run(s).compute + Run(t).compute
         /\ Run(s \o t).flops = Run(s).flops + Run(t).flops
<1> DEFINE p == Len(s)
           q == Len(t)
           r == s \o t
<1>1. /\ r \in Seq(Phases) /\ p \in Nat /\ q \in Nat
      /\ DOMAIN s = 1 .. p /\ DOMAIN t = 1 .. q /\ DOMAIN r = 1 .. p + q
      /\ \A i \in 1 .. p : r[i] = s[i]
      /\ \A i \in 1 .. q : r[p + i] = t[i]
  <2>1. /\ r \in Seq(Phases) /\ Len(r) = Len(s) + Len(t)
        /\ \A i \in 1 .. Len(s) + Len(t) :
             r[i] = IF i <= Len(s) THEN s[i] ELSE t[i - Len(s)]
    BY ConcatProperties
  <2>2. /\ DOMAIN s = 1 .. p /\ DOMAIN t = 1 .. q /\ DOMAIN r = 1 .. p + q
        /\ p \in Nat /\ q \in Nat
    BY <2>1, Indices
  <2>3. \A i \in 1 .. q : p + i \in 1 .. p + q /\ ~(p + i <= p)
                          /\ (p + i) - p = i
    BY <2>2
  <2> QED BY <2>1, <2>2, <2>3
<1> HIDE DEF p, q, r
<1>2. \A x \in {s, t, r} : /\ Longs(x) \in [DOMAIN x -> Int]
                           /\ Hides(x) \in [DOMAIN x -> Int]
                           /\ Counts(x) \in [DOMAIN x -> Int]
  BY <1>1, PhaseFields DEF Longs, Hides, Counts
<1>3. /\ \A i \in 1 .. p : /\ Longs(r)[i] = Longs(s)[i]
                           /\ Hides(r)[i] = Hides(s)[i]
                           /\ Counts(r)[i] = Counts(s)[i]
      /\ \A i \in 1 .. q : /\ Longs(r)[p + i] = Longs(t)[i]
                           /\ Hides(r)[p + i] = Hides(t)[i]
                           /\ Counts(r)[p + i] = Counts(t)[i]
  <2>1. \A i \in 1 .. p : i \in 1 .. p + q
    BY <1>1
  <2>2. \A i \in 1 .. q : p + i \in 1 .. p + q
    BY <1>1
  <2> QED BY <1>1, <2>1, <2>2 DEF Longs, Hides, Counts
<1>a. /\ Longs(s) \in [1 .. p -> Int] /\ Hides(s) \in [1 .. p -> Int]
      /\ Counts(s) \in [1 .. p -> Int]
  BY <1>1, <1>2
<1>b. /\ Longs(t) \in [1 .. q -> Int] /\ Hides(t) \in [1 .. q -> Int]
      /\ Counts(t) \in [1 .. q -> Int]
  BY <1>1, <1>2
<1>c. /\ Longs(r) \in [1 .. p + q -> Int] /\ Hides(r) \in [1 .. p + q -> Int]
      /\ Counts(r) \in [1 .. p + q -> Int]
  BY <1>1, <1>2
<1>4. SumFunction(Longs(r)) = SumFunction(Longs(s)) + SumFunction(Longs(t))
  BY <1>1, <1>3, <1>a, <1>b, <1>c, SumJoined
<1>5. SumFunction(Hides(r)) = SumFunction(Hides(s)) + SumFunction(Hides(t))
  BY <1>1, <1>3, <1>a, <1>b, <1>c, SumJoined
<1>6. SumFunction(Counts(r)) = SumFunction(Counts(s)) + SumFunction(Counts(t))
  BY <1>1, <1>3, <1>a, <1>b, <1>c, SumJoined
<1> QED BY <1>1, <1>4, <1>5, <1>6, RunAdds DEF r

\* A kernel takes no less than the computation it reports.
LEMMA RunIsLonger ==
  ASSUME NEW s \in Seq(Phases)
  PROVE  /\ Run(s).total \in Nat /\ Run(s).compute \in Nat
         /\ Run(s).compute <= Run(s).total
<1>1. IsFiniteSet(DOMAIN s)
  BY Indices
<1>2. /\ Longs(s) \in [DOMAIN s -> Nat] /\ Hides(s) \in [DOMAIN s -> Nat]
      /\ \A i \in DOMAIN s : Hides(s)[i] <= Longs(s)[i]
  BY PhaseFields DEF Longs, Hides, Longer
<1>3. /\ Longs(s) \in [DOMAIN s -> Int] /\ Hides(s) \in [DOMAIN s -> Int]
  BY <1>2
<1>4. SumFunction(Hides(s)) <= SumFunction(Longs(s))
  <2>1. PICK F : Adds(F, Hides(s), DOMAIN s)
    BY <1>1, SumExists
  <2>2. PICK G : Adds(G, Longs(s), DOMAIN s)
    BY <1>1, SumExists
  <2>3. F[DOMAIN s] <= G[DOMAIN s]
    BY <1>1, <1>2, <1>3, <2>1, <2>2, SumMonotone
  <2>4. /\ F[DOMAIN s] = SumIn(Hides(s), DOMAIN s)
        /\ G[DOMAIN s] = SumIn(Longs(s), DOMAIN s)
    BY <1>1, <2>1, <2>2, SumOverIs
  <2>5. DOMAIN Hides(s) = DOMAIN s /\ DOMAIN Longs(s) = DOMAIN s
    BY DEF Hides, Longs
  <2> QED BY <1>1, <2>3, <2>4, <2>5, SumFunctionIs
<1>5. Run(s) \in Statuses
  BY RunIs
<1> QED BY <1>4, <1>5, RunAdds DEF Statuses
----------------------------------------------------------------------------
(***************************************************************************)
(* The decode kernels of the GPU, as functions of the machine alone.       *)
(***************************************************************************)

\* The machine n is m, with other cost parameters perhaps.
SameModel(n, m) ==
  /\ n.attention = m.attention /\ n.head_dim = m.head_dim
  /\ n.num_heads = m.num_heads /\ n.num_kv_heads = m.num_kv_heads
  /\ n.rope = m.rope /\ n.kv_lora_rank = m.kv_lora_rank
  /\ n.max_seq_len = m.max_seq_len
  /\ n.use_flash_attention = m.use_flash_attention
  /\ n.use_flash_mla = m.use_flash_mla /\ n.compressed_kv = m.compressed_kv
  /\ n.precision = m.precision

LEMMA OtherCosts ==
  ASSUME NEW m, Fields \subseteq DOMAIN m, NEW c
  PROVE  LET n == [m EXCEPT !.c = c] IN n.c = c /\ SameModel(n, m)
  BY DEF Fields, SameModel

LEMMA SameLayers ==
  ASSUME NEW m, NEW n, SameModel(n, m)
  PROVE  /\ SelfAttentionGen(n) = SelfAttentionGen(m)
         /\ SelfAttentionSum(n) = SelfAttentionSum(m)
         /\ MultiLatentAttentionGen(n) = MultiLatentAttentionGen(m)
         /\ AbsorbMLAGen(n) = AbsorbMLAGen(m)
<1>1. Heads(n) = Heads(m)
  BY DEF SameModel, Heads, LayerInfo
<1>2. SelfAttentionGen(n) = SelfAttentionGen(m)
  BY <1>1 DEF SameModel, SelfAttentionGen
<1>3. SelfAttentionSum(n) = SelfAttentionSum(m)
  BY <1>2 DEF SameModel, SelfAttentionSum
<1>4. MultiLatentAttentionGen(n) = MultiLatentAttentionGen(m)
  BY <1>1 DEF SameModel, MultiLatentAttentionGen
<1>5. AbsorbMLAGen(n) = AbsorbMLAGen(m)
  BY <1>4 DEF SameModel, AbsorbMLAGen
<1> QED BY <1>2, <1>3, <1>4, <1>5

\* A machine whose DRAM simulator is not asked.
Unasked(c) == [c EXCEPT !.ramulator = FALSE]

\* The four kernels: what a sequence of works w, v and x takes on a machine.
Kernel(kind, c, l, b, w, v, x) ==
  CASE kind = "gqa" -> <<Streamed(c, l, b, w, 2)>>
                       \o Softmax(Unasked(c), "GPU", l, b)
                       \o <<Streamed(c, l, b, w, 2)>>
    [] kind = "fused" -> <<Streamed(c, l, b, w, 1)>>
    [] kind = "mla" -> <<Streamed(c, l, b, w, 2)>>
                       \o Unreported(Softmax(c, "GPU", l, b))
                       \o <<Streamed(c, l, b, v, 2)>>
    [] kind = "absorb" -> <<Plain(c, "GPU", l, b, w)>>
                          \o <<Plain(c, "GPU", l, b, v)>>
                          \o Softmax(c, "GPU", l, b)
                          \o <<Streamed(c, l, b, x, 1)>>

Kinds == {"gqa", "fused", "mla", "absorb"}

\* The kernels that do not read an offloaded cache.
Stops(m) == \/ m.attention = "mla"
            \/ m.attention = "absorb" /\ ~m.use_flash_mla

\* What the GPU decodes the batch b with: the kernel, on the layer l and the
\* part d of the batch; the writes are those of a layer u.
DecodesWith(m, b, kind, l, d, u, z, w, v, x) ==
  \A n : SameModel(n, m) /\ (OffloadActive(n.c) => ~Stops(m)) =>
    AttentionGen(n, "GPU", b)
      = WithKvWrite(n.c, u, d, z, Decode(d, Kernel(kind, n.c, l, d, w, v, x)))

\* The work of a batch.
GqaOf(l, b) == Total(b, LAMBDA s : GqaWork(l, s))
MlaFusedOf(l, b) == Total(b, LAMBDA s : MlaFusedWork(l, s))
MlaScoreOf(l, b) == Total(b, LAMBDA s : MlaScoreWork(l, s))
MlaContextOf(l, b) == Total(b, LAMBDA s : MlaContextWork(l, s))
AbsorbFusedOf(l, b) == Total(b, LAMBDA s : AbsorbFusedWork(l, s))
AbsorbLatentOf(l, b) ==
  Total(b, LAMBDA s : AbsorbScoreWork(l, s, l.kv_lora_rank))
AbsorbRopeOf(l, b) == Total(b, LAMBDA s : AbsorbScoreWork(l, s, l.rope))
AbsorbContextOf(l, b) == Total(b, LAMBDA s : AbsorbContextWork(l, s))

LEMMA GqaDecodes ==
  ASSUME NEW m, m.attention = "gqa", NEW b
  PROVE  LET l == SelfAttentionGen(m)
             d == Reached(l, b)
             w == GqaOf(l, d)
         IN DecodesWith(m, b, "gqa", l, d, [l EXCEPT !.rope = 0], FALSE,
                        w, w, w)
<1> DEFINE l == SelfAttentionGen(m)
           d == Reached(l, b)
           w == GqaOf(l, d)
<1>1. ASSUME NEW n, SameModel(n, m)
      PROVE  AttentionGen(n, "GPU", b)
               = WithKvWrite(n.c, [l EXCEPT !.rope = 0], d, FALSE,
                             Decode(d, Kernel("gqa", n.c, l, d, w, w, w)))
  <2>1. n.attention = "gqa" /\ SelfAttentionGen(n) = l
    BY <1>1, SameLayers DEF SameModel
  <2>2. AttentionGen(n, "GPU", b) = AttentionGenExecutionGPU(n.c, l, b)
    BY <2>1 DEF AttentionGen
  <2> HIDE DEF l
  <2>3. Kernel("gqa", n.c, l, d, w, w, w)
          = <<GqaGenScoreGPU(n.c, l, d)>> \o GqaGenSoftmaxGPU(n.c, l, d)
            \o <<GqaGenContextGPU(n.c, l, d)>>
    BY DEF Kernel, GqaGenScoreGPU, GqaGenSoftmaxGPU, GqaGenContextGPU, Unasked,
           GqaOf
  <2> QED BY <2>2, <2>3 DEF AttentionGenExecutionGPU
<1> QED BY <1>1 DEF DecodesWith

LEMMA MlaDecodes ==
  ASSUME NEW m, m.attention = "mla", NEW b
  PROVE  LET l == MultiLatentAttentionGen(m)
             z == l.compressed_kv
             f == MlaFusedOf(l, b)
             w == MlaScoreOf(l, b)
             v == MlaContextOf(l, b)
         IN IF l.use_flash_mla
            THEN DecodesWith(m, b, "fused", l, b, l, z, f, f, f)
            ELSE DecodesWith(m, b, "mla", l, b, l, z, w, v, v)
<1> DEFINE l == MultiLatentAttentionGen(m)
           z == l.compressed_kv
           f == MlaFusedOf(l, b)
           w == MlaScoreOf(l, b)
           v == MlaContextOf(l, b)
<1>1. ASSUME NEW n, SameModel(n, m), OffloadActive(n.c) => ~Stops(m)
      PROVE  AttentionGen(n, "GPU", b)
               = WithKvWrite(n.c, l, b, z, Decode(b,
                   IF l.use_flash_mla
                   THEN Kernel("fused", n.c, l, b, f, f, f)
                   ELSE Kernel("mla", n.c, l, b, w, v, v)))
  <2>1. n.attention = "mla" /\ MultiLatentAttentionGen(n) = l
    BY <1>1, SameLayers DEF SameModel
  <2>2. AttentionGen(n, "GPU", b)
          = MultiLatentAttentionGenExecutionGPU(n.c, l, b)
    BY <2>1 DEF AttentionGen
  <2>3. ~OffloadActive(n.c)
    BY <1>1 DEF Stops
  <2> HIDE DEF l
  <2>4. Kernel("fused", n.c, l, b, f, f, f) = MlaGenFusedGPU(n.c, l, b)
    BY DEF Kernel, MlaGenFusedGPU, MlaFusedOf
  <2>5. Kernel("mla", n.c, l, b, w, v, v)
          = MlaGenScoreGPU(n.c, l, b) \o MlaGenSoftmaxGPU(n.c, l, b)
            \o MlaGenContextGPU(n.c, l, b)
    BY DEF Kernel, MlaGenScoreGPU, MlaGenSoftmaxGPU, MlaGenContextGPU,
           MlaScoreOf, MlaContextOf
  <2> QED BY <2>2, <2>3, <2>4, <2>5
          DEF MultiLatentAttentionGenExecutionGPU, NoOffload
<1> QED BY <1>1 DEF DecodesWith

LEMMA AbsorbDecodes ==
  ASSUME NEW m, m.attention = "absorb", NEW b
  PROVE  LET l == AbsorbMLAGen(m)
             f == AbsorbFusedOf(l, b)
             w == AbsorbLatentOf(l, b)
             v == AbsorbRopeOf(l, b)
             x == AbsorbContextOf(l, b)
         IN IF m.use_flash_mla
            THEN DecodesWith(m, b, "fused", l, b, l, TRUE, f, f, f)
            ELSE DecodesWith(m, b, "absorb", l, b, l, TRUE, w, v, x)
<1> DEFINE l == AbsorbMLAGen(m)
           f == AbsorbFusedOf(l, b)
           w == AbsorbLatentOf(l, b)
           v == AbsorbRopeOf(l, b)
           x == AbsorbContextOf(l, b)
<1>0. l.use_flash_mla = m.use_flash_mla
  BY DEF AbsorbMLAGen, MultiLatentAttentionGen, Heads, LayerInfo
<1>1. ASSUME NEW n, SameModel(n, m), OffloadActive(n.c) => ~Stops(m)
      PROVE  AttentionGen(n, "GPU", b)
               = WithKvWrite(n.c, l, b, TRUE, Decode(b,
                   IF m.use_flash_mla
                   THEN Kernel("fused", n.c, l, b, f, f, f)
                   ELSE Kernel("absorb", n.c, l, b, w, v, x)))
  <2>1. n.attention = "absorb" /\ AbsorbMLAGen(n) = l
    BY <1>1, SameLayers DEF SameModel
  <2>2. AttentionGen(n, "GPU", b)
          = AbsorbMLAGenExecutionGPU(n.c, l, b)
    BY <2>1 DEF AttentionGen
  <2>3. ~m.use_flash_mla => ~OffloadActive(n.c)
    BY <1>1 DEF Stops
  <2> HIDE DEF l
  <2>4. Kernel("fused", n.c, l, b, f, f, f)
          = AbsorbGenFusedGPU(n.c, l, b)
    BY DEF Kernel, AbsorbGenFusedGPU, AbsorbFusedOf
  <2>5. Kernel("absorb", n.c, l, b, w, v, x)
          = AbsorbGenScoreGPU(n.c, l, b) \o AbsorbGenRopeGPU(n.c, l, b)
            \o AbsorbGenSoftmaxGPU(n.c, l, b)
            \o AbsorbGenContextGPU(n.c, l, b)
    BY DEF Kernel, AbsorbGenScoreGPU, AbsorbGenRopeGPU, AbsorbGenSoftmaxGPU,
           AbsorbGenContextGPU, AbsorbLatentOf, AbsorbRopeOf, AbsorbContextOf
  <2> QED BY <1>0, <2>2, <2>3, <2>4, <2>5
          DEF AbsorbMLAGenExecutionGPU, NoOffload
<1> QED BY <1>1 DEF DecodesWith

\* What the works, the layers and the batch of a kernel are.
KernelArguments(kind, l, d, u, z, w, v, x) ==
  /\ kind \in Kinds /\ l \in Layer /\ l.use_chunked_attention = TRUE
  /\ d \in Seq(Entries) /\ Live(d) /\ u \in Layer /\ z \in BOOLEAN
  /\ {w, v, x} \subseteq Works

LEMMA GqaTotal ==
  ASSUME NEW l \in Layer, NEW b \in Seq(Entries), Live(b)
  PROVE  Total(b, LAMBDA s : GqaWork(l, s)) \in Works
<1> DEFINE f == [i \in DOMAIN b |-> GqaWork(l, b[i])]
<1>1. Total(b, LAMBDA s : GqaWork(l, s)) = Together(f)
  BY DEF Total, SumOver, Together
<1>2. f \in WorkFor(b)
  BY EntriesOf, GqaWorkIs DEF WorkFor, WorkOf
<1> HIDE DEF f
<1> QED BY <1>1, <1>2, TogetherWorks

LEMMA Chunked ==
  ASSUME NEW m, IsMachine(m)
  PROVE  /\ SelfAttentionGen(m).use_chunked_attention = TRUE
         /\ SelfAttentionSum(m).use_chunked_attention = TRUE
         /\ MultiLatentAttentionGen(m).use_chunked_attention = TRUE
         /\ AbsorbMLAGen(m).use_chunked_attention = TRUE
BY DEF SelfAttentionGen, SelfAttentionSum, MultiLatentAttentionGen,
       AbsorbMLAGen, Heads, LayerInfo

\* Whatever the machine, the GPU decodes with one of the four kernels.
LEMMA GpuDecodes ==
  ASSUME NEW m, IsMachine(m), NEW b \in Batch, Live(b)
  PROVE  \E kind, l, d, u, z, w, v, x :
           /\ KernelArguments(kind, l, d, u, z, w, v, x)
           /\ DecodesWith(m, b, kind, l, d, u, z, w, v, x)
<1>1. b \in Seq(Entries)
  BY BatchIs
<1>2. CASE m.attention = "gqa"
  <2> DEFINE l == SelfAttentionGen(m)
             d == Reached(l, b)
             w == GqaOf(l, d)
             u == [l EXCEPT !.rope = 0]
  <2>1. DecodesWith(m, b, "gqa", l, d, u, FALSE, w, w, w)
    BY <1>2, GqaDecodes
  <2>2. l \in Layer /\ l.use_chunked_attention = TRUE
    BY SelfAttentionLayers, Chunked
  <2> HIDE DEF l
  <2>3. d \in Seq(Entries) /\ Live(d) /\ u \in Layer
    BY <2>2, ReachedIs, QuietLayer
  <2> HIDE DEF d, u
  <2>4. w \in Works
    BY <2>2, <2>3, GqaTotal DEF GqaOf
  <2> HIDE DEF w
  <2>5. KernelArguments("gqa", l, d, u, FALSE, w, w, w)
    BY <2>2, <2>3, <2>4 DEF KernelArguments, Kinds
  <2> QED BY <2>1, <2>5
<1>3. CASE m.attention = "mla"
  <2> DEFINE l == MultiLatentAttentionGen(m)
             z == l.compressed_kv
             f == MlaFusedOf(l, b)
             w == MlaScoreOf(l, b)
             v == MlaContextOf(l, b)
  <2>1. IF l.use_flash_mla
        THEN DecodesWith(m, b, "fused", l, b, l, z, f, f, f)
        ELSE DecodesWith(m, b, "mla", l, b, l, z, w, v, v)
    BY <1>3, MlaDecodes
  <2>2. l \in Layer /\ l.use_chunked_attention = TRUE
    BY LatentLayers, Chunked
  <2> HIDE DEF l
  <2>3. z \in BOOLEAN
    BY <2>2 DEF Layer
  <2>4. f \in Works /\ w \in Works /\ v \in Works
    BY <1>1, <2>2, MlaFusedTotal, MlaScoreTotal, MlaContextTotal
       DEF MlaFusedOf, MlaScoreOf, MlaContextOf
  <2> HIDE DEF f, w, v, z
  <2>5. /\ KernelArguments("fused", l, b, l, z, f, f, f)
        /\ KernelArguments("mla", l, b, l, z, w, v, v)
    BY <1>1, <2>2, <2>3, <2>4 DEF KernelArguments, Kinds
  <2> QED BY <2>1, <2>5
<1>4. CASE m.attention = "absorb"
  <2> DEFINE l == AbsorbMLAGen(m)
             f == AbsorbFusedOf(l, b)
             w == AbsorbLatentOf(l, b)
             v == AbsorbRopeOf(l, b)
             x == AbsorbContextOf(l, b)
  <2>1. IF m.use_flash_mla
        THEN DecodesWith(m, b, "fused", l, b, l, TRUE, f, f, f)
        ELSE DecodesWith(m, b, "absorb", l, b, l, TRUE, w, v, x)
    BY <1>4, AbsorbDecodes
  <2>2. /\ l \in Layer /\ l.use_chunked_attention = TRUE
        /\ l.kv_lora_rank > 0
    <3>1. m.kv_lora_rank > 0
      BY <1>4 DEF IsMachine
    <3>2. l.kv_lora_rank = m.kv_lora_rank /\ l \in Layer
      BY LatentLayers
    <3> QED BY <3>1, <3>2, Chunked
  <2> HIDE DEF l
  <2>3. l.kv_lora_rank \in Nat /\ l.rope \in Nat
    BY <2>2, LayerFields
  <2>4. f \in Works /\ w \in Works /\ v \in Works /\ x \in Works
    BY <1>1, <2>2, <2>3, AbsorbFusedTotal, AbsorbScoreTotal,
       AbsorbContextTotal
       DEF AbsorbFusedOf, AbsorbLatentOf, AbsorbRopeOf, AbsorbContextOf
  <2> HIDE DEF f, w, v, x
  <2>5. /\ KernelArguments("fused", l, b, l, TRUE, f, f, f)
        /\ KernelArguments("absorb", l, b, l, TRUE, w, v, x)
    BY <1>1, <2>2, <2>4 DEF KernelArguments, Kinds
  <2> QED BY <2>1, <2>5
<1> QED BY <1>2, <1>3, <1>4 DEF IsMachine

\* The phases of a kernel.
LEMMA KernelIs ==
  ASSUME NEW c \in SystemConfig, NEW kind, NEW l, NEW d, NEW u, NEW z, NEW w,
         NEW v, NEW x, KernelArguments(kind, l, d, u, z, w, v, x)
  PROVE  /\ Unasked(c) \in SystemConfig /\ "GPU" \in Processors
         /\ \A y \in {w, v, x}, fills \in {1, 2} :
              /\ Streamed(c, l, d, y, fills) \in Phases
              /\ <<Streamed(c, l, d, y, fills)>> \in Seq(Phases)
         /\ \A y \in {w, v, x} :
              /\ Plain(c, "GPU", l, d, y) \in Phases
              /\ <<Plain(c, "GPU", l, d, y)>> \in Seq(Phases)
         /\ Softmax(c, "GPU", l, d) \in Seq(Phases)
         /\ Softmax(Unasked(c), "GPU", l, d) \in Seq(Phases)
         /\ Unreported(Softmax(c, "GPU", l, d)) \in Seq(Phases)
         /\ Kernel(kind, c, l, d, w, v, x) \in Seq(Phases)
<1>1. /\ kind \in Kinds /\ l \in Layer /\ d \in Seq(Entries)
      /\ {w, v, x} \subseteq Works /\ "GPU" \in Processors
  BY DEF KernelArguments, Processors
<1>2. Unasked(c) \in SystemConfig
  BY DEF SystemConfig, Unasked
<1>3. \A y \in {w, v, x}, fills \in {1, 2} :
        /\ Streamed(c, l, d, y, fills) \in Phases
        /\ <<Streamed(c, l, d, y, fills)>> \in Seq(Phases)
  <2>1. {1, 2} \subseteq Nat \ {0}
    OBVIOUS
  <2>2. \A y \in {w, v, x}, fills \in {1, 2} :
          Streamed(c, l, d, y, fills) \in Phases
    BY <1>1, <2>1, StreamedIs
  <2> QED BY <2>2, OnePhase
<1>4. \A y \in {w, v, x} : /\ Plain(c, "GPU", l, d, y) \in Phases
                           /\ <<Plain(c, "GPU", l, d, y)>> \in Seq(Phases)
  <2>1. \A y \in {w, v, x} : Plain(c, "GPU", l, d, y) \in Phases
    BY <1>1, PlainIs
  <2> QED BY <2>1, OnePhase
<1>5. /\ Softmax(c, "GPU", l, d) \in Seq(Phases)
      /\ Softmax(Unasked(c), "GPU", l, d) \in Seq(Phases)
  BY <1>1, <1>2, SoftmaxIs
<1>6. Unreported(Softmax(c, "GPU", l, d)) \in Seq(Phases)
  BY <1>5, UnreportedIs
<1>7. Kernel(kind, c, l, d, w, v, x) \in Seq(Phases)
  <2>1. CASE kind = "gqa"
    <3>1. Kernel(kind, c, l, d, w, v, x)
            = <<Streamed(c, l, d, w, 2)>> \o Softmax(Unasked(c), "GPU", l, d)
              \o <<Streamed(c, l, d, w, 2)>>
      BY <2>1 DEF Kernel
    <3> QED BY <1>3, <1>5, <3>1, TwoParts
  <2>2. CASE kind = "fused"
    <3>1. Kernel(kind, c, l, d, w, v, x) = <<Streamed(c, l, d, w, 1)>>
      BY <2>2 DEF Kernel
    <3> QED BY <1>3, <3>1
  <2>3. CASE kind = "mla"
    <3>1. Kernel(kind, c, l, d, w, v, x)
            = <<Streamed(c, l, d, w, 2)>>
              \o Unreported(Softmax(c, "GPU", l, d))
              \o <<Streamed(c, l, d, v, 2)>>
      BY <2>3 DEF Kernel
    <3> QED BY <1>3, <1>6, <3>1, TwoParts
  <2>4. CASE kind = "absorb"
    <3>1. Kernel(kind, c, l, d, w, v, x)
            = <<Plain(c, "GPU", l, d, w)>> \o <<Plain(c, "GPU", l, d, v)>>
              \o Softmax(c, "GPU", l, d) \o <<Streamed(c, l, d, x, 1)>>
      BY <2>4 DEF Kernel
    <3> QED BY <1>3, <1>4, <1>5, <3>1, TwoParts
  <2> QED BY <1>1, <2>1, <2>2, <2>3, <2>4 DEF Kinds
<1> QED BY <1>1, <1>2, <1>3, <1>4, <1>5, <1>6, <1>7

\* What decoding takes and counts.
LEMMA DecodingTakes ==
  ASSUME NEW c \in SystemConfig, NEW kind, NEW l, NEW d, NEW u, NEW z, NEW w,
         NEW v, NEW x, KernelArguments(kind, l, d, u, z, w, v, x)
  PROVE  LET phases == Kernel(kind, c, l, d, w, v, x)
             run == Run(phases)
             status == WithKvWrite(c, u, d, z, Decode(d, phases))
         IN /\ run.total \in Nat /\ run.compute \in Nat
            /\ run.compute <= run.total
            /\ status.total
                 = IF c.use_hbf
                   THEN run.total
                        + Longer(0, KvWrite(c, u, Len(d), z) - run.compute)
                   ELSE run.total
            /\ status.flops = run.flops
<1> DEFINE phases == Kernel(kind, c, l, d, w, v, x)
           run == Run(phases)
           status == WithKvWrite(c, u, d, z, Decode(d, phases))
           write == Longer(0, KvWrite(c, u, Len(d), z) - run.compute)
<1>1. phases \in Seq(Phases) /\ Tokens(d) # 0
  BY KernelIs, TokensIs DEF KernelArguments
<1>2. run \in Statuses /\ run.total \in Nat /\ run.compute \in Nat
      /\ run.compute <= run.total
  BY <1>1, RunIs, RunIsLonger
<1>3. Decode(d, phases) = [run EXCEPT !.dep = run.total]
  BY <1>1 DEF Decode
<1>4. status = IF ~c.use_hbf THEN Decode(d, phases)
               ELSE [Decode(d, phases) EXCEPT
                       !.total = @ + Longer(0, KvWrite(c, u, Len(d), z)
                                               - Decode(d, phases).compute),
                       !.dep = @ + Longer(0, KvWrite(c, u, Len(d), z)
                                             - Decode(d, phases).compute),
                       !.kv_write = Longer(0, KvWrite(c, u, Len(d), z)
                                              - Decode(d, phases).compute)]
  BY <1>1 DEF WithKvWrite
<1> HIDE DEF phases, run, status
<1>5. /\ Decode(d, phases).total = run.total
      /\ Decode(d, phases).compute = run.compute
      /\ Decode(d, phases).flops = run.flops
      /\ DOMAIN Decode(d, phases)
           = {"total", "compute", "dep", "kv_write", "flops", "size"}
  BY <1>2, <1>3 DEF Statuses
<1>6. c.use_hbf \in BOOLEAN
  BY DEF SystemConfig
<1>7. /\ status.total = IF c.use_hbf THEN run.total + write ELSE run.total
      /\ status.flops = run.flops
  BY <1>4, <1>5, <1>6
<1> QED BY <1>2, <1>7 DEF run, status, phases
----------------------------------------------------------------------------
(***************************************************************************)
(* The latency of a page.                                                  *)
(***************************************************************************)

\* The phases s take at most e more than t, and hide as much of a write.
Dearer(s, t, e) ==
  /\ s \in Seq(Phases) /\ t \in Seq(Phases) /\ e \in Nat
  /\ Run(s).total <= Run(t).total + e
  /\ Run(s).compute = Run(t).compute

LEMMA DearerJoined ==
  ASSUME NEW s, NEW t, NEW e, Dearer(s, t, e),
         NEW u, NEW v, NEW d, Dearer(u, v, d)
  PROVE  Dearer(s \o u, t \o v, e + d)
<1>1. /\ s \in Seq(Phases) /\ t \in Seq(Phases) /\ u \in Seq(Phases)
      /\ v \in Seq(Phases) /\ e \in Nat /\ d \in Nat
      /\ Run(s).total <= Run(t).total + e /\ Run(s).compute = Run(t).compute
      /\ Run(u).total <= Run(v).total + d /\ Run(u).compute = Run(v).compute
  BY DEF Dearer
<1>2. /\ s \o u \in Seq(Phases) /\ t \o v \in Seq(Phases)
      /\ Run(s \o u).total = Run(s).total + Run(u).total
      /\ Run(t \o v).total = Run(t).total + Run(v).total
      /\ Run(s \o u).compute = Run(s).compute + Run(u).compute
      /\ Run(t \o v).compute = Run(t).compute + Run(v).compute
  BY <1>1, RunJoined
<1>3. /\ Run(s).total \in Nat /\ Run(t).total \in Nat
      /\ Run(u).total \in Nat /\ Run(v).total \in Nat
  BY <1>1, RunIsLonger
<1>4. Run(s \o u).total <= Run(t \o v).total + (e + d)
  <2> DEFINE a1 == Run(s).total
             a2 == Run(t).total
             b1 == Run(u).total
             b2 == Run(v).total
  <2>1. /\ a1 \in Nat /\ a2 \in Nat /\ b1 \in Nat /\ b2 \in Nat
        /\ a1 <= a2 + e /\ b1 <= b2 + d /\ e \in Nat /\ d \in Nat
    BY <1>1, <1>3
  <2>2. Run(s \o u).total = a1 + b1 /\ Run(t \o v).total = a2 + b2
    BY <1>2
  <2> HIDE DEF a1, a2, b1, b2
  <2>3. a1 + b1 <= a2 + b2 + (e + d)
    BY <2>1
  <2> QED BY <2>2, <2>3
<1>5. e + d \in Nat
  BY <1>1
<1> QED BY <1>1, <1>2, <1>4, <1>5 DEF Dearer

LEMMA DearerSame ==
  ASSUME NEW s \in Seq(Phases)
  PROVE  Dearer(s, s, 0)
<1>1. Run(s).total \in Nat
  BY RunIsLonger
<1> QED BY <1>1 DEF Dearer

LEMMA DearerOne ==
  ASSUME NEW f \in Phases, NEW g \in Phases, NEW e \in Nat,
         f.compute = g.compute, f.hides = g.hides, f.memory <= g.memory + e
  PROVE  Dearer(<<f>>, <<g>>, e)
<1>1. <<f>> \in Seq(Phases) /\ <<g>> \in Seq(Phases)
  BY OnePhase
<1>2. /\ Run(<<f>>).total = Longer(f.compute, f.memory)
      /\ Run(<<g>>).total = Longer(g.compute, g.memory)
      /\ Run(<<f>>).compute = Run(<<g>>).compute
  BY RunOne
<1>3. /\ f.compute \in Nat /\ f.memory \in Nat /\ g.memory \in Nat
  BY DEF Phases
<1>4. Longer(f.compute, f.memory) <= Longer(g.compute, g.memory) + e
  BY <1>3 DEF Longer
<1> QED BY <1>1, <1>2, <1>4 DEF Dearer

\* A machine whose flash reads a page in no time.
Instant(c) == [c EXCEPT !.page_read = 0]

LEMMA InstantIs ==
  ASSUME NEW c \in SystemConfig
  PROVE  /\ Instant(c) \in SystemConfig
         /\ Instant(c).page_read = 0
         /\ Instant(c).use_hbf = c.use_hbf
         /\ Instant(c).ramulator = c.ramulator
         /\ Instant(c).ram_ticks = c.ram_ticks
         /\ Instant(c).flop_ticks = c.flop_ticks
         /\ Instant(c).byte_ticks = c.byte_ticks
         /\ Instant(c).flash_read = c.flash_read
         /\ Instant(c).flash_write = c.flash_write
         /\ Instant(c).page_program = c.page_program
         /\ Instant(c).hbm_read = c.hbm_read
         /\ Instant(c).sram_read = c.sram_read
         /\ Instant(c).num_hbm_stacks = c.num_hbm_stacks
         /\ Instant(c).sram = c.sram
         /\ Instant(c).chunk_size = c.chunk_size
         /\ Instant(c).paper2_mode = c.paper2_mode
         /\ Instant(c).mfu_m_half = c.mfu_m_half
         /\ Instant(c).softmax_hide = c.softmax_hide
         /\ Instant(c).input_len = c.input_len
         /\ Instant(c).output_len = c.output_len
         /\ Instant(c).num_layers = c.num_layers
         /\ Instant(c).pp = c.pp
<1>1. Instant(c) \in SystemConfig
  BY DEF SystemConfig, Instant
<1> QED BY <1>1 DEF SystemConfig, Instant

\* What does not read flash by the page.
LEMMA InstantSame ==
  ASSUME NEW c \in SystemConfig, NEW l, NEW b, NEW w
  PROVE  /\ Plain(Instant(c), "GPU", l, b, w) = Plain(c, "GPU", l, b, w)
         /\ Softmax(Instant(c), "GPU", l, b) = Softmax(c, "GPU", l, b)
         /\ \A n, z : KvWrite(Instant(c), l, n, z) = KvWrite(c, l, n, z)
<1> DEFINE d == Instant(c)
<1>1. /\ d.use_hbf = c.use_hbf /\ d.ramulator = c.ramulator
      /\ d.ram_ticks = c.ram_ticks /\ d.flop_ticks = c.flop_ticks
      /\ d.byte_ticks = c.byte_ticks /\ d.flash_read = c.flash_read
      /\ d.hbm_read = c.hbm_read /\ d.sram_read = c.sram_read
      /\ d.num_hbm_stacks = c.num_hbm_stacks /\ d.mfu_m_half = c.mfu_m_half
      /\ d.softmax_hide = c.softmax_hide
  BY InstantIs
<1>2. /\ d.flash_write = c.flash_write /\ d.page_program = c.page_program
      /\ d.input_len = c.input_len /\ d.output_len = c.output_len
      /\ d.num_layers = c.num_layers /\ d.pp = c.pp
  BY InstantIs
<1> HIDE DEF d
<1>3. \A precision, flops, m :
        ComputeTime(d, "GPU", precision, flops, m)
          = ComputeTime(c, "GPU", precision, flops, m)
  BY <1>1 DEF ComputeTime, EffectiveMFU
<1>4. \A y, memory : Phase(d, "GPU", l, b, y, memory)
                       = Phase(c, "GPU", l, b, y, memory)
  BY <1>3 DEF Phase
<1>5. /\ Bandwidth(d, "GPU") = Bandwidth(c, "GPU")
      /\ \A ops, precision : Ramulator(d, "GPU", ops, precision)
                               = Ramulator(c, "GPU", ops, precision)
      /\ \A bytes : ActTime(d, bytes) = ActTime(c, bytes)
  BY <1>1 DEF Bandwidth, Ramulator, ActTime
<1>6. Plain(d, "GPU", l, b, w) = Plain(c, "GPU", l, b, w)
  BY <1>1, <1>4, <1>5 DEF Plain
<1>7. \A bytes : SoftmaxTime(d, "GPU", bytes) = SoftmaxTime(c, "GPU", bytes)
  BY <1>1, <1>5 DEF SoftmaxTime
<1>8. Softmax(d, "GPU", l, b) = Softmax(c, "GPU", l, b)
  BY <1>1, <1>4, <1>5, <1>7 DEF Softmax
<1>9. \A n, z : KvWrite(d, l, n, z) = KvWrite(c, l, n, z)
  BY <1>2 DEF KvWrite
<1> QED BY <1>6, <1>8, <1>9 DEF d

\* A stream whose pages are hidden exposes the first one.
LEMMA HiddenPages ==
  ASSUME NEW c \in SystemConfig, HidesPages(c), NEW kv \in Nat, NEW act \in Nat,
         NEW fills \in Nat \ {0}
  PROVE  AttentionMemory(c, kv, act, fills)
           <= AttentionMemory(Instant(c), kv, act, fills)
              + c.page_read \div fills
<1> DEFINE d == Instant(c)
           chunk == IF c.chunk_size > 0 THEN Least(c.chunk_size, c.sram)
                    ELSE c.sram
           chunks == Longer(1, IF chunk = 0 THEN 1
                               ELSE (kv + chunk - 1) \div chunk)
           first == c.page_read \div fills
           move == kv * c.flash_read
           a == ActTime(c, act)
<1>1. /\ d.flash_read = c.flash_read /\ d.hbm_read = c.hbm_read
      /\ d.sram_read = c.sram_read /\ d.num_hbm_stacks = c.num_hbm_stacks
      /\ d.sram = c.sram /\ d.chunk_size = c.chunk_size
      /\ d.paper2_mode = c.paper2_mode /\ d.page_read = 0
  BY InstantIs
<1> HIDE DEF d
<1>2. /\ c.page_read \in Nat /\ c.flash_read \in Nat /\ c.sram \in Nat
      /\ c.chunk_size \in Nat /\ c.paper2_mode \in BOOLEAN
  BY DEF SystemConfig
<1>3. chunk \in Nat /\ chunk * c.flash_read \in Nat
      /\ chunk * c.flash_read >= c.page_read
  <2>1. chunk \in Nat
    BY <1>2 DEF Least
  <2>2. chunk * c.flash_read >= c.page_read
    BY DEF HidesPages
  <2> HIDE DEF chunk
  <2> QED BY <1>2, <2>1, <2>2, Product
<1>4. ActTime(d, act) = a /\ a \in Nat /\ move \in Nat /\ first \in Nat
  <2>1. a \in Nat
    BY TrafficIs DEF Processors
  <2>2. ActTime(d, act) = a
    BY <1>1 DEF ActTime
  <2> QED BY <1>2, <2>1, <2>2, Product, Quotient
<1>5. /\ FlashTime(c, kv, chunk, fills)
           = move + (IF c.paper2_mode THEN 0
                     ELSE first + (chunks - 1)
                                  * Longer(0, c.page_read
                                              - chunk * c.flash_read))
      /\ FlashTime(d, kv, chunk, fills)
           = move + (IF c.paper2_mode THEN 0
                     ELSE 0 \div fills + (chunks - 1)
                                         * Longer(0, 0 - chunk * c.flash_read))
  BY <1>1 DEF FlashTime
<1>6. /\ AttentionMemory(c, kv, act, fills)
           = Longer(FlashTime(c, kv, chunk, fills), a)
      /\ AttentionMemory(d, kv, act, fills)
           = Longer(FlashTime(d, kv, chunk, fills), a)
  BY <1>1, <1>4 DEF AttentionMemory
<1>7. chunks \in Int
  <2>1. chunk # 0 => (kv + chunk - 1) \div chunk \in Int
    BY <1>3
  <2> QED BY <2>1 DEF Longer
<1> HIDE DEF chunk, chunks, move, a
<1>8. /\ Longer(0, c.page_read - chunk * c.flash_read) = 0
      /\ Longer(0, 0 - chunk * c.flash_read) = 0
  BY <1>2, <1>3 DEF Longer
<1>9. (chunks - 1) * 0 = 0 /\ 0 \div fills = 0
  BY <1>7, SMT
<1>10. /\ FlashTime(c, kv, chunk, fills)
            = move + (IF c.paper2_mode THEN 0 ELSE first)
       /\ FlashTime(d, kv, chunk, fills) = move
  BY <1>4, <1>5, <1>8, <1>9
<1> HIDE DEF first
<1>11. Longer(move + (IF c.paper2_mode THEN 0 ELSE first), a)
         <= Longer(move, a) + first
  BY <1>2, <1>4 DEF Longer
<1> QED BY <1>6, <1>10, <1>11 DEF d, first

LEMMA HiddenStream ==
  ASSUME NEW c \in SystemConfig, c.use_hbf, HidesPages(c),
         NEW l \in Layer, l.use_chunked_attention = TRUE,
         NEW b \in Seq(Entries), NEW w \in Works, NEW fills \in Nat \ {0}
  PROVE  Dearer(<<Streamed(c, l, b, w, fills)>>,
                <<Streamed(Instant(c), l, b, w, fills)>>,
                c.page_read \div fills)
<1> DEFINE d == Instant(c)
           e == c.page_read \div fills
           f == Streamed(c, l, b, w, fills)
           g == Streamed(d, l, b, w, fills)
           kv == w.kv * l.precision
           act == w.act * l.precision
<1>1. /\ d \in SystemConfig /\ d.use_hbf = c.use_hbf
      /\ d.ramulator = c.ramulator /\ d.flop_ticks = c.flop_ticks
      /\ d.mfu_m_half = c.mfu_m_half
  BY InstantIs
<1>2. f \in Phases /\ g \in Phases
  BY <1>1, StreamedIs
<1>3. c.page_read \in Nat /\ e \in Nat
  <2>1. c.page_read \in Nat
    BY DEF SystemConfig
  <2> QED BY <2>1, Quotient
<1>4. CASE c.ramulator
  <2>1. f = g
    BY <1>1, <1>4, InstantSame DEF Streamed
  <2> HIDE DEF f, g, e
  <2>2. f.memory <= g.memory + e
    BY <1>2, <1>3, <2>1 DEF Phases
  <2>3. Dearer(<<f>>, <<g>>, e)
    BY <1>2, <1>3, <2>1, <2>2, DearerOne
  <2> QED BY <2>3 DEF f, g, e, d
<1>5. CASE ~c.ramulator
  <2>1. /\ f = Phase(c, "GPU", l, b, w, AttentionMemory(c, kv, act, fills))
        /\ g = Phase(d, "GPU", l, b, w, AttentionMemory(d, kv, act, fills))
    BY <1>1, <1>5 DEF Streamed
  <2>2. kv \in Nat /\ act \in Nat
    BY WorkFields, LayerFields, Product
  <2> HIDE DEF kv, act, d
  <2>3. /\ f.memory = AttentionMemory(c, kv, act, fills)
        /\ g.memory = AttentionMemory(d, kv, act, fills)
        /\ f.hides = g.hides
        /\ f.compute = ComputeTime(c, "GPU", l.precision, w.flops, Tokens(b))
        /\ g.compute = ComputeTime(d, "GPU", l.precision, w.flops, Tokens(b))
    BY <2>1 DEF Phase
  <2>4. ComputeTime(c, "GPU", l.precision, w.flops, Tokens(b))
          = ComputeTime(d, "GPU", l.precision, w.flops, Tokens(b))
    BY <1>1 DEF ComputeTime, EffectiveMFU
  <2>5. f.memory <= g.memory + e
    BY <2>2, <2>3, HiddenPages DEF d
  <2> HIDE DEF f, g, e
  <2>6. Dearer(<<f>>, <<g>>, e)
    BY <1>2, <1>3, <2>3, <2>4, <2>5, DearerOne
  <2> QED BY <2>6 DEF f, g, e, d
<1>6. c.ramulator \in BOOLEAN
  BY DEF SystemConfig
<1> QED BY <1>4, <1>5, <1>6

LEMMA DearerMore ==
  ASSUME NEW s, NEW t, NEW e, Dearer(s, t, e), NEW d \in Nat, e <= d
  PROVE  Dearer(s, t, d)
<1>1. /\ s \in Seq(Phases) /\ t \in Seq(Phases) /\ e \in Nat
      /\ Run(s).total <= Run(t).total + e /\ Run(s).compute = Run(t).compute
  BY DEF Dearer
<1>2. Run(s).total \in Nat /\ Run(t).total \in Nat
  BY <1>1, RunIsLonger
<1>3. Run(s).total <= Run(t).total + d
  BY <1>1, <1>2
<1> QED BY <1>1, <1>3 DEF Dearer

LEMMA Halves ==
  ASSUME NEW n \in Nat
  PROVE  /\ n \div 2 \in Nat /\ n \div 1 = n
         /\ n \div 2 + 0 + n \div 2 <= n
BY SMT

\* A kernel whose first and last phases share the first page of a stream.
LEMMA DearerEnds ==
  ASSUME NEW n \in Nat, NEW s, NEW t, NEW u, NEW v, NEW p \in Seq(Phases),
         Dearer(s, t, n \div 2), Dearer(u, v, n \div 2)
  PROVE  Dearer(s \o p \o u, t \o p \o v, n)
<1>1. Dearer(p, p, 0)
  BY DearerSame
<1>2. Dearer(s \o p, t \o p, n \div 2 + 0)
  BY <1>1, DearerJoined
<1>3. Dearer(s \o p \o u, t \o p \o v, n \div 2 + 0 + n \div 2)
  BY <1>2, DearerJoined
<1> QED BY <1>3, Halves, DearerMore

LEMMA UnaskedInstant ==
  ASSUME NEW c \in SystemConfig, NEW l, NEW b
  PROVE  Softmax(Unasked(Instant(c)), "GPU", l, b)
           = Softmax(Unasked(c), "GPU", l, b)
<1>1. Unasked(c) \in SystemConfig
  BY DEF SystemConfig, Unasked
<1>2. Unasked(Instant(c)) = Instant(Unasked(c))
  BY DEF SystemConfig, Unasked, Instant
<1> QED BY <1>1, <1>2, InstantSame

\* A kernel takes at most n more on the machine c than on the machine i when
\* they differ in their streams, and by no more than n for each page fill.
LEMMA KernelDearer ==
  ASSUME NEW c \in SystemConfig, NEW i, NEW n \in Nat,
         NEW kind, NEW l, NEW d, NEW u, NEW z, NEW w, NEW v, NEW x,
         KernelArguments(kind, l, d, u, z, w, v, x),
         Softmax(i, "GPU", l, d) = Softmax(c, "GPU", l, d),
         Softmax(Unasked(i), "GPU", l, d) = Softmax(Unasked(c), "GPU", l, d),
         \A y \in {w, v} : Plain(i, "GPU", l, d, y) = Plain(c, "GPU", l, d, y),
         \A y \in {w, v, x}, k \in {1, 2} :
           Dearer(<<Streamed(c, l, d, y, k)>>, <<Streamed(i, l, d, y, k)>>,
                  n \div k)
  PROVE  Dearer(Kernel(kind, c, l, d, w, v, x),
                Kernel(kind, i, l, d, w, v, x), n)
<1> DEFINE soft == Softmax(c, "GPU", l, d)
           quiet == Softmax(Unasked(c), "GPU", l, d)
           shown(y) == <<Plain(c, "GPU", l, d, y)>>
           stream(e, y, k) == <<Streamed(e, l, d, y, k)>>
<1>1. kind \in Kinds
  BY DEF KernelArguments
<1>2. /\ soft \in Seq(Phases) /\ quiet \in Seq(Phases)
      /\ Unreported(soft) \in Seq(Phases)
      /\ shown(w) \in Seq(Phases) /\ shown(v) \in Seq(Phases)
  BY KernelIs
<1>3. /\ Softmax(i, "GPU", l, d) = soft
      /\ Softmax(Unasked(i), "GPU", l, d) = quiet
      /\ <<Plain(i, "GPU", l, d, w)>> = shown(w)
      /\ <<Plain(i, "GPU", l, d, v)>> = shown(v)
  OBVIOUS
<1>4. \A y \in {w, v, x} :
        /\ Dearer(stream(c, y, 2), stream(i, y, 2), n \div 2)
        /\ Dearer(stream(c, y, 1), stream(i, y, 1), n)
  <2>1. n \div 1 = n
    BY Halves
  <2> QED BY <2>1
<1>5. CASE kind = "gqa"
  <2>1. /\ Kernel(kind, c, l, d, w, v, x)
             = stream(c, w, 2) \o quiet \o stream(c, w, 2)
        /\ Kernel(kind, i, l, d, w, v, x)
             = stream(i, w, 2) \o quiet \o stream(i, w, 2)
    BY <1>3, <1>5 DEF Kernel
  <2> HIDE DEF stream, quiet
  <2>2. Dearer(stream(c, w, 2) \o quiet \o stream(c, w, 2),
               stream(i, w, 2) \o quiet \o stream(i, w, 2), n)
    BY <1>2, <1>4, DearerEnds
  <2> QED BY <2>1, <2>2
<1>6. CASE kind = "fused"
  BY <1>4, <1>6 DEF Kernel
<1>7. CASE kind = "mla"
  <2>1. /\ Kernel(kind, c, l, d, w, v, x)
             = stream(c, w, 2) \o Unreported(soft) \o stream(c, v, 2)
        /\ Kernel(kind, i, l, d, w, v, x)
             = stream(i, w, 2) \o Unreported(soft) \o stream(i, v, 2)
    BY <1>3, <1>7 DEF Kernel
  <2> HIDE DEF stream, soft
  <2>2. Dearer(stream(c, w, 2) \o Unreported(soft) \o stream(c, v, 2),
               stream(i, w, 2) \o Unreported(soft) \o stream(i, v, 2), n)
    BY <1>2, <1>4, DearerEnds
  <2> QED BY <2>1, <2>2
<1>8. CASE kind = "absorb"
  <2> DEFINE first == shown(w) \o shown(v) \o soft
  <2>1. /\ Kernel(kind, c, l, d, w, v, x) = first \o stream(c, x, 1)
        /\ Kernel(kind, i, l, d, w, v, x) = first \o stream(i, x, 1)
    BY <1>3, <1>8 DEF Kernel
  <2>2. first \in Seq(Phases)
    BY <1>2, TwoParts
  <2> HIDE DEF stream, first
  <2>3. Dearer(first \o stream(c, x, 1), first \o stream(i, x, 1), 0 + n)
    BY <1>4, <2>2, DearerSame, DearerJoined
  <2>4. 0 + n = n
    OBVIOUS
  <2> QED BY <2>1, <2>3, <2>4
<1> QED BY <1>1, <1>5, <1>6, <1>7, <1>8 DEF Kinds

\* A kernel exposes at most one page, in however many streams it reads.
LEMMA KernelFillsOnce ==
  ASSUME NEW c \in SystemConfig, c.use_hbf, HidesPages(c),
         NEW kind, NEW l, NEW d, NEW u, NEW z, NEW w, NEW v, NEW x,
         KernelArguments(kind, l, d, u, z, w, v, x)
  PROVE  Dearer(Kernel(kind, c, l, d, w, v, x),
                Kernel(kind, Instant(c), l, d, w, v, x), c.page_read)
<1>1. /\ l \in Layer /\ l.use_chunked_attention = TRUE
      /\ d \in Seq(Entries) /\ {w, v, x} \subseteq Works
  BY DEF KernelArguments
<1>2. c.page_read \in Nat
  BY DEF SystemConfig
<1>3. \A y \in {w, v, x}, k \in {1, 2} :
        Dearer(<<Streamed(c, l, d, y, k)>>,
               <<Streamed(Instant(c), l, d, y, k)>>, c.page_read \div k)
  <2>1. 1 \in Nat \ {0} /\ 2 \in Nat \ {0}
    OBVIOUS
  <2> QED BY <1>1, <2>1, HiddenStream
<1> QED BY <1>2, <1>3, InstantSame, UnaskedInstant, KernelDearer

\* Without sequences nothing is decoded.
LEMMA NoneDecodes ==
  ASSUME NEW m, IsMachine(m), NEW b \in Batch, ~Live(b),
         NEW n, SameModel(n, m), OffloadActive(n.c) => ~Stops(m)
  PROVE  AttentionGen(n, "GPU", b) = EmptyStatus
<1>1. Tokens(b) = 0
  BY BatchIs, TokensIs
<1>2. CASE m.attention = "gqa"
  <2> DEFINE l == SelfAttentionGen(m)
             d == Reached(l, b)
  <2>1. DecodesWith(m, b, "gqa", l, d, [l EXCEPT !.rope = 0], FALSE,
                    GqaOf(l, d), GqaOf(l, d), GqaOf(l, d))
    BY <1>2, GqaDecodes
  <2>2. l \in Layer
    BY SelfAttentionLayers
  <2> HIDE DEF l
  <2>3. Tokens(d) = 0
    BY <2>2, ReachedIs, TokensIs
  <2> QED BY <2>1, <2>3 DEF DecodesWith, WithKvWrite, Decode
<1>3. CASE m.attention = "mla"
  <2>1. \E l, kind, z, w, v, x :
          DecodesWith(m, b, kind, l, b, l, z, w, v, x)
    BY <1>3, MlaDecodes
  <2> QED BY <1>1, <2>1 DEF DecodesWith, WithKvWrite, Decode
<1>4. CASE m.attention = "absorb"
  <2>1. \E l, kind, z, w, v, x :
          DecodesWith(m, b, kind, l, b, l, z, w, v, x)
    BY <1>4, AbsorbDecodes
  <2> QED BY <1>1, <2>1 DEF DecodesWith, WithKvWrite, Decode
<1> QED BY <1>2, <1>3, <1>4 DEF IsMachine

\* A decode layer exposes at most one page.
LEMMA DecodeFillsOnce ==
  ASSUME NEW m, IsMachine(m), Fields \subseteq DOMAIN m, NEW b \in Batch,
         m.c.use_hbf, HidesPages(m.c)
  PROVE  AttentionGen(m, "GPU", b).total
           <= AttentionGen([m EXCEPT !.c = Instant(m.c)], "GPU", b).total
              + m.c.page_read
<1> DEFINE c == m.c
           i == Instant(c)
           h == [m EXCEPT !.c = i]
<1>1. /\ c \in SystemConfig /\ c.num_layers >= c.pp /\ c.page_read \in Nat
      /\ i \in SystemConfig /\ i.use_hbf
  <2>1. c \in SystemConfig /\ c.num_layers >= c.pp
    BY DEF IsMachine
  <2>2. i \in SystemConfig /\ i.use_hbf
    BY <2>1, InstantIs
  <2> QED BY <2>1, <2>2 DEF SystemConfig
<1>2. SameModel(m, m) /\ SameModel(h, m) /\ h.c = i
  BY OtherCosts DEF SameModel
<1>3. ~OffloadActive(c) /\ ~OffloadActive(i)
  BY <1>1 DEF OffloadActive
<1>4. CASE ~Live(b)
  <2>1. /\ AttentionGen(m, "GPU", b) = EmptyStatus
        /\ AttentionGen(h, "GPU", b) = EmptyStatus
    BY <1>2, <1>3, <1>4, NoneDecodes
  <2> QED BY <1>1, <2>1, EmptyCosts
<1>5. CASE Live(b)
  <2>1. PICK kind, l, d, u, z, w, v, x :
          /\ KernelArguments(kind, l, d, u, z, w, v, x)
          /\ DecodesWith(m, b, kind, l, d, u, z, w, v, x)
    BY <1>5, GpuDecodes
  <2> DEFINE s == Kernel(kind, c, l, d, w, v, x)
             t == Kernel(kind, i, l, d, w, v, x)
             k == KvWrite(c, u, Len(d), z)
  <2>2. /\ AttentionGen(m, "GPU", b) = WithKvWrite(c, u, d, z, Decode(d, s))
        /\ AttentionGen(h, "GPU", b) = WithKvWrite(i, u, d, z, Decode(d, t))
    BY <1>2, <1>3, <2>1 DEF DecodesWith
  <2>3. /\ u \in Layer /\ z \in BOOLEAN /\ d \in Seq(Entries)
        /\ Len(d) \in Nat
    BY <2>1, Indices DEF KernelArguments
  <2> HIDE DEF c, h
  <2>4. k \in Nat /\ KvWrite(i, u, Len(d), z) = k
    BY <1>1, <2>3, KvWriteIs, InstantSame
  <2>5. Dearer(s, t, c.page_read)
    BY <1>1, <2>1, KernelFillsOnce DEF c
  <2> HIDE DEF i, s, t, k
  <2>6. /\ Run(s).total <= Run(t).total + c.page_read
        /\ Run(s).compute = Run(t).compute
    BY <2>5 DEF Dearer
  <2>7. /\ AttentionGen(m, "GPU", b).total
             = Run(s).total + Longer(0, k - Run(s).compute)
        /\ Run(s).total \in Nat /\ Run(s).compute \in Nat
    BY <1>1, <2>1, <2>2, DecodingTakes DEF s, k, c
  <2>8. /\ AttentionGen(h, "GPU", b).total
             = Run(t).total + Longer(0, k - Run(t).compute)
        /\ Run(t).total \in Nat
    BY <1>1, <2>1, <2>2, <2>4, DecodingTakes DEF t, c
  <2> DEFINE rest == Longer(0, k - Run(s).compute)
             r == Run(s).total
             q == Run(t).total
             p == c.page_read
  <2>9. /\ rest \in Nat /\ r \in Nat /\ q \in Nat /\ p \in Nat /\ r <= q + p
        /\ AttentionGen(m, "GPU", b).total = r + rest
        /\ AttentionGen(h, "GPU", b).total = q + rest
    BY <1>1, <2>4, <2>6, <2>7, <2>8 DEF Longer
  <2> HIDE DEF rest, r, q, p
  <2>10. r + rest <= q + rest + p
    BY <2>9
  <2>11. AttentionGen(m, "GPU", b).total <= AttentionGen(h, "GPU", b).total + p
    BY <2>9, <2>10
  <2> QED BY <2>11 DEF c, h, i, p
<1> QED BY <1>4, <1>5

\* The work of prompts.
SumScoreOf(l, b) == Total(b, LAMBDA s : GqaSumScoreWork(l, s))
SumContextOf(l, b) == Total(b, LAMBDA s : GqaSumContextWork(l, s))

LEMMA PromptTotals ==
  ASSUME NEW l \in Layer, NEW b \in Seq(Entries), Live(b)
  PROVE  SumScoreOf(l, b) \in Works /\ SumContextOf(l, b) \in Works
<1> DEFINE f == [i \in DOMAIN b |-> GqaSumScoreWork(l, b[i])]
           g == [i \in DOMAIN b |-> GqaSumContextWork(l, b[i])]
<1>1. SumScoreOf(l, b) = Together(f) /\ SumContextOf(l, b) = Together(g)
  BY DEF SumScoreOf, SumContextOf, Total, SumOver, Together
<1>2. f \in WorkFor(b) /\ g \in WorkFor(b)
  BY EntriesOf, GqaSumWorkIs DEF WorkFor, WorkOf
<1> HIDE DEF f, g
<1> QED BY <1>1, <1>2, TogetherWorks

\* The phases of the GPU's grouped-query attention on prompts.
PromptPhases(c, l, d) ==
  GqaSumScoreGPU(c, l, d) \o GqaSumSoftmaxGPU(c, l, d)
  \o GqaSumContextGPU(c, l, d)

\* They expose at most one page.
LEMMA PromptPhasesFillOnce ==
  ASSUME NEW c \in SystemConfig, c.use_hbf, HidesPages(c),
         NEW l \in Layer, l.use_chunked_attention = TRUE,
         NEW d \in Seq(Entries), Live(d)
  PROVE  Dearer(PromptPhases(c, l, d), PromptPhases(Instant(c), l, d),
                c.page_read)
<1> DEFINE i == Instant(c)
           n == c.page_read
           w == SumScoreOf(l, d)
           v == SumContextOf(l, d)
           f == [j \in DOMAIN d |-> GqaSumScoreWork(l, d[j])]
           g == [j \in DOMAIN d |-> GqaSumContextWork(l, d[j])]
           quiet == Softmax(Unasked(c), "GPU", l, d)
           stream(e, y) == <<Streamed(e, l, d, y, 2)>>
<1>1. /\ n \in Nat /\ Unasked(c) \in SystemConfig /\ "GPU" \in Processors
      /\ 2 \in Nat \ {0} /\ c.ramulator \in BOOLEAN
      /\ i.use_hbf = c.use_hbf /\ i.ramulator = c.ramulator
  <2>1. n \in Nat /\ Unasked(c) \in SystemConfig /\ c.ramulator \in BOOLEAN
    BY DEF SystemConfig, Unasked
  <2>2. 2 \in Nat \ {0}
    OBVIOUS
  <2>3. "GPU" \in Processors
    BY DEF Processors
  <2>4. i.use_hbf = c.use_hbf /\ i.ramulator = c.ramulator
    BY InstantIs
  <2> HIDE DEF i
  <2> QED BY <2>1, <2>2, <2>3, <2>4
<1>2. quiet \in Seq(Phases)
  BY <1>1, SoftmaxIs
<1>3. /\ GqaSumSoftmaxGPU(c, l, d) = quiet
      /\ GqaSumSoftmaxGPU(i, l, d) = quiet
  BY UnaskedInstant DEF GqaSumSoftmaxGPU, Unasked
<1>4. CASE ~c.ramulator
  <2>1. w \in Works /\ v \in Works
    BY PromptTotals
  <2>2. /\ GqaSumScoreGPU(c, l, d) = stream(c, w)
        /\ GqaSumScoreGPU(i, l, d) = stream(i, w)
        /\ GqaSumContextGPU(c, l, d) = stream(c, v)
        /\ GqaSumContextGPU(i, l, d) = stream(i, v)
    <3> HIDE DEF i
    <3> QED BY <1>1, <1>4 DEF GqaSumScoreGPU, GqaSumContextGPU, Gathered,
                              SumScoreOf, SumContextOf
  <2>3. /\ PromptPhases(c, l, d) = stream(c, w) \o quiet \o stream(c, v)
        /\ PromptPhases(i, l, d) = stream(i, w) \o quiet \o stream(i, v)
    BY <1>3, <2>2 DEF PromptPhases
  <2>4. /\ Dearer(stream(c, w), stream(i, w), n \div 2)
        /\ Dearer(stream(c, v), stream(i, v), n \div 2)
    <3> HIDE DEF w, v
    <3> QED BY <1>1, <2>1, HiddenStream
  <2> HIDE DEF w, v, quiet, stream, i, n
  <2>5. Dearer(stream(c, w) \o quiet \o stream(c, v),
               stream(i, w) \o quiet \o stream(i, v), n)
    BY <1>1, <1>2, <2>4, DearerEnds
  <2> QED BY <2>3, <2>5 DEF i, n
<1>5. CASE c.ramulator
  <2>1. /\ GqaSumScoreGPU(c, l, d) = Apart(c, "GPU", l, d, f)
        /\ GqaSumContextGPU(c, l, d) = Apart(c, "GPU", l, d, g)
    BY <1>5 DEF GqaSumScoreGPU, GqaSumContextGPU, Gathered, Each, Apart
  <2>2. /\ GqaSumScoreGPU(i, l, d) = Apart(i, "GPU", l, d, f)
        /\ GqaSumContextGPU(i, l, d) = Apart(i, "GPU", l, d, g)
    <3> HIDE DEF i
    <3> QED BY <1>1, <1>5 DEF GqaSumScoreGPU, GqaSumContextGPU, Gathered,
                              Each, Apart
  <2>3. \A x : Apart(i, "GPU", l, d, x) = Apart(c, "GPU", l, d, x)
    BY InstantSame DEF Apart
  <2>4. PromptPhases(i, l, d) = PromptPhases(c, l, d)
    BY <1>3, <2>1, <2>2, <2>3 DEF PromptPhases
  <2>5. f \in [DOMAIN d -> Works] /\ g \in [DOMAIN d -> Works]
    BY EntriesOf, GqaSumWorkIs DEF WorkOf
  <2>6. /\ Apart(c, "GPU", l, d, f) \in Seq(Phases)
        /\ Apart(c, "GPU", l, d, g) \in Seq(Phases)
    <3> HIDE DEF f, g
    <3> QED BY <1>1, <2>5, ApartIs
  <2> HIDE DEF f, g, quiet, i, n
  <2>7. PromptPhases(c, l, d) \in Seq(Phases)
    BY <1>2, <1>3, <2>1, <2>6, TwoParts DEF PromptPhases
  <2>8. Dearer(PromptPhases(c, l, d), PromptPhases(c, l, d), n)
    BY <1>1, <2>7, DearerSame, DearerMore
  <2> QED BY <2>4, <2>8 DEF i, n
<1> QED BY <1>1, <1>4, <1>5

\* What prompts take.
LEMMA PromptsTake ==
  ASSUME NEW c, ~OffloadActive(c), NEW l, NEW b, NEW d, d = Reached(l, b),
         d \in Seq(Entries),
         Live(d) => PromptPhases(c, l, d) \in Seq(Phases)
  PROVE  AttentionSumExecutionGPU(c, l, b).total
           = IF Live(d) THEN Run(PromptPhases(c, l, d)).total ELSE 0
<1> DEFINE status == Prefill(d, PromptPhases(c, l, d))
<1>1. AttentionSumExecutionGPU(c, l, b) = Unaccounted(status)
  BY DEF AttentionSumExecutionGPU, NoOffload, PromptPhases
<1>2. CASE Live(d)
  <2>1. Tokens(d) # 0
    BY <1>2, TokensIs
  <2>2. status = Run(PromptPhases(c, l, d)) /\ status \in Statuses
    BY <1>2, <2>1, RunIs DEF Prefill
  <2> HIDE DEF status
  <2>3. Unaccounted(status).total = status.total
    BY <2>2 DEF Unaccounted, Statuses
  <2> QED BY <1>1, <1>2, <2>2, <2>3
<1>3. CASE ~Live(d)
  <2>1. Tokens(d) = 0
    BY <1>3, TokensIs
  <2>2. status = EmptyStatus
    BY <2>1 DEF Prefill
  <2> QED BY <1>1, <1>3, <2>2 DEF Unaccounted, EmptyStatus
<1> QED BY <1>2, <1>3

\* Prompts expose at most one page.
LEMMA PrefillFillsOnce ==
  ASSUME NEW m, IsMachine(m), Fields \subseteq DOMAIN m, NEW b \in Batch,
         m.c.use_hbf, HidesPages(m.c), m.attention = "gqa"
  PROVE  AttentionSum(m, "GPU", b).total
           <= AttentionSum([m EXCEPT !.c = Instant(m.c)], "GPU", b).total
              + m.c.page_read
<1> DEFINE c == m.c
           i == Instant(c)
           h == [m EXCEPT !.c = i]
           l == SelfAttentionSum(m)
           d == Reached(l, b)
           s == PromptPhases(c, l, d)
           t == PromptPhases(i, l, d)
<1>1. c \in SystemConfig /\ i \in SystemConfig /\ i.use_hbf
  <2>1. c \in SystemConfig
    BY DEF IsMachine
  <2> QED BY <2>1, InstantIs
<1>2. c.page_read \in Nat /\ ~OffloadActive(c) /\ ~OffloadActive(i)
  <2>1. c.page_read \in Nat
    BY <1>1 DEF SystemConfig
  <2> QED BY <1>1, <2>1 DEF OffloadActive
<1>3. h.c = i /\ h.attention = "gqa" /\ SelfAttentionSum(h) = l
  <2>1. h.c = i /\ SameModel(h, m)
    BY OtherCosts
  <2> HIDE DEF h, i
  <2> QED BY <2>1, SameLayers DEF SameModel
<1>4. /\ AttentionSum(m, "GPU", b) = AttentionSumExecutionGPU(c, l, b)
      /\ AttentionSum(h, "GPU", b) = AttentionSumExecutionGPU(i, l, b)
  <2> HIDE DEF h, i, l
  <2>1. AttentionSum(h, "GPU", b)
          = AttentionSumExecutionGPU(h.c, SelfAttentionSum(h), b)
    BY <1>3 DEF AttentionSum
  <2>2. AttentionSum(m, "GPU", b)
          = AttentionSumExecutionGPU(m.c, SelfAttentionSum(m), b)
    BY DEF AttentionSum
  <2> QED BY <1>3, <2>1, <2>2 DEF l
<1>5. l \in Layer /\ l.use_chunked_attention = TRUE
  BY SelfAttentionLayers, Chunked
<1> HIDE DEF l, c, h
<1>6. d \in Seq(Entries)
  BY <1>5, ReachedIs
<1> HIDE DEF d
<1>7. Live(d) => Dearer(s, t, c.page_read)
  BY <1>1, <1>5, <1>6, PromptPhasesFillOnce DEF c
<1>8. Live(d) => /\ s \in Seq(Phases) /\ t \in Seq(Phases)
                 /\ Run(s).total <= Run(t).total + c.page_read
  BY <1>7 DEF Dearer
<1> HIDE DEF i
<1>9. /\ AttentionSumExecutionGPU(c, l, b).total
           = IF Live(d) THEN Run(s).total ELSE 0
      /\ AttentionSumExecutionGPU(i, l, b).total
           = IF Live(d) THEN Run(t).total ELSE 0
  BY <1>2, <1>6, <1>8, PromptsTake DEF d
<1> HIDE DEF s, t
<1>10. AttentionSumExecutionGPU(c, l, b).total
         <= AttentionSumExecutionGPU(i, l, b).total + c.page_read
  BY <1>2, <1>8, <1>9
<1> QED BY <1>4, <1>10 DEF c, h, i

\* The prompts of a batch are a batch.
LEMMA PromptsAre ==
  ASSUME NEW b \in Batch
  PROVE  Prompts(b) \in Batch
<1>1. b \in Seq(Entries)
  BY BatchIs
<1>2. DOMAIN b = 1 .. Len(b) /\ Len(b) \in Nat
  BY <1>1, Indices
<1>3. \A i \in DOMAIN b : [cur |-> 0, tok |-> Context(b[i])]
                            \in [cur : Nat, tok : Nat]
  <2>1. \A i \in DOMAIN b : b[i] \in [cur : Nat, tok : Nat]
    BY <1>2, ElementOfSeq DEF Batch
  <2> QED BY <2>1 DEF Context
<1>4. Prompts(b) \in [1 .. Len(b) -> [cur : Nat, tok : Nat]]
  BY <1>2, <1>3 DEF Prompts
<1> QED BY <1>2, <1>4 DEF Batch

\* A layer exposes the latency of at most one page of flash, when it decodes
\* and when grouped-query attention processes prompts.
THEOREM LayersFillOnce == Spec => []OneFillPerLayer
<1>1. LawsTypeOK => OneFillPerLayer
  <2> SUFFICES ASSUME LawsTypeOK, machine.c.use_hbf, HidesPages(machine.c)
               PROVE  LET hidden == With([machine.c EXCEPT !.page_read = 0])
                      IN /\ Decoding(machine)
                              <= Decoding(hidden) + machine.c.page_read
                         /\ machine.attention = "gqa" =>
                              AttentionSum(machine, "GPU", Prompts(batch)).total
                                <= AttentionSum(hidden, "GPU",
                                                Prompts(batch)).total
                                   + machine.c.page_read
    BY DEF OneFillPerLayer
  <2>1. /\ IsMachine(machine) /\ Fields \subseteq DOMAIN machine
        /\ batch \in Batch /\ Prompts(batch) \in Batch
    BY Arguments, PromptsAre
  <2>2. AttentionGen(machine, "GPU", batch).total
          <= AttentionGen([machine EXCEPT !.c = Instant(machine.c)], "GPU",
                          batch).total + machine.c.page_read
    BY <2>1, DecodeFillsOnce
  <2>3. machine.attention = "gqa" =>
          AttentionSum(machine, "GPU", Prompts(batch)).total
            <= AttentionSum([machine EXCEPT !.c = Instant(machine.c)], "GPU",
                            Prompts(batch)).total + machine.c.page_read
    BY <2>1, PrefillFillsOnce
  <2>4. With([machine.c EXCEPT !.page_read = 0])
          = [machine EXCEPT !.c = Instant(machine.c)]
    BY DEF With, Instant
  <2> QED BY <2>2, <2>3, <2>4 DEF Decoding
<1> QED BY <1>1, LawsType, PTL
----------------------------------------------------------------------------
(***************************************************************************)
(* Reads and writes.                                                       *)
(***************************************************************************)

\* Phases that compute nothing, and phases that take no time at all.
Idle == {f \in Phases : f.compute = 0}
Free == {f \in Idle : f.memory = 0}

LEMMA SumOfZeros ==
  ASSUME NEW n \in Nat, NEW f \in [1 .. n -> {0}]
  PROVE  SumFunction(f) = 0
<1> DEFINE P == {k \in 0 .. n : SumIn(f, 1 .. k) = 0}
<1>1. 0 \in P
  <2>1. 1 .. 0 = {} /\ 0 \in 0 .. n
    OBVIOUS
  <2> QED BY <2>1, SumOfNone
<1>2. ASSUME NEW k \in 0 .. n - 1, k \in P
      PROVE  k + 1 \in P
  <2>1. k \in Nat /\ k + 1 \in 0 .. n /\ k + 1 \in 1 .. n
        /\ 1 .. k + 1 \subseteq 1 .. n
    OBVIOUS
  <2>2. \A i \in 1 .. k + 1 : f[i] \in Int
    BY <2>1
  <2>3. SumIn(f, 1 .. k + 1) = f[k + 1] + SumIn(f, 1 .. k)
    BY <2>1, <2>2, SumLast
  <2>4. f[k + 1] = 0 /\ SumIn(f, 1 .. k) = 0
    BY <1>2, <2>1
  <2> QED BY <2>1, <2>3, <2>4
<1>3. n \in P
  <2>1. P \in SUBSET Nat
    OBVIOUS
  <2>2. \A k \in 0 .. n - 1 : k \in P => k + 1 \in P
    BY <1>2
  <2> HIDE DEF P
  <2>3. 0 .. n \subseteq P
    BY <1>1, <2>1, <2>2, Induction
  <2> QED BY <2>3
<1>4. SumFunction(f) = SumIn(f, 1 .. n)
  <2>1. IsFiniteSet(1 .. n) /\ f \in [1 .. n -> Int]
    BY FS_Interval
  <2> QED BY <2>1, SumFunctionIs
<1> QED BY <1>3, <1>4

LEMMA RunIdle ==
  ASSUME NEW s \in Seq(Idle)
  PROVE  Run(s).compute = 0
<1>1. DOMAIN s = 1 .. Len(s) /\ Len(s) \in Nat
  BY LenProperties
<1>2. \A i \in DOMAIN s : s[i] \in Idle
  BY <1>1, ElementOfSeq
<1>3. Hides(s) \in [1 .. Len(s) -> {0}]
  BY <1>1, <1>2 DEF Hides, Idle
<1> QED BY <1>1, <1>3, SumOfZeros, RunAdds

LEMMA RunFree ==
  ASSUME NEW s \in Seq(Free)
  PROVE  Run(s).total = 0
<1>1. DOMAIN s = 1 .. Len(s) /\ Len(s) \in Nat
  BY LenProperties
<1>2. \A i \in DOMAIN s : s[i] \in Free
  BY <1>1, ElementOfSeq
<1>3. Longs(s) \in [1 .. Len(s) -> {0}]
  BY <1>1, <1>2 DEF Longs, Free, Idle, Longer
<1> QED BY <1>1, <1>3, SumOfZeros, RunAdds

\* A kernel is made of phases of some kind when its parts are.
LEMMA KernelMadeOf ==
  ASSUME NEW Q, NEW c, NEW kind \in Kinds, NEW l, NEW d, NEW w, NEW v, NEW x,
         \A y \in {w, v, x} : Plain(c, "GPU", l, d, y) \in Q,
         \A y \in {w, v, x}, k \in {1, 2} : Streamed(c, l, d, y, k) \in Q,
         Softmax(c, "GPU", l, d) \in Seq(Q),
         Softmax(Unasked(c), "GPU", l, d) \in Seq(Q),
         Unreported(Softmax(c, "GPU", l, d)) \in Seq(Q)
  PROVE  Kernel(kind, c, l, d, w, v, x) \in Seq(Q)
<1>1. \A s \in Seq(Q), t \in Seq(Q) : s \o t \in Seq(Q)
  BY ConcatProperties
<1>2. /\ \A y \in {w, v, x} : <<Plain(c, "GPU", l, d, y)>> \in Seq(Q)
      /\ \A y \in {w, v, x}, k \in {1, 2} :
           <<Streamed(c, l, d, y, k)>> \in Seq(Q)
  <2>1. \A f \in Q : <<f>> \in Seq(Q)
    OBVIOUS
  <2> QED BY <2>1
<1>3. CASE kind = "gqa"
  BY <1>1, <1>2, <1>3 DEF Kernel
<1>4. CASE kind = "fused"
  BY <1>1, <1>2, <1>4 DEF Kernel
<1>5. CASE kind = "mla"
  BY <1>1, <1>2, <1>5 DEF Kernel
<1>6. CASE kind = "absorb"
  BY <1>1, <1>2, <1>6 DEF Kernel
<1> QED BY <1>3, <1>4, <1>5, <1>6 DEF Kinds

\* A processor that computes in no time.
LEMMA NoCompute ==
  ASSUME NEW c \in SystemConfig, c.flop_ticks["GPU"] = 0,
         NEW n \in Nat, NEW flops \in Nat, NEW m \in Nat
  PROVE  ComputeTime(c, "GPU", n, flops, m) = 0
<1>1. c.mfu_m_half \in Nat
  BY DEF SystemConfig
<1>2. flops * 0 = 0 /\ 0 * (m + c.mfu_m_half) = 0
      /\ (m > 0 => 0 \div m = 0)
  BY <1>1, SMT
<1>3. EffectiveMFU(c, 0, m) = 0
  BY <1>1, <1>2 DEF EffectiveMFU
<1> QED BY <1>2, <1>3 DEF ComputeTime

LEMMA IdlePhase ==
  ASSUME NEW c \in SystemConfig, c.flop_ticks["GPU"] = 0,
         NEW l \in Layer, NEW b \in Seq(Entries), NEW w \in Works, NEW memory
  PROVE  Phase(c, "GPU", l, b, w, memory).compute = 0
<1>1. l.precision \in Nat /\ w.flops \in Nat /\ Tokens(b) \in Nat
  BY LayerFields, WorkFields, TokensIs
<1>2. ComputeTime(c, "GPU", l.precision, w.flops, Tokens(b)) = 0
  BY <1>1, NoCompute
<1> QED BY <1>2 DEF Phase

\* The computation and the traffic of a softmax.
LEMMA SoftmaxOf ==
  ASSUME NEW c, NEW l, NEW b, NEW i \in DOMAIN b
  PROVE  LET f == Softmax(c, "GPU", l, b)[i]
             w == SoftmaxWork(l, b[i])
             g == Phase(c, "GPU", l, b, w, 0)
         IN /\ f.compute = g.compute
            /\ f.memory = IF c.ramulator
                          THEN Ramulator(c, "GPU", w.ops, l.precision)
                          ELSE SoftmaxTime(c, "GPU", w.act * l.precision)
BY DEF Softmax, Phase

LEMMA SoftmaxWorks ==
  ASSUME NEW l \in Layer, NEW s \in Entries
  PROVE  SoftmaxWork(l, s) \in Works
<1>1. s.tok \in Nat /\ Context(s) \in Nat /\ l.num_heads \in Nat
  BY LayerFields DEF Entries
<1>2. /\ s.tok * Context(s) * l.num_heads \in Nat
      /\ 7 * s.tok * Context(s) * l.num_heads \in Nat
  BY <1>1, Product
<1>3. 2 * Scores(l, s) \in Nat
  BY <1>2 DEF Scores
<1> QED BY <1>2, <1>3 DEF SoftmaxWork, Work, Works

LEMMA UnreportedOf ==
  ASSUME NEW s \in Seq(Phases), NEW i \in DOMAIN s
  PROVE  /\ Unreported(s)[i].compute = s[i].compute
         /\ Unreported(s)[i].memory = s[i].memory
<1>1. s[i] \in Phases
  BY ElementOfSeq, LenProperties
<1> QED BY <1>1 DEF Unreported, Phases

LEMMA EachPhase ==
  ASSUME NEW s \in Seq(Phases)
  PROVE  \A i \in DOMAIN s : s[i] \in Phases
<1>1. DOMAIN s = 1 .. Len(s)
  BY LenProperties
<1> QED BY <1>1, ElementOfSeq

\* Phases one by one.
LEMMA PhasesOf ==
  ASSUME NEW s \in Seq(Phases), NEW Q \in SUBSET Phases,
         \A i \in DOMAIN s : s[i] \in Q
  PROVE  s \in Seq(Q)
<1>1. DOMAIN s = 1 .. Len(s) /\ Len(s) \in Nat
  BY LenProperties
<1>2. s \in [1 .. Len(s) -> Q]
  <2>1. s = [i \in 1 .. Len(s) |-> s[i]]
    BY <1>1
  <2> QED BY <1>1, <2>1
<1> QED BY <1>1, <1>2

\* No kernel computes on an idle machine.
LEMMA IdleKernel ==
  ASSUME NEW c \in SystemConfig, c.flop_ticks["GPU"] = 0,
         NEW kind, NEW l, NEW d, NEW u, NEW z, NEW w, NEW v, NEW x,
         KernelArguments(kind, l, d, u, z, w, v, x)
  PROVE  Kernel(kind, c, l, d, w, v, x) \in Seq(Idle)
<1>1. /\ kind \in Kinds /\ l \in Layer /\ d \in Seq(Entries)
      /\ {w, v, x} \subseteq Works
  BY DEF KernelArguments
<1>2. Unasked(c) \in SystemConfig /\ Unasked(c).flop_ticks["GPU"] = 0
  <2>1. Unasked(c) \in SystemConfig
    BY KernelIs
  <2>2. Unasked(c).flop_ticks = c.flop_ticks
    BY DEF SystemConfig, Unasked
  <2> QED BY <2>1, <2>2
<1>3. \A y \in {w, v, x} : Plain(c, "GPU", l, d, y) \in Idle
  <2>1. \A y \in {w, v, x} : Plain(c, "GPU", l, d, y) \in Phases
    BY KernelIs
  <2>2. \A y \in {w, v, x} : Plain(c, "GPU", l, d, y).compute = 0
    BY <1>1, IdlePhase DEF Plain
  <2> QED BY <2>1, <2>2 DEF Idle
<1>4. \A y \in {w, v, x}, k \in {1, 2} : Streamed(c, l, d, y, k) \in Idle
  <2>1. \A y \in {w, v, x}, k \in {1, 2} : Streamed(c, l, d, y, k) \in Phases
    BY KernelIs
  <2>2. \A y \in {w, v, x}, k \in {1, 2} :
          \/ Streamed(c, l, d, y, k) = Plain(c, "GPU", l, d, y)
          \/ \E memory : Streamed(c, l, d, y, k)
                           = Phase(c, "GPU", l, d, y, memory)
    BY DEF Streamed
  <2>3. \A y \in {w, v, x} : \A memory :
          Phase(c, "GPU", l, d, y, memory).compute = 0
    BY <1>1, IdlePhase
  <2> QED BY <1>3, <2>1, <2>2, <2>3 DEF Idle
<1>5. ASSUME NEW e \in SystemConfig, e.flop_ticks["GPU"] = 0
      PROVE  /\ Softmax(e, "GPU", l, d) \in Seq(Idle)
             /\ Unreported(Softmax(e, "GPU", l, d)) \in Seq(Idle)
  <2> DEFINE s == Softmax(e, "GPU", l, d)
  <2>1. s \in Seq(Phases) /\ DOMAIN s = DOMAIN d
    BY <1>1, SoftmaxIs DEF Processors, Softmax
  <2>2. ASSUME NEW i \in DOMAIN d
        PROVE  s[i].compute = 0
    <3>1. SoftmaxWork(l, d[i]) \in Works
      BY <1>1, EntriesOf, SoftmaxWorks
    <3>2. Phase(e, "GPU", l, d, SoftmaxWork(l, d[i]), 0).compute = 0
      BY <1>1, <1>5, <3>1, IdlePhase
    <3> QED BY <3>2, SoftmaxOf
  <2> HIDE DEF s
  <2>3. \A i \in DOMAIN s : s[i] \in Idle
    BY <2>1, <2>2, EachPhase DEF Idle
  <2>4. Unreported(s) \in Seq(Phases) /\ DOMAIN Unreported(s) = DOMAIN s
    BY <2>1, UnreportedIs DEF Unreported
  <2>5. \A i \in DOMAIN s : Unreported(s)[i] \in Idle
    BY <2>1, <2>2, <2>4, EachPhase, UnreportedOf DEF Idle
  <2>6. Idle \in SUBSET Phases
    BY DEF Idle
  <2>7. s \in Seq(Idle) /\ Unreported(s) \in Seq(Idle)
    BY <2>1, <2>3, <2>4, <2>5, <2>6, PhasesOf
  <2> QED BY <2>7 DEF s
<1> QED BY <1>1, <1>2, <1>3, <1>4, <1>5, KernelMadeOf

\* A machine with flash whose GPU neither computes nor reads for any time.
Costless(c) ==
  /\ c.use_hbf /\ ~c.ramulator /\ c.flop_ticks["GPU"] = 0
  /\ c.flash_read = 0 /\ c.page_read = 0 /\ c.hbm_read = 0 /\ c.sram_read = 0

LEMMA NoTraffic ==
  ASSUME NEW c \in SystemConfig, Costless(c),
         NEW kv \in Nat, NEW act \in Nat, NEW fills \in Nat \ {0}
  PROVE  /\ ActTime(c, act) = 0
         /\ act * Bandwidth(c, "GPU") = 0
         /\ AttentionMemory(c, kv, act, fills) = 0
<1>1. /\ c.use_hbf /\ c.flash_read = 0 /\ c.page_read = 0 /\ c.hbm_read = 0
      /\ c.sram_read = 0
  BY DEF Costless
<1>2. c.chunk_size \in Nat /\ c.sram \in Nat /\ c.paper2_mode \in BOOLEAN
  BY DEF SystemConfig
<1>3. \A n \in Int : n * 0 = 0
  OBVIOUS
<1>4. ActTime(c, act) = 0 /\ act * Bandwidth(c, "GPU") = 0
  BY <1>1, <1>3 DEF ActTime, Bandwidth
<1>5. ASSUME NEW chunk \in Nat
      PROVE  FlashTime(c, kv, chunk, fills) = 0
  <2> DEFINE chunks == Longer(1, IF chunk = 0 THEN 1
                                 ELSE (kv + chunk - 1) \div chunk)
  <2>1. chunks - 1 \in Int
    <3>1. chunk # 0 => (kv + chunk - 1) \div chunk \in Int
      OBVIOUS
    <3> QED BY <3>1 DEF Longer
  <2> HIDE DEF chunks
  <2>2. Longer(0, 0 - chunk * 0) = 0 /\ 0 \div fills = 0
    BY SMT DEF Longer
  <2>3. FlashTime(c, kv, chunk, fills)
          = kv * 0 + (IF c.paper2_mode THEN 0
                      ELSE 0 \div fills
                           + (chunks - 1) * Longer(0, 0 - chunk * 0))
    BY <1>1 DEF FlashTime, chunks
  <2> QED BY <1>3, <2>1, <2>2, <2>3
<1>6. AttentionMemory(c, kv, act, fills) = 0
  BY <1>2, <1>4, <1>5 DEF AttentionMemory, Least, Longer
<1> QED BY <1>4, <1>6

\* No kernel takes time on such a machine.
LEMMA FreeKernel ==
  ASSUME NEW c \in SystemConfig, Costless(c),
         NEW kind, NEW l, NEW d, NEW u, NEW z, NEW w, NEW v, NEW x,
         KernelArguments(kind, l, d, u, z, w, v, x)
  PROVE  Kernel(kind, c, l, d, w, v, x) \in Seq(Free)
<1>1. /\ kind \in Kinds /\ l \in Layer /\ d \in Seq(Entries)
      /\ {w, v, x} \subseteq Works /\ l.use_chunked_attention = TRUE
  BY DEF KernelArguments
<1>2. Unasked(c) = c
  <2>1. c.ramulator = FALSE
    BY DEF Costless, SystemConfig
  <2>2. Unasked(c) = [c EXCEPT !.ramulator = c.ramulator]
    BY <2>1 DEF Unasked
  <2> QED BY <2>2 DEF SystemConfig
<1>3. c.use_hbf /\ ~c.ramulator /\ c.flop_ticks["GPU"] = 0
  BY DEF Costless
<1>4. ASSUME NEW y \in Works
      PROVE  /\ y.kv * l.precision \in Nat /\ y.act * l.precision \in Nat
             /\ (y.kv + y.act) * l.precision \in Nat
  <2>1. /\ y.kv \in Nat /\ y.act \in Nat /\ y.kv + y.act \in Nat
        /\ l.precision \in Nat
    BY <1>1, WorkFields, LayerFields
  <2> QED BY <2>1, Product
<1>5. \A y \in Works : \A memory :
        /\ Phase(c, "GPU", l, d, y, memory).compute = 0
        /\ Phase(c, "GPU", l, d, y, memory).memory = memory
  <2>1. \A y \in Works : \A memory : Phase(c, "GPU", l, d, y, memory).compute = 0
    BY <1>1, <1>3, IdlePhase
  <2>2. \A y, memory : Phase(c, "GPU", l, d, y, memory).memory = memory
    BY DEF Phase
  <2> QED BY <2>1, <2>2
<1>6. \A y \in {w, v, x} : Plain(c, "GPU", l, d, y) \in Free
  <2> SUFFICES ASSUME NEW y \in {w, v, x}
               PROVE  Plain(c, "GPU", l, d, y) \in Free
    OBVIOUS
  <2>1. Plain(c, "GPU", l, d, y) \in Phases
    BY KernelIs
  <2>2. Plain(c, "GPU", l, d, y)
          = Phase(c, "GPU", l, d, y,
                  (y.kv + y.act) * l.precision * Bandwidth(c, "GPU"))
    BY <1>3 DEF Plain
  <2>3. (y.kv + y.act) * l.precision * Bandwidth(c, "GPU") = 0
    <3>1. 1 \in Nat \ {0} /\ (y.kv + y.act) * l.precision \in Nat
      BY <1>1, <1>4
    <3> QED BY <3>1, NoTraffic
  <2> QED BY <1>1, <1>5, <2>1, <2>2, <2>3 DEF Free, Idle
<1>7. \A y \in {w, v, x}, k \in {1, 2} : Streamed(c, l, d, y, k) \in Free
  <2> SUFFICES ASSUME NEW y \in {w, v, x}, NEW k \in {1, 2}
               PROVE  Streamed(c, l, d, y, k) \in Free
    OBVIOUS
  <2> DEFINE kv == y.kv * l.precision
             act == y.act * l.precision
  <2>1. Streamed(c, l, d, y, k) \in Phases
    BY KernelIs
  <2>2. Streamed(c, l, d, y, k)
          = Phase(c, "GPU", l, d, y, AttentionMemory(c, kv, act, k))
    BY <1>1, <1>3 DEF Streamed
  <2>3. kv \in Nat /\ act \in Nat /\ k \in Nat \ {0} /\ y \in Works
    BY <1>1, <1>4
  <2> HIDE DEF kv, act
  <2>4. AttentionMemory(c, kv, act, k) = 0
    BY <2>3, NoTraffic
  <2> QED BY <1>5, <2>1, <2>2, <2>3, <2>4 DEF Free, Idle
<1>8. /\ Softmax(c, "GPU", l, d) \in Seq(Free)
      /\ Unreported(Softmax(c, "GPU", l, d)) \in Seq(Free)
  <2> DEFINE s == Softmax(c, "GPU", l, d)
  <2>1. s \in Seq(Phases) /\ DOMAIN s = DOMAIN d
    BY <1>1, SoftmaxIs DEF Processors, Softmax
  <2>2. ASSUME NEW i \in DOMAIN d
        PROVE  s[i].compute = 0 /\ s[i].memory = 0
    <3> DEFINE y == SoftmaxWork(l, d[i])
    <3>1. y \in Works
      BY <1>1, EntriesOf, SoftmaxWorks
    <3> HIDE DEF y
    <3>2. /\ s[i].compute = Phase(c, "GPU", l, d, y, 0).compute
          /\ s[i].memory = IF c.ramulator
                           THEN Ramulator(c, "GPU", y.ops, l.precision)
                           ELSE SoftmaxTime(c, "GPU", y.act * l.precision)
      BY SoftmaxOf DEF y
    <3> HIDE DEF s
    <3>3. s[i].memory = ActTime(c, y.act * l.precision)
      BY <1>3, <3>2 DEF SoftmaxTime
    <3>4. ActTime(c, y.act * l.precision) = 0
      <4>1. 1 \in Nat \ {0} /\ y.act * l.precision \in Nat
        BY <1>4, <3>1
      <4> QED BY <4>1, NoTraffic
    <3> QED BY <1>5, <3>1, <3>2, <3>3, <3>4
  <2> HIDE DEF s
  <2>3. \A i \in DOMAIN s : s[i] \in Free
    BY <2>1, <2>2, EachPhase DEF Free, Idle
  <2>4. Unreported(s) \in Seq(Phases) /\ DOMAIN Unreported(s) = DOMAIN s
    BY <2>1, UnreportedIs DEF Unreported
  <2>5. \A i \in DOMAIN s : Unreported(s)[i] \in Free
    BY <2>1, <2>2, <2>4, EachPhase, UnreportedOf DEF Free, Idle
  <2>6. Free \in SUBSET Phases
    BY DEF Free, Idle
  <2>7. s \in Seq(Free) /\ Unreported(s) \in Seq(Free)
    BY <2>1, <2>3, <2>4, <2>5, <2>6, PhasesOf
  <2> QED BY <2>7 DEF s
<1> QED BY <1>1, <1>2, <1>6, <1>7, <1>8, KernelMadeOf

\* A machine whose flash is written, or whose memories are read, in no time.
Unwritten(c) == [c EXCEPT !.flash_write = 0, !.page_program = 0]
Unread(c) == [c EXCEPT !.flash_read = 0, !.page_read = 0, !.hbm_read = 0,
                       !.sram_read = 0]

\* The machine of the law that only moves data.
Moving(c) == [c EXCEPT !.flop_ticks["GPU"] = 0]

LEMMA MovingIs ==
  ASSUME NEW c \in SystemConfig
  PROVE  /\ Moving(c) \in SystemConfig
         /\ Moving(c).flop_ticks["GPU"] = 0
         /\ Moving(c).use_hbf = c.use_hbf
         /\ Moving(c).ramulator = c.ramulator
         /\ Moving(c).flash_write = c.flash_write
         /\ Moving(c).page_program = c.page_program
         /\ Moving(c).input_len = c.input_len
         /\ Moving(c).output_len = c.output_len
         /\ Moving(c).num_layers = c.num_layers
         /\ Moving(c).pp = c.pp
<1> DEFINE f == [c.flop_ticks EXCEPT !["GPU"] = 0]
<1>1. f \in [Processors -> Nat] /\ f["GPU"] = 0
  BY DEF SystemConfig, Processors
<1>2. Moving(c) = [c EXCEPT !.flop_ticks = f]
  BY DEF Moving
<1> HIDE DEF f
<1>3. Moving(c) \in SystemConfig
  BY <1>1, <1>2 DEF SystemConfig
<1> QED BY <1>1, <1>2, <1>3 DEF SystemConfig

LEMMA UnwrittenIs ==
  ASSUME NEW c \in SystemConfig
  PROVE  /\ Unwritten(c) \in SystemConfig
         /\ Unwritten(c).flash_write = 0 /\ Unwritten(c).page_program = 0
         /\ Unwritten(c).use_hbf = c.use_hbf
         /\ Unwritten(c).ramulator = c.ramulator
         /\ Unwritten(c).ram_ticks = c.ram_ticks
         /\ Unwritten(c).flop_ticks = c.flop_ticks
         /\ Unwritten(c).byte_ticks = c.byte_ticks
         /\ Unwritten(c).flash_read = c.flash_read
         /\ Unwritten(c).hbm_read = c.hbm_read
         /\ Unwritten(c).sram_read = c.sram_read
         /\ Unwritten(c).num_hbm_stacks = c.num_hbm_stacks
         /\ Unwritten(c).mfu_m_half = c.mfu_m_half
         /\ Unwritten(c).softmax_hide = c.softmax_hide
         /\ Unwritten(c).page_read = c.page_read
         /\ Unwritten(c).sram = c.sram
         /\ Unwritten(c).chunk_size = c.chunk_size
         /\ Unwritten(c).paper2_mode = c.paper2_mode
         /\ Unwritten(c).f_off = c.f_off
         /\ Unwritten(c).c2c = c.c2c
         /\ Unwritten(c).c2c_overlapped = c.c2c_overlapped
         /\ Unwritten(c).cpu_kv_offload = c.cpu_kv_offload
         /\ Unwritten(c).output_len = c.output_len
         /\ Unwritten(c).num_layers = c.num_layers
         /\ Unwritten(c).pp = c.pp
<1>1. Unwritten(c) \in SystemConfig
  BY DEF SystemConfig, Unwritten
<1> QED BY <1>1 DEF SystemConfig, Unwritten

LEMMA UnreadIs ==
  ASSUME NEW c \in SystemConfig
  PROVE  /\ Unread(c) \in SystemConfig
         /\ Unread(c).flash_read = 0 /\ Unread(c).page_read = 0
         /\ Unread(c).hbm_read = 0 /\ Unread(c).sram_read = 0
         /\ Unread(c).use_hbf = c.use_hbf
         /\ Unread(c).ramulator = c.ramulator
         /\ Unread(c).flop_ticks = c.flop_ticks
         /\ Unread(c).flash_write = c.flash_write
         /\ Unread(c).page_program = c.page_program
         /\ Unread(c).input_len = c.input_len
         /\ Unread(c).output_len = c.output_len
         /\ Unread(c).num_layers = c.num_layers
         /\ Unread(c).pp = c.pp
<1>1. Unread(c) \in SystemConfig
  BY DEF SystemConfig, Unread
<1> QED BY <1>1 DEF SystemConfig, Unread

\* The reads of a machine are those of one that writes in no time.
LEMMA ReadingSame ==
  ASSUME NEW c \in SystemConfig, NEW kind, NEW l, NEW d, NEW w, NEW v, NEW x
  PROVE  Kernel(kind, Unwritten(c), l, d, w, v, x)
           = Kernel(kind, c, l, d, w, v, x)
<1> DEFINE r == Unwritten(c)
<1>1. /\ r.use_hbf = c.use_hbf /\ r.ramulator = c.ramulator
      /\ r.ram_ticks = c.ram_ticks /\ r.flop_ticks = c.flop_ticks
      /\ r.byte_ticks = c.byte_ticks /\ r.flash_read = c.flash_read
      /\ r.hbm_read = c.hbm_read /\ r.sram_read = c.sram_read
      /\ r.num_hbm_stacks = c.num_hbm_stacks /\ r.mfu_m_half = c.mfu_m_half
      /\ r.softmax_hide = c.softmax_hide /\ r.page_read = c.page_read
      /\ r.sram = c.sram /\ r.chunk_size = c.chunk_size
      /\ r.paper2_mode = c.paper2_mode /\ r.f_off = c.f_off
      /\ r.c2c = c.c2c /\ r.c2c_overlapped = c.c2c_overlapped
      /\ r.cpu_kv_offload = c.cpu_kv_offload
  BY UnwrittenIs
<1>2. Softmax(Unasked(r), "GPU", l, d) = Softmax(Unasked(c), "GPU", l, d)
  <2>1. /\ Unasked(r).use_hbf = Unasked(c).use_hbf
        /\ Unasked(r).ramulator = Unasked(c).ramulator
        /\ Unasked(r).flop_ticks = Unasked(c).flop_ticks
        /\ Unasked(r).byte_ticks = Unasked(c).byte_ticks
        /\ Unasked(r).flash_read = Unasked(c).flash_read
        /\ Unasked(r).hbm_read = Unasked(c).hbm_read
        /\ Unasked(r).sram_read = Unasked(c).sram_read
        /\ Unasked(r).num_hbm_stacks = Unasked(c).num_hbm_stacks
        /\ Unasked(r).mfu_m_half = Unasked(c).mfu_m_half
        /\ Unasked(r).softmax_hide = Unasked(c).softmax_hide
        /\ Unasked(r).ram_ticks = Unasked(c).ram_ticks
    BY DEF SystemConfig, Unasked, Unwritten
  <2> HIDE DEF r
  <2>2. \A precision, flops, m :
          ComputeTime(Unasked(r), "GPU", precision, flops, m)
            = ComputeTime(Unasked(c), "GPU", precision, flops, m)
    BY <2>1 DEF ComputeTime, EffectiveMFU
  <2>3. \A y, memory : Phase(Unasked(r), "GPU", l, d, y, memory)
                         = Phase(Unasked(c), "GPU", l, d, y, memory)
    BY <2>2 DEF Phase
  <2>4. /\ \A bytes : SoftmaxTime(Unasked(r), "GPU", bytes)
                        = SoftmaxTime(Unasked(c), "GPU", bytes)
        /\ \A ops, precision : Ramulator(Unasked(r), "GPU", ops, precision)
                                 = Ramulator(Unasked(c), "GPU", ops, precision)
    BY <2>1 DEF SoftmaxTime, ActTime, Bandwidth, Ramulator
  <2> QED BY <2>1, <2>3, <2>4 DEF Softmax
<1> HIDE DEF r
<1>3. \A precision, flops, m : ComputeTime(r, "GPU", precision, flops, m)
                                 = ComputeTime(c, "GPU", precision, flops, m)
  BY <1>1 DEF ComputeTime, EffectiveMFU
<1>4. \A y, memory : Phase(r, "GPU", l, d, y, memory)
                       = Phase(c, "GPU", l, d, y, memory)
  BY <1>3 DEF Phase
<1>5. /\ Bandwidth(r, "GPU") = Bandwidth(c, "GPU")
      /\ OffloadActive(r) = OffloadActive(c)
      /\ \A ops, precision : Ramulator(r, "GPU", ops, precision)
                               = Ramulator(c, "GPU", ops, precision)
      /\ \A bytes : ActTime(r, bytes) = ActTime(c, bytes)
      /\ \A kv, act : OffloadRead(r, kv, act) = OffloadRead(c, kv, act)
      /\ \A bytes, chunk, n : FlashTime(r, bytes, chunk, n)
                                = FlashTime(c, bytes, chunk, n)
  BY <1>1 DEF Bandwidth, OffloadActive, Ramulator, ActTime, OffloadRead,
              FlashTime
<1>6. \A y : Plain(r, "GPU", l, d, y) = Plain(c, "GPU", l, d, y)
  BY <1>1, <1>4, <1>5 DEF Plain
<1>7. /\ \A kv, act, n : AttentionMemory(r, kv, act, n)
                           = AttentionMemory(c, kv, act, n)
      /\ \A kv, act, n : AttentionMemoryUnchunked(r, kv, act, n)
                           = AttentionMemoryUnchunked(c, kv, act, n)
  BY <1>1, <1>5 DEF AttentionMemory, AttentionMemoryUnchunked
<1>8. \A y, n : Streamed(r, l, d, y, n) = Streamed(c, l, d, y, n)
  BY <1>1, <1>4, <1>5, <1>6, <1>7 DEF Streamed
<1>9. \A bytes : SoftmaxTime(r, "GPU", bytes) = SoftmaxTime(c, "GPU", bytes)
  BY <1>1, <1>5 DEF SoftmaxTime
<1>10. Softmax(r, "GPU", l, d) = Softmax(c, "GPU", l, d)
  BY <1>1, <1>4, <1>5, <1>9 DEF Softmax
<1>11. Kernel(kind, r, l, d, w, v, x) = Kernel(kind, c, l, d, w, v, x)
  <2>1. /\ Plain(r, "GPU", l, d, w) = Plain(c, "GPU", l, d, w)
        /\ Plain(r, "GPU", l, d, v) = Plain(c, "GPU", l, d, v)
        /\ Streamed(r, l, d, w, 1) = Streamed(c, l, d, w, 1)
        /\ Streamed(r, l, d, w, 2) = Streamed(c, l, d, w, 2)
        /\ Streamed(r, l, d, v, 2) = Streamed(c, l, d, v, 2)
        /\ Streamed(r, l, d, x, 1) = Streamed(c, l, d, x, 1)
    BY <1>6, <1>8
  <2> QED BY <1>2, <1>10, <2>1 DEF Kernel
<1> QED BY <1>11 DEF r

\* What flash writes does not depend on what it reads.
LEMMA WritesSame ==
  ASSUME NEW c, NEW e, e.flash_write = c.flash_write,
         e.page_program = c.page_program, e.input_len = c.input_len,
         e.output_len = c.output_len, e.num_layers = c.num_layers,
         e.pp = c.pp, NEW l, NEW n, NEW z
  PROVE  KvWrite(e, l, n, z) = KvWrite(c, l, n, z)
BY DEF KvWrite

LEMMA NoWrite ==
  ASSUME NEW c \in SystemConfig, c.flash_write = 0, c.page_program = 0,
         c.num_layers >= c.pp, NEW l \in Layer, NEW n \in Nat,
         NEW z \in BOOLEAN
  PROVE  KvWrite(c, l, n, z) = 0
<1> DEFINE entry == IF z THEN l.kv_lora_rank + l.rope
                    ELSE l.num_kv_heads * (2 * l.head_dim + l.rope)
           kept == IF l.window > 0 THEN Least(c.input_len, l.window)
                   ELSE c.input_len
           moved == n * entry * kept * l.precision
           share == c.num_layers \div c.pp
<1>1. /\ {l.kv_lora_rank, l.rope, l.num_kv_heads, l.head_dim, l.window,
          l.precision} \subseteq Nat
      /\ {c.input_len, c.num_layers} \subseteq Nat
      /\ {c.pp, c.output_len} \subseteq Nat \ {0}
  BY DEF Layer, SystemConfig
<1>2. entry \in Nat
  BY <1>1, Product
<1>3. kept \in Nat
  BY <1>1 DEF Least
<1> HIDE DEF entry, kept
<1>4. moved \in Nat
  BY <1>1, <1>2, <1>3, Product
<1>5. share \in Nat \ {0}
  BY <1>1, Quotient
<1>6. KvWrite(c, l, n, z) = (moved * 0) \div c.output_len + 0 \div share
  BY DEF KvWrite, entry, kept
<1> HIDE DEF moved, share
<1>7. moved * 0 = 0
  BY <1>4
<1>8. 0 \div c.output_len = 0 /\ 0 \div share = 0
  BY <1>1, <1>5
<1> QED BY <1>6, <1>7, <1>8

\* With flash, moving takes what reading takes and then what writing takes, and
\* decoding takes no less than writing.
LEMMA MovesInTurn ==
  ASSUME NEW m, IsMachine(m), Fields \subseteq DOMAIN m, NEW b \in Batch,
         m.c.use_hbf, ~m.c.ramulator
  PROVE  LET time(c) == AttentionGen([m EXCEPT !.c = c], "GPU", b).total
             write == time(Unread(Moving(m.c)))
         IN /\ time(Moving(m.c)) = time(Unwritten(Moving(m.c))) + write
            /\ AttentionGen(m, "GPU", b).total >= write
<1> DEFINE c == m.c
           i == Moving(c)
           r == Unwritten(i)
           q == Unread(i)
           M(e) == [m EXCEPT !.c = e]
<1>1. /\ c \in SystemConfig /\ c.num_layers >= c.pp
      /\ c.use_hbf /\ ~c.ramulator
  BY DEF IsMachine
<1>2. /\ i \in SystemConfig /\ i.use_hbf /\ ~i.ramulator
      /\ i.flop_ticks["GPU"] = 0
      /\ i.flash_write = c.flash_write /\ i.page_program = c.page_program
      /\ i.input_len = c.input_len /\ i.output_len = c.output_len
      /\ i.num_layers = c.num_layers /\ i.pp = c.pp
  BY <1>1, MovingIs
<1> HIDE DEF i
<1>3. /\ r \in SystemConfig /\ r.use_hbf /\ r.flash_write = 0
      /\ r.page_program = 0 /\ r.num_layers = i.num_layers /\ r.pp = i.pp
  BY <1>2, UnwrittenIs
<1>4. /\ q \in SystemConfig /\ Costless(q)
      /\ q.flash_write = i.flash_write /\ q.page_program = i.page_program
      /\ q.input_len = i.input_len /\ q.output_len = i.output_len
      /\ q.num_layers = i.num_layers /\ q.pp = i.pp
  <2>1. /\ q \in SystemConfig /\ q.flash_read = 0 /\ q.page_read = 0
        /\ q.hbm_read = 0 /\ q.sram_read = 0
        /\ q.use_hbf = i.use_hbf /\ q.ramulator = i.ramulator
        /\ q.flop_ticks = i.flop_ticks
        /\ q.flash_write = i.flash_write /\ q.page_program = i.page_program
        /\ q.input_len = i.input_len /\ q.output_len = i.output_len
        /\ q.num_layers = i.num_layers /\ q.pp = i.pp
    BY <1>2, UnreadIs
  <2> HIDE DEF q
  <2>2. Costless(q)
    BY <1>2, <2>1 DEF Costless
  <2> QED BY <2>1, <2>2
<1> HIDE DEF r, q
<1>5. /\ SameModel(m, m)
      /\ \A e : M(e).c = e /\ SameModel(M(e), m)
  BY OtherCosts DEF SameModel
<1>6. \A e \in {c, i, r, q} : e.use_hbf /\ ~OffloadActive(e)
  BY <1>1, <1>2, <1>3, <1>4 DEF Costless, OffloadActive
<1> HIDE DEF M
<1>7. CASE ~Live(b)
  <2>1. \A e \in {c, i, r, q} : AttentionGen(M(e), "GPU", b) = EmptyStatus
    BY <1>5, <1>6, <1>7, NoneDecodes
  <2>2. AttentionGen(m, "GPU", b) = EmptyStatus
    BY <1>5, <1>6, <1>7, NoneDecodes DEF c
  <2>3. /\ AttentionGen(M(i), "GPU", b).total = 0
        /\ AttentionGen(M(r), "GPU", b).total = 0
        /\ AttentionGen(M(q), "GPU", b).total = 0
        /\ AttentionGen(m, "GPU", b).total = 0
    BY <2>1, <2>2, EmptyCosts
  <2>4. /\ AttentionGen(M(i), "GPU", b).total
             = AttentionGen(M(r), "GPU", b).total
               + AttentionGen(M(q), "GPU", b).total
        /\ AttentionGen(m, "GPU", b).total
             >= AttentionGen(M(q), "GPU", b).total
    BY <2>3
  <2> QED BY <2>4 DEF M, i, r, q, c
<1>8. CASE Live(b)
  <2>1. PICK kind, l, d, u, z, w, v, x :
          /\ KernelArguments(kind, l, d, u, z, w, v, x)
          /\ DecodesWith(m, b, kind, l, d, u, z, w, v, x)
    BY <1>8, GpuDecodes
  <2> DEFINE s(e) == Kernel(kind, e, l, d, w, v, x)
             k(e) == KvWrite(e, u, Len(d), z)
  <2>2. /\ \A e \in {c, i, r, q} :
             AttentionGen(M(e), "GPU", b)
               = WithKvWrite(e, u, d, z, Decode(d, s(e)))
        /\ AttentionGen(m, "GPU", b)
             = WithKvWrite(c, u, d, z, Decode(d, s(c)))
    BY <1>5, <1>6, <2>1 DEF DecodesWith, c
  <2> HIDE DEF c
  <2>3. /\ u \in Layer /\ z \in BOOLEAN /\ Len(d) \in Nat
    BY <2>1, Indices DEF KernelArguments
  <2>4. /\ k(i) = k(c) /\ k(q) = k(c) /\ k(r) = 0 /\ k(c) \in Nat
    <3>1. k(i) = k(c)
      BY <1>2, WritesSame
    <3>2. k(q) = k(i)
      BY <1>4, WritesSame
    <3>3. k(r) = 0
      <4>1. r.num_layers >= r.pp
        BY <1>1, <1>2, <1>3
      <4> QED BY <1>3, <2>3, <4>1, NoWrite
    <3>4. k(c) \in Nat
      BY <1>1, <2>3, KvWriteIs
    <3> HIDE DEF k
    <3> QED BY <3>1, <3>2, <3>3, <3>4
  <2>5. s(r) = s(i)
    BY <1>2, ReadingSame DEF r
  <2>6. Run(s(i)).compute = 0
    BY <1>2, <2>1, IdleKernel, RunIdle
  <2>7. Run(s(q)).total = 0
    BY <1>4, <2>1, FreeKernel, RunFree
  <2>8. \A e \in {c, i, r, q} :
          /\ Run(s(e)).total \in Nat /\ Run(s(e)).compute \in Nat
          /\ Run(s(e)).compute <= Run(s(e)).total
          /\ WithKvWrite(e, u, d, z, Decode(d, s(e))).total
               = Run(s(e)).total + Longer(0, k(e) - Run(s(e)).compute)
    BY <1>1, <1>2, <1>3, <1>4, <1>6, <2>1, DecodingTakes
  <2> DEFINE write == k(c)
             read == Run(s(i)).total
             all == Run(s(c)).total
             hidden == Run(s(c)).compute
             none == Run(s(q)).compute
  <2>9. /\ write \in Nat /\ read \in Nat /\ all \in Nat /\ hidden \in Nat
        /\ hidden <= all /\ none = 0
        /\ AttentionGen(M(i), "GPU", b).total
             = read + Longer(0, write - Run(s(i)).compute)
        /\ AttentionGen(M(r), "GPU", b).total
             = Run(s(r)).total + Longer(0, k(r) - Run(s(r)).compute)
        /\ AttentionGen(M(q), "GPU", b).total
             = Run(s(q)).total + Longer(0, write - none)
        /\ AttentionGen(m, "GPU", b).total = all + Longer(0, write - hidden)
    <3>1. none = 0
      BY <2>7, <2>8
    <3> HIDE DEF s, k
    <3> QED BY <2>2, <2>4, <2>8, <3>1
  <2> HIDE DEF s, k
  <2>10. /\ AttentionGen(M(i), "GPU", b).total = read + Longer(0, write - 0)
         /\ AttentionGen(M(r), "GPU", b).total = read + Longer(0, 0 - 0)
         /\ AttentionGen(M(q), "GPU", b).total = 0 + Longer(0, write - 0)
    BY <2>4, <2>5, <2>6, <2>7, <2>9
  <2> HIDE DEF write, read, all, hidden, none
  <2>11. /\ read + Longer(0, write - 0)
              = read + Longer(0, 0 - 0) + (0 + Longer(0, write - 0))
         /\ all + Longer(0, write - hidden) >= 0 + Longer(0, write - 0)
    BY <2>9 DEF Longer
  <2>12. /\ AttentionGen(M(i), "GPU", b).total
              = AttentionGen(M(r), "GPU", b).total
                + AttentionGen(M(q), "GPU", b).total
         /\ AttentionGen(m, "GPU", b).total
              >= AttentionGen(M(q), "GPU", b).total
    BY <2>9, <2>10, <2>11
  <2> QED BY <2>12 DEF M, i, r, q, c
<1> QED BY <1>7, <1>8

\* Only computation hides a KV write.
THEOREM WritesAreExposed ==
  ASSUME \A m \in Machines : ~m.c.ramulator
  PROVE  Spec => []ReadsThenWrites
<1>1. LawsTypeOK => ReadsThenWrites
  <2> SUFFICES ASSUME LawsTypeOK, machine.c.use_hbf
               PROVE  LET idle == Moving(machine.c)
                          write == Decoding(With(Unread(idle)))
                      IN /\ Decoding(With(idle))
                              = Decoding(With(Unwritten(idle))) + write
                         /\ Decoding(machine) >= write
    BY DEF ReadsThenWrites, Moving, Unwritten, Unread
  <2>1. /\ IsMachine(machine) /\ Fields \subseteq DOMAIN machine
        /\ batch \in Batch /\ ~machine.c.ramulator
    BY Arguments DEF LawsTypeOK
  <2> QED BY <2>1, MovesInTurn DEF Decoding, With
<1> QED BY <1>1, LawsType, PTL
----------------------------------------------------------------------------
(***************************************************************************)
(* Offloading.                                                             *)
(***************************************************************************)

\* The machines differ in how they offload a cache at most.
SameChip(e, c) ==
  /\ e.use_hbf = c.use_hbf /\ e.ramulator = c.ramulator
  /\ e.ram_ticks = c.ram_ticks /\ e.flop_ticks = c.flop_ticks
  /\ e.byte_ticks = c.byte_ticks /\ e.flash_read = c.flash_read
  /\ e.hbm_read = c.hbm_read /\ e.sram_read = c.sram_read
  /\ e.num_hbm_stacks = c.num_hbm_stacks /\ e.mfu_m_half = c.mfu_m_half
  /\ e.softmax_hide = c.softmax_hide

\* What they cost without a stream.
SamePhases(e, c, l, d) ==
  /\ \A y, memory : Phase(e, "GPU", l, d, y, memory)
                      = Phase(c, "GPU", l, d, y, memory)
  /\ \A y : Plain(e, "GPU", l, d, y) = Plain(c, "GPU", l, d, y)
  /\ Softmax(e, "GPU", l, d) = Softmax(c, "GPU", l, d)

LEMMA SameChipCosts ==
  ASSUME NEW e, NEW c, SameChip(e, c), NEW l, NEW d
  PROVE  SamePhases(e, c, l, d)
<1>1. \A precision, flops, m : ComputeTime(e, "GPU", precision, flops, m)
                                 = ComputeTime(c, "GPU", precision, flops, m)
  BY DEF SameChip, ComputeTime, EffectiveMFU
<1>2. \A y, memory : Phase(e, "GPU", l, d, y, memory)
                       = Phase(c, "GPU", l, d, y, memory)
  BY <1>1 DEF Phase
<1>3. /\ Bandwidth(e, "GPU") = Bandwidth(c, "GPU")
      /\ \A ops, precision : Ramulator(e, "GPU", ops, precision)
                               = Ramulator(c, "GPU", ops, precision)
      /\ \A bytes : SoftmaxTime(e, "GPU", bytes) = SoftmaxTime(c, "GPU", bytes)
  BY DEF SameChip, Bandwidth, Ramulator, SoftmaxTime, ActTime
<1>4. \A y : Plain(e, "GPU", l, d, y) = Plain(c, "GPU", l, d, y)
  BY <1>2, <1>3 DEF Plain, SameChip
<1>5. Softmax(e, "GPU", l, d) = Softmax(c, "GPU", l, d)
  BY <1>2, <1>3 DEF Softmax, SameChip
<1> QED BY <1>2, <1>4, <1>5 DEF SamePhases

LEMMA SameChipUnasked ==
  ASSUME NEW e \in SystemConfig, NEW c \in SystemConfig, SameChip(e, c)
  PROVE  SameChip(Unasked(e), Unasked(c))
<1>1. \A x \in {e, c} :
        /\ Unasked(x).use_hbf = x.use_hbf /\ Unasked(x).ramulator = FALSE
        /\ Unasked(x).ram_ticks = x.ram_ticks
        /\ Unasked(x).flop_ticks = x.flop_ticks
        /\ Unasked(x).byte_ticks = x.byte_ticks
        /\ Unasked(x).flash_read = x.flash_read
        /\ Unasked(x).hbm_read = x.hbm_read
        /\ Unasked(x).sram_read = x.sram_read
        /\ Unasked(x).num_hbm_stacks = x.num_hbm_stacks
        /\ Unasked(x).mfu_m_half = x.mfu_m_half
        /\ Unasked(x).softmax_hide = x.softmax_hide
  BY DEF SystemConfig, Unasked
<1> QED BY <1>1 DEF SameChip

\* Both parts of an offloaded cache, over a link as fast as the memory.
LEMMA LinkedRead ==
  ASSUME NEW c \in SystemConfig, c.byte_ticks["GPU"] % 4 = 0,
         c.c2c = c.byte_ticks["GPU"], ~c.c2c_overlapped,
         NEW kv \in Nat, NEW act \in Nat
  PROVE  OffloadRead(c, kv, act) = (kv + act) * c.byte_ticks["GPU"]
<1> DEFINE t == c.byte_ticks["GPU"]
           f == c.f_off
           n == t \div 4
           p == kv * (4 - f)
           q == kv * f
<1>1. t \in Nat /\ f \in 0 .. 4 /\ t % 4 = 0
  BY ConfigFields DEF Processors
<1>2. OffloadRead(c, kv, act) = (p * t) \div 4 + act * t + (q * t) \div 4
  BY DEF OffloadRead
<1> HIDE DEF t, f
<1>3. n \in Nat /\ t = 4 * n
  BY <1>1
<1>4. p \in Nat /\ q \in Nat /\ p + q = 4 * kv
  <2>1. \A i \in {0, 1, 2, 3, 4} :
          kv * (4 - i) \in Nat /\ kv * i \in Nat
          /\ kv * (4 - i) + kv * i = 4 * kv
    OBVIOUS
  <2>2. f \in {0, 1, 2, 3, 4}
    BY <1>1
  <2> QED BY <2>1, <2>2
<1> HIDE DEF n, p, q
<1>5. \A i, j \in Int : i * (4 * j) = 4 * (i * j) /\ i * j \in Int
  BY SMT
<1>6. \A i \in Int : (4 * i) \div 4 = i
  OBVIOUS
<1>7. /\ (p * t) \div 4 = p * n /\ (q * t) \div 4 = q * n
  BY <1>3, <1>4, <1>5, <1>6
<1>8. p * n + act * t + q * n = (kv + act) * t
  <2>1. p * n + q * n = (p + q) * n
    BY <1>3, <1>4, SMT
  <2>2. (4 * kv) * n = kv * t
    BY <1>3, SMT
  <2>3. (kv + act) * t = kv * t + act * t
    BY <1>1, SMT
  <2>4. /\ p * n \in Int /\ q * n \in Int /\ act * t \in Int /\ kv * t \in Int
    BY <1>1, <1>3, <1>4, <1>5
  <2>5. p * n + q * n = kv * t
    BY <1>4, <2>1, <2>2
  <2> HIDE DEF p
  <2> QED BY <2>3, <2>4, <2>5
<1> QED BY <1>2, <1>7, <1>8 DEF t

\* The machines of the law.
Offloading(c) == [c EXCEPT !.use_hbf = FALSE, !.cpu_kv_offload = TRUE,
                           !.c2c_overlapped = FALSE]
Linked(c) == [c EXCEPT !.c2c = c.byte_ticks["GPU"]]
Resident(c) == [c EXCEPT !.cpu_kv_offload = FALSE]
Overlapping(c) == [c EXCEPT !.c2c_overlapped = TRUE]

LEMMA OffloadingIs ==
  ASSUME NEW c \in SystemConfig
  PROVE  /\ Offloading(c) \in SystemConfig
         /\ ~Offloading(c).use_hbf /\ Offloading(c).cpu_kv_offload
         /\ ~Offloading(c).c2c_overlapped
         /\ Offloading(c).byte_ticks = c.byte_ticks
<1>1. Offloading(c) \in SystemConfig
  BY DEF SystemConfig, Offloading
<1> QED BY <1>1 DEF SystemConfig, Offloading

LEMMA OffloadersAre ==
  ASSUME NEW c \in SystemConfig
  PROVE  /\ Linked(c) \in SystemConfig /\ SameChip(Linked(c), c)
         /\ Linked(c).c2c = c.byte_ticks["GPU"]
         /\ Linked(c).c2c_overlapped = c.c2c_overlapped
         /\ Linked(c).cpu_kv_offload = c.cpu_kv_offload
         /\ Resident(c) \in SystemConfig /\ SameChip(Resident(c), c)
         /\ ~Resident(c).cpu_kv_offload
         /\ Overlapping(c) \in SystemConfig /\ SameChip(Overlapping(c), c)
         /\ Overlapping(c).c2c_overlapped
         /\ Overlapping(c).c2c = c.c2c /\ Overlapping(c).f_off = c.f_off
         /\ Overlapping(c).cpu_kv_offload = c.cpu_kv_offload
<1>1. Linked(c) \in SystemConfig
  <2>1. c.byte_ticks["GPU"] \in Nat
    BY ConfigFields DEF Processors
  <2> QED BY <2>1 DEF SystemConfig, Linked
<1>2. Resident(c) \in SystemConfig /\ Overlapping(c) \in SystemConfig
  BY DEF SystemConfig, Resident, Overlapping
<1>3. /\ SameChip(Linked(c), c)
      /\ Linked(c).c2c = c.byte_ticks["GPU"]
      /\ Linked(c).c2c_overlapped = c.c2c_overlapped
      /\ Linked(c).cpu_kv_offload = c.cpu_kv_offload
  BY DEF SystemConfig, Linked, SameChip
<1>4. SameChip(Resident(c), c) /\ ~Resident(c).cpu_kv_offload
  BY DEF SystemConfig, Resident, SameChip
<1>5. /\ SameChip(Overlapping(c), c) /\ Overlapping(c).c2c_overlapped
      /\ Overlapping(c).c2c = c.c2c /\ Overlapping(c).f_off = c.f_off
      /\ Overlapping(c).cpu_kv_offload = c.cpu_kv_offload
  BY DEF SystemConfig, Overlapping, SameChip
<1> QED BY <1>1, <1>2, <1>3, <1>4, <1>5

\* A machine that decodes without flash takes at most as long as another one of
\* the same chip when none of its streams does.
LEMMA DecodesNoDearer ==
  ASSUME NEW m, IsMachine(m), Fields \subseteq DOMAIN m, NEW b \in Batch,
         ~Stops(m),
         NEW e \in SystemConfig, NEW f \in SystemConfig, SameChip(f, e),
         ~e.use_hbf,
         \A l \in Layer, d \in Seq(Entries), y \in Works, k \in {1, 2} :
           Dearer(<<Streamed(e, l, d, y, k)>>, <<Streamed(f, l, d, y, k)>>, 0)
  PROVE  /\ AttentionGen([m EXCEPT !.c = e], "GPU", b).total \in Nat
         /\ AttentionGen([m EXCEPT !.c = e], "GPU", b).total
              <= AttentionGen([m EXCEPT !.c = f], "GPU", b).total
<1> DEFINE M(x) == [m EXCEPT !.c = x]
<1>1. \A x : M(x).c = x /\ SameModel(M(x), m)
  BY OtherCosts
<1> HIDE DEF M
<1>2. CASE ~Live(b)
  <2>1. /\ AttentionGen(M(e), "GPU", b) = EmptyStatus
        /\ AttentionGen(M(f), "GPU", b) = EmptyStatus
    BY <1>1, <1>2, NoneDecodes
  <2> QED BY <2>1, EmptyCosts DEF M
<1>3. CASE Live(b)
  <2>1. PICK kind, l, d, u, z, w, v, x :
          /\ KernelArguments(kind, l, d, u, z, w, v, x)
          /\ DecodesWith(m, b, kind, l, d, u, z, w, v, x)
    BY <1>3, GpuDecodes
  <2> DEFINE s(i) == Kernel(kind, i, l, d, w, v, x)
  <2>2. \A i : AttentionGen(M(i), "GPU", b)
                 = WithKvWrite(i, u, d, z, Decode(d, s(i)))
    BY <1>1, <2>1 DEF DecodesWith
  <2>3. Dearer(s(e), s(f), 0)
    <3>1. /\ l \in Layer /\ d \in Seq(Entries) /\ {w, v, x} \subseteq Works
      BY <2>1 DEF KernelArguments
    <3>2. /\ \A y : Plain(f, "GPU", l, d, y) = Plain(e, "GPU", l, d, y)
          /\ Softmax(f, "GPU", l, d) = Softmax(e, "GPU", l, d)
          /\ Softmax(Unasked(f), "GPU", l, d) = Softmax(Unasked(e), "GPU", l, d)
      <4>1. SameChip(Unasked(f), Unasked(e))
        BY SameChipUnasked
      <4>2. /\ SamePhases(f, e, l, d)
            /\ SamePhases(Unasked(f), Unasked(e), l, d)
        BY <4>1, SameChipCosts
      <4> QED BY <4>2 DEF SamePhases
    <3>3. 0 \in Nat /\ \A k \in {1, 2} : 0 \div k = 0
      OBVIOUS
    <3>4. \A y \in {w, v, x}, k \in {1, 2} :
            Dearer(<<Streamed(e, l, d, y, k)>>, <<Streamed(f, l, d, y, k)>>,
                   0 \div k)
      BY <3>1, <3>3
    <3> QED BY <2>1, <3>2, <3>3, <3>4, KernelDearer
  <2>4. \A i \in {e, f} :
          /\ Run(s(i)).total \in Nat
          /\ WithKvWrite(i, u, d, z, Decode(d, s(i))).total = Run(s(i)).total
    <3>1. \A i \in {e, f} : i \in SystemConfig /\ ~i.use_hbf
      BY DEF SameChip
    <3> QED BY <2>1, <3>1, DecodingTakes
  <2> HIDE DEF s
  <2>5. Run(s(e)).total <= Run(s(f)).total
    <3> DEFINE x1 == Run(s(e)).total
               x2 == Run(s(f)).total
    <3>1. x1 <= x2 + 0 /\ x1 \in Nat /\ x2 \in Nat
      BY <2>3, <2>4 DEF Dearer
    <3> HIDE DEF x1, x2
    <3>2. x1 <= x2
      BY <3>1
    <3> QED BY <3>2 DEF x1, x2
  <2>6. /\ AttentionGen(M(e), "GPU", b).total = Run(s(e)).total
        /\ AttentionGen(M(f), "GPU", b).total = Run(s(f)).total
    BY <2>2, <2>4
  <2> QED BY <2>4, <2>5, <2>6 DEF M
<1> QED BY <1>2, <1>3

\* The streams of the machines of the law.
LEMMA LinkedStreams ==
  ASSUME NEW c \in SystemConfig, ~c.use_hbf, c.cpu_kv_offload,
         ~c.c2c_overlapped, c.byte_ticks["GPU"] % 4 = 0,
         NEW l \in Layer, NEW d \in Seq(Entries), NEW y \in Works,
         NEW k \in {1, 2}
  PROVE  Streamed(Linked(c), l, d, y, k) = Streamed(Resident(c), l, d, y, k)
<1> DEFINE e == Linked(c)
           r == Resident(c)
           kv == y.kv * l.precision
           act == y.act * l.precision
<1>1. /\ e \in SystemConfig /\ r \in SystemConfig
      /\ SameChip(e, c) /\ SameChip(r, c)
      /\ e.c2c = c.byte_ticks["GPU"] /\ ~e.c2c_overlapped
      /\ OffloadActive(e) /\ ~OffloadActive(r)
      /\ ~e.use_hbf /\ ~r.use_hbf /\ (r.ramulator <=> c.ramulator)
      /\ (e.ramulator <=> c.ramulator)
      /\ e.byte_ticks = c.byte_ticks /\ r.byte_ticks = c.byte_ticks
  <2>1. /\ e \in SystemConfig /\ r \in SystemConfig
        /\ SameChip(e, c) /\ SameChip(r, c)
        /\ e.c2c = c.byte_ticks["GPU"] /\ ~e.c2c_overlapped
        /\ e.cpu_kv_offload /\ ~r.cpu_kv_offload
    BY OffloadersAre
  <2> HIDE DEF e, r
  <2> QED BY <2>1 DEF SameChip, OffloadActive
<1> HIDE DEF e, r
<1>2. /\ \A memory : Phase(e, "GPU", l, d, y, memory)
                       = Phase(r, "GPU", l, d, y, memory)
      /\ Plain(e, "GPU", l, d, y) = Plain(r, "GPU", l, d, y)
  <2>1. SamePhases(e, c, l, d) /\ SamePhases(r, c, l, d)
    BY <1>1, SameChipCosts
  <2> QED BY <2>1 DEF SamePhases
<1>3. CASE c.ramulator
  BY <1>1, <1>2, <1>3 DEF Streamed, e, r
<1>4. CASE ~c.ramulator
  <2>1. /\ y.kv \in Nat /\ y.act \in Nat /\ l.precision \in Nat
        /\ kv \in Nat /\ act \in Nat
    BY WorkFields, LayerFields, Product
  <2>2. (y.kv + y.act) * l.precision = kv + act
    BY <2>1, SMT
  <2> HIDE DEF kv, act
  <2>3. OffloadRead(e, kv, act) = (kv + act) * e.byte_ticks["GPU"]
    <3>1. e.byte_ticks["GPU"] % 4 = 0 /\ e.c2c = e.byte_ticks["GPU"]
      BY <1>1
    <3> QED BY <1>1, <2>1, <3>1, LinkedRead
  <2>4. Streamed(e, l, d, y, k)
          = Phase(e, "GPU", l, d, y, OffloadRead(e, kv, act))
    BY <1>1, <1>4 DEF Streamed, kv, act
  <2>5. Streamed(r, l, d, y, k)
          = Phase(r, "GPU", l, d, y, (kv + act) * r.byte_ticks["GPU"])
    BY <1>1, <1>4, <2>2 DEF Streamed, Plain, Bandwidth
  <2>6. Streamed(e, l, d, y, k) = Streamed(r, l, d, y, k)
    BY <1>1, <1>2, <2>3, <2>4, <2>5
  <2> QED BY <2>6 DEF e, r
<1> QED BY <1>3, <1>4

LEMMA OverlappingStreams ==
  ASSUME NEW c \in SystemConfig, ~c.use_hbf, c.cpu_kv_offload,
         ~c.c2c_overlapped,
         NEW l \in Layer, NEW d \in Seq(Entries), NEW y \in Works,
         NEW k \in {1, 2}
  PROVE  Dearer(<<Streamed(Overlapping(c), l, d, y, k)>>,
                <<Streamed(c, l, d, y, k)>>, 0)
<1> DEFINE e == Overlapping(c)
           kv == y.kv * l.precision
           act == y.act * l.precision
           f == Streamed(e, l, d, y, k)
           g == Streamed(c, l, d, y, k)
<1>1. /\ e \in SystemConfig /\ SameChip(e, c) /\ e.c2c_overlapped
      /\ e.c2c = c.c2c /\ e.f_off = c.f_off /\ e.byte_ticks = c.byte_ticks
      /\ OffloadActive(e) /\ OffloadActive(c) /\ ~e.use_hbf
      /\ (e.ramulator <=> c.ramulator)
  <2>1. /\ e \in SystemConfig /\ SameChip(e, c) /\ e.c2c_overlapped
        /\ e.c2c = c.c2c /\ e.f_off = c.f_off
        /\ e.cpu_kv_offload = c.cpu_kv_offload
    BY OffloadersAre
  <2> HIDE DEF e
  <2> QED BY <2>1 DEF SameChip, OffloadActive
<1> HIDE DEF e
<1>2. /\ \A memory : Phase(e, "GPU", l, d, y, memory)
                       = Phase(c, "GPU", l, d, y, memory)
      /\ Plain(e, "GPU", l, d, y) = Plain(c, "GPU", l, d, y)
  <2>1. SamePhases(e, c, l, d)
    BY <1>1, SameChipCosts
  <2> QED BY <2>1 DEF SamePhases
<1>3. f \in Phases /\ g \in Phases
  <2>1. k \in Nat \ {0}
    OBVIOUS
  <2> QED BY <1>1, <2>1, StreamedIs
<1>4. /\ f.compute = g.compute /\ f.hides = g.hides
      /\ f.memory <= g.memory + 0
  <2>1. CASE c.ramulator
    <3>1. f = g
      BY <1>1, <1>2, <2>1 DEF Streamed
    <3> HIDE DEF f, g
    <3> QED BY <1>3, <3>1 DEF Phases
  <2>2. CASE ~c.ramulator
    <3>1. /\ f = Phase(c, "GPU", l, d, y, OffloadRead(e, kv, act))
          /\ g = Phase(c, "GPU", l, d, y, OffloadRead(c, kv, act))
      BY <1>1, <1>2, <2>2 DEF Streamed
    <3>2. /\ f.compute = g.compute /\ f.hides = g.hides
          /\ f.memory = OffloadRead(e, kv, act)
          /\ g.memory = OffloadRead(c, kv, act)
      BY <3>1 DEF Phase
    <3> DEFINE near == (kv * (4 - c.f_off) * c.byte_ticks["GPU"]) \div 4
                       + act * c.byte_ticks["GPU"]
               far == (kv * c.f_off * c.c2c) \div 4
    <3>3. near \in Nat /\ far \in Nat
      <4>1. y.kv \in Nat /\ y.act \in Nat /\ l.precision \in Nat
        BY WorkFields, LayerFields
      <4>2. c.c2c \in Nat /\ c.f_off \in 0 .. 4
        BY DEF SystemConfig
      <4>3. c.f_off \in Nat /\ 4 - c.f_off \in Nat
        BY <4>2
      <4>4. c.byte_ticks["GPU"] \in Nat
        BY ConfigFields DEF Processors
      <4>5. kv \in Nat /\ act \in Nat
        BY <4>1, Product
      <4> HIDE DEF kv, act
      <4>6. /\ kv * (4 - c.f_off) * c.byte_ticks["GPU"] \in Nat
            /\ kv * c.f_off * c.c2c \in Nat
            /\ act * c.byte_ticks["GPU"] \in Nat
        BY <4>2, <4>3, <4>4, <4>5, Product
      <4>7. 4 \in Nat \ {0}
        OBVIOUS
      <4>8. /\ (kv * (4 - c.f_off) * c.byte_ticks["GPU"]) \div 4 \in Nat
            /\ far \in Nat
        BY <4>6, <4>7, Quotient
      <4> HIDE DEF far
      <4>9. near \in Nat
        BY <4>6, <4>8
      <4> QED BY <4>8, <4>9
    <3>4. /\ OffloadRead(e, kv, act) = Longer(near, far)
          /\ OffloadRead(c, kv, act) = near + far
      BY <1>1 DEF OffloadRead
    <3> HIDE DEF near, far, f, g
    <3>5. Longer(near, far) <= near + far + 0
      BY <3>3 DEF Longer
    <3> QED BY <3>2, <3>4, <3>5
  <2> QED BY <2>1, <2>2
<1> HIDE DEF f, g
<1>5. Dearer(<<f>>, <<g>>, 0)
  BY <1>3, <1>4, DearerOne
<1> QED BY <1>5 DEF f, g, e

\* Over a link as fast as the memory offloading costs nothing, and overlapping
\* never costs more.
LEMMA OffloadCosts ==
  ASSUME NEW m, IsMachine(m), Fields \subseteq DOMAIN m, NEW b \in Batch,
         ~Stops(m), m.c.byte_ticks["GPU"] % 4 = 0
  PROVE  LET c == Offloading(m.c)
             time(e) == AttentionGen([m EXCEPT !.c = e], "GPU", b).total
         IN /\ time(Linked(c)) = time(Resident(c))
            /\ time(Overlapping(c)) <= time(c)
<1> DEFINE c == Offloading(m.c)
           M(e) == [m EXCEPT !.c = e]
           time(e) == AttentionGen(M(e), "GPU", b).total
<1>1. /\ c \in SystemConfig /\ ~c.use_hbf /\ c.cpu_kv_offload
      /\ ~c.c2c_overlapped /\ c.byte_ticks["GPU"] % 4 = 0
      /\ m.c \in SystemConfig /\ c.num_layers >= c.pp
  <2>1. m.c \in SystemConfig /\ m.c.num_layers >= m.c.pp
    BY DEF IsMachine
  <2>2. c.num_layers = m.c.num_layers /\ c.pp = m.c.pp
    BY <2>1 DEF SystemConfig, Offloading
  <2> HIDE DEF c
  <2>3. /\ c \in SystemConfig /\ ~c.use_hbf /\ c.cpu_kv_offload
        /\ ~c.c2c_overlapped /\ c.byte_ticks = m.c.byte_ticks
    BY <2>1, OffloadingIs DEF c
  <2> QED BY <2>1, <2>2, <2>3
<1> HIDE DEF c
<1> DEFINE e == Linked(c)
           r == Resident(c)
           o == Overlapping(c)
<1>2. /\ e \in SystemConfig /\ r \in SystemConfig /\ o \in SystemConfig
      /\ SameChip(e, c) /\ SameChip(r, c) /\ SameChip(o, c)
  BY <1>1, OffloadersAre
<1>3. /\ SameChip(e, r) /\ SameChip(r, e) /\ SameChip(c, o)
      /\ ~e.use_hbf /\ ~r.use_hbf /\ ~o.use_hbf
  <2> HIDE DEF e, r, o
  <2> QED BY <1>1, <1>2 DEF SameChip
<1>4. \A l \in Layer, d \in Seq(Entries), y \in Works, k \in {1, 2} :
        /\ Dearer(<<Streamed(e, l, d, y, k)>>, <<Streamed(r, l, d, y, k)>>, 0)
        /\ Dearer(<<Streamed(r, l, d, y, k)>>, <<Streamed(e, l, d, y, k)>>, 0)
        /\ Dearer(<<Streamed(o, l, d, y, k)>>, <<Streamed(c, l, d, y, k)>>, 0)
  <2> SUFFICES ASSUME NEW l \in Layer, NEW d \in Seq(Entries), NEW y \in Works,
                      NEW k \in {1, 2}
               PROVE  /\ Dearer(<<Streamed(e, l, d, y, k)>>,
                                <<Streamed(r, l, d, y, k)>>, 0)
                      /\ Dearer(<<Streamed(r, l, d, y, k)>>,
                                <<Streamed(e, l, d, y, k)>>, 0)
                      /\ Dearer(<<Streamed(o, l, d, y, k)>>,
                                <<Streamed(c, l, d, y, k)>>, 0)
    OBVIOUS
  <2>1. Streamed(e, l, d, y, k) = Streamed(r, l, d, y, k)
    BY <1>1, LinkedStreams
  <2>2. <<Streamed(r, l, d, y, k)>> \in Seq(Phases)
    <3>1. k \in Nat \ {0}
      OBVIOUS
    <3> QED BY <1>2, <3>1, StreamedIs, OnePhase
  <2>3. Dearer(<<Streamed(o, l, d, y, k)>>, <<Streamed(c, l, d, y, k)>>, 0)
    BY <1>1, OverlappingStreams
  <2> QED BY <2>1, <2>2, <2>3, DearerSame
<1> HIDE DEF e, r, o
<1>5. time(e) \in Nat /\ time(e) <= time(r)
  BY <1>2, <1>3, <1>4, DecodesNoDearer
<1>6. time(r) \in Nat /\ time(r) <= time(e)
  BY <1>2, <1>3, <1>4, DecodesNoDearer
<1>7. time(o) <= time(c)
  BY <1>1, <1>2, <1>3, <1>4, DecodesNoDearer
<1> DEFINE x == time(e)
           y == time(r)
<1>8. x \in Nat /\ y \in Nat /\ x <= y /\ y <= x
  BY <1>5, <1>6
<1> HIDE DEF x, y
<1>9. x = y
  BY <1>8
<1> QED BY <1>7, <1>9 DEF x, y, M, e, r, o, c

\* Offloading moves the KV cache and loses none of it.
THEOREM OffloadingConserves ==
  ASSUME \A m \in Machines : m.c.byte_ticks["GPU"] % 4 = 0
  PROVE  Spec => []OffloadConserves
<1>1. LawsTypeOK => OffloadConserves
  <2> SUFFICES ASSUME LawsTypeOK, ~Stops(machine)
               PROVE  LET c == Offloading(machine.c)
                      IN /\ Decoding(With([c EXCEPT
                                             !.c2c = c.byte_ticks["GPU"]]))
                              = Decoding(With(Resident(c)))
                         /\ Decoding(With(Overlapping(c)))
                              <= Decoding(With(c))
    BY DEF OffloadConserves, Stops, Offloading, Resident, Overlapping
  <2>1. /\ IsMachine(machine) /\ Fields \subseteq DOMAIN machine
        /\ batch \in Batch /\ machine.c.byte_ticks["GPU"] % 4 = 0
    BY Arguments DEF LawsTypeOK
  <2> QED BY <2>1, OffloadCosts DEF Decoding, With, Linked
<1> QED BY <1>1, LawsType, PTL
----------------------------------------------------------------------------
(***************************************************************************)
(* The work of a kernel.                                                   *)
(***************************************************************************)

\* The phases s take n flops.
Does(s, n) == s \in Seq(Phases) /\ Run(s).flops = n

\* A kernel of n flops, which returns early when the batch has no token.
Spent(b, n) == IF Tokens(b) = 0 THEN 0 ELSE n

\* The flops of the works f.
Amount(f) == SumFunction([i \in DOMAIN f |-> f[i].flops])

\* Two flops for each new token, position and one of k pairs of components;
\* seven for each new token, position and head.
Products(b, k) ==
  SumFunction([i \in DOMAIN b |-> 2 * b[i].tok * Context(b[i]) * k])
Exponents(b, h) ==
  SumFunction([i \in DOMAIN b |-> 7 * b[i].tok * Context(b[i]) * h])

LEMMA DoesJoined ==
  ASSUME NEW s, NEW n, Does(s, n), NEW t, NEW k, Does(t, k)
  PROVE  Does(s \o t, n + k)
BY RunJoined DEF Does

\* The same flops, phase by phase.
LEMMA DoesAsMuch ==
  ASSUME NEW s, NEW n, Does(s, n), NEW t \in Seq(Phases),
         DOMAIN t = DOMAIN s, \A i \in DOMAIN s : t[i].flops = s[i].flops
  PROVE  Does(t, n)
<1>1. Counts(t) = Counts(s)
  BY DEF Counts
<1> QED BY <1>1, RunAdds DEF Does

LEMMA UnreportedDoes ==
  ASSUME NEW s, NEW n, Does(s, n)
  PROVE  Does(Unreported(s), n)
<1>1. s \in Seq(Phases) /\ Unreported(s) \in Seq(Phases)
  BY UnreportedIs DEF Does
<1>2. \A i \in DOMAIN s : s[i] \in Phases
  BY <1>1, EachPhase
<1>3. /\ DOMAIN Unreported(s) = DOMAIN s
      /\ \A i \in DOMAIN s : Unreported(s)[i].flops = s[i].flops
  BY <1>2 DEF Unreported, Phases
<1> QED BY <1>1, <1>3, DoesAsMuch

LEMMA ComputeOnlyDoes ==
  ASSUME NEW s, NEW n, Does(s, n)
  PROVE  Does(ComputeOnly(s), n)
<1>1. s \in Seq(Phases) /\ ComputeOnly(s) \in Seq(Phases)
  BY ComputeOnlyIs DEF Does
<1>2. \A i \in DOMAIN s : s[i] \in Phases
  BY <1>1, EachPhase
<1>3. /\ DOMAIN ComputeOnly(s) = DOMAIN s
      /\ \A i \in DOMAIN s : ComputeOnly(s)[i].flops = s[i].flops
  BY <1>2 DEF ComputeOnly, Phases
<1> QED BY <1>1, <1>3, DoesAsMuch

\* A phase takes the flops of its work.
LEMMA PhaseDoes ==
  ASSUME NEW c, NEW p, NEW l, NEW b, NEW w
  PROVE  Plain(c, p, l, b, w).flops = w.flops
BY DEF Plain, Phase

LEMMA StreamDoes ==
  ASSUME NEW c, NEW l, NEW b, NEW w, NEW fills
  PROVE  Streamed(c, l, b, w, fills).flops = w.flops
<1>1. \A memory : Phase(c, "GPU", l, b, w, memory).flops = w.flops
  BY DEF Phase
<1>2. \/ Streamed(c, l, b, w, fills) = Plain(c, "GPU", l, b, w)
      \/ \E memory : Streamed(c, l, b, w, fills)
                       = Phase(c, "GPU", l, b, w, memory)
  BY DEF Streamed
<1> QED BY <1>1, <1>2, PhaseDoes

\* The works of a batch, sequence by sequence or together.
LEMMA TogetherDoes ==
  ASSUME NEW b \in Seq(Entries), NEW f \in [DOMAIN b -> Works]
  PROVE  Together(f) \in Works /\ Together(f).flops = Amount(f)
BY TogetherIs DEF Together, Work, Amount

LEMMA ApartDoes ==
  ASSUME NEW c \in SystemConfig, NEW p \in Processors, NEW l \in Layer,
         NEW b \in Seq(Entries), NEW f \in [DOMAIN b -> Works]
  PROVE  Does(Apart(c, p, l, b, f), Amount(f))
<1> DEFINE s == Apart(c, p, l, b, f)
<1>1. s \in Seq(Phases)
  BY ApartIs
<1>2. DOMAIN s = DOMAIN b /\ DOMAIN f = DOMAIN b
  BY DEF Apart
<1>3. \A i \in DOMAIN b : s[i].flops = f[i].flops
  BY PhaseDoes DEF Apart
<1> HIDE DEF s
<1>4. Counts(s) = [i \in DOMAIN f |-> f[i].flops]
  BY <1>2, <1>3 DEF Counts
<1> QED BY <1>1, <1>4, RunAdds DEF Does, Amount, s

LEMMA PlainDoes ==
  ASSUME NEW c \in SystemConfig, NEW p \in Processors, NEW l \in Layer,
         NEW b \in Seq(Entries), NEW f \in [DOMAIN b -> Works]
  PROVE  Does(<<Plain(c, p, l, b, Together(f))>>, Amount(f))
<1> DEFINE x == Plain(c, p, l, b, Together(f))
<1>1. x \in Phases /\ x.flops = Amount(f)
  BY TogetherDoes, PlainIs, PhaseDoes
<1> HIDE DEF x
<1> QED BY <1>1, OnePhase, RunOne DEF Does, x

LEMMA StreamedDoes ==
  ASSUME NEW c \in SystemConfig, NEW l \in Layer, NEW b \in Seq(Entries),
         NEW f \in [DOMAIN b -> Works], NEW fills \in Nat \ {0}
  PROVE  Does(<<Streamed(c, l, b, Together(f), fills)>>, Amount(f))
<1> DEFINE x == Streamed(c, l, b, Together(f), fills)
<1>1. x \in Phases
  BY TogetherDoes, StreamedIs
<1>2. Streamed(c, l, b, Together(f), fills).flops = Together(f).flops
  BY StreamDoes
<1> HIDE DEF x
<1> QED BY <1>1, <1>2, TogetherDoes, OnePhase, RunOne DEF Does, x

\* The softmax, on any processor and whatever moves.
LEMMA SoftmaxDoes ==
  ASSUME NEW c \in SystemConfig, NEW p \in Processors, NEW l \in Layer,
         NEW b \in Seq(Entries)
  PROVE  /\ Does(Softmax(c, p, l, b), Exponents(b, l.num_heads))
         /\ Does(GqaNearSoftmax(c, p, l, b), Exponents(b, l.num_heads))
<1>1. ASSUME NEW k \in Layer, k.num_heads = l.num_heads
      PROVE  Does(Softmax(c, p, k, b), Exponents(b, l.num_heads))
  <2> DEFINE s == Softmax(c, p, k, b)
  <2>1. s \in Seq(Phases) /\ DOMAIN s = DOMAIN b
    BY SoftmaxIs DEF Softmax
  <2>2. ASSUME NEW i \in DOMAIN b
        PROVE  s[i].flops = 7 * b[i].tok * Context(b[i]) * l.num_heads
    <3>1. SoftmaxWork(k, b[i]).flops
            = 7 * b[i].tok * Context(b[i]) * l.num_heads
      BY <1>1 DEF SoftmaxWork, Work
    <3> QED BY <3>1 DEF Softmax, Phase
  <2> HIDE DEF s
  <2>3. Counts(s) = [i \in DOMAIN b |->
                       7 * b[i].tok * Context(b[i]) * l.num_heads]
    BY <2>1, <2>2 DEF Counts
  <2> QED BY <2>1, <2>3, RunAdds DEF Does, Exponents, s
<1>2. Does(GqaNearSoftmax(c, p, l, b), Exponents(b, l.num_heads))
  <2> DEFINE k == [l EXCEPT !.use_flash_attention = TRUE]
  <2>1. k \in Layer /\ k.num_heads = l.num_heads
    BY QuietLayer DEF Layer
  <2> HIDE DEF k
  <2>2. Does(Softmax(c, p, k, b), Exponents(b, l.num_heads))
    BY <1>1, <2>1
  <2> QED BY <2>2, ComputeOnlyDoes DEF GqaNearSoftmax, k
<1> QED BY <1>1, <1>2

\* Works with the flops of k pairs of components.
LEMMA ProductsOf ==
  ASSUME NEW b, NEW f, DOMAIN f = DOMAIN b, NEW k,
         \A i \in DOMAIN b : f[i].flops = 2 * b[i].tok * Context(b[i]) * k
  PROVE  Amount(f) = Products(b, k)
<1>1. [i \in DOMAIN f |-> f[i].flops]
        = [i \in DOMAIN b |-> 2 * b[i].tok * Context(b[i]) * k]
  OBVIOUS
<1> QED BY <1>1 DEF Amount, Products

\* What surrounds the phases of a kernel takes no flops.
LEMMA DecodeSpends ==
  ASSUME NEW b, NEW s, NEW n, Does(s, n)
  PROVE  /\ Decode(b, s) \in Statuses
         /\ Decode(b, s).flops = Spent(b, n)
<1>1. Run(s) \in Statuses /\ Run(s).flops = n
  BY RunIs DEF Does
<1> QED BY <1>1, EmptyCosts DEF Decode, Spent, Statuses, EmptyStatus

LEMMA WriteSpends ==
  ASSUME NEW c, NEW l, NEW d, NEW z, NEW b, NEW s, NEW n, Does(s, n)
  PROVE  WithKvWrite(c, l, d, z, Decode(b, s)).flops = Spent(b, n)
<1> DEFINE status == Decode(b, s)
<1>1. status \in Statuses /\ status.flops = Spent(b, n)
  BY DecodeSpends
<1> HIDE DEF status
<1>2. WithKvWrite(c, l, d, z, status).flops = status.flops
  BY <1>1 DEF WithKvWrite, Statuses
<1> QED BY <1>1, <1>2 DEF status

LEMMA PrefillSpends ==
  ASSUME NEW b, NEW s, NEW n, Does(s, n)
  PROVE  /\ Prefill(b, s).flops = Spent(b, n)
         /\ Unaccounted(Prefill(b, s)).flops = Spent(b, n)
<1>1. Run(s) \in Statuses /\ Run(s).flops = n
  BY RunIs DEF Does
<1>2. Prefill(b, s) \in Statuses /\ Prefill(b, s).flops = Spent(b, n)
  BY <1>1, EmptyCosts DEF Prefill, Spent, EmptyStatus
<1> QED BY <1>2 DEF Unaccounted, Statuses

\* No kernel stops where nothing is offloaded.
LEMMA NoneStops ==
  ASSUME NEW c, ~OffloadActive(c), NEW b, NEW status
  PROVE  NoOffload(c, b, status) = status
BY DEF NoOffload
----------------------------------------------------------------------------
\* Grouped-query attention: scoring and context take as much.
GqaFlops(l, b) ==
  LET n == Products(b, l.head_dim * l.num_heads)
  IN n + Exponents(b, l.num_heads) + n

\* Factors in another order.
LEMMA Factors ==
  ASSUME NEW t \in Int, NEW n \in Int, NEW d \in Int, NEW g \in Int,
         NEW k \in Int, NEW h \in Int
  PROVE  /\ 2 * t * d * n * h = 2 * t * n * (d * h)
         /\ 2 * (t * d * h) * n = 2 * t * n * (d * h)
         /\ 2 * (t * n * d) * h = 2 * t * n * (d * h)
         /\ 2 * t * n * d * h = 2 * t * n * (d * h)
         /\ g * k = h => 2 * t * d * n * g * k = 2 * t * n * (d * h)
<1>1. /\ 2 * t * d * n * h = 2 * t * n * (d * h)
      /\ 2 * (t * d * h) * n = 2 * t * n * (d * h)
      /\ 2 * (t * n * d) * h = 2 * t * n * (d * h)
      /\ 2 * t * n * d * h = 2 * t * n * (d * h)
  OBVIOUS
<1>2. 2 * t * d * n * g * k = 2 * t * n * (d * (g * k))
  OBVIOUS
<1> QED BY <1>1, <1>2

LEMMA GqaFactors ==
  ASSUME NEW l \in Layer, NEW s \in Entries
  PROVE  LET n == 2 * s.tok * Context(s) * (l.head_dim * l.num_heads)
         IN /\ l.group * l.num_kv_heads = l.num_heads =>
                 GqaWork(l, s).flops = n /\ GqaNearWork(l, s).flops = n
            /\ GqaSumScoreWork(l, s).flops = n
            /\ GqaSumContextWork(l, s).flops = n
            /\ GqaNearScoreWork(l, s).flops = n
            /\ \A c \in SystemConfig :
                 Fits(c, l, s) => GqaNearContextWork(c, l, s).flops = n
<1> DEFINE t == s.tok
           x == Context(s)
           d == l.head_dim
           h == l.num_heads
           g == l.group
           k == l.num_kv_heads
           n == 2 * t * x * (d * h)
<1>1. t \in Nat /\ x \in Nat /\ d \in Nat /\ h \in Nat /\ g \in Nat /\ k \in Nat
  BY ScoresIs, LayerFields
<1>2. /\ GqaWork(l, s).flops = 2 * t * d * x * g * k
      /\ GqaNearWork(l, s).flops = GqaWork(l, s).flops
  BY DEF GqaWork, GqaNearWork, Work
<1>3. /\ GqaSumScoreWork(l, s).flops = 2 * t * d * x * h
      /\ GqaSumContextWork(l, s).flops = GqaSumScoreWork(l, s).flops
      /\ GqaNearScoreWork(l, s).flops = 2 * (t * d * h) * x
  BY DEF GqaSumScoreWork, GqaSumContextWork, GqaNearScoreWork, GqaWork, Issued,
         Work
<1>4. ASSUME NEW c \in SystemConfig, Fits(c, l, s)
      PROVE  GqaNearContextWork(c, l, s).flops = 2 * (t * x * d) * h
  <2>1. GqaNearContextWork(c, l, s).flops = 2 * Int32(c, t * x * d) * h
    BY DEF GqaNearContextWork, Work
  <2>2. t * x * d \in Nat /\ t * x * d < c.int_limit
    BY <1>1, <1>4, Product DEF Fits
  <2> QED BY <2>1, <2>2, Int32Is
<1> HIDE DEF t, x, d, h, g, k
<1>5. /\ 2 * t * d * x * h = n /\ 2 * (t * d * h) * x = n
      /\ 2 * (t * x * d) * h = n
      /\ g * k = h => 2 * t * d * x * g * k = n
  BY <1>1, Factors
<1> HIDE DEF n
<1>6. /\ g * k = h => GqaWork(l, s).flops = n /\ GqaNearWork(l, s).flops = n
      /\ GqaSumScoreWork(l, s).flops = n
      /\ GqaSumContextWork(l, s).flops = n
      /\ GqaNearScoreWork(l, s).flops = n
      /\ \A c \in SystemConfig :
           Fits(c, l, s) => GqaNearContextWork(c, l, s).flops = n
  BY <1>2, <1>3, <1>4, <1>5
<1> QED BY <1>6 DEF n, t, x, d, h, g, k

\* Three phases.
LEMMA DoesThree ==
  ASSUME NEW s, NEW n, Does(s, n), NEW t, NEW k, Does(t, k),
         NEW u, NEW m, Does(u, m)
  PROVE  Does(s \o t \o u, n + k + m)
<1>1. Does(s \o t, n + k)
  BY DoesJoined
<1> QED BY <1>1, DoesJoined

\* A layer reads all of sequences that the window holds.
LEMMA WholeReach ==
  ASSUME NEW l \in Layer, NEW b \in Batch,
         \A i \in DOMAIN b : Context(b[i]) <= l.window
  PROVE  Reached(l, b) = b
<1>1. b = [i \in DOMAIN b |-> b[i]]
  BY LenProperties DEF Batch
<1>2. ASSUME NEW i \in DOMAIN b
      PROVE  [b[i] EXCEPT !.cur = Reach(l, b[i]) - b[i].tok] = b[i]
  <2>1. b[i] \in [cur : Nat, tok : Nat]
    BY <1>2, LenProperties, ElementOfSeq DEF Batch
  <2>2. Reach(l, b[i]) = b[i].cur + b[i].tok
    BY <2>1 DEF Reach, Least, Context
  <2>3. Reach(l, b[i]) - b[i].tok = b[i].cur
    BY <2>1, <2>2
  <2> QED BY <2>1, <2>3
<1> QED BY <1>1, <1>2 DEF Reached

LEMMA GqaGenSpends ==
  ASSUME NEW c \in SystemConfig, ~OffloadActive(c), NEW l \in Layer,
         l.group * l.num_kv_heads = l.num_heads, NEW b \in Batch
  PROVE  /\ AttentionGenExecutionPIM(c, l, b).flops
              = Spent(b, GqaFlops(l, b))
         /\ (\A i \in DOMAIN b : Context(b[i]) <= l.window) =>
              AttentionGenExecutionGPU(c, l, b).flops
                = Spent(b, GqaFlops(l, b))
<1> DEFINE k == l.head_dim * l.num_heads
           f == [i \in DOMAIN b |-> GqaWork(l, b[i])]
           g == [i \in DOMAIN b |-> GqaNearWork(l, b[i])]
<1>1. b \in Seq(Entries) /\ {"GPU", "PIM"} \subseteq Processors
  BY BatchIs DEF Processors
<1>2. /\ f \in [DOMAIN b -> Works] /\ g \in [DOMAIN b -> Works]
      /\ \A i \in DOMAIN b :
           /\ f[i].flops = 2 * b[i].tok * Context(b[i]) * k
           /\ g[i].flops = 2 * b[i].tok * Context(b[i]) * k
  BY <1>1, EntriesOf, GqaWorkIs, GqaNearWorkIs, GqaFactors DEF WorkOf
<1>3. /\ Total(b, LAMBDA s : GqaWork(l, s)) = Together(f)
      /\ Total(b, LAMBDA s : GqaNearWork(l, s)) = Together(g)
  BY DEF Total, SumOver, Together
<1> DEFINE n == Products(b, k)
           e == Exponents(b, l.num_heads)
<1>4. Amount(f) = n /\ Amount(g) = n
  <2> HIDE DEF f, g, k
  <2> QED BY <1>2, ProductsOf
<1>5. GqaFlops(l, b) = n + e + n
  BY DEF GqaFlops
<1> HIDE DEF f, g, k, n, e
<1>6. AttentionGenExecutionPIM(c, l, b).flops = Spent(b, n + e + n)
  <2> DEFINE one == <<GqaGenNear(c, "PIM", l, b)>>
             two == GqaGenSoftmaxPIM(c, l, b)
  <2>1. Does(one, n)
    BY <1>1, <1>2, <1>3, <1>4, PlainDoes DEF GqaGenNear
  <2>2. Does(two, e)
    <3> DEFINE q == [l EXCEPT !.use_flash_attention = TRUE]
    <3>1. q \in Layer /\ q.num_heads = l.num_heads
      BY QuietLayer DEF Layer
    <3> HIDE DEF q
    <3>2. Does(Softmax(c, "PIM", q, b), Exponents(b, q.num_heads))
      BY <1>1, <3>1, SoftmaxDoes
    <3> QED BY <3>1, <3>2 DEF GqaGenSoftmaxPIM, q, e
  <2>3. AttentionGenExecutionPIM(c, l, b) = Decode(b, one \o two \o one)
    BY DEF AttentionGenExecutionPIM
  <2> HIDE DEF one, two
  <2>4. Does(one \o two \o one, n + e + n)
    BY <2>1, <2>2, DoesThree
  <2> QED BY <2>3, <2>4, DecodeSpends
<1>7. ASSUME \A i \in DOMAIN b : Context(b[i]) <= l.window
      PROVE  AttentionGenExecutionGPU(c, l, b).flops = Spent(b, n + e + n)
  <2> DEFINE one == <<Streamed(c, l, b, Total(b, LAMBDA s : GqaWork(l, s)), 2)>>
             two == Softmax(Unasked(c), "GPU", l, b)
             q == [l EXCEPT !.rope = 0]
             z == FALSE
  <2>1. Does(one, n)
    <3>1. Does(<<Streamed(c, l, b, Together(f), 2)>>, Amount(f))
      BY <1>1, <1>2, StreamedDoes
    <3> QED BY <1>3, <1>4, <3>1
  <2>2. Does(two, e)
    <3>1. Unasked(c) \in SystemConfig
      BY DEF SystemConfig, Unasked
    <3> QED BY <1>1, <3>1, SoftmaxDoes DEF e
  <2>3. Reached(l, b) = b
    BY <1>7, WholeReach
  <2>4. AttentionGenExecutionGPU(c, l, b)
          = WithKvWrite(c, q, b, z, Decode(b, one \o two \o one))
    BY <2>3 DEF AttentionGenExecutionGPU, GqaGenScoreGPU, GqaGenContextGPU,
       GqaGenSoftmaxGPU, Unasked
  <2> HIDE DEF one, two, q, z
  <2>5. Does(one \o two \o one, n + e + n)
    BY <2>1, <2>2, DoesThree
  <2> QED BY <2>4, <2>5, WriteSpends
<1> QED BY <1>5, <1>6, <1>7

\* The phases of a prefill kernel.
LEMMA GatheredDoes ==
  ASSUME NEW c \in SystemConfig, NEW l \in Layer, NEW b \in Seq(Entries),
         NEW f \in [DOMAIN b -> Works], NEW phases,
         \/ phases = <<Streamed(c, l, b, Together(f), 1)>>
         \/ phases = <<Streamed(c, l, b, Together(f), 2)>>
         \/ phases = Apart(c, "GPU", l, b, f)
  PROVE  Does(phases, Amount(f))
<1>1. Does(Apart(c, "GPU", l, b, f), Amount(f))
  BY ApartDoes DEF Processors
<1>2. /\ Does(<<Streamed(c, l, b, Together(f), 1)>>, Amount(f))
      /\ Does(<<Streamed(c, l, b, Together(f), 2)>>, Amount(f))
  BY StreamedDoes
<1> QED BY <1>1, <1>2

LEMMA GqaSumSpends ==
  ASSUME NEW c \in SystemConfig, ~OffloadActive(c), NEW l \in Layer,
         NEW b \in Batch,
         \A i \in DOMAIN b : Context(b[i]) <= l.window,
         \A i \in DOMAIN b : Fits(c, l, b[i])
  PROVE  /\ AttentionSumExecutionGPU(c, l, b).flops
              = Spent(b, GqaFlops(l, b))
         /\ AttentionSumExecutionLogic(c, l, b).flops
              = Spent(b, GqaFlops(l, b))
         /\ AttentionSumExecutionPIM(c, l, b).flops
              = Spent(b, GqaFlops(l, b))
<1> DEFINE k == l.head_dim * l.num_heads
           n == Products(b, k)
           e == Exponents(b, l.num_heads)
<1>1. b \in Seq(Entries) /\ {"GPU", "LOGIC", "PIM"} \subseteq Processors
  BY BatchIs DEF Processors
<1>2. \A i \in DOMAIN b : b[i] \in Entries
  BY <1>1, EntriesOf
<1>3. GqaFlops(l, b) = n + e + n
  BY DEF GqaFlops
<1> HIDE DEF k, n, e
<1>4. AttentionSumExecutionGPU(c, l, b).flops = Spent(b, n + e + n)
  <2> DEFINE f == [i \in DOMAIN b |-> GqaSumScoreWork(l, b[i])]
             g == [i \in DOMAIN b |-> GqaSumContextWork(l, b[i])]
             one == GqaSumScoreGPU(c, l, b)
             two == GqaSumSoftmaxGPU(c, l, b)
             three == GqaSumContextGPU(c, l, b)
             phases == one \o two \o three
  <2>1. Reached(l, b) = b
    BY WholeReach
  <2>2. AttentionSumExecutionGPU(c, l, b)
          = NoOffload(c, b, Unaccounted(Prefill(b, phases)))
    BY <2>1 DEF AttentionSumExecutionGPU
  <2>3. \/ one = <<Streamed(c, l, b, Together(f), 2)>>
        \/ one = Apart(c, "GPU", l, b, f)
    BY DEF GqaSumScoreGPU, Gathered, Each, Total, SumOver, Together, Apart
  <2>4. \/ three = <<Streamed(c, l, b, Together(g), 2)>>
        \/ three = Apart(c, "GPU", l, b, g)
    BY DEF GqaSumContextGPU, Gathered, Each, Total, SumOver, Together, Apart
  <2>5. /\ f \in [DOMAIN b -> Works] /\ g \in [DOMAIN b -> Works]
        /\ \A i \in DOMAIN b :
             /\ f[i].flops = 2 * b[i].tok * Context(b[i]) * k
             /\ g[i].flops = 2 * b[i].tok * Context(b[i]) * k
    BY <1>2, GqaSumWorkIs, GqaFactors DEF WorkOf, k
  <2> HIDE DEF f, g, one, two, three
  <2>6. Amount(f) = n /\ Amount(g) = n
    BY <2>5, ProductsOf DEF n
  <2>7. Does(one, n) /\ Does(three, n)
    BY <1>1, <2>3, <2>4, <2>5, <2>6, GatheredDoes
  <2>8. Does(two, e)
    <3>1. Unasked(c) \in SystemConfig
      BY DEF SystemConfig, Unasked
    <3>2. two = Softmax(Unasked(c), "GPU", l, b)
      BY DEF GqaSumSoftmaxGPU, Unasked, two
    <3> QED BY <1>1, <3>1, <3>2, SoftmaxDoes DEF e
  <2>9. Does(phases, n + e + n)
    BY <2>7, <2>8, DoesThree
  <2> HIDE DEF phases
  <2> QED BY <2>2, <2>9, PrefillSpends, NoneStops
<1>5. ASSUME NEW p \in Processors,
             NEW f \in [DOMAIN b -> Works], NEW g \in [DOMAIN b -> Works],
             \A i \in DOMAIN b :
               /\ f[i].flops = 2 * b[i].tok * Context(b[i]) * k
               /\ g[i].flops = 2 * b[i].tok * Context(b[i]) * k
      PROVE  Unaccounted(Prefill(b, Apart(c, p, l, b, f)
                                    \o GqaNearSoftmax(c, p, l, b)
                                    \o Apart(c, p, l, b, g))).flops
               = Spent(b, n + e + n)
  <2> DEFINE one == Apart(c, p, l, b, f)
             two == GqaNearSoftmax(c, p, l, b)
             three == Apart(c, p, l, b, g)
  <2>1. Amount(f) = n /\ Amount(g) = n
    BY <1>5, ProductsOf DEF n
  <2>2. Does(one, n) /\ Does(two, e) /\ Does(three, n)
    BY <1>1, <2>1, ApartDoes, SoftmaxDoes DEF e
  <2> HIDE DEF one, two, three
  <2>3. Does(one \o two \o three, n + e + n)
    BY <2>2, DoesThree
  <2>4. Unaccounted(Prefill(b, one \o two \o three)).flops
          = Spent(b, n + e + n)
    BY <2>3, PrefillSpends
  <2> QED BY <2>4 DEF one, two, three
<1>6. ASSUME NEW i \in DOMAIN b
      PROVE  LET v == GqaNearScoreWork(l, b[i])
                 w == GqaNearContextWork(c, l, b[i])
                 m == 2 * b[i].tok * Context(b[i]) * k
             IN /\ v \in Works /\ v.flops = m
                /\ w \in Works /\ w.flops = m
                /\ Issued(v, b[i].tok * l.columns) \in Works
                /\ Issued(v, b[i].tok * l.columns).flops = m
                /\ Issued(w, Context(b[i]) * l.columns) \in Works
                /\ Issued(w, Context(b[i]) * l.columns).flops = m
  <2> DEFINE v == GqaNearScoreWork(l, b[i])
             w == GqaNearContextWork(c, l, b[i])
             m == 2 * b[i].tok * Context(b[i]) * k
  <2>1. v \in Works /\ w \in Works
    BY <1>2, GqaNearScoreIs, GqaNearContextIs DEF WorkOf
  <2>2. v.flops = m /\ w.flops = m
    BY <1>2, GqaFactors DEF k
  <2>3. b[i].tok * l.columns \in Nat /\ Context(b[i]) * l.columns \in Nat
    BY <1>2, ScoresIs, LayerFields, Product
  <2> HIDE DEF v, w, m
  <2>4. \A x \in Works, ops \in Nat : /\ Issued(x, ops) \in Works
                                      /\ Issued(x, ops).flops = x.flops
    BY DEF Issued, Works
  <2>5. /\ Issued(v, b[i].tok * l.columns) \in Works
        /\ Issued(v, b[i].tok * l.columns).flops = m
        /\ Issued(w, Context(b[i]) * l.columns) \in Works
        /\ Issued(w, Context(b[i]) * l.columns).flops = m
    BY <2>1, <2>2, <2>3, <2>4
  <2> QED BY <2>1, <2>2, <2>5 DEF v, w, m
<1>7. AttentionSumExecutionLogic(c, l, b).flops = Spent(b, n + e + n)
  <2> DEFINE f == [i \in DOMAIN b |-> GqaNearScoreWork(l, b[i])]
             g == [i \in DOMAIN b |-> GqaNearContextWork(c, l, b[i])]
  <2>1. AttentionSumExecutionLogic(c, l, b)
          = Unaccounted(Prefill(b, Apart(c, "LOGIC", l, b, f)
                                   \o GqaNearSoftmax(c, "LOGIC", l, b)
                                   \o Apart(c, "LOGIC", l, b, g)))
    BY DEF AttentionSumExecutionLogic, Each, Apart
  <2>2. /\ f \in [DOMAIN b -> Works] /\ g \in [DOMAIN b -> Works]
        /\ \A i \in DOMAIN b :
             /\ f[i].flops = 2 * b[i].tok * Context(b[i]) * k
             /\ g[i].flops = 2 * b[i].tok * Context(b[i]) * k
    BY <1>6
  <2> HIDE DEF f, g
  <2> QED BY <1>1, <1>5, <2>1, <2>2
<1>8. AttentionSumExecutionPIM(c, l, b).flops = Spent(b, n + e + n)
  <2> DEFINE v(s) == Issued(GqaNearScoreWork(l, s), s.tok * l.columns)
             w(s) == Issued(GqaNearContextWork(c, l, s),
                            Context(s) * l.columns)
             f == [i \in DOMAIN b |-> v(b[i])]
             g == [i \in DOMAIN b |-> w(b[i])]
  <2>1. AttentionSumExecutionPIM(c, l, b)
          = Unaccounted(Prefill(b, Apart(c, "PIM", l, b, f)
                                   \o GqaNearSoftmax(c, "PIM", l, b)
                                   \o Apart(c, "PIM", l, b, g)))
    BY DEF AttentionSumExecutionPIM, Each, Apart
  <2>2. /\ f \in [DOMAIN b -> Works] /\ g \in [DOMAIN b -> Works]
        /\ \A i \in DOMAIN b :
             /\ f[i].flops = 2 * b[i].tok * Context(b[i]) * k
             /\ g[i].flops = 2 * b[i].tok * Context(b[i]) * k
    BY <1>6
  <2> HIDE DEF f, g
  <2> QED BY <1>1, <1>5, <2>1, <2>2
<1> QED BY <1>3, <1>4, <1>7, <1>8
----------------------------------------------------------------------------
\* Latent attention on expanded heads.
MlaFused(l, b) == [i \in DOMAIN b |-> MlaFusedWork(l, b[i])]
MlaFlops(l, b) ==
  Products(b, (l.head_dim + l.rope) * l.num_heads)
  + Exponents(b, l.num_heads) + Products(b, l.head_dim * l.num_heads)

LEMMA MlaFactors ==
  ASSUME NEW l \in Layer, NEW s \in Entries
  PROVE  LET n == 2 * s.tok * Context(s)
                  * ((l.head_dim + l.rope) * l.num_heads)
             m == 2 * s.tok * Context(s) * (l.head_dim * l.num_heads)
         IN /\ MlaScoreWork(l, s).flops = n /\ MlaContextWork(l, s).flops = m
            /\ MlaSumScoreWork(l, s).flops = n
            /\ MlaSumContextWork(l, s).flops = m
<1> DEFINE t == s.tok
           x == Context(s)
           d == l.head_dim
           k == l.head_dim + l.rope
           h == l.num_heads
           n == 2 * t * x * (k * h)
           m == 2 * t * x * (d * h)
<1>1. t \in Nat /\ x \in Nat /\ d \in Nat /\ k \in Nat /\ h \in Nat
  BY ScoresIs, LayerFields
<1>2. /\ MlaScoreWork(l, s).flops = 2 * t * k * x * h
      /\ MlaContextWork(l, s).flops = 2 * t * x * d * h
  BY DEF MlaScoreWork, MlaContextWork, Work
<1>3. /\ MlaScoreWork(l, s) \in Works /\ MlaContextWork(l, s) \in Works
  BY MlaScoreWorkIs, MlaContextWorkIs DEF WorkOf
<1>4. /\ MlaSumScoreWork(l, s).flops = MlaScoreWork(l, s).flops
      /\ MlaSumContextWork(l, s).flops = MlaContextWork(l, s).flops
  BY <1>3 DEF MlaSumScoreWork, MlaSumContextWork, Issued, Works
<1> HIDE DEF t, x, d, k, h
<1>5. 2 * t * k * x * h = n /\ 2 * t * x * d * h = m
  BY <1>1, Factors
<1> QED BY <1>2, <1>4, <1>5 DEF n, m, t, x, d, k, h

\* The works of latent attention, and their flops.
LEMMA MlaWorks ==
  ASSUME NEW l \in Layer, NEW b \in Seq(Entries)
  PROVE  LET v == [i \in DOMAIN b |-> MlaScoreWork(l, b[i])]
             w == [i \in DOMAIN b |-> MlaContextWork(l, b[i])]
             f == [i \in DOMAIN b |-> MlaSumScoreWork(l, b[i])]
             g == [i \in DOMAIN b |-> MlaSumContextWork(l, b[i])]
             n == Products(b, (l.head_dim + l.rope) * l.num_heads)
             m == Products(b, l.head_dim * l.num_heads)
         IN /\ MlaFused(l, b) \in [DOMAIN b -> Works]
            /\ v \in [DOMAIN b -> Works] /\ Amount(v) = n
            /\ w \in [DOMAIN b -> Works] /\ Amount(w) = m
            /\ f \in [DOMAIN b -> Works] /\ Amount(f) = n
            /\ g \in [DOMAIN b -> Works] /\ Amount(g) = m
<1> DEFINE v == [i \in DOMAIN b |-> MlaScoreWork(l, b[i])]
           w == [i \in DOMAIN b |-> MlaContextWork(l, b[i])]
           f == [i \in DOMAIN b |-> MlaSumScoreWork(l, b[i])]
           g == [i \in DOMAIN b |-> MlaSumContextWork(l, b[i])]
           k == (l.head_dim + l.rope) * l.num_heads
           j == l.head_dim * l.num_heads
<1>1. \A i \in DOMAIN b : b[i] \in Entries
  BY EntriesOf
<1>2. /\ MlaFused(l, b) \in [DOMAIN b -> Works]
      /\ v \in [DOMAIN b -> Works] /\ w \in [DOMAIN b -> Works]
      /\ f \in [DOMAIN b -> Works] /\ g \in [DOMAIN b -> Works]
  BY <1>1, MlaFusedWorkIs, MlaScoreWorkIs, MlaContextWorkIs, MlaSumWorkIs
  DEF MlaFused, WorkOf
<1>3. \A i \in DOMAIN b :
        /\ v[i].flops = 2 * b[i].tok * Context(b[i]) * k
        /\ w[i].flops = 2 * b[i].tok * Context(b[i]) * j
        /\ f[i].flops = 2 * b[i].tok * Context(b[i]) * k
        /\ g[i].flops = 2 * b[i].tok * Context(b[i]) * j
  BY <1>1, MlaFactors
<1> HIDE DEF v, w, f, g, k, j
<1>4. /\ Amount(v) = Products(b, k) /\ Amount(w) = Products(b, j)
      /\ Amount(f) = Products(b, k) /\ Amount(g) = Products(b, j)
  BY <1>2, <1>3, ProductsOf
<1> QED BY <1>2, <1>4 DEF v, w, f, g, k, j

LEMMA MlaGenSpends ==
  ASSUME NEW c \in SystemConfig, ~OffloadActive(c), NEW l \in Layer,
         NEW b \in Batch
  PROVE  LET n == Spent(b, IF l.use_flash_mla THEN Amount(MlaFused(l, b))
                           ELSE MlaFlops(l, b))
         IN /\ MultiLatentAttentionGenExecutionGPU(c, l, b).flops = n
            /\ MultiLatentAttentionGenExecutionLogic(c, l, b).flops = n
            /\ MultiLatentAttentionGenExecutionPIM(c, l, b).flops = n
<1> DEFINE v == [i \in DOMAIN b |-> MlaScoreWork(l, b[i])]
           w == [i \in DOMAIN b |-> MlaContextWork(l, b[i])]
           u == MlaFused(l, b)
           n == Products(b, (l.head_dim + l.rope) * l.num_heads)
           m == Products(b, l.head_dim * l.num_heads)
           e == Exponents(b, l.num_heads)
           all == IF l.use_flash_mla THEN Amount(u) ELSE n + e + m
<1>1. b \in Seq(Entries) /\ {"GPU", "LOGIC", "PIM"} \subseteq Processors
  BY BatchIs DEF Processors
<1>2. /\ u \in [DOMAIN b -> Works]
      /\ v \in [DOMAIN b -> Works] /\ Amount(v) = n
      /\ w \in [DOMAIN b -> Works] /\ Amount(w) = m
  BY <1>1, MlaWorks
<1>3. /\ Total(b, LAMBDA s : MlaScoreWork(l, s)) = Together(v)
      /\ Total(b, LAMBDA s : MlaContextWork(l, s)) = Together(w)
      /\ Total(b, LAMBDA s : MlaFusedWork(l, s)) = Together(u)
  BY DEF Total, SumOver, Together, MlaFused
<1>4. MlaFlops(l, b) = n + e + m
  BY DEF MlaFlops
<1> HIDE DEF u, v, w, n, m, e
<1>5. ASSUME NEW fused, NEW one, NEW two, NEW three,
             Does(fused, Amount(u)), Does(one, n), Does(two, e),
             Does(three, m)
      PROVE  Does(IF l.use_flash_mla THEN fused ELSE one \o two \o three, all)
  BY <1>5, DoesThree
<1>6. ASSUME NEW p \in Processors
      PROVE  /\ Does(<<Plain(c, p, l, b, Together(u))>>, Amount(u))
             /\ Does(<<Plain(c, p, l, b, Together(v))>>, n)
             /\ Does(<<Plain(c, p, l, b, Together(w))>>, m)
             /\ Does(Unreported(Softmax(c, p, l, b)), e)
  <2>1. /\ Does(<<Plain(c, p, l, b, Together(u))>>, Amount(u))
        /\ Does(<<Plain(c, p, l, b, Together(v))>>, n)
        /\ Does(<<Plain(c, p, l, b, Together(w))>>, m)
    BY <1>1, <1>2, PlainDoes
  <2>2. Does(Unreported(Softmax(c, p, l, b)), e)
    BY <1>1, SoftmaxDoes, UnreportedDoes DEF e
  <2> QED BY <2>1, <2>2
<1> HIDE DEF all
<1>7. MultiLatentAttentionGenExecutionLogic(c, l, b).flops = Spent(b, all)
  <2> DEFINE s == IF l.use_flash_mla THEN MlaGenFusedLogic(c, l, b)
                  ELSE MlaGenScoreLogic(c, l, b) \o MlaGenSoftmaxLogic(c, l, b)
                       \o MlaGenContextLogic(c, l, b)
  <2>1. Does(s, all)
    BY <1>1, <1>3, <1>5, <1>6 DEF MlaGenFusedLogic, MlaGenScoreLogic,
       MlaGenSoftmaxLogic, MlaGenContextLogic
  <2>2. MultiLatentAttentionGenExecutionLogic(c, l, b) = Decode(b, s)
    BY DEF MultiLatentAttentionGenExecutionLogic
  <2> HIDE DEF s
  <2> QED BY <2>1, <2>2, DecodeSpends
<1>8. MultiLatentAttentionGenExecutionPIM(c, l, b).flops = Spent(b, all)
  <2> DEFINE s == IF l.use_flash_mla THEN MlaGenFusedPIM(c, l, b)
                  ELSE MlaGenScorePIM(c, l, b) \o MlaGenSoftmaxPIM(c, l, b)
                       \o MlaGenContextPIM(c, l, b)
  <2>1. Does(s, all)
    BY <1>1, <1>3, <1>5, <1>6 DEF MlaGenFusedPIM, MlaGenScorePIM,
       MlaGenSoftmaxPIM, MlaGenContextPIM
  <2>2. MultiLatentAttentionGenExecutionPIM(c, l, b) = Decode(b, s)
    BY DEF MultiLatentAttentionGenExecutionPIM
  <2> HIDE DEF s
  <2> QED BY <2>1, <2>2, DecodeSpends
<1>9. MultiLatentAttentionGenExecutionGPU(c, l, b).flops = Spent(b, all)
  <2> DEFINE s == IF l.use_flash_mla THEN MlaGenFusedGPU(c, l, b)
                  ELSE MlaGenScoreGPU(c, l, b) \o MlaGenSoftmaxGPU(c, l, b)
                       \o MlaGenContextGPU(c, l, b)
  <2>1. /\ Does(<<Streamed(c, l, b, Together(u), 1)>>, Amount(u))
        /\ Does(<<Streamed(c, l, b, Together(v), 2)>>, n)
        /\ Does(<<Streamed(c, l, b, Together(w), 2)>>, m)
    BY <1>1, <1>2, StreamedDoes
  <2>2. Does(s, all)
    BY <1>1, <1>3, <1>5, <1>6, <2>1 DEF MlaGenFusedGPU, MlaGenScoreGPU,
       MlaGenSoftmaxGPU, MlaGenContextGPU
  <2>3. MultiLatentAttentionGenExecutionGPU(c, l, b)
          = NoOffload(c, b, WithKvWrite(c, l, b, l.compressed_kv,
                                        Decode(b, s)))
    BY DEF MultiLatentAttentionGenExecutionGPU
  <2> HIDE DEF s
  <2> QED BY <2>2, <2>3, WriteSpends, NoneStops
<1> QED BY <1>4, <1>7, <1>8, <1>9 DEF all, u

\* The phases of a prefill kernel that takes sequence by sequence.
LEMMA EachDoes ==
  ASSUME NEW c \in SystemConfig, NEW p \in Processors, NEW l \in Layer,
         NEW b \in Seq(Entries), NEW f \in [DOMAIN b -> Works],
         NEW g \in [DOMAIN b -> Works]
  PROVE  Does(Apart(c, p, l, b, f) \o Softmax(c, p, l, b)
                \o Apart(c, p, l, b, g),
              Amount(f) + Exponents(b, l.num_heads) + Amount(g))
<1> DEFINE one == Apart(c, p, l, b, f)
           two == Softmax(c, p, l, b)
           three == Apart(c, p, l, b, g)
           n == Amount(f)
           e == Exponents(b, l.num_heads)
           m == Amount(g)
<1>1. Does(one, n) /\ Does(two, e) /\ Does(three, m)
  BY ApartDoes, SoftmaxDoes
<1> HIDE DEF one, two, three, n, e, m
<1>2. Does(one \o two \o three, n + e + m)
  BY <1>1, DoesThree
<1> QED BY <1>2 DEF one, two, three, n, e, m

LEMMA MlaSumSpends ==
  ASSUME NEW c \in SystemConfig, Computes(c), ~OffloadActive(c),
         NEW l \in Layer, ~l.use_flash_attention, NEW b \in Batch
  PROVE  LET n == Spent(b, MlaFlops(l, b))
         IN /\ MultiLatentAttentionSumExecutionGPU(c, l, b).flops = n
            /\ MultiLatentAttentionSumExecutionLogic(c, l, b).flops = n
            /\ MultiLatentAttentionSumExecutionPIM(c, l, b).flops = n
<1> DEFINE f == [i \in DOMAIN b |-> MlaSumScoreWork(l, b[i])]
           g == [i \in DOMAIN b |-> MlaSumContextWork(l, b[i])]
           n == Amount(f)
           m == Amount(g)
           e == Exponents(b, l.num_heads)
<1>1. b \in Seq(Entries) /\ {"GPU", "LOGIC", "PIM"} \subseteq Processors
  BY BatchIs DEF Processors
<1>2. /\ f \in [DOMAIN b -> Works] /\ g \in [DOMAIN b -> Works]
      /\ MlaFlops(l, b) = n + e + m
  BY <1>1, MlaWorks DEF MlaFlops
<1>3. \A d, p : /\ Each(d, p, l, b, LAMBDA s : MlaSumScoreWork(l, s))
                     = Apart(d, p, l, b, f)
                /\ Each(d, p, l, b, LAMBDA s : MlaSumContextWork(l, s))
                     = Apart(d, p, l, b, g)
  BY DEF Each, Apart
<1>4. /\ Total(b, LAMBDA s : MlaSumScoreWork(l, s)) = Together(f)
      /\ Total(b, LAMBDA s : MlaSumContextWork(l, s)) = Together(g)
  BY DEF Total, SumOver, Together
<1> HIDE DEF f, g
<1>5. MultiLatentAttentionSumExecutionLogic(c, l, b).flops
        = Spent(b, n + e + m)
  <2> DEFINE d == LikeGPU(c, "LOGIC")
             s == Apart(d, "LOGIC", l, b, f) \o Softmax(d, "LOGIC", l, b)
                    \o Apart(d, "LOGIC", l, b, g)
  <2>1. d \in SystemConfig
    BY <1>1, OtherConfigs
  <2>2. MultiLatentAttentionSumExecutionLogic(c, l, b)
          = Unaccounted(Prefill(b, s))
    BY <1>3 DEF MultiLatentAttentionSumExecutionLogic, MlaSumScoreLogic,
       MlaSumSoftmaxLogic, MlaSumContextLogic
  <2> HIDE DEF d
  <2>3. Does(s, n + e + m)
    BY <1>1, <1>2, <2>1, EachDoes
  <2> HIDE DEF s
  <2> QED BY <2>2, <2>3, PrefillSpends
<1>6. MultiLatentAttentionSumExecutionPIM(c, l, b).flops
        = Spent(b, n + e + m)
  <2> DEFINE d == LikeGPU(c, "PIM")
             s == Apart(d, "PIM", l, b, f) \o Softmax(d, "PIM", l, b)
                    \o Apart(d, "PIM", l, b, g)
  <2>1. d \in SystemConfig
    BY <1>1, OtherConfigs
  <2>2. MultiLatentAttentionSumExecutionPIM(c, l, b)
          = Unaccounted(Prefill(b, s))
    BY <1>3 DEF MultiLatentAttentionSumExecutionPIM, MlaSumScorePIM,
       MlaSumSoftmaxPIM, MlaSumContextPIM
  <2> HIDE DEF d
  <2>3. Does(s, n + e + m)
    BY <1>1, <1>2, <2>1, EachDoes
  <2> HIDE DEF s
  <2> QED BY <2>2, <2>3, PrefillSpends
<1>7. MultiLatentAttentionSumExecutionGPU(c, l, b).flops
        = Spent(b, n + e + m)
  <2> DEFINE one == MlaSumScoreGPU(c, l, b)
             two == MlaSumSoftmaxGPU(c, l, b)
             three == MlaSumContextGPU(c, l, b)
  <2>1. MultiLatentAttentionSumExecutionGPU(c, l, b)
          = NoOffload(c, b, Unaccounted(Prefill(b, one \o two \o three)))
    BY DEF MultiLatentAttentionSumExecutionGPU
  <2>2. \/ one = <<Streamed(c, l, b, Together(f), 1)>>
        \/ one = Apart(c, "GPU", l, b, f)
    BY <1>3, <1>4 DEF MlaSumScoreGPU, Gathered
  <2>3. \/ three = <<Streamed(c, l, b, Together(g), 1)>>
        \/ three = Apart(c, "GPU", l, b, g)
    BY <1>3, <1>4 DEF MlaSumContextGPU, Gathered
  <2>4. Does(two, e)
    BY <1>1, SoftmaxDoes DEF MlaSumSoftmaxGPU
  <2> HIDE DEF one, two, three
  <2>5. Does(one, n) /\ Does(three, m)
    BY <1>1, <1>2, <2>2, <2>3, GatheredDoes
  <2> HIDE DEF n, m, e
  <2>6. Does(one \o two \o three, n + e + m)
    BY <2>4, <2>5, DoesThree
  <2> QED BY <2>1, <2>6, PrefillSpends, NoneStops
<1> QED BY <1>2, <1>5, <1>6, <1>7
----------------------------------------------------------------------------
\* Latent attention absorbed.
AbsorbFused(l, b) == [i \in DOMAIN b |-> AbsorbFusedWork(l, b[i])]
AbsorbScored(l, b, k) == [i \in DOMAIN b |-> AbsorbScoreWork(l, b[i], k)]
AbsorbGathered(l, b) == [i \in DOMAIN b |-> AbsorbContextWork(l, b[i])]
AbsorbFlops(l, b) ==
  LET n == Products(b, l.kv_lora_rank * l.num_heads)
  IN n + Products(b, l.rope * l.num_heads) + Exponents(b, l.num_heads) + n

LEMMA AbsorbFactors ==
  ASSUME NEW l \in Layer, l.kv_lora_rank > 0, NEW s \in Entries
  PROVE  /\ \A k \in Nat : AbsorbScoreWork(l, s, k).flops
                             = 2 * s.tok * Context(s) * (k * l.num_heads)
         /\ AbsorbContextWork(l, s).flops
              = 2 * s.tok * Context(s) * (l.kv_lora_rank * l.num_heads)
<1> DEFINE t == s.tok
           x == Context(s)
           r == l.kv_lora_rank
           h == l.num_heads
<1>1. t \in Nat /\ x \in Nat /\ r \in Nat /\ h \in Nat
  BY ScoresIs, LayerFields
<1>2. /\ \A k \in Nat : AbsorbScoreWork(l, s, k).flops = 2 * t * k * x * h
      /\ AbsorbContextWork(l, s).flops = 2 * t * x * r * h
  BY DEF AbsorbScoreWork, AbsorbContextWork, Work
<1> HIDE DEF t, x, r, h
<1>3. /\ \A k \in Nat : 2 * t * k * x * h = 2 * t * x * (k * h)
      /\ 2 * t * x * r * h = 2 * t * x * (r * h)
  BY <1>1, Factors
<1>4. /\ \A k \in Nat : AbsorbScoreWork(l, s, k).flops = 2 * t * x * (k * h)
      /\ AbsorbContextWork(l, s).flops = 2 * t * x * (r * h)
  BY <1>2, <1>3
<1> QED BY <1>4 DEF t, x, r, h

LEMMA AbsorbWorks ==
  ASSUME NEW l \in Layer, l.kv_lora_rank > 0, NEW b \in Seq(Entries)
  PROVE  LET g == AbsorbGathered(l, b)
         IN /\ AbsorbFused(l, b) \in [DOMAIN b -> Works]
            /\ \A k \in Nat :
                 /\ AbsorbScored(l, b, k) \in [DOMAIN b -> Works]
                 /\ Amount(AbsorbScored(l, b, k))
                      = Products(b, k * l.num_heads)
            /\ g \in [DOMAIN b -> Works]
            /\ Amount(g) = Products(b, l.kv_lora_rank * l.num_heads)
<1>1. \A i \in DOMAIN b : b[i] \in Entries
  BY EntriesOf
<1>2. AbsorbFused(l, b) \in [DOMAIN b -> Works]
  BY <1>1, AbsorbFusedWorkIs DEF AbsorbFused, WorkOf
<1>3. ASSUME NEW k \in Nat
      PROVE  /\ AbsorbScored(l, b, k) \in [DOMAIN b -> Works]
             /\ Amount(AbsorbScored(l, b, k)) = Products(b, k * l.num_heads)
  <2> DEFINE f == AbsorbScored(l, b, k)
             j == k * l.num_heads
  <2>1. f \in [DOMAIN b -> Works]
    BY <1>1, AbsorbScoreWorkIs DEF AbsorbScored
  <2>2. \A i \in DOMAIN b : f[i].flops = 2 * b[i].tok * Context(b[i]) * j
    BY <1>1, AbsorbFactors DEF AbsorbScored
  <2> HIDE DEF f, j
  <2>3. Amount(f) = Products(b, j)
    BY <2>1, <2>2, ProductsOf
  <2> QED BY <2>1, <2>3 DEF f, j
<1>4. /\ AbsorbGathered(l, b) \in [DOMAIN b -> Works]
      /\ Amount(AbsorbGathered(l, b))
           = Products(b, l.kv_lora_rank * l.num_heads)
  <2> DEFINE f == AbsorbGathered(l, b)
             j == l.kv_lora_rank * l.num_heads
  <2>1. f \in [DOMAIN b -> Works]
    BY <1>1, AbsorbContextWorkIs DEF AbsorbGathered, WorkOf
  <2>2. \A i \in DOMAIN b : f[i].flops = 2 * b[i].tok * Context(b[i]) * j
    BY <1>1, AbsorbFactors DEF AbsorbGathered
  <2> HIDE DEF f, j
  <2>3. Amount(f) = Products(b, j)
    BY <2>1, <2>2, ProductsOf
  <2> QED BY <2>1, <2>3 DEF f, j
<1> QED BY <1>2, <1>3, <1>4

\* Four phases.
LEMMA DoesFour ==
  ASSUME NEW s, NEW n, Does(s, n), NEW t, NEW k, Does(t, k),
         NEW u, NEW m, Does(u, m), NEW v, NEW j, Does(v, j)
  PROVE  Does(s \o t \o u \o v, n + k + m + j)
<1>1. Does(s \o t \o u, n + k + m)
  BY DoesThree
<1> DEFINE x == s \o t \o u
           y == n + k + m
<1> HIDE DEF x, y
<1>2. Does(x, y) => Does(x \o v, y + j)
  BY DoesJoined
<1> QED BY <1>1, <1>2 DEF x, y

LEMMA AbsorbGenSpends ==
  ASSUME NEW c \in SystemConfig, NEW l \in Layer, l.kv_lora_rank > 0,
         OffloadActive(c) => l.use_flash_mla, NEW b \in Batch
  PROVE  LET n == Spent(b, IF l.use_flash_mla THEN Amount(AbsorbFused(l, b))
                           ELSE AbsorbFlops(l, b))
         IN /\ AbsorbMLAGenExecutionGPU(c, l, b).flops = n
            /\ AbsorbMLAGenExecutionLogic(c, l, b).flops = n
            /\ AbsorbMLAGenExecutionPIM(c, l, b).flops = n
<1> DEFINE r == l.kv_lora_rank
           u == AbsorbFused(l, b)
           v == AbsorbScored(l, b, l.kv_lora_rank)
           z == AbsorbScored(l, b, l.rope)
           w == AbsorbGathered(l, b)
           n == Products(b, l.kv_lora_rank * l.num_heads)
           m == Products(b, l.rope * l.num_heads)
           e == Exponents(b, l.num_heads)
           all == IF l.use_flash_mla THEN Amount(u) ELSE n + m + e + n
<1>1. b \in Seq(Entries) /\ {"GPU", "LOGIC", "PIM"} \subseteq Processors
  BY BatchIs DEF Processors
<1>2. l.kv_lora_rank \in Nat /\ l.rope \in Nat
  BY LayerFields
<1>3. /\ u \in [DOMAIN b -> Works]
      /\ v \in [DOMAIN b -> Works] /\ Amount(v) = n
      /\ z \in [DOMAIN b -> Works] /\ Amount(z) = m
      /\ w \in [DOMAIN b -> Works] /\ Amount(w) = n
  BY <1>1, <1>2, AbsorbWorks
<1>4. /\ Total(b, LAMBDA s : AbsorbFusedWork(l, s)) = Together(u)
      /\ Total(b, LAMBDA s : AbsorbScoreWork(l, s, l.kv_lora_rank))
           = Together(v)
      /\ Total(b, LAMBDA s : AbsorbScoreWork(l, s, l.rope)) = Together(z)
      /\ Total(b, LAMBDA s : AbsorbContextWork(l, s)) = Together(w)
  BY DEF Total, SumOver, Together, AbsorbFused, AbsorbScored, AbsorbGathered
<1>5. AbsorbFlops(l, b) = n + m + e + n
  BY DEF AbsorbFlops
<1> HIDE DEF u, v, z, w, n, m, e
<1>6. ASSUME NEW p \in Processors
      PROVE  /\ Does(<<Plain(c, p, l, b, Together(u))>>, Amount(u))
             /\ Does(<<Plain(c, p, l, b, Together(v))>>, n)
             /\ Does(<<Plain(c, p, l, b, Together(z))>>, m)
             /\ Does(<<Plain(c, p, l, b, Together(w))>>, n)
             /\ Does(Softmax(c, p, l, b), e)
  <2>1. /\ Does(<<Plain(c, p, l, b, Together(u))>>, Amount(u))
        /\ Does(<<Plain(c, p, l, b, Together(v))>>, n)
        /\ Does(<<Plain(c, p, l, b, Together(z))>>, m)
        /\ Does(<<Plain(c, p, l, b, Together(w))>>, n)
    BY <1>1, <1>3, PlainDoes
  <2>2. Does(Softmax(c, p, l, b), e)
    BY <1>1, SoftmaxDoes DEF e
  <2> QED BY <2>1, <2>2
<1>7. ASSUME NEW fused, NEW one, NEW two, NEW three, NEW four,
             Does(fused, Amount(u)), Does(one, n), Does(two, m),
             Does(three, e), Does(four, n)
      PROVE  Does(IF l.use_flash_mla THEN fused
                  ELSE one \o two \o three \o four, all)
  BY <1>7, DoesFour
<1> HIDE DEF all
<1>8. AbsorbMLAGenExecutionLogic(c, l, b).flops = Spent(b, all)
  <2> DEFINE s == IF l.use_flash_mla THEN AbsorbGenFusedLogic(c, l, b)
                  ELSE AbsorbGenScoreLogic(c, l, b)
                       \o AbsorbGenRopeLogic(c, l, b)
                       \o AbsorbGenSoftmaxLogic(c, l, b)
                       \o AbsorbGenContextLogic(c, l, b)
  <2>1. Does(s, all)
    BY <1>1, <1>4, <1>6, <1>7 DEF AbsorbGenFusedLogic, AbsorbGenScoreLogic,
       AbsorbGenRopeLogic, AbsorbGenSoftmaxLogic, AbsorbGenContextLogic
  <2>2. AbsorbMLAGenExecutionLogic(c, l, b) = Decode(b, s)
    BY DEF AbsorbMLAGenExecutionLogic
  <2> HIDE DEF s
  <2> QED BY <2>1, <2>2, DecodeSpends
<1>9. AbsorbMLAGenExecutionPIM(c, l, b).flops = Spent(b, all)
  <2> DEFINE s == IF l.use_flash_mla THEN AbsorbGenFusedPIM(c, l, b)
                  ELSE AbsorbGenScorePIM(c, l, b) \o AbsorbGenRopePIM(c, l, b)
                       \o AbsorbGenSoftmaxPIM(c, l, b)
                       \o AbsorbGenContextPIM(c, l, b)
  <2>1. Does(s, all)
    BY <1>1, <1>4, <1>6, <1>7 DEF AbsorbGenFusedPIM, AbsorbGenScorePIM,
       AbsorbGenRopePIM, AbsorbGenSoftmaxPIM, AbsorbGenContextPIM
  <2>2. AbsorbMLAGenExecutionPIM(c, l, b) = Decode(b, s)
    BY DEF AbsorbMLAGenExecutionPIM
  <2> HIDE DEF s
  <2> QED BY <2>1, <2>2, DecodeSpends
<1>10. AbsorbMLAGenExecutionGPU(c, l, b).flops = Spent(b, all)
  <2> DEFINE s == IF l.use_flash_mla THEN AbsorbGenFusedGPU(c, l, b)
                  ELSE AbsorbGenScoreGPU(c, l, b) \o AbsorbGenRopeGPU(c, l, b)
                       \o AbsorbGenSoftmaxGPU(c, l, b)
                       \o AbsorbGenContextGPU(c, l, b)
             yes == TRUE
  <2>1. /\ Does(<<Streamed(c, l, b, Together(u), 1)>>, Amount(u))
        /\ Does(<<Streamed(c, l, b, Together(w), 1)>>, n)
    <3>1. 1 \in Nat \ {0}
      OBVIOUS
    <3>2. Does(<<Streamed(c, l, b, Together(u), 1)>>, Amount(u))
      BY <1>1, <1>3, <3>1, StreamedDoes
    <3>3. Does(<<Streamed(c, l, b, Together(w), 1)>>, Amount(w))
      BY <1>1, <1>3, <3>1, StreamedDoes
    <3> QED BY <1>3, <3>2, <3>3
  <2>2. Does(s, all)
    BY <1>1, <1>4, <1>6, <1>7, <2>1 DEF AbsorbGenFusedGPU, AbsorbGenScoreGPU,
       AbsorbGenRopeGPU, AbsorbGenSoftmaxGPU, AbsorbGenContextGPU
  <2>3. AbsorbMLAGenExecutionGPU(c, l, b)
          = WithKvWrite(c, l, b, yes, Decode(b, s))
    BY NoneStops DEF AbsorbMLAGenExecutionGPU
  <2> HIDE DEF s, yes
  <2> QED BY <2>2, <2>3, WriteSpends
<1> QED BY <1>5, <1>8, <1>9, <1>10 DEF all, u

\* The machine that hides no softmax.
Shown(c) == [c EXCEPT !.softmax_hide = TRUE]

LEMMA ShownIs ==
  ASSUME NEW c \in SystemConfig
  PROVE  Shown(c) \in SystemConfig
BY DEF Shown, SystemConfig

\* The phases of a prefill kernel of works v, z and w.
AbsorbPhases(c, p, l, b, v, z, soft, w) ==
  Apart(c, p, l, b, v) \o Apart(c, p, l, b, z) \o soft \o Apart(c, p, l, b, w)

\* The works v, z and w are issued differently and take the same flops.
AsAbsorbed(l, b, v, z, w) ==
  /\ v \in [DOMAIN b -> Works] /\ z \in [DOMAIN b -> Works]
  /\ w \in [DOMAIN b -> Works]
  /\ \A i \in DOMAIN b :
       /\ v[i].flops = AbsorbScoreWork(l, b[i], l.kv_lora_rank).flops
       /\ z[i].flops = AbsorbScoreWork(l, b[i], l.rope).flops
       /\ w[i].flops = AbsorbContextWork(l, b[i]).flops

LEMMA AbsorbApart ==
  ASSUME NEW c \in SystemConfig, NEW p \in Processors, NEW l \in Layer,
         l.kv_lora_rank > 0, NEW b \in Seq(Entries),
         NEW v, NEW z, NEW w, AsAbsorbed(l, b, v, z, w),
         NEW soft, Does(soft, Exponents(b, l.num_heads))
  PROVE  Prefill(b, AbsorbPhases(c, p, l, b, v, z, soft, w)).flops
           = Spent(b, AbsorbFlops(l, b))
<1> DEFINE n == Products(b, l.kv_lora_rank * l.num_heads)
           m == Products(b, l.rope * l.num_heads)
           e == Exponents(b, l.num_heads)
           one == Apart(c, p, l, b, v)
           two == Apart(c, p, l, b, z)
           four == Apart(c, p, l, b, w)
<1>1. l.kv_lora_rank \in Nat /\ l.rope \in Nat
  BY LayerFields
<1>2. Amount(v) = n /\ Amount(z) = m /\ Amount(w) = n
  <2>1. /\ Amount(v) = Amount(AbsorbScored(l, b, l.kv_lora_rank))
        /\ Amount(z) = Amount(AbsorbScored(l, b, l.rope))
        /\ Amount(w) = Amount(AbsorbGathered(l, b))
    BY DEF AsAbsorbed, Amount, AbsorbScored, AbsorbGathered
  <2> QED BY <1>1, <2>1, AbsorbWorks
<1>3. Does(one, Amount(v)) /\ Does(two, Amount(z)) /\ Does(four, Amount(w))
  BY ApartDoes DEF AsAbsorbed
<1> HIDE DEF n, m, e, one, two, four
<1>4. Does(one, n) /\ Does(two, m) /\ Does(soft, e) /\ Does(four, n)
  BY <1>2, <1>3 DEF e
<1>5. Does(one \o two \o soft \o four, n + m + e + n)
  BY <1>4, DoesFour
<1>6. Prefill(b, one \o two \o soft \o four).flops
        = Spent(b, n + m + e + n)
  BY <1>5, PrefillSpends
<1>7. AbsorbFlops(l, b) = n + m + e + n
  BY DEF AbsorbFlops, n, m, e
<1> QED BY <1>6, <1>7 DEF one, two, four, AbsorbPhases

LEMMA AbsorbSumSpends ==
  ASSUME NEW c \in SystemConfig, ~OffloadActive(c), NEW l \in Layer,
         l.kv_lora_rank > 0, NEW b \in Batch
  PROVE  LET n == Spent(b, AbsorbFlops(l, b))
         IN /\ AbsorbMLASumExecutionGPU(c, l, b).flops = n
            /\ AbsorbMLASumExecutionLogic(c, l, b).flops = n
            /\ AbsorbMLASumExecutionPIM(c, l, b).flops = n
<1> DEFINE r == l.kv_lora_rank
           h == l.num_heads
           e == Exponents(b, l.num_heads)
           n == Spent(b, AbsorbFlops(l, b))
<1>1. b \in Seq(Entries) /\ {"GPU", "LOGIC", "PIM"} \subseteq Processors
  BY BatchIs DEF Processors
<1>2. r \in Nat /\ l.rope \in Nat /\ h \in Nat
  BY LayerFields
<1>3. \A i \in DOMAIN b : b[i] \in Entries
  BY <1>1, EntriesOf
<1>4. ASSUME NEW i \in DOMAIN b
      PROVE  LET s == b[i]
             IN /\ AbsorbScoreWork(l, s, r) \in Works
                /\ AbsorbScoreWork(l, s, l.rope) \in Works
                /\ AbsorbContextWork(l, s) \in Works
                /\ s.tok \in Nat /\ Context(s) \in Nat
                /\ s.tok * r * h + AbsorbScoreWork(l, s, r).kv \in Nat
                /\ s.tok * l.rope * h + 2 * Scores(l, s) \in Nat
                /\ s.tok * r * h \in Nat
  <2> DEFINE s == b[i]
             w == AbsorbScoreWork(l, s, r)
  <2>1. s \in Entries
    BY <1>3
  <2>2. s.tok \in Nat /\ Context(s) \in Nat /\ Scores(l, s) \in Nat
    BY <2>1, ScoresIs
  <2>3. /\ w \in Works /\ AbsorbScoreWork(l, s, l.rope) \in Works
        /\ AbsorbContextWork(l, s) \in Works
    BY <1>2, <2>1, AbsorbScoreWorkIs, AbsorbContextWorkIs DEF WorkOf
  <2> HIDE DEF s, w, r, h
  <2>4. s.tok * r * h \in Nat /\ s.tok * l.rope * h \in Nat
    BY <1>2, <2>2, Product
  <2>5. s.tok * r * h + w.kv \in Nat
    BY <2>3, <2>4, WorkFields
  <2>6. s.tok * l.rope * h + 2 * Scores(l, s) \in Nat
    BY <2>2, <2>4
  <2> QED BY <2>2, <2>3, <2>4, <2>5, <2>6 DEF s, w
<1>5. \A x \in Works, ops \in Nat : /\ Issued(x, ops) \in Works
                                    /\ Issued(x, ops).flops = x.flops
  BY DEF Issued, Works
<1>6. AbsorbMLASumExecutionGPU(c, l, b).flops = n
  <2> DEFINE p == "GPU"
             v == [i \in DOMAIN b |-> AbsorbSumScoreWork(l, b[i], r)]
             z == [i \in DOMAIN b |-> AbsorbSumScoreWork(l, b[i], l.rope)]
             w == [i \in DOMAIN b |-> AbsorbSumContextWork(l, b[i])]
             soft == AbsorbSumSoftmaxGPU(c, l, b)
  <2>1. /\ v \in [DOMAIN b -> Works] /\ z \in [DOMAIN b -> Works]
        /\ w \in [DOMAIN b -> Works]
    BY <1>2, <1>3, AbsorbSumWorkIs DEF WorkOf
  <2>2. \A i \in DOMAIN b :
          /\ v[i].flops = AbsorbScoreWork(l, b[i], r).flops
          /\ z[i].flops = AbsorbScoreWork(l, b[i], l.rope).flops
          /\ w[i].flops = AbsorbContextWork(l, b[i]).flops
    <3>1. \A x \in Works : Issued(x, x.kv + x.act).flops = x.flops
      BY <1>5, WorkFields
    <3> QED BY <1>4, <3>1 DEF AbsorbSumScoreWork, AbsorbSumContextWork
  <2>3. Does(soft, e)
    BY <1>1, ShownIs, SoftmaxDoes DEF AbsorbSumSoftmaxGPU, Shown
  <2>4. /\ AbsorbSumNopeGPU(c, l, b) = Apart(c, "GPU", l, b, v)
        /\ AbsorbSumRopeGPU(c, l, b) = Apart(c, "GPU", l, b, z)
        /\ AbsorbSumContextGPU(c, l, b) = Apart(c, "GPU", l, b, w)
    BY DEF AbsorbSumNopeGPU, AbsorbSumRopeGPU, AbsorbSumContextGPU, Each, Apart
  <2>5. AbsorbMLASumExecutionGPU(c, l, b)
          = NoOffload(c, b, Prefill(b, AbsorbPhases(c, p, l, b, v, z, soft, w)))
    BY <2>4 DEF AbsorbMLASumExecutionGPU, AbsorbPhases
  <2>6. AsAbsorbed(l, b, v, z, w)
    BY <2>1, <2>2 DEF AsAbsorbed
  <2> HIDE DEF v, z, w, soft, p
  <2>7. p \in Processors /\ b \in Seq(Entries)
    BY <1>1 DEF p
  <2> QED BY <2>3, <2>5, <2>6, <2>7,
             AbsorbApart, NoneStops
<1>7. AbsorbMLASumExecutionLogic(c, l, b).flops = n
  <2> DEFINE p == "LOGIC"
             nope(s) == LET w == AbsorbScoreWork(l, s, r)
                        IN Issued(w, s.tok * r * h + w.kv)
             rope(s) == Issued(AbsorbScoreWork(l, s, l.rope),
                               s.tok * l.rope * h + 2 * Scores(l, s))
             context(s) == Issued(AbsorbContextWork(l, s), s.tok * r * h)
             v == [i \in DOMAIN b |-> nope(b[i])]
             z == [i \in DOMAIN b |-> rope(b[i])]
             w == [i \in DOMAIN b |-> context(b[i])]
             soft == AbsorbSumSoftmaxLogic(c, l, b)
  <2>1. \A i \in DOMAIN b :
          LET s == b[i]
          IN /\ nope(s) \in Works
             /\ nope(s).flops = AbsorbScoreWork(l, s, r).flops
             /\ rope(s) \in Works
             /\ rope(s).flops = AbsorbScoreWork(l, s, l.rope).flops
             /\ context(s) \in Works
             /\ context(s).flops = AbsorbContextWork(l, s).flops
    BY <1>4, <1>5
  <2>2. Does(soft, e)
    BY <1>1, ShownIs, SoftmaxDoes, ComputeOnlyDoes
    DEF AbsorbSumSoftmaxLogic, Shown
  <2>3. /\ AbsorbSumNopeLogic(c, l, b) = Apart(c, "LOGIC", l, b, v)
        /\ AbsorbSumRopeLogic(c, l, b) = Apart(c, "LOGIC", l, b, z)
        /\ AbsorbSumContextLogic(c, l, b) = Apart(c, "LOGIC", l, b, w)
    BY DEF AbsorbSumNopeLogic, AbsorbSumRopeLogic, AbsorbSumContextLogic, Each,
           Apart
  <2>4. AbsorbMLASumExecutionLogic(c, l, b)
          = Prefill(b, AbsorbPhases(c, p, l, b, v, z, soft, w))
    BY <2>3 DEF AbsorbMLASumExecutionLogic, AbsorbPhases
  <2> HIDE DEF nope, rope, context
  <2>5. /\ v \in [DOMAIN b -> Works] /\ z \in [DOMAIN b -> Works]
        /\ w \in [DOMAIN b -> Works]
        /\ \A i \in DOMAIN b :
             /\ v[i].flops = AbsorbScoreWork(l, b[i], r).flops
             /\ z[i].flops = AbsorbScoreWork(l, b[i], l.rope).flops
             /\ w[i].flops = AbsorbContextWork(l, b[i]).flops
    BY <2>1
  <2>6. AsAbsorbed(l, b, v, z, w)
    BY <2>5 DEF AsAbsorbed
  <2> HIDE DEF v, z, w, soft, p
  <2>7. p \in Processors /\ b \in Seq(Entries)
    BY <1>1 DEF p
  <2> QED BY <2>2, <2>4, <2>6, <2>7, AbsorbApart
<1>8. AbsorbMLASumExecutionPIM(c, l, b).flops = n
  <2> DEFINE p == "PIM"
             score(s, k) == Issued(AbsorbScoreWork(l, s, k), s.tok)
             context(s) == Issued(AbsorbContextWork(l, s), Context(s))
             v == [i \in DOMAIN b |-> score(b[i], r)]
             z == [i \in DOMAIN b |-> score(b[i], l.rope)]
             w == [i \in DOMAIN b |-> context(b[i])]
             soft == AbsorbSumSoftmaxPIM(c, l, b)
  <2>1. \A i \in DOMAIN b :
          LET s == b[i]
          IN /\ score(s, r) \in Works
             /\ score(s, r).flops = AbsorbScoreWork(l, s, r).flops
             /\ score(s, l.rope) \in Works
             /\ score(s, l.rope).flops = AbsorbScoreWork(l, s, l.rope).flops
             /\ context(s) \in Works
             /\ context(s).flops = AbsorbContextWork(l, s).flops
    BY <1>4, <1>5
  <2>2. Does(soft, e)
    BY <1>1, ShownIs, SoftmaxDoes DEF AbsorbSumSoftmaxPIM, Shown
  <2>3. /\ AbsorbSumScorePIM(c, l, b, l.kv_lora_rank)
             = Apart(c, "PIM", l, b, v)
        /\ AbsorbSumScorePIM(c, l, b, l.rope) = Apart(c, "PIM", l, b, z)
        /\ AbsorbSumContextPIM(c, l, b) = Apart(c, "PIM", l, b, w)
    BY DEF AbsorbSumScorePIM, AbsorbSumContextPIM, Each, Apart
  <2>4. AbsorbMLASumExecutionPIM(c, l, b)
          = Prefill(b, AbsorbPhases(c, p, l, b, v, z, soft, w))
    BY <2>3 DEF AbsorbMLASumExecutionPIM, AbsorbPhases
  <2> HIDE DEF score, context
  <2>5. /\ v \in [DOMAIN b -> Works] /\ z \in [DOMAIN b -> Works]
        /\ w \in [DOMAIN b -> Works]
        /\ \A i \in DOMAIN b :
             /\ v[i].flops = AbsorbScoreWork(l, b[i], r).flops
             /\ z[i].flops = AbsorbScoreWork(l, b[i], l.rope).flops
             /\ w[i].flops = AbsorbContextWork(l, b[i]).flops
    BY <2>1
  <2>6. AsAbsorbed(l, b, v, z, w)
    BY <2>5 DEF AsAbsorbed
  <2> HIDE DEF v, z, w, soft, p
  <2>7. p \in Processors /\ b \in Seq(Entries)
    BY <1>1 DEF p
  <2> QED BY <2>2, <2>4, <2>6, <2>7, AbsorbApart
<1> QED BY <1>6, <1>7, <1>8
----------------------------------------------------------------------------
\* What the kernels read of a layer.
LEMMA LayersRead ==
  ASSUME NEW m, IsMachine(m)
  PROVE  LET Alike(l) == /\ l.head_dim = m.head_dim
                         /\ l.num_heads = m.num_heads
             g == SelfAttentionGen(m)
             s == SelfAttentionSum(m)
         IN /\ Alike(g) /\ g.group = m.num_heads \div m.num_kv_heads
            /\ g.num_kv_heads = m.num_kv_heads /\ g.window = m.max_seq_len
            /\ Alike(s) /\ s.num_kv_heads = m.num_kv_heads
            /\ s.window = m.max_seq_len
            /\ \A l \in {MultiLatentAttentionGen(m),
                         MultiLatentAttentionSum(m), AbsorbMLAGen(m),
                         AbsorbMLASum(m)} : Alike(l) /\ l.rope = m.rope
            /\ \A l \in {MultiLatentAttentionGen(m), AbsorbMLAGen(m)} :
                 l.use_flash_mla = m.use_flash_mla
            /\ MultiLatentAttentionSum(m).use_flash_attention
                 = m.use_flash_attention
<1> DEFINE h == Heads(m)
<1>1. /\ h \in Layer /\ h.head_dim = m.head_dim /\ h.num_heads = m.num_heads
      /\ h.rope = m.rope /\ h.use_flash_attention = m.use_flash_attention
  BY HeadsAre DEF Heads, LayerInfo
<1>2. /\ SelfAttentionGen(m)
           = [h EXCEPT !.group = m.num_heads \div m.num_kv_heads,
                       !.num_kv_heads = m.num_kv_heads,
                       !.use_chunked_attention = TRUE,
                       !.window = m.max_seq_len]
      /\ MultiLatentAttentionGen(m)
           = [h EXCEPT !.use_flash_mla = m.use_flash_mla,
                       !.use_chunked_attention = TRUE]
      /\ MultiLatentAttentionSum(m)
           = [h EXCEPT !.group = m.num_heads \div m.num_kv_heads,
                       !.num_kv_heads = m.num_kv_heads]
  BY DEF SelfAttentionGen, MultiLatentAttentionGen, MultiLatentAttentionSum
<1> HIDE DEF h
<1> DEFINE g == SelfAttentionGen(m)
           a == MultiLatentAttentionGen(m)
           s == MultiLatentAttentionSum(m)
<1>3. /\ g.head_dim = m.head_dim /\ g.num_heads = m.num_heads
      /\ g.group = m.num_heads \div m.num_kv_heads
      /\ g.num_kv_heads = m.num_kv_heads /\ g.window = m.max_seq_len
  BY <1>1, <1>2 DEF Layer
<1>4. /\ a.head_dim = m.head_dim /\ a.num_heads = m.num_heads
      /\ a.rope = m.rope /\ a.use_flash_mla = m.use_flash_mla
  BY <1>1, <1>2 DEF Layer
<1>5. /\ s.head_dim = m.head_dim /\ s.num_heads = m.num_heads
      /\ s.rope = m.rope /\ s.use_flash_attention = m.use_flash_attention
  BY <1>1, <1>2 DEF Layer
<1>6. g \in Layer /\ a \in Layer /\ s \in Layer
  BY SelfAttentionLayers, LatentLayers
<1> HIDE DEF g, a, s
<1>7. LET l == SelfAttentionSum(m)
      IN /\ l.head_dim = m.head_dim /\ l.num_heads = m.num_heads
         /\ l.num_kv_heads = m.num_kv_heads /\ l.window = m.max_seq_len
  BY <1>3, <1>6 DEF SelfAttentionSum, Layer, g
<1>8. LET l == AbsorbMLAGen(m)
      IN /\ l.head_dim = m.head_dim /\ l.num_heads = m.num_heads
         /\ l.rope = m.rope /\ l.use_flash_mla = m.use_flash_mla
  BY <1>4, <1>6 DEF AbsorbMLAGen, Layer, a
<1>9. LET l == AbsorbMLASum(m)
      IN /\ l.head_dim = m.head_dim /\ l.num_heads = m.num_heads
         /\ l.rope = m.rope
  BY <1>5, <1>6 DEF AbsorbMLASum, Layer, s
<1> QED BY <1>3, <1>4, <1>5, <1>7, <1>8, <1>9 DEF g, a, s

\* One lemma for each kind of attention.
LEMMA GqaSameWork ==
  ASSUME NEW m, IsMachine(m), m.attention = "gqa", ~OffloadActive(m.c),
         m.num_heads % m.num_kv_heads = 0, NEW b \in Batch, FitsInt(m, b),
         \A i \in DOMAIN b : Context(b[i]) <= m.max_seq_len
  PROVE  /\ AttentionGen(m, "PIM", b).flops = AttentionGen(m, "GPU", b).flops
         /\ \A p \in Processors : AttentionSum(m, p, b).flops
                                    = AttentionGen(m, "GPU", b).flops
<1> DEFINE g == SelfAttentionGen(m)
           s == SelfAttentionSum(m)
           n == Spent(b, GqaFlops(g, b))
<1>1. g \in Layer /\ s \in Layer /\ m.c \in SystemConfig
  BY SelfAttentionLayers DEF IsMachine
<1>2. /\ g.head_dim = m.head_dim /\ g.num_heads = m.num_heads
      /\ g.group = m.num_heads \div m.num_kv_heads
      /\ g.num_kv_heads = m.num_kv_heads /\ g.window = m.max_seq_len
      /\ s.head_dim = m.head_dim /\ s.num_heads = m.num_heads
      /\ s.num_kv_heads = m.num_kv_heads /\ s.window = m.max_seq_len
  BY LayersRead
<1>3. Spent(b, GqaFlops(s, b)) = n
  BY <1>2 DEF GqaFlops
<1>4. g.group * g.num_kv_heads = g.num_heads
  <2> DEFINE h == m.num_heads
             k == m.num_kv_heads
  <2>1. h \in Nat \ {0} /\ k \in Nat \ {0} /\ h % k = 0
    BY MachineFields
  <2> HIDE DEF h, k
  <2>2. (h \div k) * k = h
    BY <2>1, SMT
  <2> QED BY <1>2, <2>2 DEF h, k
<1>5. ASSUME NEW i \in DOMAIN b
      PROVE  Fits(m.c, s, b[i])
  BY <1>2 DEF FitsInt, Fits
<1> DEFINE c == m.c
<1> HIDE DEF g, s, n, c
<1>6. /\ AttentionGenExecutionPIM(c, g, b).flops = n
      /\ AttentionGenExecutionGPU(c, g, b).flops = n
  BY <1>1, <1>2, <1>4, GqaGenSpends DEF n, c
<1>7. /\ AttentionSumExecutionGPU(c, s, b).flops = n
      /\ AttentionSumExecutionLogic(c, s, b).flops = n
      /\ AttentionSumExecutionPIM(c, s, b).flops = n
  BY <1>1, <1>2, <1>3, <1>5, GqaSumSpends DEF c
<1>8. /\ AttentionGen(m, "PIM", b) = AttentionGenExecutionPIM(c, g, b)
      /\ AttentionGen(m, "GPU", b) = AttentionGenExecutionGPU(c, g, b)
  BY DEF AttentionGen, g, c
<1>9. /\ AttentionSum(m, "GPU", b) = AttentionSumExecutionGPU(c, s, b)
      /\ AttentionSum(m, "LOGIC", b) = AttentionSumExecutionLogic(c, s, b)
      /\ AttentionSum(m, "PIM", b) = AttentionSumExecutionPIM(c, s, b)
  BY DEF AttentionSum, s, c
<1>10. Processors = {"GPU", "LOGIC", "PIM"}
  BY DEF Processors
<1> QED BY <1>6, <1>7, <1>8, <1>9, <1>10

LEMMA MlaSameWork ==
  ASSUME NEW m, IsMachine(m), m.attention = "mla", ~OffloadActive(m.c),
         NEW b \in Batch
  PROVE  /\ \A p \in Processors : AttentionGen(m, p, b).flops
                                    = AttentionGen(m, "GPU", b).flops
         /\ ~m.use_flash_mla /\ ~m.use_flash_attention =>
              \A p \in Processors : AttentionSum(m, p, b).flops
                                      = AttentionGen(m, "GPU", b).flops
<1> DEFINE g == MultiLatentAttentionGen(m)
           s == MultiLatentAttentionSum(m)
           c == m.c
           n == Spent(b, IF g.use_flash_mla THEN Amount(MlaFused(g, b))
                         ELSE MlaFlops(g, b))
<1>1. g \in Layer /\ s \in Layer /\ c \in SystemConfig /\ Computes(c)
  BY LatentLayers DEF IsMachine, Computes
<1>2. /\ g.head_dim = s.head_dim /\ g.num_heads = s.num_heads
      /\ g.rope = s.rope /\ g.use_flash_mla = m.use_flash_mla
      /\ s.use_flash_attention = m.use_flash_attention
  BY LayersRead
<1>3. MlaFlops(s, b) = MlaFlops(g, b)
  BY <1>2 DEF MlaFlops
<1>4. ~OffloadActive(c)
  OBVIOUS
<1>5. /\ AttentionGen(m, "GPU", b)
           = MultiLatentAttentionGenExecutionGPU(c, g, b)
      /\ AttentionGen(m, "LOGIC", b)
           = MultiLatentAttentionGenExecutionLogic(c, g, b)
      /\ AttentionGen(m, "PIM", b)
           = MultiLatentAttentionGenExecutionPIM(c, g, b)
  BY DEF AttentionGen
<1>6. /\ AttentionSum(m, "GPU", b)
           = MultiLatentAttentionSumExecutionGPU(c, s, b)
      /\ AttentionSum(m, "LOGIC", b)
           = MultiLatentAttentionSumExecutionLogic(c, s, b)
      /\ AttentionSum(m, "PIM", b)
           = MultiLatentAttentionSumExecutionPIM(c, s, b)
  BY DEF AttentionSum
<1> HIDE DEF g, s, c
<1>7. /\ MultiLatentAttentionGenExecutionGPU(c, g, b).flops = n
      /\ MultiLatentAttentionGenExecutionLogic(c, g, b).flops = n
      /\ MultiLatentAttentionGenExecutionPIM(c, g, b).flops = n
  BY <1>1, <1>4, MlaGenSpends
<1>8. ASSUME ~m.use_flash_mla, ~m.use_flash_attention
      PROVE  /\ MultiLatentAttentionSumExecutionGPU(c, s, b).flops = n
             /\ MultiLatentAttentionSumExecutionLogic(c, s, b).flops = n
             /\ MultiLatentAttentionSumExecutionPIM(c, s, b).flops = n
  <2>1. ~s.use_flash_attention /\ ~g.use_flash_mla
    BY <1>2, <1>8
  <2>2. n = Spent(b, MlaFlops(s, b))
    BY <1>3, <2>1
  <2> HIDE DEF n
  <2> QED BY <1>1, <1>4, <2>1, <2>2, MlaSumSpends
<1> HIDE DEF n
<1>9. Processors = {"GPU", "LOGIC", "PIM"}
  BY DEF Processors
<1> QED BY <1>5, <1>6, <1>7, <1>8, <1>9

LEMMA AbsorbSameWork ==
  ASSUME NEW m, IsMachine(m), m.attention = "absorb",
         OffloadActive(m.c) => m.use_flash_mla, NEW b \in Batch
  PROVE  /\ \A p \in Processors : AttentionGen(m, p, b).flops
                                    = AttentionGen(m, "GPU", b).flops
         /\ ~m.use_flash_mla /\ ~m.use_flash_attention =>
              \A p \in Processors : AttentionSum(m, p, b).flops
                                      = AttentionGen(m, "GPU", b).flops
<1> DEFINE g == AbsorbMLAGen(m)
           s == AbsorbMLASum(m)
           c == m.c
           n == Spent(b, IF g.use_flash_mla THEN Amount(AbsorbFused(g, b))
                         ELSE AbsorbFlops(g, b))
<1>1. g \in Layer /\ s \in Layer /\ c \in SystemConfig
  BY LatentLayers DEF IsMachine
<1>2. /\ g.head_dim = s.head_dim /\ g.num_heads = s.num_heads
      /\ g.rope = s.rope /\ g.use_flash_mla = m.use_flash_mla
  BY LayersRead
<1>3. /\ g.kv_lora_rank = s.kv_lora_rank
      /\ g.kv_lora_rank > 0 /\ s.kv_lora_rank > 0
  BY LatentLayers DEF IsMachine
<1>4. AbsorbFlops(s, b) = AbsorbFlops(g, b)
  BY <1>2, <1>3 DEF AbsorbFlops
<1>5. OffloadActive(c) => g.use_flash_mla
  BY <1>2
<1>6. /\ AttentionGen(m, "GPU", b) = AbsorbMLAGenExecutionGPU(c, g, b)
      /\ AttentionGen(m, "LOGIC", b) = AbsorbMLAGenExecutionLogic(c, g, b)
      /\ AttentionGen(m, "PIM", b) = AbsorbMLAGenExecutionPIM(c, g, b)
  BY DEF AttentionGen
<1>7. /\ AttentionSum(m, "GPU", b) = AbsorbMLASumExecutionGPU(c, s, b)
      /\ AttentionSum(m, "LOGIC", b) = AbsorbMLASumExecutionLogic(c, s, b)
      /\ AttentionSum(m, "PIM", b) = AbsorbMLASumExecutionPIM(c, s, b)
  BY DEF AttentionSum
<1> HIDE DEF g, s, c
<1>8. /\ AbsorbMLAGenExecutionGPU(c, g, b).flops = n
      /\ AbsorbMLAGenExecutionLogic(c, g, b).flops = n
      /\ AbsorbMLAGenExecutionPIM(c, g, b).flops = n
  BY <1>1, <1>3, <1>5, AbsorbGenSpends
<1>9. ASSUME ~m.use_flash_mla
      PROVE  /\ AbsorbMLASumExecutionGPU(c, s, b).flops = n
             /\ AbsorbMLASumExecutionLogic(c, s, b).flops = n
             /\ AbsorbMLASumExecutionPIM(c, s, b).flops = n
  <2>1. ~g.use_flash_mla /\ ~OffloadActive(c)
    BY <1>2, <1>5, <1>9
  <2>2. n = Spent(b, AbsorbFlops(s, b))
    BY <1>4, <2>1
  <2> HIDE DEF n
  <2> QED BY <1>1, <1>3, <2>1, <2>2, AbsorbSumSpends
<1> HIDE DEF n
<1>10. Processors = {"GPU", "LOGIC", "PIM"}
  BY DEF Processors
<1> QED BY <1>6, <1>7, <1>8, <1>9, <1>10

\* The lengths a sequence comes to.
Lengths == Starts \cup 0 .. MaxLen
LengthsOK == \A i \in DOMAIN batch : batch[i].cur \in Lengths

LEMMA LengthsStep ==
  ASSUME LawsTypeOK, LengthsOK, [Next]_vars
  PROVE  LengthsOK'
<1>1. CASE Join
  <2>1. PICK n \in Starts : batch' = Append(batch, [cur |-> n, tok |-> 1])
    BY <1>1 DEF Join
  <2> DEFINE e == [cur |-> n, tok |-> 1]
  <2>2. e \in Decodes /\ e.cur \in Lengths
    BY CostLawsAssumption DEF Decodes, Lengths
  <2> HIDE DEF e
  <2>3. /\ DOMAIN batch = 1 .. Len(batch) /\ Len(batch) \in Nat
        /\ DOMAIN batch' = 1 .. Len(batch) + 1
        /\ \A i \in 1 .. Len(batch) : batch'[i] = batch[i]
        /\ batch'[Len(batch) + 1] = e
    BY <2>1, <2>2, Indices, AppendProperties DEF LawsTypeOK, e
  <2>4. \A i \in 1 .. Len(batch) + 1 :
          i \in 1 .. Len(batch) \/ i = Len(batch) + 1
    BY <2>3
  <2> QED BY <2>2, <2>3, <2>4 DEF LengthsOK, Lengths
<1>2. CASE Step
  <2>1. /\ DOMAIN batch' = DOMAIN batch
        /\ \A i \in DOMAIN batch :
             /\ batch[i].cur < MaxLen
             /\ batch'[i] = [batch[i] EXCEPT !.cur = @ + 1]
    BY <1>2 DEF Step
  <2>2. \A i \in DOMAIN batch : batch[i] \in Decodes
    BY EachDecodes DEF LawsTypeOK
  <2>3. \A i \in DOMAIN batch : /\ batch[i].cur \in Nat
                                /\ batch'[i].cur = batch[i].cur + 1
    BY <2>1, <2>2 DEF Decodes
  <2>4. \A i \in DOMAIN batch : batch'[i].cur \in 0 .. MaxLen
    BY <2>1, <2>3, CostLawsAssumption
  <2> QED BY <2>1, <2>4 DEF LengthsOK, Lengths
<1>3. CASE UNCHANGED vars
  BY <1>3 DEF vars, LengthsOK, Lengths
<1> QED BY <1>1, <1>2, <1>3 DEF Next

LEMMA LengthsAre == Spec => []LengthsOK
<1>1. Init => LengthsOK
  BY DEF Init, LengthsOK
<1>2. LawsTypeOK /\ LengthsOK /\ [Next]_vars => LengthsOK'
  BY LengthsStep
<1> QED BY <1>1, <1>2, LawsType, PTL DEF Spec

\* The kernels of one kind of attention, written once for each processor and
\* once for prefill (attention_gen_impl.cpp, attention_sum_impl.cpp), agree on
\* the work of a batch: where no kernel stops for an offloaded cache, the
\* query heads are divided into whole groups, and the products that
\* grouped-query prefill keeps in an int fit.
THEOREM KernelsDoTheSameWork ==
  ASSUME \A m \in Machines : OffloadActive(m.c) =>
                               m.attention = "absorb" /\ m.use_flash_mla,
         \A m \in Machines : m.attention = "gqa" =>
                               m.num_heads % m.num_kv_heads = 0,
         \A m \in Machines, n \in Starts \cup 0 .. MaxLen :
           FitsInt(m, <<[cur |-> n, tok |-> 1]>>)
  PROVE  Spec => []SameWork
<1>1. LawsTypeOK /\ LengthsOK => SameWork
  <2> SUFFICES ASSUME LawsTypeOK, LengthsOK
               PROVE  SameWork
    OBVIOUS
  <2>1. /\ IsMachine(machine) /\ batch \in Batch
        /\ \A i \in DOMAIN batch : batch[i] \in Decodes
        /\ OffloadActive(machine.c) =>
             machine.attention = "absorb" /\ machine.use_flash_mla
        /\ machine.attention \in {"gqa", "mla", "absorb"}
    BY Arguments DEF LawsTypeOK, IsMachine
  <2>2. CASE machine.attention = "gqa"
    <3>1. machine.num_heads % machine.num_kv_heads = 0
      BY <2>2 DEF LawsTypeOK
    <3>2. FitsInt(machine, batch)
      <4> SUFFICES ASSUME NEW i \in DOMAIN batch
                   PROVE  LET n == Context(batch[i])
                              k == machine.c.int_limit
                          IN /\ n * machine.head_dim * machine.num_kv_heads < k
                             /\ batch[i].tok * n * machine.head_dim < k
        BY DEF FitsInt
      <4> DEFINE s == [cur |-> batch[i].cur, tok |-> 1]
      <4>1. batch[i] = s
        BY <2>1 DEF Decodes
      <4>2. FitsInt(machine, <<s>>)
        BY DEF LengthsOK, LawsTypeOK, Lengths
      <4> HIDE DEF s
      <4>3. DOMAIN <<s>> = {1} /\ <<s>>[1] = s
        OBVIOUS
      <4> QED BY <2>2, <4>1, <4>2, <4>3 DEF FitsInt
    <3>3. ~OffloadActive(machine.c)
      BY <2>1, <2>2
    <3> QED BY <2>1, <2>2, <3>1, <3>2, <3>3, GqaSameWork DEF SameWork
  <2>3. CASE machine.attention = "mla"
    <3>1. ~OffloadActive(machine.c)
      BY <2>1, <2>3
    <3> QED BY <2>1, <2>3, <3>1, MlaSameWork DEF SameWork
  <2>4. CASE machine.attention = "absorb"
    <3>1. OffloadActive(machine.c) => machine.use_flash_mla
      BY <2>1
    <3> QED BY <2>1, <2>4, <3>1, AbsorbSameWork DEF SameWork
  <2> QED BY <2>1, <2>2, <2>3, <2>4
<1> QED BY <1>1, LawsType, LengthsAre, PTL
=============================================================================
